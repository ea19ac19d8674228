----------------------------- MODULE MCGateway -----------------------------
EXTENDS Gateway

CONSTANTS a, b, x

SizeOf == [c \in {x} |-> 4]
SomeRanges == {[start |-> 0, end |-> 0, ranged |-> FALSE],
               [start |-> 1, end |-> 0, ranged |-> TRUE]}
=============================================================================
