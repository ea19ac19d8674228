------------------------------ MODULE MCPeers ------------------------------
EXTENDS Peers

CONSTANTS boot, mover

HomeOf == [n \in Node |-> IF n = boot THEN 1 ELSE 2]
\* boot is the bootstrap node of both
StartOf == [n \in Node |-> {1}]
WantsOf == {<<mover, boot>>}
=============================================================================
