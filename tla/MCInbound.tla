----------------------------- MODULE MCInbound -----------------------------
(***************************************************************************)
(* Instances of Inbound for TLC.  A block is two bytes.                    *)
(***************************************************************************)
EXTENDS Inbound

CONSTANTS sha, b3, tree

ShaKind == [id \in {sha} |-> "sha256"]

NoTrees == [b \in {} |-> b]

\* Three bytes: a whole block and half a block.
ShaEof == [id \in {sha} |-> 3]

\* Peers agree on the length.
ShaAgreed == [id \in {sha} |-> {3}]

\* A blake3 content of a block and a half, and its tree, of half a block.
B3Kind == [id \in {b3, tree} |-> IF id = b3 THEN "blake3" ELSE "tree"]

B3Tree == [b \in {b3} |-> tree]

B3Leaf == [b \in {b3} |-> [k \in 0 .. 1 |-> 0]]

B3Eof == [id \in {b3, tree} |-> IF id = b3 THEN 3 ELSE 1]

B3Agreed == [id \in {b3, tree} |-> {B3Eof[id]}]

\* The tree has a second block, half full, with the leaf of block 1.
B3LeafSplit == [b \in {b3} |-> [k \in 0 .. 1 |-> k]]

B3EofSplit == [id \in {b3, tree} |-> 3]

\* Peers agree on the length of the content, and not on that of its tree.
B3TreeDisputed == [id \in {b3, tree} |-> IF id = b3 THEN {3} ELSE {2, 3}]

\* Bound: at most two requests under way.
FewUnderWay == Cardinality(net) <= 2
=============================================================================
