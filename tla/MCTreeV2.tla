------------------------------ MODULE MCTreeV2 ------------------------------
(* Instances of TreeV2 for TLC.                                             *)
EXTENDS TreeV2

MCWays == {"right", "other"}

\* A damaged block may have any of its values right, or of another content's tree: the
\* leaves are other leaves, and what is merged from them is merged from the others.
MCGarble(w, v) ==
  IF w = "right" THEN v
  ELSE IF v = Magic THEN Hole
  ELSE [j \in DOMAIN v |-> IF v[j] >= 0 THEN v[j] + 1000 ELSE v[j]]
=============================================================================
