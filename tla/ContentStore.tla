---------------------------- MODULE ContentStore ----------------------------
(***************************************************************************)
(* What the download engine promises its user: contents that are wanted    *)
(* may come to be stored, as the bytes their id names, and what is stored  *)
(* stays stored.  A wanted content may also be dropped (given up after     *)
(* three bad hashes, or forgotten when the process dies).                  *)
(***************************************************************************)
CONSTANT Contents

VARIABLES
  wanted,  \* the contents being downloaded
  stored   \* the contents whose file in cjp2p/public/ is what the id names

vars == <<wanted, stored>>

Init == wanted = {} /\ stored = {}

Want(c) ==
  /\ wanted' = wanted \cup {c}
  /\ UNCHANGED stored

\* The contents in got are stored; those in lost are dropped.
Settle(got, lost) ==
  /\ got \cup lost \subseteq wanted
  /\ wanted' = wanted \ (got \cup lost)
  /\ stored' = stored \cup got

Next ==
  \/ \E c \in Contents : Want(c)
  \/ \E got, lost \in SUBSET Contents : Settle(got, lost)

Spec == Init /\ [][Next]_vars
=============================================================================
