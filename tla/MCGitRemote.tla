---------------------------- MODULE MCGitRemote ----------------------------
EXTENDS GitRemote, TLC

CONSTANTS a, b, c, r0, r1, r2, v

\* a and b push a ref each, c fetches; r0 has an odd name
OneEach == (a :> (r1 :> v)) @@ (b :> (r2 :> v)) @@ (c :> << >>)
Odd0 == [refs |-> [r \in Ref |-> IF r = r0 THEN v ELSE None], whole |-> TRUE]
Both == {TRUE,FALSE}
=============================================================================
