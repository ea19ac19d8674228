------------------------------ MODULE MCLatest ------------------------------
(***************************************************************************)
(* Instances of Latest for TLC: the owner of the file and those who read   *)
(* it.                                                                     *)
(***************************************************************************)
EXTENDS Latest

CONSTANTS owner, reader
=============================================================================
