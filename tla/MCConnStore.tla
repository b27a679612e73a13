---------------------------- MODULE MCConnStore ----------------------------
(***************************************************************************)
(* Instances of ConnStore for TLC.                                         *)
(***************************************************************************)
EXTENDS ConnStore, TLC

MCSymmetry == Permutations(Requests) \cup Permutations(Ids) \cup Permutations(Edits)
=============================================================================
