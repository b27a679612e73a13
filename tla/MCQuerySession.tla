--------------------------- MODULE MCQuerySession ---------------------------
(***************************************************************************)
(* Instances of QuerySession for TLC.                                      *)
(***************************************************************************)
EXTENDS QuerySession, TLC

(* A script that leaves its transaction open for the next request of the   *)
(* console; that one or a whole transaction; a statement on its own.       *)
MCOneStatement == {<<"begin">>}
MCShort == {<<"begin", "end">>, <<"begin">>}
MCOneWrite == {<<"write">>}

MCSymmetry == Permutations(Requests) \cup Permutations(Conns) \cup Permutations(Targets)
=============================================================================
