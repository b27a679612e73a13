-------------------------------- MODULE Calls --------------------------------
(***************************************************************************)
(* Calls a view has sent to the server and that are not answered: a set of *)
(* records whose field n tells equal ones apart; and the names of what a   *)
(* view reads that are doubtful because the reads of it overlapped, which  *)
(* no view orders.                                                         *)
(***************************************************************************)
EXTENDS Naturals, FiniteSets

FreeNumber(calls, most) == CHOOSE n \in 1..most : \A c \in calls : c.n # n

(* What is doubtful once "kind" is asked for with "calls" on their way: a  *)
(* lone read settles it, one that overlaps another does not.               *)
AskedFor(kind, calls, doubtful) ==
  IF calls = {} THEN doubtful \ {kind} ELSE doubtful \cup {kind}
=============================================================================
