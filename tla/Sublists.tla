------------------------------ MODULE Sublists ------------------------------
(***************************************************************************)
(* Array.prototype.filter, by which the client drops entries from its      *)
(* lists: what is left of a sequence, in its order, without some values.   *)
(* A recursive function, not SelectSeq, which no prover can unfold.        *)
(***************************************************************************)
EXTENDS Naturals, Sequences

Omit(s, gone) ==
  LET upTo[n \in 0..Len(s)] ==
        IF n = 0 THEN <<>>
        ELSE IF s[n] \in gone THEN upTo[n - 1] ELSE Append(upTo[n - 1], s[n])
  IN upTo[Len(s)]
=============================================================================
