-------------------------------- MODULE Lists -------------------------------
(***************************************************************************)
(* Lists from which some entries are left out.                             *)
(***************************************************************************)
EXTENDS Naturals, Sequences

(* What is left of the first n entries of a list without those in X; a     *)
(* recursive function, and not SelectSeq(), for the sake of the proofs.    *)
WithoutUpTo(list, X) ==
  LET W[n \in 0..Len(list)] ==
        IF n = 0 THEN <<>>
        ELSE IF list[n] \in X THEN W[n - 1] ELSE Append(W[n - 1], list[n])
  IN  W

Without(list, X) == WithoutUpTo(list, X)[Len(list)]
=============================================================================
