------------------------------- MODULE Lists -------------------------------
(***************************************************************************)
(* What the code's loops make of a list, as functions of its prefixes: the *)
(* state of the loop after each element.  (SelectSeq would say the same of *)
(* Keep, but nothing can be proved about it.)                              *)
(***************************************************************************)
EXTENDS Naturals, Sequences

(* A filter, as a loop that passes over what is not in S; kept[n] is what  *)
(* it has after the first n elements.                                      *)
Kept(list, S) ==
  LET kept[n \in 0..Len(list)] ==
        IF n = 0 THEN <<>>
        ELSE IF list[n] \in S THEN Append(kept[n - 1], list[n])
        ELSE kept[n - 1]
  IN  kept

Keep(list, S) == Kept(list, S)[Len(list)]
=============================================================================
