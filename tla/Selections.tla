------------------------------ MODULE Selections -------------------------------
(***************************************************************************)
(* What the loops of src/internal/db that filter a list keep of it.  The   *)
(* result is given by the places that are kept, not by recursion over the  *)
(* list, so that it can be reasoned about.                                 *)
(***************************************************************************)
EXTENDS Naturals, SequencesExt

\* What seq has at the places that are kept, in order.
At(seq, places) ==
  [i \in 1..Cardinality(places) |->
     seq[CHOOSE j \in places : Cardinality({p \in places : p <= j}) = i]]

================================================================================
