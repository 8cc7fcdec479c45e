-------------------------------- MODULE Names --------------------------------
(***************************************************************************)
(* Interchangeable names, for model checking: where no property and no     *)
(* action tells one name from another, every behaviour is a renaming of    *)
(* one that uses the names for the first time in a given order. Unlike a   *)
(* symmetry, the order may be required where liveness is checked.          *)
(***************************************************************************)
EXTENDS Integers, Sequences

LOCAL INSTANCE SequencesExt

Order(names) == SetToSeq(names)

\* No name is used before the one ahead of it in the order.
InOrder(order, unused(_)) ==
    \A i \in 1..Len(order)-1 : unused(order[i]) => unused(order[i + 1])
=============================================================================
