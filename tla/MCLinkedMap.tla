------------------------------ MODULE MCLinkedMap ------------------------------
(***************************************************************************)
(* A map of three keys, in four places: links are reused, and there is a   *)
(* first, a middle and a last one to remove.                               *)
(***************************************************************************)
EXTENDS LinkedMap
MCKeys   == {"a", "b", "c"}
MCValues == {1, 2}
MCLinks  == 1..4
=============================================================================
