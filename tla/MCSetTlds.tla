------------------------------ MODULE MCSetTlds ------------------------------
(* Instances of SetTlds. *)
EXTENDS SetTlds

TldWellFormed == {1, 2, 3, 5}
TldOnList == {1, 2, 5}
=============================================================================
