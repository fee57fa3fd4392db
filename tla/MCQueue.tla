------------------------------ MODULE MCQueue -------------------------------
(***************************************************************************)
(* Instances of MessageQueue for TLC. NULL is a model value; data that     *)
(* includes it is an application enqueueing a null pointer.                *)
(***************************************************************************)
EXTENDS MessageQueue

CONSTANTS d1, d2

Pointers == {d1, d2, NULL}
=============================================================================
