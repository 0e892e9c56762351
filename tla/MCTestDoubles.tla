---------------------------- MODULE MCTestDoubles ----------------------------
(* Responses and buffers of zero to two bytes, named here for the configuration. *)
EXTENDS TestDoubles

Scripted == {0, 2}
Made == {1, 2}
Buffers == {0, 1, 2}
=============================================================================
