------------------------------ MODULE MCDevStack ------------------------------
(* Two terminals, which are alike. *)
EXTENDS DevStack, TLC

Symmetry == Permutations(Terminal)
=============================================================================
