-------------------------- MODULE MCClientRegistry --------------------------
(* Small instances of ClientRegistry. *)
EXTENDS ClientRegistry, TLC

CONSTANTS c1, c2, c3, d1, d2

=============================================================================
