------------------------------- MODULE MCUtenti -------------------------------
(* Small instances of Utenti. *)
EXTENDS Utenti

CONSTANTS r1, r2

=============================================================================
