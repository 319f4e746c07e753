------------------------------ MODULE MCConsegna ------------------------------
(* Small instances of Consegna. *)
EXTENDS Consegna

CONSTANTS p1, p2

=============================================================================
