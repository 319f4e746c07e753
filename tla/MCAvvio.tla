------------------------------- MODULE MCAvvio -------------------------------
(* A small instance of Avvio. *)
EXTENDS Avvio

CONSTANTS p1, p2

=============================================================================
