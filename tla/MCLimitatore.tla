----------------------------- MODULE MCLimitatore -----------------------------
(* Small instances of Limitatore. *)
EXTENDS Limitatore

CONSTANTS r1, r2, i1, c1, c2

=============================================================================
