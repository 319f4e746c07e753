------------------------------ MODULE MCHeartbeat ------------------------------
(* A small instance of Heartbeat: one signature for each second. *)
EXTENDS Heartbeat, TLC

CONSTANTS a1, a2, r1, r2

MCTs == [f \in Firme |-> f]

Simmetria == Permutations(Indirizzi) \cup Permutations(Richieste)

=============================================================================
