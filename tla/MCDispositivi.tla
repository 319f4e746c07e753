----------------------------- MODULE MCDispositivi -----------------------------
(* A small instance of Dispositivi. *)
EXTENDS Dispositivi, TLC

CONSTANTS r1, r2, i1, i2, d1, d2, k1, k2, u1, u2

Simmetria == Permutations(Richieste) \cup Permutations(Id) \cup Permutations(Uuid)
             \cup Permutations(Chiavi) \cup Permutations(Utenti)

=============================================================================
