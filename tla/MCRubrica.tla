------------------------------ MODULE MCRubrica ------------------------------
(* A small instance of Rubrica. *)
EXTENDS Rubrica, TLC

CONSTANTS r1, r2, u1, u2, g1, p1, t1

MCGruppoDi == [u \in Utenti |-> g1]

Simmetria == Permutations(Client) \cup Permutations(Pannello) \cup Permutations(Utenti)

=============================================================================
