-------------------------------- MODULE MCOidc --------------------------------
(* A small instance of Oidc. *)
EXTENDS Oidc, TLC

CONSTANTS r1, r2, u1, u2, a1, a2, k1

(* The two accounts have the same email, and so the second user. *)
MCOmonimi == [a \in Account |-> {u2}]

Simmetria == Permutations(Richieste) \cup Permutations(Account)

=============================================================================
