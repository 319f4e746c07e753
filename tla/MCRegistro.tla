------------------------------ MODULE MCRegistro ------------------------------
(* Small instances of RegistroConnessioni. *)
EXTENDS RegistroConnessioni, TLC

CONSTANTS r1, r2, pcA, pcB, mario, k, n1, n2

(* A conn_id that comes back after every restart of the PC. *)
MCCoppie == {[pc |-> pcA, conn |-> 7]}

MCAutorizzazioni == {[nome |-> mario, sessione |-> 1]}

Simmetria == Permutations(Richieste)

=============================================================================
