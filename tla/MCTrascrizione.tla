---------------------------- MODULE MCTrascrizione ----------------------------
(* Small instances of Trascrizione. *)
EXTENDS Trascrizione, TLC

CONSTANTS r1, r2, l1, vuoto, a, grande, storto

MCByte == [d \in Dati |-> CASE d = vuoto -> 0 [] d \in {a, storto} -> 1 [] OTHER -> BloccoMax + 1]

(* A transcript left open by a version that did not save the totals. *)
MCVecchi ==
    {[conn |-> 1, seq |-> 1, dati |-> a,
      hash |-> HashBlocco(HashZero, a), fine |-> FALSE, totale |-> Nullo]}

Simmetria == Permutations(Richieste)

=============================================================================
