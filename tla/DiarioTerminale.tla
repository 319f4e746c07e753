---------------------------- MODULE DiarioTerminale ----------------------------
(***************************************************************************)
(* What the transcripts promise, without requests, rows or hashes: each    *)
(* connection has a journal that only grows, one content at a time, until  *)
(* its end or until the connection is deleted; a deleted one never comes   *)
(* back, and the limits hold.  Module Trascrizione implements this.        *)
(***************************************************************************)
EXTENDS Integers, Sequences, FiniteSetsExt

CONSTANTS Id, Dati, Byte, TrascrizioneMax, BlocchiMax,
          Iniziale   \* what an older version left in the journal of connection 1

VARIABLES stato, diario

Stati == {"nuova", "aperta", "chiusa", "cancellata"}

Peso(d) == MapThenSumSet(LAMBDA n : Byte[d[n]], DOMAIN d)

Init ==
    \/ /\ stato = [i \in Id |-> "nuova"]
       /\ diario = [i \in Id |-> << >>]
    \/ /\ \E s \in {"aperta", "chiusa"} : stato = [i \in Id |-> IF i = 1 THEN s ELSE "nuova"]
       /\ diario = [i \in Id |-> IF i = 1 THEN Iniziale ELSE << >>]

(* Ids go up and are never used again. *)
Apri(i) ==
    /\ stato[i] = "nuova"
    /\ \A j \in Id : j < i => stato[j] # "nuova"
    /\ stato' = [stato EXCEPT ![i] = "aperta"]
    /\ UNCHANGED diario

Aggiungi(i, x, fine) ==
    /\ stato[i] = "aperta"
    /\ Len(diario[i]) < BlocchiMax
    /\ Peso(diario[i]) + Byte[x] <= TrascrizioneMax
    /\ diario' = [diario EXCEPT ![i] = Append(@, x)]
    /\ stato' = [stato EXCEPT ![i] = IF fine THEN "chiusa" ELSE @]

Cancella(ids) ==
    /\ stato' = [i \in Id |-> IF i \in ids /\ stato[i] # "nuova" THEN "cancellata" ELSE stato[i]]
    /\ diario' = [i \in Id |-> IF i \in ids THEN << >> ELSE diario[i]]

Next ==
    \/ \E i \in Id : Apri(i)
    \/ \E i \in Id, x \in Dati, fine \in BOOLEAN : Aggiungi(i, x, fine)
    \/ \E ids \in SUBSET Id : Cancella(ids)

Spec == Init /\ [][Next]_<<stato, diario>>
=============================================================================
