------------------------------ MODULE CodaEventi ------------------------------
(***************************************************************************)
(* What the queue of the integration's events promises: at least one       *)
(* delivery is tried, an event is never forgotten before it has an         *)
(* outcome, it is consegnato only if the receiver took it, and fallito     *)
(* only when its time is over.  Module Consegna implements this.           *)
(***************************************************************************)
EXTENDS Integers

CONSTANTS Eventi, durataTentativi

VARIABLES
    stato,      \* [Eventi -> what became of the event]
    creato,     \* [Eventi -> when it was put in the queue, 0 when it is not there]
    ricevuto,   \* the events the receiver took, at least once
    ora

Stati == {"assente", "inAttesa", "consegnato", "fallito", "tolto"}

Presenti == {i \in Eventi : stato[i] \notin {"assente", "tolto"}}

Init ==
    /\ stato = [i \in Eventi |-> "assente"]
    /\ creato = [i \in Eventi |-> 0]
    /\ ricevuto = {}
    /\ ora = 0

Accoda(i, t) ==
    /\ stato[i] = "assente"
    /\ t <= ora
    /\ stato' = [stato EXCEPT ![i] = "inAttesa"]
    /\ creato' = [creato EXCEPT ![i] = t]
    /\ UNCHANGED <<ricevuto, ora>>

Ricevi(i) ==
    /\ stato[i] # "assente"
    /\ ricevuto' = ricevuto \cup {i}
    /\ UNCHANGED <<stato, creato, ora>>

(* An outcome is final for the queue: the event never waits again. *)
Concludi(i, esito) ==
    /\ i \in Presenti
    /\ \/ esito = "consegnato" /\ i \in ricevuto
       \/ esito = "fallito" /\ ora >= creato[i] + durataTentativi
    /\ stato' = [stato EXCEPT ![i] = esito]
    /\ UNCHANGED <<creato, ricevuto, ora>>

Togli(S) ==
    /\ \A i \in S : stato[i] \in {"consegnato", "fallito"}
    /\ stato' = [i \in Eventi |-> IF i \in S THEN "tolto" ELSE stato[i]]
    /\ creato' = [i \in Eventi |-> IF i \in S THEN 0 ELSE creato[i]]
    /\ UNCHANGED <<ricevuto, ora>>

Passa ==
    /\ ora' > ora
    /\ UNCHANGED <<stato, creato, ricevuto>>

Next ==
    \/ \E i \in Eventi, t \in 0 .. ora : Accoda(i, t)
    \/ \E i \in Eventi : Ricevi(i)
    \/ \E i \in Eventi, esito \in {"consegnato", "fallito"} : Concludi(i, esito)
    \/ \E S \in SUBSET Eventi : Togli(S)
    \/ Passa

Spec == Init /\ [][Next]_<<stato, creato, ricevuto, ora>>
=============================================================================
