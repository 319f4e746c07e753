------------------------------- MODULE Consegna -------------------------------
(***************************************************************************)
(* The delivery of the integration's events (src/service/consegna.go):     *)
(* a queue in the database and, in each process of the API, one goroutine  *)
(* that sends the ready events one at a time.  A process may be stopped,   *)
(* die, or be reloaded with SIGHUP (endless, src/http/run.go): then the    *)
(* new one works on the queue before the old one has stopped.              *)
(***************************************************************************)
EXTENDS Integers, FiniteSets

CONSTANTS
    Processi,           \* processes of the API: one, two while it reloads
    attesaPrima, attesaMax, durataTentativi, conservazione, intervalloPulizia,
    Ritardo,            \* how long an INSERT may wait after time.Now()
    EventiMax,          \* bound: events ever put in the queue
    OraMax,             \* bound: the clock
    IncidentiMax,       \* bound: what goes wrong, see Incidente
    NessunEvento

ASSUME TempiAssumption ==
    /\ attesaPrima \in Nat \ {0} /\ attesaMax \in Nat \ {0}
    /\ durataTentativi \in Nat /\ conservazione \in Nat /\ intervalloPulizia \in Nat
    /\ Ritardo \in Nat /\ EventiMax \in Nat /\ OraMax \in Nat /\ IncidentiMax \in Nat

Eventi == 1 .. EventiMax
Tempo  == 0 .. OraMax
Mai    == -intervalloPulizia - 1      \* the zero time.Time of pulita
PassiGira == {"spento", "giro", "scelta", "invio", "esito"}
Esiti  == {"inAttesa", "consegnato", "fallito"}

Evento == [id : Eventi, creato : Tempo, prossimo : Tempo, tentativi : Nat,
         esito : Esiti, chiuso : Tempo]

VARIABLES
    inCoda,     \* the table: the set of its rows
    nuovo,      \* the next id (AUTOINCREMENT)
    ora,        \* the clock
    passo,      \* [Processi -> where gira and Passo are]
    fermata,    \* [Processi -> the context is cancelled]
    adesso,     \* [Processi -> the time Passo has read]
    pulita,     \* [Processi -> Consegna.pulita]
    evento,     \* [Processi -> the row Passo has read]
    motivo,     \* [Processi -> the outcome of manda: "ok" is a 2xx]
    ricevute,   \* [Eventi -> how many times the receiver took the event]
    incidenti   \* how many things went wrong so far

coda   == <<inCoda, nuovo>>
lavoro == <<passo, fermata, adesso, pulita, evento, motivo>>
storia == <<ricevute, incidenti>>
varsConsegna == <<coda, ora, lavoro, storia>>

InitConsegna ==
    /\ inCoda = {} /\ nuovo = 1 /\ ora = 0
    /\ passo = [p \in Processi |-> "spento"]
    /\ fermata = [p \in Processi |-> FALSE]
    /\ adesso = [p \in Processi |-> 0]
    /\ pulita = [p \in Processi |-> Mai]
    /\ evento = [p \in Processi |-> NessunEvento]
    /\ motivo = [p \in Processi |-> "ok"]
    /\ ricevute = [i \in Eventi |-> 0]
    /\ incidenti = 0

Accesi == {p \in Processi : passo[p] # "spento"}

Incidente == incidenti < IncidentiMax /\ incidenti' = incidenti + 1

(* The local variables of Passo end with it. *)
Dimentica(p) ==
    /\ adesso' = [adesso EXCEPT ![p] = 0]
    /\ evento' = [evento EXCEPT ![p] = NessunEvento]
    /\ motivo' = [motivo EXCEPT ![p] = "ok"]

(* Passo is over: gira goes round again, at once or after its pause. *)
Ritorna(p) ==
    /\ passo' = [passo EXCEPT ![p] = "giro"]
    /\ Dimentica(p)
    /\ UNCHANGED <<fermata, pulita>>

-----------------------------------------------------------------------------
(* The clock goes on. *)
OraPassa ==
    /\ ora < OraMax
    /\ ora' = ora + 1
    /\ UNCHANGED <<coda, lavoro, storia>>

(* accoda: a request that read the clock at t saves its event. *)
Accoda(t) ==
    /\ Accesi # {}
    /\ nuovo <= EventiMax
    /\ t \in ora - Ritardo .. ora
    /\ t + durataTentativi <= OraMax
    /\ inCoda' = inCoda \cup {[id |-> nuovo, creato |-> t, prossimo |-> t, tentativi |-> 0,
                               esito |-> "inAttesa", chiuso |-> 0]}
    /\ nuovo' = nuovo + 1
    /\ UNCHANGED <<ora, lavoro, storia>>

NuovaConsegna(p) ==
    /\ passo' = [passo EXCEPT ![p] = "giro"]
    /\ UNCHANGED <<fermata, adesso, pulita, evento, motivo>>

Avvia(p) ==
    /\ Accesi = {}
    /\ NuovaConsegna(p)
    /\ UNCHANGED <<coda, ora, storia>>

(* SIGHUP: the new process starts, then stops the old one. *)
Ricarica(p, q) ==
    /\ Accesi = {q} /\ p # q
    /\ NuovaConsegna(p)
    /\ Incidente
    /\ UNCHANGED <<coda, ora, ricevute>>

Ferma(p) ==
    /\ passo[p] # "spento" /\ ~fermata[p]
    /\ Incidente
    /\ fermata' = [fermata EXCEPT ![p] = TRUE]
    /\ UNCHANGED <<coda, ora, passo, adesso, pulita, evento, motivo, ricevute>>

(* The memory goes with the process: the next one starts from the zero values. *)
Spegni(p) ==
    /\ passo' = [passo EXCEPT ![p] = "spento"]
    /\ fermata' = [fermata EXCEPT ![p] = FALSE]
    /\ pulita' = [pulita EXCEPT ![p] = Mai]
    /\ Dimentica(p)

Muore(p) ==
    /\ passo[p] # "spento"
    /\ Incidente
    /\ Spegni(p)
    /\ UNCHANGED <<coda, ora, ricevute>>

-----------------------------------------------------------------------------
Scaduti(t) == {e \in inCoda : e.esito # "inAttesa" /\ e.chiuso < t - conservazione}

(* gira: the goroutine ends, and the process with it; or Passo begins, reads the
   clock and, once in intervalloPulizia, takes the old events away. *)
Giro(p) ==
    /\ passo[p] = "giro"
    /\ \/ /\ fermata[p]
          /\ Spegni(p)
          /\ UNCHANGED inCoda
       \/ /\ ~fermata[p]
          /\ adesso' = [adesso EXCEPT ![p] = ora]
          /\ \/ /\ ora - pulita[p] >= intervalloPulizia
                /\ inCoda' = inCoda \ Scaduti(ora)
                /\ pulita' = [pulita EXCEPT ![p] = ora]
             \/ /\ ora - pulita[p] < intervalloPulizia
                /\ UNCHANGED <<inCoda, pulita>>
          /\ passo' = [passo EXCEPT ![p] = "scelta"]
          /\ UNCHANGED <<fermata, evento, motivo>>
    /\ UNCHANGED <<nuovo, ora, storia>>

(* Mutant: the query of the ready events does not ask for the outcome. *)
ProntiTutti(t) == {e \in inCoda : e.prossimo <= t}

Pronti(t) == {e \in inCoda : e.esito = "inAttesa" /\ e.prossimo <= t}

Scegli(p) ==
    /\ passo[p] = "scelta"
    /\ \/ /\ Pronti(adesso[p]) = {}
          /\ Ritorna(p)
       \/ /\ \E e \in Pronti(adesso[p]) :
               /\ \A d \in Pronti(adesso[p]) : e.id <= d.id
               /\ evento' = [evento EXCEPT ![p] = e]
          /\ passo' = [passo EXCEPT ![p] = "invio"]
          /\ UNCHANGED <<fermata, adesso, pulita, motivo>>
    /\ UNCHANGED <<coda, ora, storia>>

(* manda: the receiver takes the event, or not, and its answer arrives, or not. *)
Manda(p) ==
    /\ passo[p] = "invio"
    /\ \/ /\ ricevute' = [ricevute EXCEPT ![evento[p].id] = @ + 1]
          /\ UNCHANGED <<motivo, incidenti>>
       \/ /\ ricevute' = [ricevute EXCEPT ![evento[p].id] = @ + 1]
          /\ motivo' = [motivo EXCEPT ![p] = "rispostaPersa"]
          /\ Incidente
       \/ /\ motivo' = [motivo EXCEPT ![p] = "nonConsegnato"]
          /\ UNCHANGED <<ricevute, incidenti>>
    /\ passo' = [passo EXCEPT ![p] = "esito"]
    /\ UNCHANGED <<coda, ora, fermata, adesso, pulita, evento>>

Minimo(a, b) == IF a <= b THEN a ELSE b

(* 30 seconds that double, at most an hour. *)
attesa(n) == Minimo(attesaPrima * 2 ^ (n - 1), attesaMax)

(* Mutant: the next attempt is not brought forward to the end of the 24 hours. *)
TentatoOltre(e, t, esitoPost, r) ==
    LET n == e.tentativi + 1
    IN  IF esitoPost = "ok"
          THEN [r EXCEPT !.tentativi = n, !.esito = "consegnato", !.chiuso = t]
        ELSE IF t >= e.creato + durataTentativi
          THEN [r EXCEPT !.tentativi = n, !.esito = "fallito", !.chiuso = t]
          ELSE [r EXCEPT !.tentativi = n, !.prossimo = t + attesa(n)]

(* Mutant: no attempt is the last one. *)
TentatoSempre(e, t, esitoPost, r) ==
    LET n == e.tentativi + 1
    IN  IF esitoPost = "ok"
          THEN [r EXCEPT !.tentativi = n, !.esito = "consegnato", !.chiuso = t]
          ELSE [r EXCEPT !.tentativi = 0,
                         !.prossimo = Minimo(t + attesa(n), e.creato + durataTentativi)]

(* What an attempt at time t on the row e as it was read writes on a row. *)
Tentato(e, t, esitoPost, r) ==
    LET n      == e.tentativi + 1
        limite == e.creato + durataTentativi
    IN  IF esitoPost = "ok"
          THEN [r EXCEPT !.tentativi = n, !.esito = "consegnato", !.chiuso = t]
        ELSE IF t >= limite
          THEN [r EXCEPT !.tentativi = n, !.esito = "fallito", !.chiuso = t]
          ELSE [r EXCEPT !.tentativi = n, !.prossimo = Minimo(t + attesa(n), limite)]

(* Mutant: the row is saved whole, also if it has been taken away. *)
AggiornaRiga(e, t, esitoPost) ==
    inCoda' = {r \in inCoda : r.id # e.id} \cup {Tentato(e, t, esitoPost, e)}

(* UPDATE eventi ... WHERE id: no row if the event has been taken away. *)
Aggiorna(e, t, esitoPost) ==
    inCoda' = {IF r.id = e.id THEN Tentato(e, t, esitoPost, r) ELSE r : r \in inCoda}

(* The end of Passo: with the context cancelled the attempt does not count. *)
Esito(p) ==
    /\ passo[p] = "esito"
    /\ \/ fermata[p] /\ UNCHANGED inCoda
       \/ ~fermata[p] /\ Aggiorna(evento[p], adesso[p], motivo[p])
    /\ Ritorna(p)
    /\ UNCHANGED <<nuovo, ora, storia>>

(* A statement fails: Passo returns the error, gira pauses and tries again. *)
Guasto(p) ==
    /\ passo[p] \in {"scelta", "esito"} /\ ~fermata[p]
    /\ Incidente
    /\ Ritorna(p)
    /\ UNCHANGED <<coda, ora, ricevute>>

-----------------------------------------------------------------------------
Lavora(p) == Giro(p) \/ Scegli(p) \/ Manda(p) \/ Esito(p)

NextConsegna ==
    \/ OraPassa
    \/ \E t \in Tempo : Accoda(t)
    \/ \E p \in Processi :
         \/ Avvia(p) \/ Ferma(p) \/ Muore(p) \/ Guasto(p)
         \/ \E q \in Processi : Ricarica(p, q)
         \/ Lavora(p)

SpecConsegna == InitConsegna /\ [][NextConsegna]_varsConsegna

(* Time passes, the goroutine runs, and the service is started when it is down. *)
Equita ==
    /\ WF_varsConsegna(OraPassa)
    /\ WF_varsConsegna(\E p \in Processi : Avvia(p))
    /\ \A p \in Processi : WF_varsConsegna(Lavora(p))

FairSpecConsegna == SpecConsegna /\ Equita

-----------------------------------------------------------------------------
(* Every variable has its type; id is the key of the table, and a goroutine
   that sends has the row it sends. *)
TypeOKConsegna ==
    /\ inCoda \subseteq Evento
    /\ \A a, b \in inCoda : a.id = b.id => a = b
    /\ nuovo \in 1 .. EventiMax + 1
    /\ \A e \in inCoda : e.id < nuovo
    /\ ora \in Tempo
    /\ passo \in [Processi -> PassiGira]
    /\ fermata \in [Processi -> BOOLEAN]
    /\ adesso \in [Processi -> Tempo]
    /\ pulita \in [Processi -> Tempo \cup {Mai}]
    /\ evento \in [Processi -> Evento \cup {NessunEvento}]
    /\ motivo \in [Processi -> {"ok", "rispostaPersa", "nonConsegnato"}]
    /\ \A p \in Processi : passo[p] \in {"invio", "esito"} => evento[p] # NessunEvento
    /\ ricevute \in [Eventi -> Nat]
    /\ incidenti \in 0 .. IncidentiMax

(* A receiver sees an event again only for something that happened: a stop, a
   death, a lost answer, an outcome that was not saved, a reload (two processes
   may both have read the event); and once for each. *)
Doppioni == \A i \in Eventi : ricevute[i] <= 1 + incidenti

(* An event is never put off beyond its 24 hours, so its last attempt comes
   when they end; and it is given up only then. *)
UltimoTentativo ==
    \A e \in inCoda :
        /\ e.prossimo <= e.creato + durataTentativi
        /\ e.esito = "fallito" => e.chiuso >= e.creato + durataTentativi

(***************************************************************************)
(* The promise of CodaEventi.                                              *)
(***************************************************************************)
StatoDi(i) ==
    IF i >= nuovo THEN "assente"
    ELSE IF \E e \in inCoda : e.id = i
      THEN (CHOOSE e \in inCoda : e.id = i).esito
      ELSE "tolto"

CreatoDi(i) ==
    IF \E e \in inCoda : e.id = i THEN (CHOOSE e \in inCoda : e.id = i).creato ELSE 0

Coda == INSTANCE CodaEventi WITH
    stato    <- [i \in Eventi |-> StatoDi(i)],
    creato   <- [i \in Eventi |-> CreatoDi(i)],
    ricevuto <- {i \in Eventi : ricevute[i] > 0}

(* Whatever stops, deaths, reloads, lost answers and failed statements. *)
ImplementaCoda == Coda!Spec

(* Every event has an outcome in the end, whatever the receiver answers and
   however many other events are tried again: none waits for ever. *)
EventoConcluso ==
    \A i \in Eventi : StatoDi(i) = "inAttesa" ~> StatoDi(i) \in {"consegnato", "fallito", "tolto"}
=============================================================================
