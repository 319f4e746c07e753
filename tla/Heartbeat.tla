------------------------------- MODULE Heartbeat -------------------------------
(***************************************************************************)
(* The heartbeats of a PC, signed if it has a key, and the two memories of *)
(* the process they go through: the signatures already accepted, and the   *)
(* changes of address that tell a possible copy of the PC.                 *)
(* src/http/controller/api/index.go, src/service/firma.go, copie.go.       *)
(*                                                                         *)
(* A request reads the clock, then the row of its PC, and then waits for   *)
(* the lock of the memory of the signatures: the time it carries may be    *)
(* older than the last one that memory has seen.  The clock of the copies  *)
(* is read at the call, and the call is one step.  A copy of the PC has    *)
(* its key: both sign, from two addresses.  A signature can arrive again.  *)
(* The clock of the server does not go back.  The last contact of the row  *)
(* is left out: no rule reads it.                                          *)
(***************************************************************************)
EXTENDS Integers, Sequences, FiniteSets

CONSTANTS
    Richieste,          \* the requests that can run at once
    Firme, Ts,          \* the signatures, and the time each one carries
    Indirizzi,
    Nessuno,
    FinestraFirma,      \* 300 s
    PuliziaFirme,       \* 60 s
    CambioCopie,        \* 60 s
    FinestraCopie,      \* 10 min
    SogliaCopie,        \* 10
    AvvisoCopie,        \* 1 h
    PuliziaCopie,       \* 1 min
    MaxOra,             \* bound: the clock
    MaxBattiti          \* bound: heartbeats that reach the memory of the copies

ASSUME HeartbeatAssumption ==
    /\ Ts \in [Firme -> Int]
    /\ Nessuno \notin Firme \cup Indirizzi \cup Nat
    /\ {FinestraFirma, PuliziaFirme, CambioCopie, FinestraCopie, AvvisoCopie, PuliziaCopie,
        MaxOra, MaxBattiti} \subseteq Nat
    /\ SogliaCopie \in Nat \ {0} /\ CambioCopie <= FinestraCopie

VARIABLES
    ora,        \* the clock
    chiave,     \* the PC has a key
    scadenza,   \* memoriaFirme: [some signatures -> when each one is forgotten]
    pulita,     \* [memory -> its last cleaning]
    visto,      \* memoriaCopie.pc of this PC
    avvisi,     \* memoriaCopie.avvisi of this PC: the time of its last warning
    pc, req,    \* [Richieste -> the next step], [Richieste -> what it carries]
    \* What the properties remember.
    accettate,  \* the signatures this process has accepted
    avvisato,   \* the time of the last warning it has written
    storia      \* the heartbeats, in the order of the lock

vars == <<ora, chiave, scadenza, pulita, visto, avvisi, pc, req, accettate, avvisato, storia>>

Assente == [indirizzo |-> Nessuno, ultimo |-> 0, cambi |-> <<>>]
Vuota   == [ora |-> 0, firma |-> Nessuno, da |-> Nessuno]

(* The memories are older than any interval: the first call cleans them. *)
Avvio == -(PuliziaFirme + PuliziaCopie)

Init ==
    /\ ora = 0 /\ chiave \in BOOLEAN
    /\ scadenza = <<>> /\ accettate = {}
    /\ pulita = [m \in {"firme", "copie"} |-> Avvio]
    /\ visto = Assente /\ avvisi = Nessuno /\ avvisato = Nessuno /\ storia = <<>>
    /\ pc = [r \in Richieste |-> "libera"]
    /\ req = [r \in Richieste |-> Vuota]

Va(r, passo, q) == pc' = [pc EXCEPT ![r] = passo] /\ req' = [req EXCEPT ![r] = q]
Finisce(r)      == Va(r, "libera", Vuota)

-----------------------------------------------------------------------------
(* The memory of the signatures *)

DaPulire(m, intervallo, t) == t - pulita[m] >= intervallo

Segnata(m, intervallo, t) == IF DaPulire(m, intervallo, t) THEN [pulita EXCEPT ![m] = t] ELSE pulita

(* Mutant: a signature is forgotten one second before its time. *)
DaTenerePoco(f, t) == scadenza[f] > t + 1

(* The cleaning keeps it. *)
DaTenere(f, t) == scadenza[f] >= t

Tenute(t) ==
    LET tiene == {f \in DOMAIN scadenza : DaPulire("firme", PuliziaFirme, t) => DaTenere(f, t)} IN
    [f \in tiene |-> scadenza[f]]

InTempo(f, t) == t - Ts[f] \in -FinestraFirma .. FinestraFirma

Ripetuta(f, t) == f \in DOMAIN Tenute(t) /\ Tenute(t)[f] >= t

(* A heartbeat arrives; without a key, signatures are not looked at. *)
Heartbeat(r, f, da) ==
    /\ pc[r] = "libera"
    /\ \/ chiave /\ Va(r, "verifica", [ora |-> ora, firma |-> f, da |-> da])
       \/ ~chiave /\ Va(r, "segna", [Vuota EXCEPT !.da = da])
    /\ UNCHANGED <<ora, chiave, scadenza, pulita, visto, avvisi, accettate, avvisato, storia>>

(* verifica and nuova: the signature is in time and new, or the heartbeat is refused. *)
Verifica(r) ==
    LET f == req[r].firma
        t == req[r].ora
    IN  /\ pc[r] = "verifica"
        /\ \/ ~InTempo(f, t) /\ Finisce(r) /\ UNCHANGED <<scadenza, pulita, accettate>>
           \/ /\ InTempo(f, t)
              /\ pulita' = Segnata("firme", PuliziaFirme, t)
              /\ IF Ripetuta(f, t)
                 THEN Finisce(r) /\ scadenza' = Tenute(t) /\ UNCHANGED accettate
                 ELSE /\ Va(r, "segna", [Vuota EXCEPT !.da = req[r].da])
                      /\ scadenza' = [g \in DOMAIN Tenute(t) \cup {f} |->
                                         IF g = f THEN Ts[f] + FinestraFirma ELSE Tenute(t)[g]]
                      /\ accettate' = accettate \cup {f}
        /\ UNCHANGED <<ora, chiave, visto, avvisi, avvisato, storia>>

-----------------------------------------------------------------------------
(* The memory of the copies *)

(* recenti: the oldest changes go, up to the first one in the window. *)
Recenti(cambi, t) ==
    LET vecchio(i) == t - cambi[i] >= FinestraCopie
        tolti == {i \in DOMAIN cambi : \A j \in 1 .. i : vecchio(j)}
    IN  SubSeq(cambi, Cardinality(tolti) + 1, Len(cambi))

(* What the cleaning leaves. *)
VistoPulito(t) ==
    IF DaPulire("copie", PuliziaCopie, t) /\ t - visto.ultimo >= FinestraCopie THEN Assente ELSE visto

(* Mutant: the warnings are forgotten with the PC. *)
AvvisiPulitiPresto(t) ==
    IF /\ avvisi # Nessuno /\ DaPulire("copie", PuliziaCopie, t)
       /\ t - visto.ultimo >= FinestraCopie THEN Nessuno ELSE avvisi

AvvisiPuliti(t) ==
    IF /\ avvisi # Nessuno /\ DaPulire("copie", PuliziaCopie, t)
       /\ t - avvisi >= AvvisoCopie THEN Nessuno ELSE avvisi

(* Mutant: every change of address counts, however slow. *)
CambioSempre(p, da, t) == p.indirizzo # da

Cambio(p, da, t) == p.indirizzo # da /\ t - p.ultimo < CambioCopie

(* What is known of the PC after a heartbeat from da. *)
DopoBattito(p, da, t) ==
    IF p = Assente THEN [indirizzo |-> da, ultimo |-> t, cambi |-> <<>>]
    ELSE [indirizzo |-> da, ultimo |-> t,
          cambi |-> Recenti(IF Cambio(p, da, t) THEN Append(p.cambi, t) ELSE p.cambi, t)]

DaAvvisare(p, a, t) == Len(p.cambi) >= SogliaCopie /\ (a = Nessuno \/ t - a >= AvvisoCopie)

(* SegnaHeartbeat. *)
Segna(r) ==
    LET p == DopoBattito(VistoPulito(ora), req[r].da, ora)
        a == AvvisiPuliti(ora)
    IN  /\ pc[r] = "segna" /\ Len(storia) < MaxBattiti
        /\ pulita' = Segnata("copie", PuliziaCopie, ora)
        /\ visto' = p
        /\ IF DaAvvisare(p, a, ora) THEN avvisi' = ora /\ avvisato' = ora
                                    ELSE avvisi' = a /\ UNCHANGED avvisato
        /\ storia' = Append(storia, [ora |-> ora, da |-> req[r].da])
        /\ Finisce(r)
        /\ UNCHANGED <<ora, chiave, scadenza, accettate>>

(* PossibileCopia. *)
Copia(cambi, t) == Len(Recenti(cambi, t)) >= SogliaCopie

(* A page of the panel's list. *)
PossibileCopia ==
    /\ visto' = [visto EXCEPT !.cambi = Recenti(visto.cambi, ora)]
    /\ UNCHANGED <<ora, chiave, scadenza, pulita, avvisi, pc, req, accettate, avvisato, storia>>

(* A heartbeat of another PC cleans the same memories. *)
AltroPc ==
    /\ scadenza' = Tenute(ora)
    /\ visto' = VistoPulito(ora) /\ avvisi' = AvvisiPuliti(ora)
    /\ pulita' = [m \in {"firme", "copie"} |->
                     IF m = "firme" THEN Segnata("firme", PuliziaFirme, ora)[m]
                     ELSE Segnata("copie", PuliziaCopie, ora)[m]]
    /\ UNCHANGED <<ora, chiave, pc, req, accettate, avvisato, storia>>

Scorre ==
    /\ ora < MaxOra
    /\ ora' = ora + 1
    /\ UNCHANGED <<chiave, scadenza, pulita, visto, avvisi, pc, req, accettate, avvisato, storia>>

(* The process starts again: both memories are empty, the requests are gone. *)
Riavvia ==
    /\ scadenza' = <<>> /\ accettate' = {}
    /\ pulita' = [m \in {"firme", "copie"} |-> Avvio]
    /\ visto' = Assente /\ avvisi' = Nessuno /\ avvisato' = Nessuno /\ storia' = <<>>
    /\ pc' = [r \in Richieste |-> "libera"]
    /\ req' = [r \in Richieste |-> Vuota]
    /\ UNCHANGED <<ora, chiave>>

Passo(r) ==
    \/ \E f \in Firme, da \in Indirizzi : Heartbeat(r, f, da)
    \/ Verifica(r) \/ Segna(r)

Next ==
    \/ \E r \in Richieste : Passo(r)
    \/ PossibileCopia \/ AltroPc \/ Scorre \/ Riavvia

Spec == Init /\ [][Next]_vars
-----------------------------------------------------------------------------
(* Every variable has its type. *)
TypeOK ==
    /\ ora \in 0 .. MaxOra /\ chiave \in BOOLEAN
    /\ scadenza \in [DOMAIN scadenza -> Int] /\ DOMAIN scadenza \subseteq Firme
    /\ pulita \in [{"firme", "copie"} -> Avvio .. ora]
    /\ visto.indirizzo \in Indirizzi \cup {Nessuno} /\ visto.ultimo \in 0 .. ora
    /\ visto.cambi \in Seq(0 .. ora)
    /\ {avvisi, avvisato} \subseteq 0 .. ora \cup {Nessuno}
    /\ pc \in [Richieste -> {"libera", "verifica", "segna"}]
    /\ req \in [Richieste -> [ora : 0 .. ora, firma : Firme \cup {Nessuno}, da : Indirizzi \cup {Nessuno}]]
    /\ accettate \subseteq Firme
    /\ storia \in Seq([ora : 0 .. ora, da : Indirizzi])

(* README.md:605-612: while its time is in the window a process accepts a signature once,
   also when the requests reach the memory in another order than they read the clock. *)
FirmaUnaVolta == [][\A r \in Richieste :
    /\ pc[r] = "verifica" /\ pc'[r] = "segna" /\ req[r].firma \in accettate
    => ora > Ts[req[r].firma] + FinestraFirma]_vars

(* README.md:665-671 on the whole history of the heartbeats: a change is another address
   in less than CambioCopie, and it counts for FinestraCopie. *)
Cambi(t) ==
    {k \in 2 .. Len(storia) :
        /\ storia[k].da # storia[k - 1].da
        /\ storia[k].ora - storia[k - 1].ora < CambioCopie
        /\ t - storia[k].ora < FinestraCopie}

(* The panel marks a PC exactly when the rule says so, whatever cleanings and lists came
   before. *)
CopiaEsatta == Copia(visto.cambi, ora) <=> Cardinality(Cambi(ora)) >= SogliaCopie

(* README.md:679, 681-683: two warnings of a PC are AvvisoCopie apart, even if the PC has
   left the memory in between. *)
AvvisoRaro == [][
    avvisato' \notin {avvisato, Nessuno} /\ avvisato # Nessuno => avvisato' >= avvisato + AvvisoCopie]_vars
=============================================================================
