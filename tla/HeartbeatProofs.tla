---------------------------- MODULE HeartbeatProofs ----------------------------
(***************************************************************************)
(* Theorems of module Heartbeat: for any number of requests, signatures    *)
(* and addresses, any times on the signatures, and any length of the       *)
(* windows and of the intervals.                                           *)
(***************************************************************************)
EXTENDS Heartbeat, SequenceTheorems, FiniteSetTheorems, TLAPS

USE HeartbeatAssumption

(* What arrives in a request that is going on. *)
Req == [ora : 0 .. ora, firma : Firme \cup {Nessuno}, da : Indirizzi \cup {Nessuno}]

RichiesteInv ==
    /\ pc \in [Richieste -> {"libera", "verifica", "segna"}]
    /\ req \in [Richieste -> Req]
    /\ \A r \in Richieste : /\ pc[r] = "verifica" => req[r].firma \in Firme
                            /\ pc[r] # "libera" => req[r].da \in Indirizzi

(* The memory of the signatures: it keeps each accepted one, with the end of its window,
   until the clock is past it. *)
FirmeInv ==
    /\ scadenza \in [DOMAIN scadenza -> Int] /\ DOMAIN scadenza \subseteq Firme
    /\ accettate \subseteq Firme
    /\ \A f \in DOMAIN scadenza : scadenza[f] = Ts[f] + FinestraFirma
    /\ \A f \in accettate : f \in DOMAIN scadenza \/ ora > Ts[f] + FinestraFirma

(* The memory of the warnings: it forgets one only when another may be written. *)
AvvisiInv ==
    /\ {avvisi, avvisato} \subseteq 0 .. ora \cup {Nessuno}
    /\ \/ avvisi = avvisato
       \/ avvisi = Nessuno /\ avvisato # Nessuno /\ ora - avvisato >= AvvisoCopie

(* The memory of the changes of address. *)
CopieInv ==
    /\ visto.indirizzo \in Indirizzi \cup {Nessuno} /\ visto.ultimo \in 0 .. ora
    /\ visto.cambi \in Seq(0 .. ora)
    /\ storia \in Seq([ora : 0 .. ora, da : Indirizzi])

OraInv ==
    /\ ora \in 0 .. MaxOra /\ chiave \in BOOLEAN
    /\ pulita \in [{"firme", "copie"} -> Avvio .. ora]

Inv == OraInv /\ RichiesteInv /\ FirmeInv /\ AvvisiInv /\ CopieInv
-----------------------------------------------------------------------------
LEMMA InvTypeOK == Inv => TypeOK
BY DEF Inv, OraInv, RichiesteInv, FirmeInv, AvvisiInv, CopieInv, TypeOK, Req

(* At the start, and after a restart, the memories are empty. *)
LEMMA VuoteInv ==
    ASSUME ora \in 0 .. MaxOra, chiave \in BOOLEAN,
           scadenza = <<>>, accettate = {}, pulita = [m \in {"firme", "copie"} |-> Avvio],
           visto = Assente, avvisi = Nessuno, avvisato = Nessuno, storia = <<>>,
           pc = [r \in Richieste |-> "libera"], req = [r \in Richieste |-> Vuota]
    PROVE  Inv
<1>1. OraInv
  BY DEF OraInv, Avvio
<1>2. RichiesteInv
  BY DEF RichiesteInv, Req, Vuota
<1>3. FirmeInv
  <2>1. DOMAIN scadenza = {}
    OBVIOUS
  <2>2. scadenza \in [DOMAIN scadenza -> Int]
    BY <2>1
  <2> QED
    BY <2>1, <2>2 DEF FirmeInv
<1>4. AvvisiInv
  BY DEF AvvisiInv
<1>5. CopieInv
  BY DEF CopieInv, Assente
<1> QED
  BY <1>1, <1>2, <1>3, <1>4, <1>5 DEF Inv

LEMMA InizioInv == Init => Inv
BY VuoteInv DEF Init

(* A cleaning at t, not in the future, leaves what is needed. *)
LEMMA TenuteBene ==
    ASSUME Inv, NEW t \in 0 .. ora
    PROVE  /\ Tenute(t) \in [DOMAIN Tenute(t) -> Int] /\ DOMAIN Tenute(t) \subseteq DOMAIN scadenza
           /\ \A f \in DOMAIN Tenute(t) : Tenute(t)[f] = Ts[f] + FinestraFirma
           /\ \A f \in DOMAIN scadenza \ DOMAIN Tenute(t) : t > Ts[f] + FinestraFirma
BY DEF Inv, OraInv, FirmeInv, Tenute, DaTenere

LEMMA SegnataBene ==
    ASSUME Inv, NEW m \in {"firme", "copie"}, NEW intervallo, NEW t \in 0 .. ora
    PROVE  Segnata(m, intervallo, t) \in [{"firme", "copie"} -> Avvio .. ora]
BY DEF Inv, OraInv, Segnata, Avvio

(* The changes that are left are some of those there were. *)
LEMMA RecentiSeq ==
    ASSUME NEW cambi, NEW S, cambi \in Seq(S), NEW t
    PROVE  Recenti(cambi, t) \in Seq(S)
<1> DEFINE vecchio(i) == t - cambi[i] >= FinestraCopie
           tolti == {i \in DOMAIN cambi : \A j \in 1 .. i : vecchio(j)}
           n == Cardinality(tolti)
<1>1. DOMAIN cambi = 1 .. Len(cambi) /\ Len(cambi) \in Nat
  OBVIOUS
<1>2. IsFiniteSet(1 .. Len(cambi)) /\ Cardinality(1 .. Len(cambi)) = Len(cambi)
  <2>1. \A l \in Nat : IsFiniteSet(1 .. l) /\ Cardinality(1 .. l) = IF 1 > l THEN 0 ELSE l - 1 + 1
    <3> SUFFICES ASSUME NEW l \in Nat
                 PROVE  IsFiniteSet(1 .. l) /\ Cardinality(1 .. l) = IF 1 > l THEN 0 ELSE l - 1 + 1
      OBVIOUS
    <3>1. 1 \in Int /\ l \in Int
      OBVIOUS
    <3> QED
      BY <3>1, FS_Interval, Zenon
  <2>2. \A l \in Nat : (IF 1 > l THEN 0 ELSE l - 1 + 1) = l
    OBVIOUS
  <2> QED
    BY <1>1, <2>1, <2>2
<1>3. tolti \subseteq 1 .. Len(cambi)
  BY <1>1
<1>4. n \in Nat /\ n <= Len(cambi)
  <2> HIDE DEF tolti
  <2> QED
    BY <1>2, <1>3, FS_Subset, FS_CardinalityType
<1> HIDE DEF n
<1>5. SubSeq(cambi, n + 1, Len(cambi)) \in Seq(S)
  BY <1>1, <1>4
<1> QED
  BY <1>5 DEF Recenti, n
-----------------------------------------------------------------------------
(* A step of r that goes to passo. *)
LEMMA VaInv ==
    ASSUME RichiesteInv, UNCHANGED ora, NEW r \in Richieste,
           NEW passo \in {"libera", "verifica", "segna"}, NEW q \in Req,
           passo = "verifica" => q.firma \in Firme, passo # "libera" => q.da \in Indirizzi,
           Va(r, passo, q)
    PROVE  RichiesteInv'
BY DEF RichiesteInv, Va, Req

LEMMA FinisceInv ==
    ASSUME RichiesteInv, UNCHANGED ora, ora \in Nat, NEW r \in Richieste, Finisce(r)
    PROVE  RichiesteInv'
<1>1. Vuota \in Req
  BY DEF Vuota, Req
<1> QED
  BY <1>1, VaInv DEF Finisce

LEMMA HeartbeatInv ==
    ASSUME Inv, NEW r \in Richieste, NEW f \in Firme, NEW da \in Indirizzi, Heartbeat(r, f, da)
    PROVE  Inv'
<1>1. UNCHANGED <<ora, chiave, scadenza, pulita, visto, avvisi, accettate, avvisato, storia>> /\ ora \in Nat
  BY DEF Heartbeat, Inv, OraInv
<1>2. RichiesteInv'
  <2>1. CASE Va(r, "verifica", [ora |-> ora, firma |-> f, da |-> da])
    <3>1. [ora |-> ora, firma |-> f, da |-> da] \in Req
      BY <1>1 DEF Req
    <3> QED
      BY <1>1, <2>1, <3>1, VaInv DEF Inv
  <2>2. CASE Va(r, "segna", [Vuota EXCEPT !.da = da])
    <3>1. [Vuota EXCEPT !.da = da] \in Req /\ [Vuota EXCEPT !.da = da].da = da
      BY <1>1 DEF Req, Vuota
    <3> QED
      BY <1>1, <2>2, <3>1, VaInv DEF Inv
  <2> QED
    BY <2>1, <2>2 DEF Heartbeat
<1>3. OraInv' /\ FirmeInv' /\ AvvisiInv' /\ CopieInv'
  BY <1>1 DEF Inv, OraInv, FirmeInv, AvvisiInv, CopieInv
<1> QED
  BY <1>2, <1>3 DEF Inv

(* A signature that was accepted, and is in time, is still in the memory. *)
LEMMA VerificaNuova ==
    ASSUME Inv, NEW t \in 0 .. ora, NEW f \in accettate, InTempo(f, t), ~Ripetuta(f, t)
    PROVE  ora > Ts[f] + FinestraFirma
<1>1. Ts[f] \in Int /\ FinestraFirma \in Nat /\ ora \in Nat /\ t \in Int
  BY DEF Inv, FirmeInv, OraInv
<1>2. t <= Ts[f] + FinestraFirma
  BY <1>1 DEF InTempo
<1>3. f \in DOMAIN scadenza \/ ora > Ts[f] + FinestraFirma
  BY DEF Inv, FirmeInv
<1>4. ASSUME f \in DOMAIN scadenza PROVE FALSE
  <2>1. f \in DOMAIN Tenute(t)
    BY <1>1, <1>2, <1>4, TenuteBene
  <2>2. Tenute(t)[f] = Ts[f] + FinestraFirma
    BY <2>1, TenuteBene
  <2> QED
    BY <1>1, <1>2, <2>1, <2>2 DEF Ripetuta
<1> QED
  BY <1>3, <1>4

LEMMA VerificaInv ==
    ASSUME Inv, NEW r \in Richieste, Verifica(r)
    PROVE  Inv'
<1> DEFINE f == req[r].firma
           t == req[r].ora
<1>1. /\ UNCHANGED <<ora, chiave, visto, avvisi, avvisato, storia>> /\ ora \in Nat
      /\ f \in Firme /\ t \in 0 .. ora /\ req[r].da \in Indirizzi /\ RichiesteInv
  BY DEF Verifica, Inv, OraInv, RichiesteInv, Req
<1>2. AvvisiInv' /\ CopieInv'
  BY <1>1 DEF Inv, AvvisiInv, CopieInv
<1>3. ASSUME Finisce(r), UNCHANGED <<scadenza, pulita, accettate>>
      PROVE  Inv'
  <2>1. OraInv' /\ FirmeInv'
    BY <1>1, <1>3 DEF Inv, OraInv, FirmeInv
  <2> QED
    BY <1>1, <1>2, <1>3, <2>1, FinisceInv DEF Inv
<1>4. ASSUME pulita' = Segnata("firme", PuliziaFirme, t)
      PROVE  OraInv'
  BY <1>1, <1>4, SegnataBene DEF Inv, OraInv
<1>5. ASSUME pulita' = Segnata("firme", PuliziaFirme, t), Finisce(r), scadenza' = Tenute(t),
             UNCHANGED accettate
      PROVE  Inv'
  <2>1. FirmeInv'
    BY <1>1, <1>5, TenuteBene DEF Inv, FirmeInv
  <2> QED
    BY <1>1, <1>2, <1>4, <1>5, <2>1, FinisceInv DEF Inv
<1>6. ASSUME pulita' = Segnata("firme", PuliziaFirme, t),
             Va(r, "segna", [Vuota EXCEPT !.da = req[r].da]),
             scadenza' = [g \in DOMAIN Tenute(t) \cup {f} |->
                             IF g = f THEN Ts[f] + FinestraFirma ELSE Tenute(t)[g]],
             accettate' = accettate \cup {f}
      PROVE  Inv'
  <2>1. FirmeInv'
    <3> HIDE DEF f, t
    <3>1. DOMAIN scadenza' = DOMAIN Tenute(t) \cup {f}
      BY <1>6
    <3>2. \A g \in DOMAIN scadenza' : scadenza'[g] = Ts[g] + FinestraFirma
      BY <1>1, <1>6, TenuteBene
    <3>3. DOMAIN scadenza' \subseteq Firme
      BY <1>1, <3>1, TenuteBene DEF Inv, FirmeInv
    <3>4. scadenza' \in [DOMAIN scadenza' -> Int]
      <4>1. \A g \in DOMAIN scadenza' : scadenza'[g] \in Int
        BY <3>2, <3>3
      <4>2. scadenza' = [g \in DOMAIN scadenza' |-> scadenza'[g]]
        BY <1>6, <3>1, Zenon
      <4> QED
        BY <4>1, <4>2, Zenon
    <3>5. \A g \in accettate' : g \in DOMAIN scadenza' \/ ora' > Ts[g] + FinestraFirma
      BY <1>1, <1>6, <3>1, TenuteBene DEF Inv, FirmeInv
    <3> QED
      BY <1>1, <1>6, <3>2, <3>3, <3>4, <3>5 DEF Inv, FirmeInv
  <2>2. [Vuota EXCEPT !.da = req[r].da] \in Req /\ [Vuota EXCEPT !.da = req[r].da].da = req[r].da
    BY <1>1 DEF Vuota, Req
  <2>3. RichiesteInv'
    BY <1>1, <1>6, <2>2, VaInv
  <2> QED
    BY <1>2, <1>4, <1>6, <2>1, <2>3 DEF Inv
<1> QED
  BY <1>3, <1>5, <1>6 DEF Verifica
-----------------------------------------------------------------------------
(* The memory of the copies. *)
VistoTipo(p) ==
    /\ p.indirizzo \in Indirizzi \cup {Nessuno} /\ p.ultimo \in 0 .. ora
    /\ p.cambi \in Seq(0 .. ora)

LEMMA VistoPulitoTipo ==
    ASSUME Inv
    PROVE  VistoTipo(VistoPulito(ora))
<1>1. VistoTipo(visto) /\ VistoTipo(Assente)
  BY DEF Inv, OraInv, CopieInv, VistoTipo, Assente
<1> QED
  BY <1>1 DEF VistoPulito

LEMMA BattitoTipo ==
    ASSUME ora \in Nat, NEW p, VistoTipo(p), NEW da \in Indirizzi
    PROVE  VistoTipo(DopoBattito(p, da, ora))
<1>1. CASE p = Assente
  BY <1>1 DEF DopoBattito, VistoTipo
<1>2. CASE p # Assente
  <2> DEFINE c == IF Cambio(p, da, ora) THEN Append(p.cambi, ora) ELSE p.cambi
  <2>1. c \in Seq(0 .. ora)
    <3>1. p.cambi \in Seq(0 .. ora) /\ ora \in 0 .. ora
      BY DEF VistoTipo
    <3>2. Append(p.cambi, ora) \in Seq(0 .. ora)
      BY <3>1, AppendProperties
    <3> QED
      BY <3>1, <3>2
  <2>2. Recenti(c, ora) \in Seq(0 .. ora)
    <3> HIDE DEF c
    <3> QED
      BY <2>1, RecentiSeq
  <2>3. DopoBattito(p, da, ora) = [indirizzo |-> da, ultimo |-> ora, cambi |-> Recenti(c, ora)]
    BY <1>2 DEF DopoBattito
  <2> HIDE DEF c
  <2> QED
    BY <2>2, <2>3 DEF VistoTipo
<1> QED
  BY <1>1, <1>2

(* A cleaning of the warnings forgets one that is old enough. *)
LEMMA AvvisiPulitiBene ==
    ASSUME Inv
    PROVE  \/ AvvisiPuliti(ora) = avvisi
           \/ AvvisiPuliti(ora) = Nessuno /\ avvisi # Nessuno /\ ora - avvisi >= AvvisoCopie
BY DEF AvvisiPuliti

(* After a cleaning, or a warning that is due. *)
LEMMA AvvisiPulitiInv ==
    ASSUME Inv, UNCHANGED <<ora, avvisato>>, avvisi' = AvvisiPuliti(ora)
    PROVE  AvvisiInv'
BY AvvisiPulitiBene DEF Inv, AvvisiInv

LEMMA AvvisoDovuto ==
    ASSUME Inv, NEW p, DaAvvisare(p, AvvisiPuliti(ora), ora), avvisato # Nessuno
    PROVE  ora >= avvisato + AvvisoCopie
<1>1. ora \in Nat /\ avvisato \in Nat /\ AvvisoCopie \in Nat
  BY DEF Inv, OraInv, AvvisiInv
<1> QED
  BY <1>1, AvvisiPulitiBene DEF DaAvvisare, Inv, AvvisiInv

LEMMA SegnaInv ==
    ASSUME Inv, NEW r \in Richieste, Segna(r)
    PROVE  Inv'
<1> DEFINE p == DopoBattito(VistoPulito(ora), req[r].da, ora)
           a == AvvisiPuliti(ora)
<1>1. /\ UNCHANGED <<ora, chiave, scadenza, accettate>> /\ ora \in Nat /\ ora \in 0 .. ora
      /\ RichiesteInv /\ req[r].da \in Indirizzi /\ Finisce(r)
  BY DEF Segna, Inv, OraInv, RichiesteInv
<1>2. RichiesteInv'
  BY <1>1, FinisceInv
<1>3. FirmeInv'
  BY <1>1 DEF Inv, FirmeInv
<1>4. OraInv'
  <2>1. pulita' = Segnata("copie", PuliziaCopie, ora)
    BY DEF Segna
  <2> QED
    BY <1>1, <2>1, SegnataBene DEF Inv, OraInv
<1>5. CopieInv'
  <2>1. VistoTipo(p)
    BY <1>1, VistoPulitoTipo, BattitoTipo
  <2>2. visto' = p /\ storia' = Append(storia, [ora |-> ora, da |-> req[r].da])
    BY DEF Segna
  <2> HIDE DEF p
  <2>3. storia' \in Seq([ora : 0 .. ora, da : Indirizzi])
    BY <1>1, <2>2 DEF Inv, CopieInv
  <2> QED
    BY <1>1, <2>1, <2>2, <2>3 DEF CopieInv, VistoTipo
<1>6. AvvisiInv'
  <2>1. CASE avvisi' = ora /\ avvisato' = ora
    BY <1>1, <2>1 DEF AvvisiInv
  <2>2. CASE avvisi' = a /\ UNCHANGED avvisato
    BY <1>1, <2>2, AvvisiPulitiInv
  <2> QED
    BY <2>1, <2>2 DEF Segna
<1> QED
  BY <1>2, <1>3, <1>4, <1>5, <1>6 DEF Inv

LEMMA PossibileCopiaInv ==
    ASSUME Inv, PossibileCopia
    PROVE  Inv'
<1>1. Recenti(visto.cambi, ora) \in Seq(0 .. ora)
  BY RecentiSeq DEF Inv, CopieInv
<1>2. /\ visto'.indirizzo \in Indirizzi \cup {Nessuno} /\ visto'.ultimo \in 0 .. ora
      /\ visto'.cambi \in Seq(0 .. ora)
  <2>1. visto' = [visto EXCEPT !.cambi = Recenti(visto.cambi, ora)]
    BY DEF PossibileCopia
  <2>2. visto'.indirizzo = visto.indirizzo /\ visto'.ultimo = visto.ultimo
    BY <2>1
  <2>3. visto'.cambi = Recenti(visto.cambi, ora) \/ visto'.cambi = visto.cambi
    BY <2>1
  <2> QED
    BY <1>1, <2>2, <2>3 DEF Inv, CopieInv
<1>3. UNCHANGED <<ora, chiave, scadenza, pulita, avvisi, pc, req, accettate, avvisato, storia>>
  BY DEF PossibileCopia
<1>4. CopieInv'
  BY <1>2, <1>3 DEF Inv, CopieInv
<1>5. OraInv' /\ RichiesteInv' /\ FirmeInv' /\ AvvisiInv'
  BY <1>3 DEF Inv, OraInv, RichiesteInv, Req, FirmeInv, AvvisiInv
<1> QED
  BY <1>4, <1>5 DEF Inv

LEMMA AltroPcInv ==
    ASSUME Inv, AltroPc
    PROVE  Inv'
<1>1. UNCHANGED <<ora, chiave, pc, req, accettate, avvisato, storia>> /\ ora \in Nat /\ ora \in 0 .. ora
  BY DEF AltroPc, Inv, OraInv
<1>2. RichiesteInv'
  BY <1>1 DEF Inv, RichiesteInv, Req
<1>3. FirmeInv'
  <2>1. scadenza' = Tenute(ora)
    BY DEF AltroPc
  <2> QED
    BY <1>1, <2>1, TenuteBene DEF Inv, FirmeInv
<1>4. AvvisiInv'
  BY <1>1, AvvisiPulitiInv DEF AltroPc
<1>5. CopieInv'
  BY <1>1, VistoPulitoTipo DEF AltroPc, Inv, CopieInv, VistoTipo
<1>6. OraInv'
  <2>1. pulita' = [m \in {"firme", "copie"} |->
                      IF m = "firme" THEN Segnata("firme", PuliziaFirme, ora)[m]
                      ELSE Segnata("copie", PuliziaCopie, ora)[m]]
    BY DEF AltroPc
  <2>2. /\ Segnata("firme", PuliziaFirme, ora)["firme"] \in Avvio .. ora
        /\ Segnata("copie", PuliziaCopie, ora)["copie"] \in Avvio .. ora
    BY <1>1, SegnataBene
  <2>3. pulita' \in [{"firme", "copie"} -> Avvio .. ora]
    BY <2>1, <2>2
  <2> QED
    BY <1>1, <2>3 DEF Inv, OraInv
<1> QED
  BY <1>2, <1>3, <1>4, <1>5, <1>6 DEF Inv

(* Time only goes on. *)
LEMMA ScorreInv ==
    ASSUME Inv, Scorre
    PROVE  Inv'
<1>1. /\ UNCHANGED <<chiave, scadenza, pulita, visto, avvisi, pc, req, accettate, avvisato, storia>>
      /\ ora \in Nat /\ ora' = ora + 1 /\ ora < MaxOra
  BY DEF Scorre, Inv, OraInv
<1>2. 0 .. ora \subseteq 0 .. ora'
  BY <1>1
<1>3. OraInv'
  BY <1>1 DEF Inv, OraInv, Avvio
<1>4. RichiesteInv'
  BY <1>1, <1>2 DEF Inv, RichiesteInv, Req
<1>5. FirmeInv'
  BY <1>1 DEF Inv, FirmeInv
<1>6. AvvisiInv'
  BY <1>1, <1>2 DEF Inv, AvvisiInv
<1>7. CopieInv'
  <2>1. visto.cambi \in Seq(0 .. ora')
    BY <1>2, SeqMonotonic DEF Inv, CopieInv
  <2> DEFINE S == [ora : 0 .. ora, da : Indirizzi]
             T == [ora : 0 .. ora', da : Indirizzi]
  <2>2. S \subseteq T /\ storia \in Seq(S)
    BY <1>2 DEF Inv, CopieInv
  <2> HIDE DEF S, T
  <2>3. storia \in Seq(T)
    BY <2>2, SeqMonotonic
  <2> USE DEF T
  <2> QED
    BY <1>1, <1>2, <2>1, <2>3 DEF Inv, CopieInv
<1> QED
  BY <1>3, <1>4, <1>5, <1>6, <1>7 DEF Inv

(* The process starts again: what it has accepted and written is forgotten too. *)
LEMMA RiavviaInv ==
    ASSUME Inv, Riavvia
    PROVE  Inv'
<1>1. OraInv'
  BY DEF Inv, OraInv, Riavvia, Avvio
<1>2. RichiesteInv'
  BY DEF Riavvia, RichiesteInv, Req, Vuota, Inv, OraInv
<1>3. FirmeInv'
  <2>1. scadenza' = <<>> /\ accettate' = {} /\ DOMAIN <<>> = {}
    BY DEF Riavvia
  <2>2. scadenza' \in [DOMAIN scadenza' -> Int]
    BY <2>1
  <2> QED
    BY <2>1, <2>2 DEF FirmeInv
<1>4. AvvisiInv'
  BY DEF Riavvia, AvvisiInv
<1>5. CopieInv'
  BY DEF Riavvia, CopieInv, Assente, Inv, OraInv
<1> QED
  BY <1>1, <1>2, <1>3, <1>4, <1>5 DEF Inv

LEMMA NextInv == Inv /\ [Next]_vars => Inv'
<1> SUFFICES ASSUME Inv, [Next]_vars PROVE Inv'
  OBVIOUS
<1>1. CASE UNCHANGED vars
  BY <1>1 DEF vars, Inv, OraInv, RichiesteInv, Req, FirmeInv, AvvisiInv, CopieInv
<1>2. ASSUME NEW r \in Richieste, Passo(r) PROVE Inv'
  BY <1>2, HeartbeatInv, VerificaInv, SegnaInv DEF Passo
<1>3. CASE PossibileCopia \/ AltroPc \/ Scorre \/ Riavvia
  BY <1>3, PossibileCopiaInv, AltroPcInv, ScorreInv, RiavviaInv
<1> QED
  BY <1>1, <1>2, <1>3 DEF Next

LEMMA SempreInv == Spec => []Inv
BY InizioInv, NextInv, PTL DEF Spec
-----------------------------------------------------------------------------
(* Every variable keeps its type. *)
THEOREM TypeCorrect == Spec => []TypeOK
BY SempreInv, InvTypeOK, PTL

(* A process accepts a signature a second time only when the clock is past its window:
   the cleanings, even those of requests that had read the clock before, never forget one
   that would still be in time. *)
THEOREM FirmaSempreUnaVolta == Spec => FirmaUnaVolta
<1> DEFINE Passetto == \A r \in Richieste :
               /\ pc[r] = "verifica" /\ pc'[r] = "segna" /\ req[r].firma \in accettate
               => ora > Ts[req[r].firma] + FinestraFirma
<1>1. Inv /\ [Next]_vars => [Passetto]_vars
  <2> SUFFICES ASSUME Inv, Next, NEW r \in Richieste, pc[r] = "verifica", pc'[r] = "segna",
                      req[r].firma \in accettate
               PROVE  ora > Ts[req[r].firma] + FinestraFirma
    OBVIOUS
  <2>1. pc \in [Richieste -> {"libera", "verifica", "segna"}] /\ req[r].ora \in 0 .. ora
    BY DEF Inv, RichiesteInv, Req
  <2>2. CASE PossibileCopia \/ AltroPc \/ Scorre \/ Riavvia
    BY <2>2 DEF PossibileCopia, AltroPc, Scorre, Riavvia
  <2>3. ASSUME NEW s \in Richieste, Passo(s)
        PROVE  ora > Ts[req[r].firma] + FinestraFirma
    <3>1. s = r
      BY <2>1, <2>3 DEF Passo, Heartbeat, Verifica, Segna, Finisce, Va
    <3>2. Verifica(r)
      BY <2>3, <3>1 DEF Passo, Heartbeat, Segna
    <3>3. ~Finisce(r)
      BY <2>1 DEF Finisce, Va
    <3>4. InTempo(req[r].firma, req[r].ora) /\ ~Ripetuta(req[r].firma, req[r].ora)
      BY <3>2, <3>3 DEF Verifica
    <3> QED
      BY <2>1, <3>4, VerificaNuova
  <2> QED
    BY <2>2, <2>3 DEF Next
<1> QED
  BY <1>1, SempreInv, PTL DEF Spec, FirmaUnaVolta

(* Two warnings of one PC are AvvisoCopie apart, whatever the cleanings between them. *)
THEOREM AvvisoSempreRaro == Spec => AvvisoRaro
<1> DEFINE Passetto == avvisato' \notin {avvisato, Nessuno} /\ avvisato # Nessuno
                          => avvisato' >= avvisato + AvvisoCopie
<1>1. Inv /\ [Next]_vars => [Passetto]_vars
  <2> SUFFICES ASSUME Inv, Next, avvisato' \notin {avvisato, Nessuno}, avvisato # Nessuno
               PROVE  avvisato' >= avvisato + AvvisoCopie
    OBVIOUS
  <2>1. PICK r \in Richieste : Segna(r)
    BY DEF Next, Passo, Heartbeat, Verifica, PossibileCopia, AltroPc, Scorre, Riavvia
  <2> DEFINE p == DopoBattito(VistoPulito(ora), req[r].da, ora)
  <2>2. DaAvvisare(p, AvvisiPuliti(ora), ora) /\ avvisato' = ora
    BY <2>1 DEF Segna
  <2> HIDE DEF p
  <2> QED
    BY <2>2, AvvisoDovuto
<1> QED
  BY <1>1, SempreInv, PTL DEF Spec, AvvisoRaro

-----------------------------------------------------------------------------
(* The changes of address of a history, however old. *)
Tutti(st) ==
    {k \in 2 .. Len(st) : st[k].da # st[k - 1].da /\ st[k].ora - st[k - 1].ora < CambioCopie}

Cronologica(st) == \A i, j \in 1 .. Len(st) : i <= j => st[i].ora <= st[j].ora

Ordinata(c) == \A i, j \in 1 .. Len(c) : i <= j => c[i] <= c[j]

(* The times in c are those of changes of the history st, each once, and a change
   that is not there is out of the window at t. *)
Conta(c, st, t) ==
    \E f \in [1 .. Len(c) -> Tutti(st)] :
        /\ \A i, j \in 1 .. Len(c) : f[i] = f[j] => i = j
        /\ \A i \in 1 .. Len(c) : c[i] = st[f[i]].ora
        /\ \A k \in Tutti(st) : (\E i \in 1 .. Len(c) : f[i] = k) \/ t - st[k].ora >= FinestraCopie

(* The memory of the copies knows the last heartbeat and the changes still in the
   window; when it has forgotten the PC, the last heartbeat is out of it. *)
CambiInv ==
    /\ visto = [indirizzo |-> visto.indirizzo, ultimo |-> visto.ultimo, cambi |-> visto.cambi]
    /\ Cronologica(storia) /\ Ordinata(visto.cambi) /\ Conta(visto.cambi, storia, ora)
    /\ visto = Assente => storia = <<>> \/ ora - storia[Len(storia)].ora >= FinestraCopie
    /\ visto # Assente => /\ storia # <<>>
                          /\ visto.indirizzo = storia[Len(storia)].da
                          /\ visto.ultimo = storia[Len(storia)].ora

(* A set of numbers with all those below each of its own is an interval. *)
LEMMA Iniziale ==
    ASSUME NEW L \in Nat, NEW T \in SUBSET (1 .. L), \A i \in T : \A j \in 1 .. i : j \in T
    PROVE  /\ Cardinality(T) \in 0 .. L
           /\ T = 1 .. Cardinality(T)
<1>1. \A l \in Nat : IsFiniteSet(1 .. l) /\ Cardinality(1 .. l) = l
  <2> SUFFICES ASSUME NEW l \in Nat PROVE IsFiniteSet(1 .. l) /\ Cardinality(1 .. l) = l
    OBVIOUS
  <2>1. 1 \in Int /\ l \in Int
    OBVIOUS
  <2>2. IsFiniteSet(1 .. l) /\ Cardinality(1 .. l) = IF 1 > l THEN 0 ELSE l - 1 + 1
    BY <2>1, FS_Interval, Zenon
  <2> QED
    BY <2>2
<1>2. IsFiniteSet(T) /\ Cardinality(T) \in Nat /\ Cardinality(T) <= L
  <2>1. IsFiniteSet(T) /\ Cardinality(T) <= Cardinality(1 .. L)
    BY <1>1, FS_Subset
  <2> QED
    BY <1>1, <2>1, FS_CardinalityType
<1> DEFINE n == Cardinality(T)
<1>3. \A i \in T : i <= n
  <2> SUFFICES ASSUME NEW i \in T PROVE i <= n
    OBVIOUS
  <2>1. i \in Nat /\ 1 .. i \in SUBSET T
    OBVIOUS
  <2>2. Cardinality(1 .. i) <= Cardinality(T)
    BY <1>2, <2>1, FS_Subset
  <2> QED
    BY <1>1, <2>1, <2>2
<1>4. n \in Nat /\ IsFiniteSet(1 .. n) /\ Cardinality(1 .. n) = Cardinality(T)
  BY <1>1, <1>2
<1>5. T \in SUBSET (1 .. n)
  BY <1>3, <1>4
<1>6. T = 1 .. n
  BY <1>4, <1>5, FS_Subset
<1> QED
  BY <1>2, <1>6

(* Of times in order, recenti takes away exactly those out of the window. *)
LEMMA RecentiForma ==
    ASSUME NEW c \in Seq(Nat), Ordinata(c), NEW t \in Nat
    PROVE  \E n \in 0 .. Len(c) :
             /\ Len(Recenti(c, t)) = Len(c) - n
             /\ \A i \in 1 .. Len(c) - n : Recenti(c, t)[i] = c[n + i]
             /\ \A i \in 1 .. n : t - c[i] >= FinestraCopie
             /\ \A i \in n + 1 .. Len(c) : t - c[i] < FinestraCopie
<1> DEFINE L == Len(c)
           vecchio(i) == t - c[i] >= FinestraCopie
           tolti == {i \in DOMAIN c : \A j \in 1 .. i : vecchio(j)}
           n == Cardinality(tolti)
<1>1. DOMAIN c = 1 .. L /\ L \in Nat /\ \A i \in 1 .. L : c[i] \in Nat
  OBVIOUS
<1>2. tolti \in SUBSET (1 .. L) /\ \A i \in tolti : \A j \in 1 .. i : j \in tolti
  <2>1. \A i \in 1 .. L : \A j \in 1 .. i : j \in 1 .. L /\ \A k \in 1 .. j : k \in 1 .. i
    BY <1>1
  <2> QED
    BY <1>1, <2>1
<1>3. n \in 0 .. L /\ tolti = 1 .. n
  <2> HIDE DEF tolti
  <2> QED
    BY <1>1, <1>2, Iniziale
<1>4. \A i \in 1 .. n : vecchio(i)
  <2>1. \A i \in tolti : i \in 1 .. i /\ vecchio(i)
    BY <1>1
  <2> QED
    BY <1>3, <2>1
<1>5. \A i \in n + 1 .. L : t - c[i] < FinestraCopie
  <2> HIDE DEF n
  <2> SUFFICES ASSUME NEW i \in n + 1 .. L, ~(t - c[i] < FinestraCopie) PROVE FALSE
    OBVIOUS
  <2>1. i \in 1 .. L /\ i > n
    BY <1>1, <1>3
  <2>2. ASSUME NEW j \in 1 .. i
        PROVE  vecchio(j)
    <3>1. j \in 1 .. L /\ j <= i
      BY <1>1, <2>1
    <3>2. c[j] <= c[i]
      BY <2>1, <3>1 DEF Ordinata
    <3>3. c[j] \in Nat /\ c[i] \in Nat /\ FinestraCopie \in Nat
      BY <1>1, <2>1, <3>1
    <3>4. \A x, y \in Nat : y <= x /\ ~(t - x < FinestraCopie) => t - y >= FinestraCopie
      OBVIOUS
    <3> QED
      BY <3>2, <3>3, <3>4
  <2>3. i \in tolti
    BY <1>1, <2>1, <2>2
  <2> HIDE DEF tolti
  <2> QED
    BY <1>3, <2>1, <2>3
<1>6. Recenti(c, t) = SubSeq(c, n + 1, L)
  BY DEF Recenti
<1> HIDE DEF n
<1>7. \A i \in n + 1 .. L : c[i] \in Nat
  BY <1>1, <1>3
<1>8. /\ Len(SubSeq(c, n + 1, L)) = IF n + 1 <= L THEN L - (n + 1) + 1 ELSE 0
      /\ \A i \in 1 .. L - (n + 1) + 1 : SubSeq(c, n + 1, L)[i] = c[n + 1 + i - 1]
  BY <1>1, <1>3, <1>7, SubSeqProperties
<1> HIDE DEF tolti, L
<1>9. Len(Recenti(c, t)) = L - n
  <2>1. n \in Int /\ L \in Int /\ n <= L
    BY <1>1, <1>3
  <2> QED
    BY <1>6, <1>8, <2>1
<1>10. \A i \in 1 .. L - n : Recenti(c, t)[i] = c[n + i]
  <2> SUFFICES ASSUME NEW i \in 1 .. L - n PROVE Recenti(c, t)[i] = c[n + i]
    OBVIOUS
  <2>1. i \in 1 .. L - (n + 1) + 1 /\ n + 1 + i - 1 = n + i
    BY <1>1, <1>3
  <2> QED
    BY <1>6, <1>8, <2>1
<1> QED
  BY <1>3, <1>4, <1>5, <1>9, <1>10 DEF L

(* What recenti takes away no longer counts. *)
LEMMA ContaRecenti ==
    ASSUME NEW c \in Seq(Nat), Ordinata(c), NEW t \in Nat, NEW st, Conta(c, st, t),
           NEW d, d = Recenti(c, t)
    PROVE  /\ Conta(d, st, t) /\ Ordinata(d)
           /\ Len(d) \in Nat /\ \A i \in 1 .. Len(d) : t - d[i] < FinestraCopie
<1>1. PICK n \in 0 .. Len(c) :
             /\ Len(d) = Len(c) - n
             /\ \A i \in 1 .. Len(c) - n : d[i] = c[n + i]
             /\ \A i \in 1 .. n : t - c[i] >= FinestraCopie
             /\ \A i \in n + 1 .. Len(c) : t - c[i] < FinestraCopie
  BY RecentiForma
<1>2. PICK f \in [1 .. Len(c) -> Tutti(st)] :
        /\ \A i, j \in 1 .. Len(c) : f[i] = f[j] => i = j
        /\ \A i \in 1 .. Len(c) : c[i] = st[f[i]].ora
        /\ \A k \in Tutti(st) : (\E i \in 1 .. Len(c) : f[i] = k) \/ t - st[k].ora >= FinestraCopie
  BY DEF Conta
<1> DEFINE L == Len(c)
           M == Len(d)
           g == [i \in 1 .. M |-> f[n + i]]
<1>3. L \in Nat /\ n \in Nat /\ n <= L /\ M = L - n /\ M \in Nat
  BY <1>1
<1>4. \A i \in 1 .. M : n + i \in 1 .. L /\ n + i \in n + 1 .. L /\ d[i] = c[n + i]
  <2> SUFFICES ASSUME NEW i \in 1 .. M
               PROVE  n + i \in 1 .. L /\ n + i \in n + 1 .. L /\ d[i] = c[n + i]
    OBVIOUS
  <2>1. n + i \in 1 .. L /\ n + i \in n + 1 .. L /\ i \in 1 .. L - n
    BY <1>3
  <2> QED
    BY <1>1, <2>1
<1> HIDE DEF L, M
<1>5. g \in [1 .. M -> Tutti(st)]
  BY <1>2, <1>4 DEF L
<1>6. \A i \in 1 .. M : d[i] = st[g[i]].ora /\ g[i] = f[n + i]
  BY <1>2, <1>4 DEF L
<1>7. \A i, j \in 1 .. M : g[i] = g[j] => i = j
  <2> SUFFICES ASSUME NEW i \in 1 .. M, NEW j \in 1 .. M, g[i] = g[j] PROVE i = j
    OBVIOUS
  <2>1. n + i = n + j
    BY <1>2, <1>4, <1>6 DEF L
  <2> QED
    BY <1>3, <2>1
<1>8. ASSUME NEW k \in Tutti(st), ~(t - st[k].ora >= FinestraCopie)
      PROVE  \E i \in 1 .. M : g[i] = k
  <2>1. PICK j \in 1 .. L : f[j] = k
    BY <1>2, <1>8 DEF L
  <2>2. c[j] = st[k].ora
    BY <1>2, <2>1 DEF L
  <2>3. ~(j \in 1 .. n)
    BY <1>1, <1>8, <2>2
  <2>4. j - n \in 1 .. M /\ n + (j - n) = j
    BY <1>3, <2>1, <2>3
  <2>5. g[j - n] = k
    BY <1>6, <2>1, <2>4
  <2> QED
    BY <2>4, <2>5
<1> HIDE DEF g
<1>9. Conta(d, st, t)
  BY <1>5, <1>6, <1>7, <1>8 DEF Conta, M
<1>10. Ordinata(d)
  <2> SUFFICES ASSUME NEW i \in 1 .. M, NEW j \in 1 .. M, i <= j PROVE d[i] <= d[j]
    BY DEF Ordinata, M
  <2>1. n + i \in 1 .. L /\ n + j \in 1 .. L /\ n + i <= n + j /\ d[i] = c[n + i] /\ d[j] = c[n + j]
    BY <1>3, <1>4
  <2>2. c[n + i] <= c[n + j]
    BY <2>1 DEF Ordinata, L
  <2> QED
    BY <2>1, <2>2
<1>11. \A i \in 1 .. M : t - d[i] < FinestraCopie
  BY <1>1, <1>4 DEF L
<1> QED
  BY <1>3, <1>9, <1>10, <1>11 DEF M

(* The count of the panel is the count on the history. *)
LEMMA ContaEsatta ==
    ASSUME visto.cambi \in Seq(Nat), ora \in Nat, Ordinata(visto.cambi), Conta(visto.cambi, storia, ora),
           \A k \in 1 .. Len(storia) : storia[k].ora \in Nat
    PROVE  CopiaEsatta
<1> DEFINE d == Recenti(visto.cambi, ora)
<1>1. /\ Conta(d, storia, ora) /\ Len(d) \in Nat
      /\ \A i \in 1 .. Len(d) : ora - d[i] < FinestraCopie
  BY ContaRecenti
<1> DEFINE M == Len(d)
<1>2. PICK f \in [1 .. M -> Tutti(storia)] :
        /\ \A i, j \in 1 .. M : f[i] = f[j] => i = j
        /\ \A i \in 1 .. M : d[i] = storia[f[i]].ora
        /\ \A k \in Tutti(storia) : (\E i \in 1 .. M : f[i] = k) \/ ora - storia[k].ora >= FinestraCopie
  BY <1>1 DEF Conta
<1> HIDE DEF d
<1> HIDE DEF M
<1>3. \A k : k \in Cambi(ora) <=> k \in Tutti(storia) /\ ora - storia[k].ora < FinestraCopie
  BY DEF Cambi, Tutti
<1>4. \A i \in 1 .. M : f[i] \in Cambi(ora)
  <2> SUFFICES ASSUME NEW i \in 1 .. M PROVE f[i] \in Cambi(ora)
    OBVIOUS
  <2>1. f[i] \in Tutti(storia) /\ ora - storia[f[i]].ora < FinestraCopie
    BY <1>1, <1>2 DEF M
  <2> QED
    BY <1>3, <2>1
<1>5. \A k \in Cambi(ora) : \E i \in 1 .. M : f[i] = k
  <2> SUFFICES ASSUME NEW k \in Cambi(ora) PROVE \E i \in 1 .. M : f[i] = k
    OBVIOUS
  <2>1. k \in Tutti(storia) /\ ora - storia[k].ora < FinestraCopie
    BY <1>3
  <2>2. storia[k].ora \in Nat /\ FinestraCopie \in Nat
    BY <2>1 DEF Tutti
  <2>3. ~(ora - storia[k].ora >= FinestraCopie)
    BY <2>1, <2>2
  <2> QED
    BY <1>2, <2>1, <2>3
<1>6. f \in [1 .. M -> Cambi(ora)]
  BY <1>2, <1>4
<1>7. f \in Bijection(1 .. M, Cambi(ora))
  BY <1>2, <1>5, <1>6 DEF Bijection, Injection, Surjection, IsInjective
<1>8. M \in Nat
  BY <1>1 DEF M
<1>9. IsFiniteSet(1 .. M) /\ Cardinality(1 .. M) = M
  <2>1. 1 \in Int /\ M \in Int
    BY <1>8
  <2>2. IsFiniteSet(1 .. M) /\ Cardinality(1 .. M) = IF 1 > M THEN 0 ELSE M - 1 + 1
    BY <2>1, FS_Interval, Zenon
  <2> QED
    BY <1>8, <2>2
<1>10. Cardinality(Cambi(ora)) = M
  <2>1. ExistsBijection(1 .. M, Cambi(ora))
    BY <1>7 DEF ExistsBijection
  <2> QED
    BY <1>9, <2>1, FS_Bijection
<1> QED
  BY <1>10 DEF CopiaEsatta, Copia, M, d

-----------------------------------------------------------------------------
Storie == Seq([ora : Nat, da : Indirizzi])

LEMMA StorieTipo ==
    ASSUME NEW st \in Storie
    PROVE  Len(st) \in Nat /\ \A k \in 1 .. Len(st) : st[k].ora \in Nat /\ st[k].da \in Indirizzi
<1> DEFINE S == [ora : Nat, da : Indirizzi]
<1>1. \A x \in S : x.ora \in Nat /\ x.da \in Indirizzi
  OBVIOUS
<1> HIDE DEF S
<1>2. st \in Seq(S)
  BY DEF Storie, S
<1>3. Len(st) \in Nat /\ \A k \in 1 .. Len(st) : st[k] \in S
  BY <1>2
<1> QED
  BY <1>1, <1>3

(* One more heartbeat is a change or not: the others stay what they were. *)
LEMMA TuttiDopo ==
    ASSUME NEW st \in Storie, NEW e \in [ora : Nat, da : Indirizzi], NEW s2, s2 = Append(st, e)
    PROVE  /\ Len(s2) = Len(st) + 1 /\ Len(st) \in Nat
           /\ s2[Len(st) + 1] = e /\ \A k \in 1 .. Len(st) : s2[k] = st[k]
           /\ \A k : k \in Tutti(s2) <=>
                 \/ k \in Tutti(st)
                 \/ /\ k = Len(st) + 1 /\ st # <<>>
                    /\ e.da # st[Len(st)].da /\ e.ora - st[Len(st)].ora < CambioCopie
<1> DEFINE L == Len(st)
<1>1. /\ Len(s2) = L + 1 /\ L \in Nat /\ s2[L + 1] = e /\ \A k \in 1 .. L : s2[k] = st[k]
  BY AppendProperties DEF Storie
<1>2. st # <<>> <=> L >= 1
  BY EmptySeq DEF Storie
<1> HIDE DEF L
<1>3. ASSUME NEW k \in 2 .. L
      PROVE  k \in Tutti(s2) <=> k \in Tutti(st)
  <2>1. k \in 1 .. L /\ k - 1 \in 1 .. L /\ k \in 2 .. L + 1
    BY <1>1
  <2>2. s2[k] = st[k] /\ s2[k - 1] = st[k - 1]
    BY <1>1, <2>1
  <2> QED
    BY <1>1, <2>1, <2>2 DEF Tutti, L
<1>4. L + 1 \in Tutti(s2) <=> /\ st # <<>>
                              /\ e.da # st[L].da /\ e.ora - st[L].ora < CambioCopie
  <2>1. CASE L = 0
    <3>1. L + 1 \notin 2 .. L + 1
      BY <2>1
    <3> QED
      BY <1>1, <1>2, <2>1, <3>1 DEF Tutti
  <2>2. CASE L # 0
    <3>1. L \in 1 .. L /\ L + 1 \in 2 .. L + 1 /\ (L + 1) - 1 = L /\ L >= 1
      BY <1>1, <2>2
    <3>2. s2[(L + 1) - 1] = st[L] /\ s2[L + 1] = e
      BY <1>1, <3>1
    <3> QED
      BY <1>1, <1>2, <3>1, <3>2 DEF Tutti
  <2> QED
    BY <2>1, <2>2
<1>5. \A k : k \in Tutti(s2) => k \in 2 .. L \/ k = L + 1
  <2>1. \A k \in 2 .. L + 1 : k \in 2 .. L \/ k = L + 1
    BY <1>1
  <2> QED
    BY <1>1, <2>1 DEF Tutti
<1>6. \A k : k \in Tutti(st) => k \in 2 .. L
  BY DEF Tutti, L
<1>7. \A k : k \in Tutti(s2) <=> \/ k \in Tutti(st)
                                 \/ /\ k = L + 1 /\ st # <<>>
                                    /\ e.da # st[L].da /\ e.ora - st[L].ora < CambioCopie
  <2> SUFFICES ASSUME NEW k
               PROVE  k \in Tutti(s2) <=> \/ k \in Tutti(st)
                                          \/ /\ k = L + 1 /\ st # <<>>
                                             /\ e.da # st[L].da /\ e.ora - st[L].ora < CambioCopie
    OBVIOUS
  <2>1. CASE k \in 2 .. L
    <3>1. k # L + 1
      BY <1>1, <2>1
    <3> QED
      BY <1>3, <2>1, <3>1
  <2>2. CASE k = L + 1
    <3>1. k \notin 2 .. L
      BY <1>1, <2>2
    <3> QED
      BY <1>4, <1>6, <2>2, <3>1
  <2>3. CASE k \notin 2 .. L /\ k # L + 1
    BY <1>5, <1>6, <2>3
  <2> QED
    BY <2>1, <2>2, <2>3
<1> QED
  BY <1>1, <1>7 DEF L

(* What is out of the window stays out of it. *)
LEMMA ContaTempo ==
    ASSUME NEW st \in Storie, NEW c, NEW t \in Nat, NEW u \in Nat, t <= u, Conta(c, st, t)
    PROVE  Conta(c, st, u)
<1>1. \A k \in Tutti(st) : t - st[k].ora >= FinestraCopie => u - st[k].ora >= FinestraCopie
  <2> SUFFICES ASSUME NEW k \in Tutti(st), t - st[k].ora >= FinestraCopie
               PROVE  u - st[k].ora >= FinestraCopie
    OBVIOUS
  <2>1. k \in 1 .. Len(st)
    BY DEF Tutti
  <2>2. st[k].ora \in Nat
    BY <2>1, StorieTipo
  <2> QED
    BY <2>2
<1> QED
  BY <1>1, Zenon DEF Conta

(* When the last heartbeat is out of the window, so is every change. *)
LEMMA FuoriFinestra ==
    ASSUME NEW st \in Storie, Cronologica(st), NEW t \in Nat,
           st = <<>> \/ t - st[Len(st)].ora >= FinestraCopie
    PROVE  \A k \in Tutti(st) : t - st[k].ora >= FinestraCopie
<1> SUFFICES ASSUME NEW k \in Tutti(st) PROVE t - st[k].ora >= FinestraCopie
  OBVIOUS
<1>1. k \in 1 .. Len(st) /\ Len(st) \in 1 .. Len(st) /\ k <= Len(st)
  BY StorieTipo DEF Tutti
<1>2. st[k].ora \in Nat /\ st[Len(st)].ora \in Nat
  BY <1>1, StorieTipo
<1>3. st[k].ora <= st[Len(st)].ora
  BY <1>1 DEF Cronologica
<1>4. st # <<>>
  BY <1>1
<1> QED
  BY <1>2, <1>3, <1>4

LEMMA CronologicaDopo ==
    ASSUME NEW st \in Storie, Cronologica(st), NEW e \in [ora : Nat, da : Indirizzi],
           \A k \in 1 .. Len(st) : st[k].ora <= e.ora
    PROVE  Cronologica(Append(st, e))
<1> DEFINE s2 == Append(st, e)
           L == Len(st)
<1>1. Len(s2) = L + 1 /\ L \in Nat /\ s2[L + 1] = e /\ \A k \in 1 .. L : s2[k] = st[k]
  BY TuttiDopo
<1> HIDE DEF s2, L
<1> SUFFICES ASSUME NEW i \in 1 .. L + 1, NEW j \in 1 .. L + 1, i <= j
             PROVE  s2[i].ora <= s2[j].ora
  BY <1>1 DEF Cronologica, s2
<1>2. e.ora \in Nat
  OBVIOUS
<1>3. CASE j \in 1 .. L
  <2>1. i \in 1 .. L
    BY <1>1, <1>3
  <2> QED
    BY <1>1, <1>3, <2>1 DEF Cronologica, L
<1>4. CASE j = L + 1 /\ i \in 1 .. L
  BY <1>1, <1>4 DEF L
<1>5. CASE j = L + 1 /\ i = L + 1
  BY <1>1, <1>2, <1>5
<1> QED
  BY <1>1, <1>3, <1>4, <1>5

(* One more change is told, and one heartbeat that is not a change is not. *)
LEMMA ContaDopo ==
    ASSUME NEW st \in Storie, NEW e \in [ora : Nat, da : Indirizzi], NEW s2, s2 = Append(st, e),
           NEW c \in Seq(Nat), Conta(c, st, e.ora), NEW d,
           IF Len(st) + 1 \in Tutti(s2) THEN d = Append(c, e.ora) ELSE d = c
    PROVE  Conta(d, s2, e.ora)
<1> DEFINE L == Len(st)
           M == Len(c)
<1>1. /\ Len(s2) = L + 1 /\ L \in Nat /\ s2[L + 1] = e /\ \A k \in 1 .. L : s2[k] = st[k]
      /\ \A k : k \in Tutti(s2) <=> k \in Tutti(st) \/ (k = L + 1 /\ L + 1 \in Tutti(s2))
  <2>1. L + 1 \notin Tutti(st)
    <3>1. L \in Nat
      BY TuttiDopo
    <3>2. L + 1 \notin 2 .. L
      BY <3>1
    <3> QED
      BY <3>2 DEF Tutti
  <2>2. Len(s2) = L + 1 /\ L \in Nat /\ s2[L + 1] = e /\ \A k \in 1 .. L : s2[k] = st[k]
    BY TuttiDopo
  <2>3. \A k : k \in Tutti(s2) => k \in Tutti(st) \/ k = L + 1
    BY TuttiDopo
  <2>4. \A k : k \in Tutti(st) => k \in Tutti(s2)
    BY TuttiDopo
  <2> HIDE DEF L
  <2> QED
    BY <2>1, <2>2, <2>3, <2>4, Zenon
<1>2. \A k \in Tutti(st) : k \in 1 .. L /\ s2[k] = st[k] /\ k # L + 1 /\ k \in Tutti(s2)
  <2> SUFFICES ASSUME NEW k \in Tutti(st)
               PROVE  k \in 1 .. L /\ s2[k] = st[k] /\ k # L + 1 /\ k \in Tutti(s2)
    OBVIOUS
  <2>1. k \in 2 .. L
    BY DEF Tutti
  <2>2. k \in 1 .. L /\ k # L + 1
    BY <1>1, <2>1
  <2> QED
    BY <1>1, <2>2
<1>3. PICK f \in [1 .. M -> Tutti(st)] :
        /\ \A i, j \in 1 .. M : f[i] = f[j] => i = j
        /\ \A i \in 1 .. M : c[i] = st[f[i]].ora
        /\ \A k \in Tutti(st) : (\E i \in 1 .. M : f[i] = k) \/ e.ora - st[k].ora >= FinestraCopie
  BY DEF Conta
<1>4. M \in Nat
  OBVIOUS
<1> HIDE DEF L
<1>5. CASE L + 1 \notin Tutti(s2)
  <2>1. d = c
    BY <1>5 DEF L
  <2>2. f \in [1 .. M -> Tutti(s2)] /\ \A i \in 1 .. M : c[i] = s2[f[i]].ora
    BY <1>2, <1>3
  <2>3. \A k \in Tutti(s2) : (\E i \in 1 .. M : f[i] = k) \/ e.ora - s2[k].ora >= FinestraCopie
    BY <1>1, <1>2, <1>3, <1>5
  <2> QED
    <3>1. Conta(c, s2, e.ora)
      BY <1>3, <2>2, <2>3 DEF Conta
    <3> QED
      BY <2>1, <3>1
<1>6. CASE L + 1 \in Tutti(s2)
  <2> DEFINE g == [i \in 1 .. M + 1 |-> IF i = M + 1 THEN L + 1 ELSE f[i]]
  <2>1. d = Append(c, e.ora)
    BY <1>6 DEF L
  <2>2. Len(d) = M + 1 /\ d[M + 1] = e.ora /\ \A i \in 1 .. M : d[i] = c[i]
    <3>1. e.ora \in Nat
      OBVIOUS
    <3> QED
      BY <2>1, <3>1, AppendProperties
  <2> HIDE DEF M
  <2>3. /\ g[M + 1] = L + 1 /\ \A i \in 1 .. M : g[i] = f[i]
        /\ \A i \in 1 .. M + 1 : i \in 1 .. M \/ i = M + 1
    <3>1. M + 1 \in 1 .. M + 1
      BY <1>4
    <3>2. \A i \in 1 .. M : i \in 1 .. M + 1 /\ i # M + 1
      BY <1>4
    <3>3. \A i \in 1 .. M + 1 : i \in 1 .. M \/ i = M + 1
      BY <1>4
    <3>4. g[M + 1] = L + 1
      BY <3>1
    <3>5. \A i \in 1 .. M : g[i] = f[i]
      BY <3>2
    <3> QED
      BY <3>3, <3>4, <3>5
  <2>4. g \in [1 .. M + 1 -> Tutti(s2)]
    <3>1. \A i \in 1 .. M + 1 : g[i] \in Tutti(s2)
      BY <1>2, <1>3, <1>6, <2>3
    <3> QED
      BY <3>1
  <2> HIDE DEF g
  <2>5. \A i, j \in 1 .. M + 1 : g[i] = g[j] => i = j
    <3> SUFFICES ASSUME NEW i \in 1 .. M + 1, NEW j \in 1 .. M + 1, g[i] = g[j] PROVE i = j
      OBVIOUS
    <3>1. \A k \in 1 .. M : f[k] # L + 1
      BY <1>2, <1>3
    <3> QED
      BY <1>3, <2>3, <3>1
  <2>6. \A i \in 1 .. M + 1 : d[i] = s2[g[i]].ora
    <3> SUFFICES ASSUME NEW i \in 1 .. M + 1 PROVE d[i] = s2[g[i]].ora
      OBVIOUS
    <3>1. CASE i = M + 1
      BY <1>1, <2>2, <2>3, <3>1
    <3>2. CASE i \in 1 .. M
      <4>1. d[i] = st[f[i]].ora
        BY <1>3, <2>2, <3>2
      <4>2. s2[f[i]] = st[f[i]] /\ g[i] = f[i]
        BY <1>2, <1>3, <2>3, <3>2
      <4> QED
        BY <4>1, <4>2
    <3> QED
      BY <2>3, <3>1, <3>2
  <2>7. ASSUME NEW k \in Tutti(s2)
        PROVE  (\E i \in 1 .. M + 1 : g[i] = k) \/ e.ora - s2[k].ora >= FinestraCopie
    <3>1. CASE k = L + 1
      <4>1. M + 1 \in 1 .. M + 1
        BY <1>4
      <4> QED
        BY <2>3, <3>1, <4>1
    <3>2. CASE k \in Tutti(st)
      <4>1. s2[k] = st[k]
        BY <1>2, <3>2
      <4>2. CASE \E i \in 1 .. M : f[i] = k
        <5>1. PICK i \in 1 .. M : f[i] = k
          BY <4>2
        <5>2. i \in 1 .. M + 1 /\ g[i] = k
          BY <1>4, <2>3, <5>1
        <5> QED
          BY <5>2
      <4> QED
        BY <1>3, <3>2, <4>1, <4>2
    <3> QED
      BY <1>1, <3>1, <3>2
  <2> QED
    <3>1. Len(d) = M + 1
      BY <2>2
    <3>2. /\ g \in [1 .. Len(d) -> Tutti(s2)]
          /\ \A i, j \in 1 .. Len(d) : g[i] = g[j] => i = j
          /\ \A i \in 1 .. Len(d) : d[i] = s2[g[i]].ora
          /\ \A k \in Tutti(s2) : (\E i \in 1 .. Len(d) : g[i] = k) \/ e.ora - s2[k].ora >= FinestraCopie
      BY <2>4, <2>5, <2>6, <2>7, <3>1
    <3> QED
      BY <3>2, Zenon DEF Conta
<1> QED
  BY <1>5, <1>6
-----------------------------------------------------------------------------
(* The types of what the memory of the copies holds, without the clock. *)
LEMMA CopieTipo ==
    ASSUME Inv
    PROVE  /\ storia \in Storie /\ visto.cambi \in Seq(Nat) /\ visto.ultimo \in Nat /\ ora \in Nat
           /\ \A k \in 1 .. Len(storia) : storia[k].ora <= ora
<1>1. ora \in Nat /\ 0 .. ora \subseteq Nat /\ FinestraCopie \in Nat
  BY DEF Inv, OraInv
<1>2. visto.cambi \in Seq(Nat)
  BY <1>1, SeqMonotonic DEF Inv, CopieInv
<1> DEFINE S == [ora : 0 .. ora, da : Indirizzi]
           T == [ora : Nat, da : Indirizzi]
<1>3. S \subseteq T /\ storia \in Seq(S) /\ \A x \in S : x.ora <= ora
  BY <1>1 DEF Inv, CopieInv
<1> HIDE DEF S, T
<1>4. storia \in Seq(T) /\ \A k \in 1 .. Len(storia) : storia[k] \in S
  BY <1>3, SeqMonotonic
<1>5. storia \in Storie
  BY <1>4 DEF Storie, T
<1> QED
  BY <1>1, <1>2, <1>3, <1>4, <1>5 DEF Inv, CopieInv

(* An empty memory, of a PC whose history is empty or out of the window. *)
LEMMA ContaVuota ==
    ASSUME NEW st, NEW t, \A k \in Tutti(st) : t - st[k].ora >= FinestraCopie
    PROVE  Conta(<<>>, st, t) /\ Ordinata(<<>>)
<1>1. Len(<<>>) = 0 /\ 1 .. 0 = {}
  OBVIOUS
<1> DEFINE f == [i \in 1 .. 0 |-> i]
<1>2. f \in [1 .. 0 -> Tutti(st)]
  BY <1>1
<1> HIDE DEF f
<1>3. Conta(<<>>, st, t)
  BY <1>1, <1>2 DEF Conta
<1> QED
  BY <1>1, <1>3 DEF Ordinata

LEMMA RecentiVuota ==
    ASSUME NEW c, c = <<>>, NEW t \in Nat
    PROVE  Recenti(c, t) = <<>>
<1>1. c \in Seq(Nat) /\ Len(c) = 0
  OBVIOUS
<1>2. Ordinata(c)
  BY <1>1 DEF Ordinata
<1>3. Recenti(c, t) \in Seq(Nat)
  BY <1>1, RecentiSeq
<1> DEFINE d == Recenti(c, t)
<1>4. \E n \in 0 .. Len(c) : Len(d) = Len(c) - n
  <2>1. \E n \in 0 .. Len(c) :
             /\ Len(Recenti(c, t)) = Len(c) - n
             /\ \A i \in 1 .. Len(c) - n : Recenti(c, t)[i] = c[n + i]
             /\ \A i \in 1 .. n : t - c[i] >= FinestraCopie
             /\ \A i \in n + 1 .. Len(c) : t - c[i] < FinestraCopie
    BY <1>1, <1>2, RecentiForma, Zenon
  <2> QED
    BY <2>1
<1> HIDE DEF d
<1>5. Len(d) = 0
  BY <1>1, <1>4
<1>6. d = <<>>
  BY <1>3, <1>5, EmptySeq DEF d
<1> QED
  BY <1>6 DEF d

LEMMA VuotiCambi == visto = Assente /\ storia = <<>> => CambiInv
<1> SUFFICES ASSUME visto = Assente, storia = <<>> PROVE CambiInv
  OBVIOUS
<1>1. Tutti(storia) = {}
  BY DEF Tutti
<1>2. Conta(visto.cambi, storia, ora) /\ Ordinata(visto.cambi)
  BY <1>1, ContaVuota DEF Assente
<1>3. Cronologica(storia)
  BY DEF Cronologica
<1> QED
  BY <1>2, <1>3 DEF CambiInv, Assente

LEMMA VuotiCambiDopo == (visto = Assente /\ storia = <<>>)' => CambiInv'
BY VuotiCambi, PTL

(* A cleaning forgets a PC only when its last heartbeat is out of the window. *)
LEMMA VistoPulitoCambi ==
    ASSUME Inv, CambiInv, VistoPulito(ora) = Assente
    PROVE  storia = <<>> \/ ora - storia[Len(storia)].ora >= FinestraCopie
BY DEF VistoPulito, CambiInv

LEMMA HeartbeatCambi ==
    ASSUME CambiInv, UNCHANGED <<ora, visto, storia>>
    PROVE  CambiInv'
BY DEF CambiInv

LEMMA AltroPcCambi ==
    ASSUME Inv, CambiInv, AltroPc
    PROVE  CambiInv'
<1>1. UNCHANGED <<ora, storia>> /\ visto' = VistoPulito(ora)
  BY DEF AltroPc
<1>2. CASE visto' = visto
  BY <1>1, <1>2, HeartbeatCambi
<1>3. CASE visto' = Assente
  <2>1. storia = <<>> \/ ora - storia[Len(storia)].ora >= FinestraCopie
    BY <1>1, <1>3, VistoPulitoCambi
  <2>2. \A k \in Tutti(storia) : ora - storia[k].ora >= FinestraCopie
    BY <2>1, CopieTipo, FuoriFinestra DEF CambiInv
  <2>3. Conta(<<>>, storia, ora) /\ Ordinata(<<>>)
    BY <2>2, ContaVuota
  <2>4. visto'.cambi = <<>> /\ Cronologica(storia)
    BY <1>3 DEF Assente, CambiInv
  <2>5. Cronologica(storia)' /\ Conta(visto.cambi, storia, ora)' /\ Ordinata(visto.cambi)'
    BY <1>1, <2>3, <2>4
  <2> QED
    BY <1>1, <1>3, <2>1, <2>5 DEF CambiInv, Assente
<1> QED
  BY <1>1, <1>2, <1>3 DEF VistoPulito

(* A page of the list throws away only what no longer counts. *)
LEMMA PossibileCopiaCambi ==
    ASSUME Inv, CambiInv, PossibileCopia
    PROVE  CambiInv'
<1> DEFINE d == Recenti(visto.cambi, ora)
<1>1. UNCHANGED <<ora, storia>> /\ visto' = [visto EXCEPT !.cambi = d]
  BY DEF PossibileCopia
<1>2. Conta(d, storia, ora) /\ Ordinata(d)
  BY CopieTipo, ContaRecenti DEF CambiInv
<1>3. visto = Assente => d = <<>>
  <2> SUFFICES ASSUME visto = Assente PROVE d = <<>>
    OBVIOUS
  <2>1. visto.cambi = <<>> /\ ora \in Nat
    BY CopieTipo DEF Assente
  <2> QED
    BY <2>1, RecentiVuota
<1> HIDE DEF d
<1>4. visto = [indirizzo |-> visto.indirizzo, ultimo |-> visto.ultimo, cambi |-> visto.cambi]
  BY DEF CambiInv
<1>5. visto' = [indirizzo |-> visto.indirizzo, ultimo |-> visto.ultimo, cambi |-> d]
  BY <1>1, <1>4
<1>6. visto'.indirizzo = visto.indirizzo /\ visto'.ultimo = visto.ultimo /\ visto'.cambi = d
  BY <1>5
<1>7. visto' = Assente <=> visto = Assente
  <2>1. ASSUME visto = Assente PROVE visto' = Assente
    BY <1>3, <1>5, <2>1 DEF Assente
  <2>2. ASSUME visto' = Assente PROVE visto = Assente
    <3>1. visto.indirizzo = Nessuno
      BY <1>6, <2>2 DEF Assente
    <3>2. visto # Assente => visto.indirizzo = storia[Len(storia)].da /\ storia # <<>>
      BY DEF CambiInv
    <3>3. storia # <<>> => storia[Len(storia)].da \in Indirizzi
      <4> SUFFICES ASSUME storia # <<>> PROVE storia[Len(storia)].da \in Indirizzi
        OBVIOUS
      <4>1. storia \in Storie /\ Len(storia) \in Nat
        BY CopieTipo, StorieTipo
      <4>2. Len(storia) # 0
        BY <4>1, EmptySeq DEF Storie
      <4>3. Len(storia) \in 1 .. Len(storia)
        BY <4>1, <4>2
      <4> QED
        BY <4>1, <4>3, StorieTipo
    <3> QED
      BY <3>1, <3>2, <3>3
  <2> QED
    BY <2>1, <2>2
<1>8. Cronologica(storia)' /\ Conta(visto.cambi, storia, ora)' /\ Ordinata(visto.cambi)'
  BY <1>1, <1>2, <1>6 DEF CambiInv
<1> QED
  BY <1>1, <1>5, <1>6, <1>7, <1>8 DEF CambiInv

LEMMA ScorreCambi ==
    ASSUME Inv, CambiInv, Scorre
    PROVE  CambiInv'
<1>1. UNCHANGED <<visto, storia>> /\ ora' = ora + 1 /\ ora \in Nat
  BY CopieTipo DEF Scorre
<1>2. storia \in Storie /\ ora + 1 \in Nat /\ ora <= ora + 1
  BY <1>1, CopieTipo
<1>3. Conta(visto.cambi, storia, ora + 1)
  BY <1>1, <1>2, ContaTempo DEF CambiInv
<1>4. visto = Assente => storia = <<>> \/ (ora + 1) - storia[Len(storia)].ora >= FinestraCopie
  <2> SUFFICES ASSUME visto = Assente, storia # <<>>
               PROVE  (ora + 1) - storia[Len(storia)].ora >= FinestraCopie
    OBVIOUS
  <2>1. ora - storia[Len(storia)].ora >= FinestraCopie
    BY DEF CambiInv
  <2>2. Len(storia) \in 1 .. Len(storia)
    <3>1. Len(storia) # 0 /\ Len(storia) \in Nat
      BY <1>2, EmptySeq, StorieTipo DEF Storie
    <3> QED
      BY <3>1
  <2>3. storia[Len(storia)].ora \in Nat
    BY <1>2, <2>2, StorieTipo
  <2> QED
    BY <1>1, <2>1, <2>3
<1>5. Cronologica(storia)' /\ Conta(visto.cambi, storia, ora)' /\ Ordinata(visto.cambi)'
  BY <1>1, <1>3 DEF CambiInv
<1> QED
  BY <1>1, <1>4, <1>5 DEF CambiInv

(* A heartbeat: the memory tells the change exactly when it is one, also after it has
   forgotten the PC. *)
LEMMA SegnaCambi ==
    ASSUME Inv, CambiInv, NEW r \in Richieste, Segna(r)
    PROVE  CambiInv'
<1> DEFINE v == VistoPulito(ora)
           e == [ora |-> ora, da |-> req[r].da]
           L == Len(storia)
<1>1. UNCHANGED ora /\ visto' = DopoBattito(v, req[r].da, ora) /\ storia' = Append(storia, e)
  BY DEF Segna
<1>2. /\ req[r].da \in Indirizzi /\ ora \in Nat /\ storia \in Storie /\ L \in Nat
      /\ visto.cambi \in Seq(Nat) /\ visto.ultimo \in Nat
      /\ \A k \in 1 .. L : storia[k].ora <= ora /\ storia[k].ora \in Nat
      /\ CambioCopie <= FinestraCopie /\ CambioCopie \in Nat /\ FinestraCopie \in Nat
  BY CopieTipo, StorieTipo DEF Segna, Inv, RichiesteInv
<1>3. e \in [ora : Nat, da : Indirizzi] /\ e.ora = ora /\ e.da = req[r].da
  BY <1>2
<1>4. v \in {Assente, visto}
  BY DEF VistoPulito
<1>5. v = Assente => storia = <<>> \/ ora - storia[L].ora >= FinestraCopie
  BY VistoPulitoCambi
<1>6. v # Assente => /\ v = visto /\ storia # <<>>
                     /\ v.indirizzo = storia[L].da /\ v.ultimo = storia[L].ora
  BY <1>4 DEF CambiInv
<1> HIDE DEF v
<1> HIDE DEF e
<1>7. /\ Len(storia') = L + 1 /\ storia'[L + 1] = e
      /\ \A k : k \in Tutti(storia') <=>
            \/ k \in Tutti(storia)
            \/ /\ k = L + 1 /\ storia # <<>>
               /\ e.da # storia[L].da /\ e.ora - storia[L].ora < CambioCopie
  <2>1. storia \in Storie /\ e \in [ora : Nat, da : Indirizzi] /\ storia' = Append(storia, e)
    BY <1>1, <1>2, <1>3
  <2>2. Len(storia') = L + 1 /\ storia'[L + 1] = e
    BY <2>1, TuttiDopo
  <2>3. \A k : k \in Tutti(storia') <=>
            \/ k \in Tutti(storia)
            \/ /\ k = L + 1 /\ storia # <<>>
               /\ e.da # storia[L].da /\ e.ora - storia[L].ora < CambioCopie
    BY <2>1, TuttiDopo
  <2> QED
    BY <2>2, <2>3
<1>8. storia # <<>> => L \in 1 .. L
  <2> SUFFICES ASSUME storia # <<>> PROVE L \in 1 .. L
    OBVIOUS
  <2>1. L # 0
    BY <1>2, EmptySeq DEF Storie
  <2> HIDE DEF L
  <2> QED
    BY <1>2, <2>1
<1>9. Cronologica(storia')
  BY <1>1, <1>2, <1>3, CronologicaDopo DEF CambiInv
<1>10. storia' # <<>>
  BY <1>2, <1>7
<1>11. visto' = [indirizzo |-> req[r].da, ultimo |-> ora, cambi |-> visto'.cambi]
  BY <1>1 DEF DopoBattito
<1>12. visto'.indirizzo = e.da /\ visto'.ultimo = e.ora
  BY <1>3, <1>11
<1>13. visto' # Assente
  BY <1>2, <1>11 DEF Assente
<1>14. Conta(visto'.cambi, storia', ora) /\ Ordinata(visto'.cambi)
  <2>1. CASE v = Assente
    <3>1. visto'.cambi = <<>>
      BY <1>1, <2>1 DEF DopoBattito
    <3>2. \A k \in Tutti(storia) : ora - storia[k].ora >= FinestraCopie
      BY <1>2, <1>5, <2>1, FuoriFinestra DEF CambiInv
    <3>3. L + 1 \notin Tutti(storia')
      <4> SUFFICES ASSUME L + 1 \in Tutti(storia') PROVE FALSE
        OBVIOUS
      <4>1. L + 1 \notin Tutti(storia)
        <5>1. L + 1 \notin 2 .. L
          BY <1>2
        <5> QED
          BY <5>1 DEF Tutti
      <4>2. storia # <<>> /\ ora - storia[L].ora < CambioCopie
        BY <1>3, <1>7, <4>1
      <4>3. storia[L].ora \in Nat
        BY <1>2, <1>8, <4>2
      <4> QED
        BY <1>2, <1>5, <2>1, <4>2, <4>3
    <3>4. \A k \in Tutti(storia') : ora - storia'[k].ora >= FinestraCopie
      <4> SUFFICES ASSUME NEW k \in Tutti(storia') PROVE ora - storia'[k].ora >= FinestraCopie
        OBVIOUS
      <4>1. k \in Tutti(storia)
        BY <1>7, <3>3
      <4>2. k \in 1 .. L
        BY <4>1 DEF Tutti
      <4>3. storia'[k] = storia[k]
        BY <1>1, <1>2, <1>3, <4>2, TuttiDopo
      <4> QED
        BY <3>2, <4>1, <4>3
    <3> QED
      BY <3>1, <3>4, ContaVuota
  <2>2. CASE v # Assente
    <3> DEFINE c == IF Cambio(v, req[r].da, ora) THEN Append(v.cambi, ora) ELSE v.cambi
    <3>1. visto'.cambi = Recenti(c, ora)
      BY <1>1, <2>2 DEF DopoBattito
    <3>2. Cambio(v, req[r].da, ora) <=> L + 1 \in Tutti(storia')
      <4>1. L + 1 \notin Tutti(storia)
        <5>1. L + 1 \notin 2 .. L
          BY <1>2
        <5> QED
          BY <5>1 DEF Tutti
      <4> QED
        BY <1>3, <1>6, <1>7, <2>2, <4>1 DEF Cambio
    <3>3. /\ v.cambi \in Seq(Nat) /\ Conta(v.cambi, storia, ora) /\ Ordinata(v.cambi)
      BY <1>2, <1>6, <2>2 DEF CambiInv
    <3>4. Conta(c, storia', ora)
      <4>1. IF L + 1 \in Tutti(storia') THEN c = Append(v.cambi, ora) ELSE c = v.cambi
        BY <3>2
      <4> HIDE DEF c
      <4> QED
        BY <1>1, <1>2, <1>3, <3>3, <4>1, ContaDopo
    <3>5. c \in Seq(Nat)
      BY <1>2, <3>3, AppendProperties
    <3>6. Ordinata(c)
      <4>1. CASE c = v.cambi
        BY <3>3, <4>1
      <4>2. CASE c = Append(v.cambi, ora)
        <5> DEFINE M == Len(v.cambi)
        <5>1. M \in Nat /\ Len(c) = M + 1 /\ c[M + 1] = ora /\ \A i \in 1 .. M : c[i] = v.cambi[i]
          BY <1>2, <3>3, <4>2, AppendProperties
        <5>2. \A i \in 1 .. M : v.cambi[i] <= ora
          <6> SUFFICES ASSUME NEW i \in 1 .. M PROVE v.cambi[i] <= ora
            OBVIOUS
          <6>1. v.cambi \in Seq(0 .. ora)
            BY <1>6, <2>2 DEF Inv, CopieInv
          <6>2. v.cambi[i] \in 0 .. ora
            BY <6>1, ElementOfSeq
          <6> QED
            BY <1>2, <6>2
        <5> HIDE DEF M, c
        <5> SUFFICES ASSUME NEW i \in 1 .. M + 1, NEW j \in 1 .. M + 1, i <= j PROVE c[i] <= c[j]
          BY <5>1 DEF Ordinata
        <5>3. CASE j \in 1 .. M
          <6>1. i \in 1 .. M
            BY <5>1, <5>3
          <6> QED
            BY <3>3, <5>1, <5>3, <6>1 DEF Ordinata, M
        <5>4. CASE j = M + 1 /\ i \in 1 .. M
          BY <5>1, <5>2, <5>4
        <5>5. CASE j = M + 1 /\ i = M + 1
          BY <1>2, <5>1, <5>5
        <5> QED
          BY <5>1, <5>3, <5>4, <5>5
      <4> QED
        BY <4>1, <4>2
    <3> HIDE DEF c
    <3> QED
      BY <1>2, <3>1, <3>4, <3>5, <3>6, ContaRecenti
  <2> QED
    BY <2>1, <2>2
<1>15. /\ Cronologica(storia)' /\ Ordinata(visto.cambi)' /\ Conta(visto.cambi, storia, ora)'
  BY <1>1, <1>9, <1>14
<1>16. storia'[Len(storia')] = e
  BY <1>7
<1> HIDE DEF L
<1>17. visto' = [indirizzo |-> visto'.indirizzo, ultimo |-> visto'.ultimo, cambi |-> visto'.cambi]
  BY <1>3, <1>11, <1>12
<1> QED
  BY <1>10, <1>12, <1>13, <1>15, <1>16, <1>17 DEF CambiInv

LEMMA NextCambi == Inv /\ CambiInv /\ [Next]_vars => CambiInv'
<1> SUFFICES ASSUME Inv, CambiInv, [Next]_vars PROVE CambiInv'
  OBVIOUS
<1>1. CASE UNCHANGED vars
  BY <1>1, HeartbeatCambi DEF vars
<1>2. ASSUME NEW r \in Richieste, Passo(r) PROVE CambiInv'
  <2>1. CASE Segna(r)
    BY <2>1, SegnaCambi
  <2>2. CASE ~Segna(r)
    <3>1. UNCHANGED <<ora, visto, storia>>
      BY <1>2, <2>2 DEF Passo, Heartbeat, Verifica
    <3> QED
      BY <3>1, HeartbeatCambi
  <2> QED
    BY <2>1, <2>2
<1>3. CASE Riavvia
  <2>1. visto' = Assente /\ storia' = <<>>
    BY <1>3 DEF Riavvia
  <2>2. Assente' = Assente
    BY DEF Assente
  <2> QED
    BY <2>1, <2>2, VuotiCambiDopo
<1>4. CASE PossibileCopia \/ AltroPc \/ Scorre
  BY <1>4, PossibileCopiaCambi, AltroPcCambi, ScorreCambi
<1> QED
  BY <1>1, <1>2, <1>3, <1>4 DEF Next

LEMMA SempreCambi == Spec => [](Inv /\ CambiInv)
<1>1. Init => Inv /\ CambiInv
  BY InizioInv, VuotiCambi DEF Init
<1>2. Inv /\ CambiInv /\ [Next]_vars => (Inv /\ CambiInv)'
  BY NextInv, NextCambi
<1> QED
  BY <1>1, <1>2, PTL DEF Spec

(* The panel marks a PC exactly when its heartbeats say so: neither the cleanings that
   forget a PC nor the lists that throw old changes away make it count one change more or
   less than the rule on the whole history. *)
THEOREM CopiaSempreEsatta == Spec => []CopiaEsatta
<1>1. Inv /\ CambiInv => CopiaEsatta
  BY CopieTipo, StorieTipo, ContaEsatta DEF CambiInv
<1> QED
  BY <1>1, SempreCambi, PTL
===============================================================================
