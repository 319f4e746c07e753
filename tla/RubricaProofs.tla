----------------------------- MODULE RubricaProofs -----------------------------
(***************************************************************************)
(* Theorems of module Rubrica: for any number of requests, users, groups,  *)
(* entries, tags, collections and rules.                                   *)
(***************************************************************************)
EXTENDS Rubrica, FiniteSetTheorems, TLAPS

USE RubricaAssumption

Passi == {"libera", "collezione", "persona", "gruppo", "leggi", "scrivi", "tag", "inserisci",
          "salva", "cancella", "tieni", "regola", "sue", "regole", "regoleGruppo",
          "proprietario", "conta", "registra"}

Operazioni == Api \cup {"nessuna", "lascia", "tecnico"}

(* What a request may carry. *)
Richiesta ==
    [op : Operazioni, chi : Utenti \cup {Nessuno}, di : Utenti \cup {Nessuno},
     coll : 0 .. MaxColl, nome : Nomi \cup {Nessuno}, id : Nat, livello : 0 .. 3,
     verso : Verso \cup {Nessuno}, confine : SUBSET (Utenti \X (1 .. MaxColl))]

(* The types of the tables. *)
TipiTabelle ==
    /\ righe \subseteq Riga /\ collezioni \subseteq Collezione /\ regole \subseteq Regola
    /\ stato \in [Utenti -> {"attivo", "disattivo", "agente", "assente"}]
    /\ prossima \in [{"righe", "collezioni", "regole", "cambi"} -> Nat \ {0}]
    /\ prossima.regole <= MaxRegole + 1

(* What a request that has come to p must carry: what its next statement writes, and
   who asks and about whom. *)
Porta(p, q) ==
    /\ p \in {"inserisci", "salva"} => q.di \in Utenti /\ q.nome \in Nomi
    /\ p = "salva" => q.id \in 1 .. MaxRighe
    /\ p = "tieni" => q.di \in Utenti /\ q.coll # 0
    /\ p = "regola" => q.di \in Utenti /\ q.coll # 0 /\ q.verso \in Verso /\ q.id \in 0 .. MaxRegole
    /\ p = "tag" => q.chi \in Utenti /\ q.op = "nessuna"
    /\ p = "scrivi" => q.op \in Api
    /\ q.op \in Api \cup {"lascia"} => q.chi \in Utenti
    /\ q.op \in Api => q.di \in Utenti
    /\ p \in {"sue", "regole", "regoleGruppo", "proprietario", "conta"} => q.op = "lascia"
    /\ q.op = "aggiunge" => q.nome \in Nomi
    /\ q.op = "cambia" => q.id \in 1 .. MaxRighe

TipiRichieste ==
    /\ pc \in [Richieste -> Passi]
    /\ req \in [Richieste -> Richiesta]
    /\ \A r \in Richieste : Porta(pc[r], req[r])

Tipi == TipiTabelle /\ TipiRichieste

(* What a client's request that has come to p has seen: the collection is of the owner
   it names, and the level it has found is one that a rule gave it. *)
VistoApi(p, q, V) ==
    /\ p \in {"collezione", "persona", "gruppo", "leggi", "scrivi"}
    /\ q.coll = 0 => q.chi = q.di
    /\ q.coll # 0 /\ p # "collezione" => <<"collezione", q.di, q.coll>> \in V
    /\ p \in {"persona", "gruppo"} => q.chi # q.di
    /\ q.chi # q.di =>
        /\ p \in {"gruppo", "leggi"} => \A l \in 1 .. q.livello : <<"livello", q.chi, l>> \in V
        /\ p = "scrivi" => <<"livello", q.chi, Minimo(q.op)>> \in V
        /\ q.op = "toglie" => \A l \in 1 .. 3 : <<"livello", q.chi, l>> \in V

(* What NelConfine says of a pass that is about to be registered. *)
Confinato(q, V) ==
    \E u \in Utenti, coll \in 0 .. MaxColl :
        /\ <<"voce", u, coll>> \in V
        /\ (u = q.chi /\ coll = 0) \/ {<<"persona", u, 0>>, <<"regola", u, coll>>} \subseteq V

(* What the request of a pass has seen: the tecnico, the rules that share with it what is
   still to be looked at, and the owner of what it looks at. *)
VistoLascia(p, q, V) ==
    /\ p \in {"sue", "regole", "regoleGruppo", "proprietario", "conta", "registra"}
    /\ <<"utente", q.chi, 0>> \in V
    /\ \A c \in q.confine : c[1] # q.chi => <<"regola", c[1], c[2]>> \in V
    /\ p = "conta" =>
        /\ q.di \in Utenti /\ q.coll # 0
        /\ q.di # q.chi => {<<"persona", q.di, 0>>, <<"regola", q.di, q.coll>>} \subseteq V
    /\ p = "registra" => Confinato(q, V)

Visto(p, q, V) ==
    /\ q.op \in Api => VistoApi(p, q, V)
    /\ q.op = "lascia" => VistoLascia(p, q, V)

VistiInv ==
    /\ visti \in [Client -> SUBSET UNION {visti[r] : r \in Client}]
    /\ \A r \in Client : Fatti(r) \subseteq visti[r] /\ Visto(pc[r], req[r], visti[r])

RubricaInv == Tipi /\ VistiInv
-----------------------------------------------------------------------------
(* The invariant says what the two properties of the runs say. *)
LEMMA InvPermesso == RubricaInv => SoloConPermesso
<1> SUFFICES ASSUME RubricaInv, NEW r \in Client, pc[r] = "scrivi", req[r].op \in Api
             PROVE  /\ req[r].coll # 0 => <<"collezione", req[r].di, req[r].coll>> \in visti[r]
                    /\ req[r].chi # req[r].di =>
                         /\ req[r].coll # 0
                         /\ \E l \in 1 .. 3 : /\ <<"livello", req[r].chi, l>> \in visti[r]
                                              /\ req[r].op # "legge" => l >= 2
                                              /\ req[r].op = "toglie" => l = 3
  BY DEF SoloConPermesso, RubricaInv, Tipi, TipiRichieste, Porta, Richieste
<1>1. VistoApi(pc[r], req[r], visti[r])
  BY DEF RubricaInv, VistiInv, Visto
<1>2. Minimo(req[r].op) \in 1 .. 3
  BY DEF Minimo
<1> QED
  BY <1>1, <1>2 DEF VistoApi, Minimo

LEMMA InvConfine == RubricaInv => NelConfine
BY DEF RubricaInv, VistiInv, Visto, VistoLascia, Confinato, NelConfine
-----------------------------------------------------------------------------
(* The start. *)
LEMMA InizioInv == Init => RubricaInv
<1> SUFFICES ASSUME Init PROVE RubricaInv
  OBVIOUS
<1>1. TipiTabelle
  BY DEF Init, TipiTabelle
<1>2. Vuota \in Richiesta /\ Porta("libera", Vuota) /\ Vuota.op = "nessuna"
  BY DEF Vuota, Richiesta, Operazioni, Porta, Api
<1>3. Tipi
  BY <1>1, <1>2 DEF Init, Tipi, TipiRichieste, Passi
<1>4. ASSUME NEW r \in Client
      PROVE  Fatti(r) \subseteq visti[r] /\ Visto(pc[r], req[r], visti[r])
  BY <1>2 DEF Init, Fatti, Visto, Api, Richieste
<1>5. visti \in [Client -> SUBSET UNION {visti[r] : r \in Client}]
  BY DEF Init
<1> QED
  BY <1>3, <1>4, <1>5 DEF RubricaInv, VistiInv

(* A request that goes to its next step keeps the types, if it carries what that step
   wants and the tables have theirs. *)
LEMMA VaTipi ==
    ASSUME TipiRichieste, TipiTabelle', NEW r \in Richieste, NEW p \in Passi,
           NEW q \in Richiesta, Porta(p, q), Va(r, p, q)
    PROVE  Tipi'
BY DEF Tipi, TipiRichieste, Va

LEMMA LeggeTipi ==
    ASSUME Tipi, NEW r \in Richieste, NEW p \in Passi,
           NEW q \in Richiesta, Porta(p, q), Legge(r, p, q)
    PROVE  Tipi'
<1>1. TipiTabelle'
  BY DEF Tipi, Legge, dati, TipiTabelle
<1> QED
  BY <1>1, VaTipi DEF Tipi, Legge

LEMMA FinisceTipi ==
    ASSUME TipiRichieste, TipiTabelle', NEW r \in Richieste, Finisce(r)
    PROVE  Tipi'
<1>1. Vuota \in Richiesta /\ Porta("libera", Vuota) /\ "libera" \in Passi
  BY DEF Vuota, Richiesta, Operazioni, Porta, Api, Passi
<1> QED
  BY <1>1, VaTipi DEF Finisce

LEMMA AltroTipi ==
    ASSUME TipiRichieste, TipiTabelle', UNCHANGED <<pc, req>>
    PROVE  Tipi'
BY DEF Tipi, TipiRichieste
-----------------------------------------------------------------------------
(* What the writes do to the tables. *)
LEMMA InserisceTipi ==
    ASSUME TipiTabelle, NEW n \in Nomi, NEW di \in Utenti, NEW coll \in 0 .. MaxColl,
           InserisceRiga(n, di, coll), SoloRighe
    PROVE  TipiTabelle'
BY DEF TipiTabelle, InserisceRiga, SoloRighe, Riga

LEMMA RigheConTipi ==
    ASSUME TipiTabelle, NEW q, q.id \in 1 .. MaxRighe, q.nome \in Nomi, q.di \in Utenti,
           q.coll \in 0 .. MaxColl, righe' = RigheCon(q), SoloRighe, UNCHANGED prossima
    PROVE  TipiTabelle'
BY DEF TipiTabelle, RigheCon, SoloRighe, Riga

LEMMA RigheMenoTipi ==
    ASSUME TipiTabelle, righe' \subseteq righe, SoloRighe, UNCHANGED prossima
    PROVE  TipiTabelle'
BY DEF TipiTabelle, SoloRighe

LEMMA SincronizzaTipi ==
    ASSUME TipiTabelle, NEW u \in Utenti, NEW S, S \subseteq Pc \/ S \subseteq Tag, NEW via,
           Sincronizza(u, S, via)
    PROVE  TipiTabelle'
<1> DEFINE nomi == S \ {v.nome : v \in Personali(u)}
           n == Cardinality(nomi)
<1>1. IsFiniteSet(nomi) /\ nomi \subseteq Nomi
  BY FS_Subset DEF Nomi
<1>2. n \in Nat
  BY <1>1, FS_CardinalityType
<1>3. prossima.righe \in Nat \ {0} /\ prossima.righe + n <= MaxRighe + 1
  BY DEF TipiTabelle, Sincronizza
<1>4. PICK f \in [nomi -> prossima.righe .. prossima.righe + n - 1] :
         righe' = (righe \ via) \cup {[id |-> f[a], nome |-> a, di |-> u, coll |-> 0] : a \in nomi}
  BY DEF Sincronizza
<1>5. \A a \in nomi : f[a] \in 1 .. MaxRighe
  BY <1>2, <1>3
<1>6. righe' \subseteq Riga
  BY <1>1, <1>4, <1>5 DEF TipiTabelle, Riga
<1>7. prossima' = [prossima EXCEPT !.righe = @ + n] /\ SoloRighe
  BY DEF Sincronizza
<1> HIDE DEF nomi, n
<1> QED
  BY <1>2, <1>6, <1>7 DEF TipiTabelle, SoloRighe
-----------------------------------------------------------------------------
(* A step of r: where it goes it carries what is wanted there, and has seen what it
   should, counting what is true after the step. *)
Avanza(r) ==
    \E p \in Passi, q \in Richiesta :
        /\ Porta(p, q) /\ Va(r, p, q)
        /\ r \in Client => q = Vuota \/ Visto(p, q, visti[r] \cup Fatti(r)')

(* What a request has seen, it has seen also later. *)
LEMMA VistoResta ==
    ASSUME NEW p, NEW q, NEW V, NEW W, V \subseteq W, Visto(p, q, V)
    PROVE  Visto(p, q, W)
<1>1. VistoApi(p, q, V) => VistoApi(p, q, W)
  BY DEF VistoApi
<1>2. Confinato(q, V) => Confinato(q, W)
  BY DEF Confinato
<1>3. VistoLascia(p, q, V) => VistoLascia(p, q, W)
  BY <1>2 DEF VistoLascia
<1> QED
  BY <1>1, <1>3 DEF Visto

LEMMA VuotaBene == Vuota \in Richiesta /\ Porta("libera", Vuota) /\ Vuota.op = "nessuna" /\ "libera" \in Passi
BY DEF Vuota, Richiesta, Operazioni, Porta, Api, Passi

LEMMA FinisceAvanza ==
    ASSUME NEW r \in Richieste, Finisce(r)
    PROVE  Avanza(r)
BY VuotaBene DEF Finisce, Avanza

LEMMA LeggeAvanza ==
    ASSUME TipiTabelle, NEW r \in Richieste, NEW p \in Passi, NEW q \in Richiesta,
           Porta(p, q), r \in Client => Visto(p, q, visti[r]), Legge(r, p, q)
    PROVE  TipiTabelle' /\ Avanza(r)
<1>1. TipiTabelle'
  BY DEF Legge, dati, TipiTabelle
<1>2. r \in Client => Visto(p, q, visti[r] \cup Fatti(r)')
  BY VistoResta
<1> QED
  BY <1>1, <1>2 DEF Legge, Avanza

(* After a step of r everything is as the invariant says. *)
LEMMA PassoInv ==
    ASSUME RubricaInv, TipiTabelle', NEW r \in Richieste, Avanza(r),
           visti' = [s \in Client |-> IF req'[s] = Vuota THEN {} ELSE visti[s] \cup Fatti(s)']
    PROVE  RubricaInv'
<1> DEFINE V(s) == visti[s] \cup Fatti(s)'
<1>1. PICK p \in Passi, q \in Richiesta :
        /\ Porta(p, q) /\ Va(r, p, q)
        /\ r \in Client => q = Vuota \/ Visto(p, q, V(r))
  BY DEF Avanza
<1>2. pc \in [Richieste -> Passi] /\ req \in [Richieste -> Richiesta]
  BY DEF RubricaInv, Tipi, TipiRichieste
<1>3. Tipi'
  BY <1>1, VaTipi DEF RubricaInv, Tipi
<1>4. ASSUME NEW s \in Client
      PROVE  (Fatti(s) \subseteq visti[s])' /\ Visto(pc'[s], req'[s], visti'[s])
  <2>1. CASE req'[s] = Vuota
    BY <2>1, VuotaBene DEF Fatti, Visto, Api
  <2>2. CASE req'[s] # Vuota
    <3>1. visti'[s] = V(s)
      BY <2>2
    <3>2. Visto(pc'[s], req'[s], V(s))
      <4>1. CASE s = r
        BY <1>1, <1>2, <2>2, <4>1 DEF Va
      <4>2. CASE s # r
        <5>1. pc'[s] = pc[s] /\ req'[s] = req[s]
          BY <1>1, <1>2, <4>2 DEF Va, Richieste
        <5>2. Visto(pc[s], req[s], visti[s])
          BY DEF RubricaInv, VistiInv
        <5> QED
          BY <5>1, <5>2, VistoResta
      <4> QED
        BY <4>1, <4>2
    <3> QED
      BY <3>1, <3>2
  <2> QED
    BY <2>1, <2>2
<1>5. (visti \in [Client -> SUBSET UNION {visti[s] : s \in Client}])'
  OBVIOUS
<1> QED
  BY <1>3, <1>4, <1>5 DEF RubricaInv, VistiInv

(* A step of no request leaves them where they are. *)
LEMMA AltroInv ==
    ASSUME RubricaInv, TipiTabelle', UNCHANGED <<pc, req>>,
           visti' = [s \in Client |-> IF req'[s] = Vuota THEN {} ELSE visti[s] \cup Fatti(s)']
    PROVE  RubricaInv'
<1>1. Tipi'
  BY AltroTipi DEF RubricaInv, Tipi
<1>2. ASSUME NEW s \in Client
      PROVE  (Fatti(s) \subseteq visti[s])' /\ Visto(pc'[s], req'[s], visti'[s])
  <2>1. CASE req'[s] = Vuota
    BY <2>1, VuotaBene DEF Fatti, Visto, Api
  <2>2. CASE req'[s] # Vuota
    <3>1. visti'[s] = visti[s] \cup Fatti(s)'
      BY <2>2
    <3>2. Visto(pc[s], req[s], visti[s])
      BY DEF RubricaInv, VistiInv
    <3> QED
      BY <3>1, <3>2, VistoResta
  <2> QED
    BY <2>1, <2>2
<1>3. (visti \in [Client -> SUBSET UNION {visti[s] : s \in Client}])'
  OBVIOUS
<1> QED
  BY <1>1, <1>2, <1>3 DEF RubricaInv, VistiInv
-----------------------------------------------------------------------------
(* What the invariant says of a request. *)
LEMMA DiUna ==
    ASSUME RubricaInv, NEW r \in Richieste
    PROVE  /\ TipiTabelle
           /\ req[r] \in Richiesta /\ pc[r] \in Passi /\ Porta(pc[r], req[r])
           /\ r \in Client => Fatti(r) \subseteq visti[r] /\ Visto(pc[r], req[r], visti[r])
BY DEF RubricaInv, VistiInv, Tipi, TipiRichieste

(* The rules of w for a collection, and the level they give. *)
LEMMA LivelloDiRegola ==
    ASSUME TipiTabelle, NEW w, NEW coll
    PROVE  /\ LivelloPer(w, coll) \in 0 .. 3
           /\ LivelloPer(w, coll) # 0 =>
                \E x \in regole : x.verso = w /\ x.coll = coll /\ x.livello = LivelloPer(w, coll)
<1> DEFINE S == RuleInfoByToIdAndCid(w, coll)
<1>1. S \subseteq {x \in regole : x.verso = w /\ x.coll = coll}
  BY DEF RuleInfoByToIdAndCid, Prima
<1>2. CASE S = {}
  BY <1>2 DEF LivelloPer
<1>3. CASE S # {}
  <2>1. PICK x \in S : x = CHOOSE y \in S : TRUE
    BY <1>3
  <2>2. LivelloPer(w, coll) = x.livello
    BY <1>3, <2>1 DEF LivelloPer
  <2>3. x \in regole /\ x.verso = w /\ x.coll = coll /\ x \in Regola
    BY <1>1, <2>1 DEF TipiTabelle
  <2>4. x.livello \in 1 .. 3
    BY <2>3 DEF Regola
  <2> QED
    BY <2>2, <2>3, <2>4
<1> QED
  BY <1>2, <1>3

(* Each level that a rule for the user, or for its group, gives has been seen. *)
LEMMA LivelloVisto ==
    ASSUME RubricaInv, NEW r \in Client, req[r].op \in Api, req[r].chi # req[r].di,
           NEW w \in {req[r].chi, GruppoDi[req[r].chi]},
           NEW l \in 1 .. LivelloPer(w, req[r].coll)
    PROVE  <<"livello", req[r].chi, l>> \in visti[r]
<1>1. r \in Richieste /\ TipiTabelle
  BY DiUna DEF Richieste
<1>2. PICK x \in regole : x.verso = w /\ x.coll = req[r].coll /\ x.livello = LivelloPer(w, req[r].coll)
  BY <1>1, LivelloDiRegola
<1>3. LivelloPer(w, req[r].coll) \in 0 .. 3 /\ l \in 1 .. 3 /\ l <= x.livello
  BY <1>1, <1>2, LivelloDiRegola
<1>4. <<"livello", req[r].chi, l>> \in Fatti(r)
  BY <1>2, <1>3 DEF Fatti
<1> QED
  BY <1>1, <1>4, DiUna
-----------------------------------------------------------------------------
(* The steps of a client. *)
LEMMA CheckGuidAvanza ==
    ASSUME RubricaInv, NEW r \in Richieste, NEW chi \in Utenti, NEW di \in Utenti,
           NEW coll \in 0 .. MaxColl, CheckGuid(r, chi, di, coll)
    PROVE  TipiTabelle' /\ Avanza(r)
<1> DEFINE p == IF coll = 0 THEN "leggi" ELSE "collezione"
           q == [Vuota EXCEPT !.op = "client", !.chi = chi, !.di = di, !.coll = coll,
                              !.livello = IF coll = 0 THEN 3 ELSE 0]
<1>1. Legge(r, p, q) /\ (coll = 0 => chi = di)
  BY DEF CheckGuid
<1>2. q \in Richiesta /\ p \in Passi
  <2>1. (IF coll = 0 THEN 3 ELSE 0) \in 0 .. 3 /\ "client" \in Operazioni
    BY DEF Operazioni, Api
  <2>2. p \in Passi
    BY DEF Passi
  <2> QED
    BY <2>1, <2>2, VuotaBene DEF Richiesta
<1>3. q.op = "client" /\ q.chi = chi /\ q.di = di /\ q.coll = coll
  BY VuotaBene DEF Richiesta
<1>4. Porta(p, q)
  BY <1>3 DEF Porta, Api
<1>5. Visto(p, q, visti[r])
  BY <1>1, <1>3 DEF Visto, VistoApi
<1> HIDE DEF p, q
<1> QED
  BY <1>1, <1>2, <1>4, <1>5, LeggeAvanza, DiUna

LEMMA AbAvanza ==
    ASSUME RubricaInv, NEW r \in Richieste, NEW chi \in Utenti, Ab(r, chi)
    PROVE  TipiTabelle' /\ Avanza(r)
<1> DEFINE q == [Vuota EXCEPT !.op = "legge", !.chi = chi, !.di = chi]
<1>1. Legge(r, "scrivi", q)
  BY DEF Ab
<1>2. q \in Richiesta /\ "scrivi" \in Passi
  BY VuotaBene DEF Richiesta, Operazioni, Api, Passi
<1>3. q.op = "legge" /\ q.chi = chi /\ q.di = chi /\ q.coll = 0
  BY VuotaBene DEF Richiesta, Vuota
<1>4. Porta("scrivi", q)
  BY <1>3 DEF Porta, Api
<1>5. Visto("scrivi", q, visti[r])
  BY <1>3 DEF Visto, VistoApi
<1> HIDE DEF q
<1> QED
  BY <1>1, <1>2, <1>4, <1>5, LeggeAvanza, DiUna

LEMMA CollezioneAvanza ==
    ASSUME RubricaInv, NEW r \in Richieste, CheckGuidCollezione(r)
    PROVE  TipiTabelle' /\ Avanza(r)
<1> DEFINE q == req[r]
           p == IF q.chi = q.di THEN "leggi" ELSE "persona"
           n == IF q.chi = q.di THEN [q EXCEPT !.livello = 3] ELSE q
<1>1. Legge(r, p, n) /\ pc[r] = "collezione" /\ Sua(q)
  BY DEF CheckGuidCollezione
<1>2. q \in Richiesta /\ Porta("collezione", q)
  BY <1>1, DiUna
<1>3. /\ n \in Richiesta /\ p \in Passi
      /\ n.op = q.op /\ n.chi = q.chi /\ n.di = q.di /\ n.coll = q.coll /\ n.nome = q.nome /\ n.id = q.id
      /\ n.confine = q.confine
  BY <1>2 DEF Richiesta, Passi
<1>4. Porta(p, n)
  BY <1>2, <1>3 DEF Porta
<1>5. ASSUME r \in Client PROVE Visto(p, n, visti[r])
  <2>1. Visto("collezione", q, visti[r])
    BY <1>1, <1>5, DiUna
  <2>2. q.op \in Api => <<"collezione", q.di, q.coll>> \in Fatti(r)
    BY <1>1 DEF Sua, Fatti
  <2>3. q.op \in Api => <<"collezione", q.di, q.coll>> \in visti[r]
    BY <1>5, <2>2, DiUna
  <2> QED
    BY <1>3, <2>1, <2>3 DEF Visto, VistoApi, VistoLascia, Api
<1> HIDE DEF p, q, n
<1> QED
  BY <1>1, <1>3, <1>4, <1>5, LeggeAvanza, DiUna

LEMMA PersonaAvanza ==
    ASSUME RubricaInv, NEW r \in Richieste, UserMaxRule(r)
    PROVE  TipiTabelle' /\ Avanza(r)
<1> DEFINE q == req[r]
           l == LivelloPer(q.chi, q.coll)
           p == IF l = 3 THEN "leggi" ELSE "gruppo"
           n == [q EXCEPT !.livello = l]
<1>1. Legge(r, p, n) /\ pc[r] = "persona"
  BY DEF UserMaxRule
<1>2. q \in Richiesta /\ Porta("persona", q) /\ l \in 0 .. 3
  BY <1>1, DiUna, LivelloDiRegola
<1>3. /\ n \in Richiesta
      /\ n.op = q.op /\ n.chi = q.chi /\ n.di = q.di /\ n.coll = q.coll /\ n.nome = q.nome /\ n.id = q.id
      /\ n.livello = l
  BY <1>2 DEF Richiesta
<1>4. p \in {"leggi", "gruppo"} /\ p \in Passi
  BY DEF Passi
<1>5. Porta(p, n)
  BY <1>2, <1>3, <1>4 DEF Porta
<1>6. ASSUME r \in Client PROVE Visto(p, n, visti[r])
  <2>1. Visto("persona", q, visti[r])
    BY <1>1, <1>6, DiUna
  <2>2. ASSUME q.op \in Api, NEW k \in 1 .. l
        PROVE  <<"livello", q.chi, k>> \in visti[r]
    BY <1>6, <2>1, <2>2, LivelloVisto DEF Visto, VistoApi
  <2> HIDE DEF p, l, n, q
  <2> QED
    BY <1>3, <1>4, <2>1, <2>2 DEF Visto, VistoApi, VistoLascia, Api
<1> HIDE DEF p, l, q, n
<1> QED
  BY <1>1, <1>3, <1>4, <1>5, <1>6, LeggeAvanza, DiUna

LEMMA GruppoAvanza ==
    ASSUME RubricaInv, NEW r \in Richieste, UserMaxRuleGruppo(r)
    PROVE  TipiTabelle' /\ Avanza(r)
<1> DEFINE q == req[r]
           l == LivelloPer(GruppoDi[q.chi], q.coll)
           m == IF l > q.livello THEN l ELSE q.livello
           n == [q EXCEPT !.livello = m]
<1>1. Legge(r, "leggi", n) /\ pc[r] = "gruppo"
  BY DEF UserMaxRuleGruppo
<1>2. q \in Richiesta /\ Porta("gruppo", q) /\ l \in 0 .. 3
  BY <1>1, DiUna, LivelloDiRegola
<1>3. q.livello \in 0 .. 3 /\ m \in 0 .. 3 /\ m \in {l, q.livello}
  BY <1>2 DEF Richiesta
<1>4. /\ n \in Richiesta
      /\ n.op = q.op /\ n.chi = q.chi /\ n.di = q.di /\ n.coll = q.coll /\ n.nome = q.nome /\ n.id = q.id
      /\ n.livello = m
  BY <1>2, <1>3 DEF Richiesta
<1>5. Porta("leggi", n) /\ "leggi" \in Passi
  BY <1>2, <1>4 DEF Porta, Passi
<1>6. ASSUME r \in Client PROVE Visto("leggi", n, visti[r])
  <2>1. Visto("gruppo", q, visti[r])
    BY <1>1, <1>6, DiUna
  <2>2. ASSUME q.op \in Api, NEW k \in 1 .. l
        PROVE  <<"livello", q.chi, k>> \in visti[r]
    BY <1>6, <2>1, <2>2, LivelloVisto DEF Visto, VistoApi
  <2>3. ASSUME q.op \in Api, NEW k \in 1 .. m
        PROVE  <<"livello", q.chi, k>> \in visti[r]
    <3>1. CASE m = l
      BY <2>2, <2>3, <3>1
    <3>2. CASE m = q.livello
      BY <2>1, <2>3, <3>2 DEF Visto, VistoApi
    <3> QED
      BY <1>3, <3>1, <3>2
  <2> HIDE DEF l, m, n, q
  <2> QED
    BY <1>4, <2>1, <2>3 DEF Visto, VistoApi, VistoLascia, Api
<1> HIDE DEF l, m, q, n
<1> QED
  BY <1>1, <1>4, <1>5, <1>6, LeggeAvanza, DiUna

(* What was read lets it read, write, or delete. *)
LEMMA PassaAvanza ==
    ASSUME RubricaInv, NEW r \in Richieste, NEW op \in {"legge", "aggiunge", "cambia", "toglie"},
           NEW id \in 0 .. MaxRighe, NEW nome \in Nomi \cup {Nessuno},
           \/ Permessa(r, op)
           \/ op = "toglie" /\ pc[r] = "leggi" /\ req[r].op = "toglie",
           op = "aggiunge" => nome \in Nomi, op = "cambia" => id # 0,
           Passa(r, op, id, nome)
    PROVE  TipiTabelle' /\ Avanza(r)
<1> DEFINE q == req[r]
           l == IF op = "toglie" THEN q.livello ELSE 0
           n == [q EXCEPT !.op = op, !.id = id, !.nome = nome, !.livello = l]
<1>1. Legge(r, "scrivi", n) /\ pc[r] = "leggi" /\ q.op \in {"client", "toglie"}
  BY DEF Passa, Permessa
<1>2. q \in Richiesta /\ Porta("leggi", q)
  BY <1>1, DiUna
<1>3. q.livello \in 0 .. 3 /\ l \in 0 .. 3 /\ op \in Operazioni /\ id \in Nat
  BY <1>2 DEF Richiesta, Operazioni, Api
<1>4. /\ n \in Richiesta
      /\ n.op = op /\ n.chi = q.chi /\ n.di = q.di /\ n.coll = q.coll /\ n.nome = nome /\ n.id = id
  <2> HIDE DEF l
  <2> QED
    BY <1>2, <1>3 DEF Richiesta
<1>5. Porta("scrivi", n) /\ "scrivi" \in Passi
  <2> HIDE DEF n
  <2> QED
    BY <1>1, <1>2, <1>4 DEF Porta, Passi, Api
<1>6. ASSUME r \in Client PROVE Visto("scrivi", n, visti[r])
  <2>1. VistoApi("leggi", q, visti[r])
    BY <1>1, <1>6, DiUna DEF Visto, Api
  <2>2. ASSUME q.chi # q.di
        PROVE  /\ <<"livello", q.chi, Minimo(op)>> \in visti[r]
               /\ op = "toglie" => \A k \in 1 .. 3 : <<"livello", q.chi, k>> \in visti[r]
    <3>1. CASE q.op = "toglie" /\ op = "toglie"
      BY <2>1, <2>2, <3>1 DEF VistoApi, Minimo
    <3>2. CASE q.livello >= Minimo(op)
      <4>1. Minimo(op) \in 1 .. q.livello /\ (op = "toglie" => q.livello = 3)
        BY <1>3, <3>2 DEF Minimo
      <4> QED
        BY <2>1, <2>2, <4>1 DEF VistoApi
    <3> QED
      BY <3>1, <3>2 DEF Permessa, permesso
  <2> HIDE DEF n, q, l
  <2> QED
    BY <1>4, <2>1, <2>2 DEF Visto, VistoApi, Minimo
<1> HIDE DEF l, n, q
<1> QED
  BY <1>1, <1>4, <1>5, <1>6, LeggeAvanza, DiUna

(* A row that was found is one of the table. *)
LEMMA TrovataRiga ==
    ASSUME TipiTabelle, NEW r \in Richieste, NEW n, NEW v \in Trovata(r, n)
    PROVE  v.id \in 1 .. MaxRighe
BY DEF Trovata, Prima, Trova, TipiTabelle, Riga

LEMMA LetturaAvanza ==
    ASSUME RubricaInv, NEW r \in Richieste, Peers(r) \/ PTags(r)
    PROVE  TipiTabelle' /\ Avanza(r)
BY PassaAvanza DEF Peers, PTags

LEMMA AggiuntaAvanza ==
    ASSUME RubricaInv, NEW r \in Richieste, NEW n \in Nomi, PeerAdd(r, n) \/ TagAdd(r, n)
    PROVE  TipiTabelle' /\ Avanza(r)
BY PassaAvanza DEF PeerAdd, TagAdd

LEMMA CambioAvanza ==
    ASSUME RubricaInv, NEW r \in Richieste, NEW n \in Nomi,
           PeerUpdate(r, n) \/ (n \in Tag /\ TagUpdate(r, n))
    PROVE  TipiTabelle' /\ Avanza(r)
<1>1. PICK v \in Trovata(r, n), m \in Nomi \cup {Nessuno} :
         Permessa(r, "cambia") /\ Passa(r, "cambia", v.id, m)
  BY DEF PeerUpdate, TagUpdate, TagRename, Nomi
<1>2. v.id \in 0 .. MaxRighe /\ v.id # 0
  BY DiUna, TrovataRiga
<1> QED
  BY <1>1, <1>2, PassaAvanza

LEMMA CancellazioneAvanza ==
    ASSUME RubricaInv, NEW r \in Richieste, NEW n, PeerDel(r, n)
    PROVE  TipiTabelle' /\ Avanza(r)
<1>1. PICK v \in Trovata(r, n) : Passa(r, "toglie", v.id, Nessuno)
  BY DEF PeerDel
<1>2. v.id \in 0 .. MaxRighe
  BY DiUna, TrovataRiga
<1> QED
  BY <1>1, <1>2, PassaAvanza DEF PeerDel

(* A request that ends, whatever it has written. *)
LEMMA RifiutaAvanza ==
    ASSUME RubricaInv, NEW r \in Richieste, Rifiuta(r)
    PROVE  TipiTabelle' /\ Avanza(r)
<1>1. TipiTabelle'
  BY DiUna DEF Rifiuta, Legge, dati, TipiTabelle
<1> QED
  BY <1>1, FinisceAvanza DEF Rifiuta, Legge, Finisce

LEMMA AddAvanza ==
    ASSUME RubricaInv, NEW r \in Richieste, AddAddressBook(r)
    PROVE  TipiTabelle' /\ Avanza(r)
<1>1. req[r].nome \in Nomi /\ req[r].di \in Utenti /\ req[r].coll \in 0 .. MaxColl
  BY DiUna DEF AddAddressBook, Porta, Api, Richiesta
<1> QED
  BY <1>1, DiUna, InserisceTipi, FinisceAvanza DEF AddAddressBook

LEMMA CambiaAvanza ==
    ASSUME RubricaInv, NEW r \in Richieste, Cambia(r)
    PROVE  TipiTabelle' /\ Avanza(r)
<1>1. req[r].id \in 1 .. MaxRighe /\ req[r].di \in Utenti /\ req[r].coll \in 0 .. MaxColl
  BY DiUna DEF Cambia, Porta, Api, Richiesta
<1>2. CASE req[r].nome \in Tag
  <2>1. righe' = RigheCon(req[r]) /\ req[r].nome \in Nomi
    BY <1>2 DEF Cambia, Nomi
  <2> QED
    BY <1>1, <2>1, DiUna, RigheConTipi, FinisceAvanza DEF Cambia
<1>3. CASE req[r].nome \notin Tag
  BY <1>3, DiUna, RigheMenoTipi, FinisceAvanza DEF Cambia
<1> QED
  BY <1>2, <1>3

LEMMA ToglieAvanza ==
    ASSUME RubricaInv, NEW r \in Richieste, Toglie(r)
    PROVE  TipiTabelle' /\ Avanza(r)
<1> DEFINE q == req[r]
           n == [q EXCEPT !.id = 0]
<1>1. TipiTabelle'
  <2>1. righe' \subseteq righe
    BY DEF Toglie
  <2> QED
    BY <2>1, DiUna, RigheMenoTipi DEF Toglie
<1>2. CASE Finisce(r)
  BY <1>1, <1>2, FinisceAvanza
<1>3. CASE Va(r, "leggi", n)
  <2>1. q \in Richiesta /\ Porta("scrivi", q) /\ pc[r] = "scrivi" /\ q.op = "toglie"
    BY DiUna DEF Toglie
  <2>2. /\ n \in Richiesta
        /\ n.op = q.op /\ n.chi = q.chi /\ n.di = q.di /\ n.coll = q.coll /\ n.livello = q.livello
    BY <2>1 DEF Richiesta
  <2>3. Porta("leggi", n) /\ "leggi" \in Passi
    <3> HIDE DEF n, q
    <3> QED
      BY <2>1, <2>2 DEF Porta, Passi, Api
  <2>4. ASSUME r \in Client PROVE Visto("leggi", n, visti[r])
    <3>1. VistoApi("scrivi", q, visti[r])
      BY <2>1, <2>4, DiUna DEF Visto, Api
    <3>2. q.livello \in 0 .. 3
      BY <2>1 DEF Richiesta
    <3>3. q.chi # q.di => \A l \in 1 .. q.livello : <<"livello", q.chi, l>> \in visti[r]
      BY <2>1, <3>1, <3>2 DEF VistoApi
    <3> HIDE DEF n, q
    <3> QED
      BY <2>1, <2>2, <3>1, <3>3 DEF Visto, VistoApi
  <2> QED
    BY <1>1, <1>3, <2>2, <2>3, <2>4, VistoResta DEF Avanza
<1> QED
  BY <1>2, <1>3 DEF Toglie

LEMMA UpAbAvanza ==
    ASSUME RubricaInv, NEW r \in Richieste, NEW u \in Utenti, NEW S \in SUBSET Pc, UpAb(r, u, S)
    PROVE  TipiTabelle' /\ Avanza(r)
<1> DEFINE q == [Vuota EXCEPT !.chi = u]
<1>1. TipiTabelle'
  BY DiUna, SincronizzaTipi DEF UpAb
<1>2. q \in Richiesta /\ "tag" \in Passi
  BY VuotaBene DEF Richiesta, Passi
<1>3. q.op = "nessuna" /\ q.chi = u
  BY VuotaBene DEF Richiesta, Vuota
<1>4. Porta("tag", q) /\ Visto("tag", q, visti[r] \cup Fatti(r)')
  BY <1>3 DEF Porta, Visto, Api
<1>5. Va(r, "tag", q)
  BY DEF UpAb
<1> HIDE DEF q
<1> QED
  BY <1>1, <1>2, <1>4, <1>5 DEF Avanza

LEMMA TagAvanza ==
    ASSUME RubricaInv, NEW r \in Richieste, NEW S \in SUBSET Tag, UpdateTags(r, S)
    PROVE  TipiTabelle' /\ Avanza(r)
<1>1. req[r].chi \in Utenti
  BY DiUna DEF UpdateTags, Porta
<1> QED
  BY <1>1, DiUna, SincronizzaTipi, FinisceAvanza DEF UpdateTags
-----------------------------------------------------------------------------
(* The steps of the panels.  A form that is checked carries nothing that a pass or a
   client carries. *)
LEMMA ModuloAvanza ==
    ASSUME RubricaInv, NEW r \in Richieste,
           NEW p \in {"inserisci", "salva", "cancella", "tieni", "regola"}, NEW q \in Richiesta,
           q.op = "nessuna", Porta(p, q), Legge(r, p, q)
    PROVE  TipiTabelle' /\ Avanza(r)
<1>1. p \in Passi /\ Visto(p, q, visti[r])
  BY DEF Passi, Visto, Api
<1> QED
  BY <1>1, LeggeAvanza, DiUna

LEMMA ControllataAvanza ==
    ASSUME RubricaInv, NEW r \in Richieste, NEW n \in Nomi, NEW di \in Utenti,
           NEW coll \in 0 .. MaxColl, Controllata(r, n, di, coll)
    PROVE  TipiTabelle' /\ Avanza(r)
<1> DEFINE q == [Vuota EXCEPT !.nome = n, !.di = di, !.coll = coll]
<1>1. Legge(r, "inserisci", q)
  BY DEF Controllata
<1>2. q \in Richiesta
  BY VuotaBene DEF Richiesta
<1>3. q.op = "nessuna" /\ q.nome = n /\ q.di = di
  BY VuotaBene DEF Richiesta
<1>4. Porta("inserisci", q)
  BY <1>3 DEF Porta, Api
<1> HIDE DEF q
<1> QED
  BY <1>1, <1>2, <1>3, <1>4, ModuloAvanza

LEMMA InserisciAvanza ==
    ASSUME RubricaInv, NEW r \in Richieste, Inserisci(r)
    PROVE  TipiTabelle' /\ Avanza(r)
<1>1. req[r].nome \in Nomi /\ req[r].di \in Utenti /\ req[r].coll \in 0 .. MaxColl
  BY DiUna DEF Inserisci, Porta, Richiesta
<1> QED
  BY <1>1, DiUna, InserisceTipi, FinisceAvanza DEF Inserisci

LEMMA SalvaAvanza ==
    ASSUME RubricaInv, NEW r \in Richieste, NEW v \in righe, NEW di \in Utenti,
           NEW coll \in 0 .. MaxColl, Salva(r, v, di, coll)
    PROVE  TipiTabelle' /\ Avanza(r)
<1> DEFINE q == [Vuota EXCEPT !.id = v.id, !.nome = v.nome, !.di = di, !.coll = coll]
<1>1. Legge(r, "salva", q)
  BY DEF Salva
<1>2. v.id \in 1 .. MaxRighe /\ v.nome \in Nomi
  BY DiUna DEF TipiTabelle, Riga
<1>3. MaxRighe \in Nat /\ v.id \in Nat
  BY <1>2
<1>4. q \in Richiesta
  BY <1>2, <1>3, VuotaBene DEF Richiesta
<1>5. q.op = "nessuna" /\ q.nome = v.nome /\ q.di = di /\ q.id = v.id
  BY VuotaBene DEF Richiesta
<1>6. Porta("salva", q)
  BY <1>2, <1>5 DEF Porta, Api
<1> HIDE DEF q
<1> QED
  BY <1>1, <1>4, <1>5, <1>6, ModuloAvanza

LEMMA UpdateAllAvanza ==
    ASSUME RubricaInv, NEW r \in Richieste, UpdateAll(r)
    PROVE  TipiTabelle' /\ Avanza(r)
<1>1. /\ req[r] \in Richiesta
      /\ req[r].di \in Utenti /\ req[r].coll \in 0 .. MaxColl /\ req[r].id \in 1 .. MaxRighe
  BY DiUna DEF UpdateAll, Porta, Richiesta
<1>2. PICK n \in Nomi : righe' = RigheCon([req[r] EXCEPT !.nome = n])
  BY DEF UpdateAll, Nomi
<1> DEFINE q == [req[r] EXCEPT !.nome = n]
<1>3. q.id = req[r].id /\ q.di = req[r].di /\ q.coll = req[r].coll /\ q.nome = n
  BY <1>1 DEF Richiesta
<1>4. righe' = RigheCon(q)
  BY <1>2
<1>5. SoloRighe /\ UNCHANGED prossima /\ Finisce(r) /\ TipiTabelle
  BY DiUna DEF UpdateAll
<1> HIDE DEF q
<1>6. TipiTabelle'
  BY <1>1, <1>3, <1>4, <1>5, RigheConTipi
<1> QED
  BY <1>5, <1>6, FinisceAvanza

LEMMA DaCancellareAvanza ==
    ASSUME RubricaInv, NEW r \in Richieste, NEW v \in righe, DaCancellare(r, v)
    PROVE  TipiTabelle' /\ Avanza(r)
<1> DEFINE q == [Vuota EXCEPT !.id = v.id]
<1>1. Legge(r, "cancella", q)
  BY DEF DaCancellare
<1>2. v.id \in 1 .. MaxRighe /\ MaxRighe \in Nat
  BY DiUna DEF TipiTabelle, Riga
<1>3. v.id \in Nat
  BY <1>2
<1>4. q \in Richiesta /\ q.op = "nessuna"
  BY <1>3, VuotaBene DEF Richiesta
<1>5. Porta("cancella", q)
  BY <1>4 DEF Porta, Api
<1> HIDE DEF q
<1> QED
  BY <1>1, <1>4, <1>5, ModuloAvanza

LEMMA CancellaAvanza ==
    ASSUME RubricaInv, NEW r \in Richieste, Cancella(r)
    PROVE  TipiTabelle' /\ Avanza(r)
<1>1. righe' \subseteq righe
  BY DEF Cancella
<1> QED
  BY <1>1, DiUna, RigheMenoTipi, FinisceAvanza DEF Cancella

(* A collection keeps its id, whoever it goes to. *)
LEMMA CollezioniConTipi ==
    ASSUME TipiTabelle, NEW coll, NEW u \in Utenti, collezioni' = CollezioniCon(coll, u),
           prossima' = prossima \/ Cambiano, SoloCollezioni
    PROVE  TipiTabelle'
<1>1. collezioni' \subseteq Collezione
  BY DEF TipiTabelle, CollezioniCon, Collezione
<1> QED
  BY <1>1 DEF TipiTabelle, Cambiano, SoloCollezioni

LEMMA MyUpdateCollectionAvanza ==
    ASSUME RubricaInv, NEW r \in Richieste, NEW k \in collezioni, NEW u \in Utenti,
           MyUpdateCollection(r, k, u)
    PROVE  TipiTabelle' /\ Avanza(r)
<1> DEFINE q == [Vuota EXCEPT !.coll = k.id, !.di = k.di]
<1>1. Legge(r, "tieni", q)
  BY DEF MyUpdateCollection
<1>2. k.id \in 1 .. MaxColl /\ k.di \in Utenti /\ MaxColl \in Nat
  BY DiUna DEF TipiTabelle, Collezione
<1>3. k.id \in 0 .. MaxColl /\ k.id # 0
  BY <1>2
<1>4. q \in Richiesta
  BY <1>2, <1>3, VuotaBene DEF Richiesta
<1>5. q.op = "nessuna" /\ q.coll = k.id /\ q.di = k.di
  BY VuotaBene DEF Richiesta
<1>6. Porta("tieni", q)
  BY <1>2, <1>3, <1>5 DEF Porta, Api
<1> HIDE DEF q
<1> QED
  BY <1>1, <1>4, <1>5, <1>6, ModuloAvanza

LEMMA TieniAvanza ==
    ASSUME RubricaInv, NEW r \in Richieste, Tieni(r)
    PROVE  TipiTabelle' /\ Avanza(r)
<1>1. req[r].di \in Utenti
  BY DiUna DEF Tieni, Porta
<1> QED
  BY <1>1, DiUna, CollezioniConTipi, FinisceAvanza DEF Tieni

LEMMA ControllaRegolaAvanza ==
    ASSUME RubricaInv, NEW r \in Richieste, NEW id \in 0 .. MaxRegole, NEW di \in Utenti,
           NEW coll \in 1 .. MaxColl, NEW w \in Verso, ControllaRegola(r, id, di, coll, w)
    PROVE  TipiTabelle' /\ Avanza(r)
<1> DEFINE q == [Vuota EXCEPT !.id = id, !.di = di, !.coll = coll, !.verso = w]
<1>1. Legge(r, "regola", q)
  BY DEF ControllaRegola
<1>2. coll \in 0 .. MaxColl /\ coll # 0 /\ id \in Nat
  OBVIOUS
<1>3. q \in Richiesta
  BY <1>2, VuotaBene DEF Richiesta
<1>4. q.op = "nessuna" /\ q.id = id /\ q.di = di /\ q.coll = coll /\ q.verso = w
  BY VuotaBene DEF Richiesta
<1>5. Porta("regola", q)
  BY <1>2, <1>4 DEF Porta, Api
<1> HIDE DEF q
<1> QED
  BY <1>1, <1>3, <1>4, <1>5, ModuloAvanza

LEMMA CreateRuleAvanza ==
    ASSUME RubricaInv, NEW r \in Richieste, CreateRule(r)
    PROVE  TipiTabelle' /\ Avanza(r)
<1> DEFINE q == req[r]
           x(l) == [id |-> prossima.regole, di |-> q.di, coll |-> q.coll, verso |-> q.verso, livello |-> l]
<1>1. /\ q.di \in Utenti /\ q.verso \in Verso /\ q.coll \in 0 .. MaxColl /\ q.coll # 0
      /\ TipiTabelle
  BY DiUna DEF CreateRule, Porta, Richiesta
<1>2. q.coll \in 1 .. MaxColl
  BY <1>1
<1>3. prossima.regole \in Nat \ {0} /\ prossima.regole <= MaxRegole
  BY <1>1 DEF CreateRule, TipiTabelle
<1>4. PICK l \in Livelli : regole' = regole \cup {x(l)}
  BY DEF CreateRule
<1>5. prossima.regole \in 1 .. MaxRegole
  BY <1>3
<1>6. x(l) \in Regola
  BY <1>1, <1>2, <1>5 DEF Regola
<1>7. prossima' = [prossima EXCEPT !.regole = @ + 1] /\ SoloRegole /\ Finisce(r)
  BY DEF CreateRule
<1>8. prossima' \in [{"righe", "collezioni", "regole", "cambi"} -> Nat \ {0}] /\ prossima'.regole <= MaxRegole + 1
  BY <1>1, <1>3, <1>7 DEF TipiTabelle
<1> HIDE DEF q, x
<1>9. TipiTabelle'
  BY <1>1, <1>4, <1>6, <1>7, <1>8 DEF TipiTabelle, SoloRegole
<1> QED
  BY <1>7, <1>9, FinisceAvanza

LEMMA UpdateRuleAvanza ==
    ASSUME RubricaInv, NEW r \in Richieste, UpdateRule(r)
    PROVE  TipiTabelle' /\ Avanza(r)
<1> DEFINE q == req[r]
           y(l) == [id |-> q.id, di |-> q.di, coll |-> q.coll, verso |-> q.verso, livello |-> l]
<1>1. /\ q.di \in Utenti /\ q.verso \in Verso /\ q.coll \in 0 .. MaxColl /\ q.coll # 0
      /\ q.id \in 0 .. MaxRegole /\ q.id # 0 /\ TipiTabelle
  BY DiUna DEF UpdateRule, Porta, Richiesta
<1>2. q.coll \in 1 .. MaxColl /\ q.id \in 1 .. MaxRegole
  BY <1>1
<1>3. PICK l \in Livelli : regole' = {IF x.id = q.id THEN y(l) ELSE x : x \in regole}
  BY DEF UpdateRule
<1>4. y(l) \in Regola
  BY <1>1, <1>2 DEF Regola
<1>5. prossima' = prossima /\ SoloRegole /\ Finisce(r)
  BY DEF UpdateRule
<1> HIDE DEF q, y
<1>6. regole' \subseteq Regola
  BY <1>1, <1>3, <1>4 DEF TipiTabelle
<1>7. TipiTabelle'
  BY <1>1, <1>5, <1>6 DEF TipiTabelle, SoloRegole
<1> QED
  BY <1>5, <1>7, FinisceAvanza
-----------------------------------------------------------------------------
(* The steps of a pass. *)
LEMMA RilasciaAvanza ==
    ASSUME RubricaInv, NEW r \in Client, NEW tecnico \in Utenti, NEW n \in Pc,
           Rilascia(r, tecnico, n)
    PROVE  TipiTabelle' /\ Avanza(r)
<1> DEFINE q == [Vuota EXCEPT !.op = "lascia", !.chi = tecnico, !.nome = n]
<1>1. /\ Legge(r, "sue", q) /\ stato[tecnico] \in {"attivo", "agente"} /\ UNCHANGED dati
      /\ r \in Richieste
  BY DEF Rilascia, Legge, Richieste
<1>2. q \in Richiesta /\ "sue" \in Passi
  BY VuotaBene DEF Richiesta, Operazioni, Passi, Nomi
<1>3. q.op = "lascia" /\ q.chi = tecnico /\ q.nome = n /\ q.confine = {}
  BY VuotaBene DEF Richiesta, Vuota
<1>4. Porta("sue", q)
  BY <1>3 DEF Porta, Api
<1> HIDE DEF q
<1>5. req'[r] = q
  BY <1>1, DiUna DEF Legge, Va, RubricaInv, Tipi, TipiRichieste
<1>6. <<"utente", q.chi, 0>> \in Fatti(r)'
  BY <1>1, <1>3, <1>5 DEF Fatti, Api, dati
<1>7. Visto("sue", q, visti[r] \cup Fatti(r)')
  BY <1>3, <1>6 DEF Visto, VistoLascia, Api
<1>8. TipiTabelle'
  BY <1>1, DiUna DEF dati, TipiTabelle
<1> QED
  BY <1>1, <1>2, <1>4, <1>7, <1>8 DEF Avanza, Legge

LEMMA RilasciaTecnicoAvanza ==
    ASSUME RubricaInv, NEW r \in Richieste, NEW u \in Utenti, NEW n \in Pc,
           RilasciaTecnico(r, u, n)
    PROVE  TipiTabelle' /\ Avanza(r)
<1> DEFINE q == [Vuota EXCEPT !.op = "tecnico", !.chi = u, !.nome = n]
<1>1. Legge(r, "registra", q)
  BY DEF RilasciaTecnico
<1>2. q \in Richiesta /\ "registra" \in Passi
  BY VuotaBene DEF Richiesta, Operazioni, Passi, Nomi
<1>3. q.op = "tecnico"
  BY VuotaBene DEF Richiesta
<1>4. Porta("registra", q) /\ Visto("registra", q, visti[r])
  BY <1>3 DEF Porta, Visto, Api
<1> HIDE DEF q
<1> QED
  BY <1>1, <1>2, <1>4, LeggeAvanza, DiUna

LEMMA NellaRubricaAvanza ==
    ASSUME RubricaInv, NEW r \in Richieste, NellaRubrica(r)
    PROVE  TipiTabelle' /\ Avanza(r)
<1> DEFINE q == req[r]
           sua == \E v \in righe : v.di = q.chi /\ v.nome = q.nome
           p == IF sua THEN "registra" ELSE "regole"
<1>1. Legge(r, p, q) /\ pc[r] = "sue"
  BY DEF NellaRubrica
<1>2. q \in Richiesta /\ Porta("sue", q) /\ q.op = "lascia" /\ q.chi \in Utenti
  BY <1>1, DiUna DEF Porta
<1>3. p \in {"registra", "regole"} /\ p \in Passi
  BY DEF Passi
<1>4. Porta(p, q)
  BY <1>2, <1>3 DEF Porta, Api
<1>5. ASSUME r \in Client PROVE Visto(p, q, visti[r])
  <2>1. VistoLascia("sue", q, visti[r])
    BY <1>1, <1>2, <1>5, DiUna DEF Visto
  <2>2. ASSUME sua PROVE Confinato(q, visti[r])
    <3>1. PICK v \in righe : v.di = q.chi /\ v.nome = q.nome
      BY <2>2
    <3>2. <<"voce", q.chi, 0>> \in Fatti(r)
      BY <1>2, <3>1 DEF Fatti, Api
    <3>3. <<"voce", q.chi, 0>> \in visti[r]
      BY <1>5, <3>2, DiUna
    <3>4. 0 \in 0 .. MaxColl
      OBVIOUS
    <3> HIDE DEF q
    <3> QED
      BY <1>2, <3>3, <3>4 DEF Confinato
  <2>3. p = "registra" => sua
    OBVIOUS
  <2> HIDE DEF p, q, sua
  <2> QED
    BY <1>2, <1>3, <2>1, <2>2, <2>3 DEF Visto, VistoLascia, Api
<1> HIDE DEF p, q, sua
<1> QED
  BY <1>1, <1>2, <1>3, <1>4, <1>5, LeggeAvanza, DiUna

(* The rules for the tecnico, or for its group: who they are of, if another, has been seen. *)
LEMMA ConfineVisto ==
    ASSUME RubricaInv, NEW r \in Richieste, req[r].op = "lascia",
           NEW w \in {req[r].chi, GruppoDi[req[r].chi]}
    PROVE  /\ Confine(w) \subseteq Utenti \X (1 .. MaxColl)
           /\ r \in Client => \A c \in Confine(w) :
                 c[1] # req[r].chi => <<"regola", c[1], c[2]>> \in visti[r]
<1>1. Confine(w) \subseteq Utenti \X (1 .. MaxColl)
  BY DiUna DEF Confine, TipiTabelle, Regola
<1>2. ASSUME r \in Client, NEW c \in Confine(w), c[1] # req[r].chi
      PROVE  <<"regola", c[1], c[2]>> \in visti[r]
  <2>1. PICK x \in regole : x.verso = w /\ c = <<x.di, x.coll>>
    BY DEF Confine
  <2>2. c[1] = x.di /\ c[2] = x.coll /\ x.di \in Utenti
    BY <2>1, DiUna DEF TipiTabelle, Regola
  <2>3. <<"regola", x.di, x.coll>> \in Fatti(r)
    BY <1>2, <2>1, <2>2 DEF Fatti, Api
  <2> QED
    BY <1>2, <2>2, <2>3, DiUna
<1> QED
  BY <1>1, <1>2

LEMMA CollectionReadRulesAvanza ==
    ASSUME RubricaInv, NEW r \in Richieste, CollectionReadRules(r)
    PROVE  TipiTabelle' /\ Avanza(r)
<1> DEFINE q == req[r]
           n == [q EXCEPT !.confine = Confine(q.chi)]
<1>1. Legge(r, "regoleGruppo", n) /\ pc[r] = "regole"
  BY DEF CollectionReadRules
<1>2. q \in Richiesta /\ Porta("regole", q) /\ q.op = "lascia"
  BY <1>1, DiUna DEF Porta
<1>3. Confine(q.chi) \in SUBSET (Utenti \X (1 .. MaxColl))
  BY <1>2, ConfineVisto
<1>4. /\ n \in Richiesta
      /\ n.op = q.op /\ n.chi = q.chi /\ n.di = q.di /\ n.nome = q.nome /\ n.id = q.id
      /\ n.confine = Confine(q.chi)
  BY <1>2, <1>3 DEF Richiesta
<1>5. Porta("regoleGruppo", n) /\ "regoleGruppo" \in Passi
  <2> HIDE DEF n, q
  <2> QED
    BY <1>2, <1>4 DEF Porta, Passi, Api
<1>6. ASSUME r \in Client PROVE Visto("regoleGruppo", n, visti[r])
  <2>1. VistoLascia("regole", q, visti[r])
    BY <1>1, <1>2, <1>6, DiUna DEF Visto
  <2>2. \A c \in Confine(q.chi) : c[1] # q.chi => <<"regola", c[1], c[2]>> \in visti[r]
    BY <1>2, <1>6, ConfineVisto
  <2> HIDE DEF n, q
  <2> QED
    BY <1>2, <1>4, <2>1, <2>2 DEF Visto, VistoLascia, Api
<1> HIDE DEF n, q
<1> QED
  BY <1>1, <1>4, <1>5, <1>6, LeggeAvanza, DiUna

(* The pass goes on to the next owner, or is refused if there is none. *)
LEMMA ProsegueAvanza ==
    ASSUME RubricaInv, NEW r \in Richieste, NEW q \in Richiesta, q.op = "lascia",
           q.chi \in Utenti, r \in Client => VistoLascia("proprietario", q, visti[r]),
           Prosegue(r, q)
    PROVE  TipiTabelle' /\ Avanza(r)
<1>1. Porta("proprietario", q) /\ "proprietario" \in Passi
  BY DEF Porta, Passi, Api
<1>2. r \in Client => Visto("proprietario", q, visti[r])
  BY DEF Visto, Api
<1>3. CASE q.confine = {}
  BY <1>3, RifiutaAvanza DEF Prosegue
<1>4. CASE q.confine # {}
  BY <1>1, <1>2, <1>4, LeggeAvanza, DiUna DEF Prosegue
<1> QED
  BY <1>3, <1>4

LEMMA CollectionReadRulesGruppoAvanza ==
    ASSUME RubricaInv, NEW r \in Richieste, CollectionReadRulesGruppo(r)
    PROVE  TipiTabelle' /\ Avanza(r)
<1> DEFINE q == req[r]
           C == q.confine \cup Confine(GruppoDi[q.chi])
           n == [q EXCEPT !.confine = C]
<1>1. Prosegue(r, n) /\ pc[r] = "regoleGruppo"
  BY DEF CollectionReadRulesGruppo
<1>2. q \in Richiesta /\ Porta("regoleGruppo", q) /\ q.op = "lascia" /\ q.chi \in Utenti
  BY <1>1, DiUna DEF Porta
<1>3. Confine(GruppoDi[q.chi]) \in SUBSET (Utenti \X (1 .. MaxColl))
  BY <1>2, ConfineVisto
<1>4. C \in SUBSET (Utenti \X (1 .. MaxColl))
  BY <1>2, <1>3 DEF Richiesta
<1>5. n \in Richiesta /\ n.op = q.op /\ n.chi = q.chi /\ n.confine = C
  <2> HIDE DEF C
  <2> QED
    BY <1>2, <1>4 DEF Richiesta
<1>6. ASSUME r \in Client PROVE VistoLascia("proprietario", n, visti[r])
  <2>1. VistoLascia("regoleGruppo", q, visti[r])
    BY <1>1, <1>2, <1>6, DiUna DEF Visto
  <2>2. \A c \in Confine(GruppoDi[q.chi]) : c[1] # q.chi => <<"regola", c[1], c[2]>> \in visti[r]
    BY <1>2, <1>6, ConfineVisto
  <2>3. \A c \in C : c[1] # q.chi => <<"regola", c[1], c[2]>> \in visti[r]
    BY <2>1, <2>2 DEF VistoLascia
  <2> HIDE DEF n, q, C
  <2> QED
    BY <1>5, <2>1, <2>3 DEF VistoLascia
<1> HIDE DEF n, q, C
<1> QED
  BY <1>1, <1>2, <1>5, <1>6, ProsegueAvanza

LEMMA ProprietarioAvanza ==
    ASSUME RubricaInv, NEW r \in Richieste, Proprietario(r)
    PROVE  TipiTabelle' /\ Avanza(r)
<1> DEFINE q == req[r]
<1>1. q \in Richiesta /\ pc[r] = "proprietario" /\ q.op = "lascia" /\ q.chi \in Utenti
  BY DiUna DEF Proprietario, Porta
<1>2. r \in Client => VistoLascia("proprietario", q, visti[r])
  BY <1>1, DiUna DEF Visto
<1>3. PICK c \in q.confine :
        IF CheConta(c[1])
        THEN Legge(r, "conta", [q EXCEPT !.di = c[1], !.coll = c[2], !.confine = @ \ {c}])
        ELSE Prosegue(r, [q EXCEPT !.confine = @ \ {c}])
  BY DEF Proprietario
<1>4. c[1] \in Utenti /\ c[2] \in 1 .. MaxColl /\ q.confine \ {c} \in SUBSET (Utenti \X (1 .. MaxColl))
  BY <1>1 DEF Richiesta
<1>5. CASE CheConta(c[1])
  <2> DEFINE D == q.confine \ {c}
             n == [q EXCEPT !.di = c[1], !.coll = c[2], !.confine = D]
  <2>1. Legge(r, "conta", n)
    BY <1>3, <1>5
  <2>2. /\ n \in Richiesta
        /\ n.op = q.op /\ n.chi = q.chi /\ n.di = c[1] /\ n.coll = c[2] /\ n.confine = D
    <3>1. c[2] \in 0 .. MaxColl /\ D \in SUBSET (Utenti \X (1 .. MaxColl))
      BY <1>4
    <3> HIDE DEF D
    <3> QED
      BY <1>1, <1>4, <3>1 DEF Richiesta
  <2>3. Porta("conta", n) /\ "conta" \in Passi
    <3> HIDE DEF n, q
    <3> QED
      BY <1>1, <2>2 DEF Porta, Passi, Api
  <2>4. ASSUME r \in Client PROVE Visto("conta", n, visti[r])
    <3>1. ASSUME c[1] # q.chi
          PROVE  {<<"persona", c[1], 0>>, <<"regola", c[1], c[2]>>} \subseteq visti[r]
      <4>1. <<"regola", c[1], c[2]>> \in visti[r]
        BY <1>2, <2>4, <3>1 DEF VistoLascia
      <4>2. stato[c[1]] \in {"attivo", "disattivo"}
        BY <1>4, <1>5, DiUna DEF CheConta, TipiTabelle
      <4>3. <<"persona", c[1], 0>> \in Fatti(r)
        BY <1>1, <1>4, <3>1, <4>2 DEF Fatti, Api
      <4> QED
        BY <2>4, <4>1, <4>3, DiUna
    <3>2. c[2] # 0
      BY <1>4
    <3> HIDE DEF n, q
    <3> QED
      BY <1>1, <1>2, <1>4, <2>2, <2>4, <3>1, <3>2 DEF Visto, VistoLascia, Api
  <2> HIDE DEF n, q
  <2> QED
    BY <2>1, <2>2, <2>3, <2>4, LeggeAvanza, DiUna
<1>6. CASE ~CheConta(c[1])
  <2> DEFINE n == [q EXCEPT !.confine = @ \ {c}]
  <2>1. Prosegue(r, n)
    BY <1>3, <1>6
  <2>2. n \in Richiesta /\ n.op = q.op /\ n.chi = q.chi /\ n.confine = q.confine \ {c}
    BY <1>1, <1>4 DEF Richiesta
  <2> HIDE DEF n, q
  <2>3. r \in Client => VistoLascia("proprietario", n, visti[r])
    BY <1>2, <2>2 DEF VistoLascia
  <2> QED
    BY <1>1, <2>1, <2>2, <2>3, ProsegueAvanza
<1> QED
  BY <1>5, <1>6

LEMMA ContaAvanza ==
    ASSUME RubricaInv, NEW r \in Richieste, Conta(r)
    PROVE  TipiTabelle' /\ Avanza(r)
<1> DEFINE q == req[r]
           trovate == Trova(q.di, q.nome, q.coll)
           n == [q EXCEPT !.di = Nessuno, !.coll = 0]
<1>1. q \in Richiesta /\ pc[r] = "conta" /\ Porta("conta", q) /\ q.op = "lascia" /\ q.chi \in Utenti
  BY DiUna DEF Conta, Porta
<1>2. r \in Client => VistoLascia("conta", q, visti[r])
  BY <1>1, DiUna DEF Visto
<1>3. CASE trovate # {}
  <2>1. Legge(r, "registra", q)
    BY <1>3 DEF Conta
  <2>2. Porta("registra", q) /\ "registra" \in Passi
    BY <1>1 DEF Porta, Passi, Api
  <2>3. ASSUME r \in Client PROVE Confinato(q, visti[r])
    <3>1. PICK v \in righe : v.di = q.di /\ v.nome = q.nome /\ v.coll = q.coll
      BY <1>3 DEF Trova
    <3>2. q.di \in Utenti /\ q.coll # 0 /\ q.coll \in 0 .. MaxColl
      BY <1>1, <1>2, <2>3 DEF VistoLascia, Richiesta
    <3>3. CASE q.di = q.chi
      <4>1. <<"voce", q.chi, 0>> \in Fatti(r)
        BY <1>1, <3>1, <3>3 DEF Fatti, Api
      <4>2. <<"voce", q.chi, 0>> \in visti[r] /\ 0 \in 0 .. MaxColl
        BY <2>3, <4>1, DiUna
      <4> HIDE DEF q
      <4> QED
        BY <1>1, <4>2 DEF Confinato
    <3>4. CASE q.di # q.chi
      <4>1. <<"voce", q.di, q.coll>> \in Fatti(r)
        BY <1>1, <3>1, <3>2, <3>4 DEF Fatti, Api
      <4>2. <<"voce", q.di, q.coll>> \in visti[r]
        BY <2>3, <4>1, DiUna
      <4>3. {<<"persona", q.di, 0>>, <<"regola", q.di, q.coll>>} \subseteq visti[r]
        BY <1>2, <2>3, <3>4 DEF VistoLascia
      <4> HIDE DEF q
      <4> QED
        BY <3>2, <4>2, <4>3 DEF Confinato
    <3> QED
      BY <3>3, <3>4
  <2>4. r \in Client => Visto("registra", q, visti[r])
    <3> HIDE DEF q
    <3> QED
      BY <1>1, <1>2, <2>3 DEF Visto, VistoLascia, Api
  <2> HIDE DEF q
  <2> QED
    BY <1>1, <2>1, <2>2, <2>4, LeggeAvanza, DiUna
<1>4. CASE trovate = {}
  <2>1. Prosegue(r, n)
    BY <1>4 DEF Conta
  <2>2. n \in Richiesta /\ n.op = q.op /\ n.chi = q.chi /\ n.confine = q.confine
    <3>1. 0 \in 0 .. MaxColl /\ Nessuno \in Utenti \cup {Nessuno}
      OBVIOUS
    <3> QED
      BY <1>1, <3>1 DEF Richiesta
  <2> HIDE DEF n, q
  <2>3. r \in Client => VistoLascia("proprietario", n, visti[r])
    BY <1>2, <2>2 DEF VistoLascia
  <2> QED
    BY <1>1, <2>1, <2>2, <2>3, ProsegueAvanza
<1> QED
  BY <1>3, <1>4
-----------------------------------------------------------------------------
(* Every step of a request. *)
LEMMA CominciaClientAvanza ==
    ASSUME RubricaInv, NEW r \in Client, CominciaClient(r)
    PROVE  TipiTabelle' /\ Avanza(r)
<1> r \in Richieste
  BY DEF Richieste
<1> QED
  BY CheckGuidAvanza, UpAbAvanza, AbAvanza, RilasciaAvanza, RilasciaTecnicoAvanza
     DEF CominciaClient, Lasciapassare, LasciapassareTecnico

LEMMA CominciaPannelloAvanza ==
    ASSUME RubricaInv, NEW r \in Pannello, CominciaPannello(r)
    PROVE  TipiTabelle' /\ Avanza(r)
<1> r \in Richieste
  BY DEF Richieste
<1>1. ASSUME NEW n \in Pc, NEW di \in Utenti, NEW coll \in 0 .. MaxColl,
             \/ Create(r, n, di, coll) \/ BatchCreate(r, n, di, coll) \/ BatchCreateFromPeers(r, n, di, coll)
             \/ MyCreate(r, n, di, coll) \/ MyBatchCreateFromPeers(r, n, di, coll)
      PROVE  TipiTabelle' /\ Avanza(r)
  <2>1. Controllata(r, n, di, coll) /\ n \in Nomi
    BY <1>1 DEF Create, BatchCreate, BatchCreateFromPeers, MyCreate, MyBatchCreateFromPeers, Nomi
  <2> QED
    BY <2>1, ControllataAvanza
<1>2. ASSUME NEW v \in righe, NEW u \in Utenti, NEW coll \in 0 .. MaxColl,
             \/ Update(r, v, u, coll) \/ UpdateTag(r, v, u, coll)
             \/ MyUpdate(r, v, u, coll) \/ MyUpdateTag(r, v, u, coll)
      PROVE  TipiTabelle' /\ Avanza(r)
  BY <1>2, SalvaAvanza DEF Update, UpdateTag, MyUpdate, MyUpdateTag
<1>3. ASSUME NEW v \in righe, NEW u \in Utenti,
             Delete(r, v) \/ DeleteTag(r, v) \/ MyDelete(r, v, u) \/ MyDeleteTag(r, v, u)
      PROVE  TipiTabelle' /\ Avanza(r)
  BY <1>3, DaCancellareAvanza DEF Delete, DeleteTag, MyDelete, MyDeleteTag
<1>4. ASSUME NEW k \in collezioni, NEW u \in Utenti, MyUpdateCollection(r, k, u)
      PROVE  TipiTabelle' /\ Avanza(r)
  BY <1>4, MyUpdateCollectionAvanza
<1>5. ASSUME NEW di \in Utenti, NEW coll \in 1 .. MaxColl, NEW w \in Verso,
             \/ NuovaRegola(r, di, coll, w) \/ MyNuovaRegola(r, di, coll, w)
             \/ \E id \in 1 .. prossima.regole - 1 : CambiaRegola(r, id, di, coll, w)
             \/ \E x \in regole : MyCambiaRegola(r, x, di, coll, w)
      PROVE  TipiTabelle' /\ Avanza(r)
  <2>1. TipiTabelle /\ MaxRegole \in Nat
    BY DiUna
  <2>2. prossima.regole \in Nat \ {0} /\ prossima.regole <= MaxRegole + 1
    BY <2>1 DEF TipiTabelle
  <2>3. \A x \in regole : x.id \in 0 .. MaxRegole
    BY <2>1 DEF TipiTabelle, Regola
  <2>4. PICK id \in 0 .. MaxRegole : ControllaRegola(r, id, di, coll, w)
    <3>1. CASE NuovaRegola(r, di, coll, w) \/ MyNuovaRegola(r, di, coll, w)
      BY <2>1, <3>1 DEF NuovaRegola, MyNuovaRegola
    <3>2. CASE \E id \in 1 .. prossima.regole - 1 : CambiaRegola(r, id, di, coll, w)
      BY <2>1, <2>2, <3>2 DEF CambiaRegola
    <3>3. CASE \E x \in regole : MyCambiaRegola(r, x, di, coll, w)
      BY <2>3, <3>3 DEF MyCambiaRegola
    <3> QED
      BY <1>5, <3>1, <3>2, <3>3
  <2> QED
    BY <2>4, ControllaRegolaAvanza
<1> QED
  BY <1>1, <1>2, <1>3, <1>4, <1>5 DEF CominciaPannello

LEMMA PassoAvanza ==
    ASSUME RubricaInv, NEW r \in Richieste, Passo(r)
    PROVE  TipiTabelle' /\ Avanza(r)
<1>1. CASE \/ CheckGuidCollezione(r) \/ UserMaxRule(r) \/ UserMaxRuleGruppo(r)
           \/ Peers(r) \/ PTags(r)
  BY <1>1, CollezioneAvanza, PersonaAvanza, GruppoAvanza, LetturaAvanza
<1>2. CASE \E n \in Pc : PeerAdd(r, n) \/ PeerUpdate(r, n) \/ PeerDel(r, n)
  BY <1>2, AggiuntaAvanza, CambioAvanza, CancellazioneAvanza DEF Nomi
<1>3. CASE \E t \in Tag : TagAdd(r, t) \/ TagUpdate(r, t) \/ TagDel(r, t)
  BY <1>3, AggiuntaAvanza, CambioAvanza, CancellazioneAvanza DEF Nomi, TagDel
<1>4. CASE ListByUserIdAndCollectionId(r) \/ firmaERegistra(r) \/ Muore(r)
  BY <1>4, RifiutaAvanza DEF ListByUserIdAndCollectionId, firmaERegistra, Muore
<1>5. CASE \/ AddAddressBook(r) \/ Cambia(r) \/ Toglie(r)
           \/ \E S \in SUBSET Tag : UpdateTags(r, S)
  BY <1>5, AddAvanza, CambiaAvanza, ToglieAvanza, TagAvanza
<1>6. CASE \/ Inserisci(r) \/ UpdateAll(r) \/ Cancella(r) \/ Tieni(r)
           \/ CreateRule(r) \/ UpdateRule(r)
  BY <1>6, InserisciAvanza, UpdateAllAvanza, CancellaAvanza, TieniAvanza, CreateRuleAvanza,
     UpdateRuleAvanza
<1>7. CASE \/ NellaRubrica(r) \/ CollectionReadRules(r) \/ CollectionReadRulesGruppo(r)
           \/ Proprietario(r) \/ Conta(r)
  BY <1>7, NellaRubricaAvanza, CollectionReadRulesAvanza, CollectionReadRulesGruppoAvanza,
     ProprietarioAvanza, ContaAvanza
<1> QED
  BY <1>1, <1>2, <1>3, <1>4, <1>5, <1>6, <1>7 DEF Passo

(* What is no request's keeps the tables as they should be. *)
LEMMA AltroTabelle ==
    ASSUME RubricaInv, Altro
    PROVE  TipiTabelle' /\ UNCHANGED <<pc, req>>
<1>1. TipiTabelle
  BY DEF RubricaInv, Tipi
<1>2. ASSUME NEW u \in Utenti, CreateCollection(u)
      PROVE  TipiTabelle' /\ UNCHANGED <<pc, req>>
  <2>1. prossima.collezioni \in Nat \ {0} /\ prossima.collezioni <= MaxColl
    BY <1>1, <1>2 DEF TipiTabelle, CreateCollection
  <2>2. [id |-> prossima.collezioni, di |-> u] \in Collezione
    BY <2>1 DEF Collezione
  <2> QED
    BY <1>1, <1>2, <2>1, <2>2 DEF TipiTabelle, CreateCollection, SoloCollezioni
<1>3. ASSUME NEW u \in Utenti, CancellaUtente(u)
      PROVE  TipiTabelle' /\ UNCHANGED <<pc, req>>
  BY <1>1, <1>3 DEF TipiTabelle, CancellaUtente, Cambiano
<1>4. ASSUME NEW u \in Utenti, NEW s \in {"attivo", "disattivo", "agente"}, CambiaUtente(u, s)
      PROVE  TipiTabelle' /\ UNCHANGED <<pc, req>>
  BY <1>1, <1>4 DEF TipiTabelle, CambiaUtente, Cambiano
<1>5. ASSUME NEW k \in collezioni, NEW u \in Utenti, DeleteCollection(k)
      PROVE  TipiTabelle' /\ UNCHANGED <<pc, req>>
  BY <1>1, <1>5 DEF TipiTabelle, DeleteCollection, CancellaCollezione
<1>6. ASSUME NEW k \in collezioni, NEW u \in Utenti, UpdateCollection(k, u)
      PROVE  TipiTabelle' /\ UNCHANGED <<pc, req>>
  BY <1>1, <1>6, CollezioniConTipi DEF UpdateCollection
<1>7. ASSUME NEW x \in regole, DeleteRule(x)
      PROVE  TipiTabelle' /\ UNCHANGED <<pc, req>>
  BY <1>1, <1>7 DEF TipiTabelle, DeleteRule, SoloRegole
<1>8. ASSUME NEW t \in Tag, NEW di \in Utenti, NEW coll \in 0 .. MaxColl, CreateTag(t, di, coll)
      PROVE  TipiTabelle' /\ UNCHANGED <<pc, req>>
  BY <1>1, <1>8, InserisceTipi DEF CreateTag, Nomi
<1> QED
  BY <1>2, <1>3, <1>4, <1>5, <1>6, <1>7, <1>8
     DEF Altro, MyCreateCollection, MyDeleteCollection, MyDeleteRule, MyCreateTag

LEMMA NextInv == RubricaInv /\ [Next]_vars => RubricaInv'
<1> SUFFICES ASSUME RubricaInv, [Next]_vars PROVE RubricaInv'
  OBVIOUS
<1>1. CASE UNCHANGED vars
  <2>1. /\ UNCHANGED <<righe, collezioni, regole, stato, prossima, pc, req, visti>>
        /\ \A s \in Client : Fatti(s)' = Fatti(s)
    BY <1>1 DEF vars, dati, Fatti, Api
  <2>2. Tipi'
    BY <2>1 DEF RubricaInv, Tipi, TipiTabelle, TipiRichieste
  <2>3. VistiInv'
    BY <2>1 DEF RubricaInv, VistiInv
  <2> QED
    BY <2>2, <2>3 DEF RubricaInv
<1>2. CASE Next
  <2>1. visti' = [s \in Client |-> IF req'[s] = Vuota THEN {} ELSE visti[s] \cup Fatti(s)']
    BY <1>2 DEF Next
  <2>2. CASE Altro
    BY <2>1, <2>2, AltroTabelle, AltroInv
  <2>3. ASSUME NEW r \in Richieste, TipiTabelle' /\ Avanza(r)
        PROVE  RubricaInv'
    BY <2>1, <2>3, PassoInv
  <2>4. CASE \E r \in Client : CominciaClient(r)
    BY <2>3, <2>4, CominciaClientAvanza DEF Richieste
  <2>5. CASE \E r \in Pannello : CominciaPannello(r)
    BY <2>3, <2>5, CominciaPannelloAvanza DEF Richieste
  <2>6. CASE \E r \in Richieste : Passo(r)
    BY <2>3, <2>6, PassoAvanza
  <2> QED
    BY <1>2, <2>2, <2>4, <2>5, <2>6 DEF Next
<1> QED
  BY <1>1, <1>2

LEMMA SempreInv == Spec => []RubricaInv
BY InizioInv, NextInv, PTL DEF Spec
-----------------------------------------------------------------------------
(* A client reads, writes and deletes in an address book of another only with what a rule
   gave it while its request ran, and only in a collection that was of the owner it named:
   whatever the panels, the deletions and the changes of the users do in between. *)
THEOREM PermessoSempreVisto == Spec => []SoloConPermesso
BY SempreInv, InvPermesso, PTL

(* The pass of an agent is registered only for a PC that its tecnico had in an address book
   of its own, or in one of a person shared with it by a rule, each fact true at a moment
   of the request. *)
THEOREM ConfineSempreVisto == Spec => []NelConfine
BY SempreInv, InvConfine, PTL

(* POST /api/ab, in the step that writes the entries, adds and takes away entries of the
   personal address book of the user, and nothing else. *)
THEOREM SincronizzaSoloPersonale == Spec => SoloPersonale
<1> DEFINE Passetto == \A r \in Client :
               pc[r] = "libera" /\ pc'[r] = "tag" =>
                   \A v \in (righe \ righe') \cup (righe' \ righe) :
                       v.di = req'[r].chi /\ v.coll = 0 /\ v.nome \in Pc
<1>1. RubricaInv /\ [Next]_vars => [Passetto]_vars
  <2> SUFFICES ASSUME RubricaInv, Next, NEW r \in Client, pc[r] = "libera", pc'[r] = "tag",
                      NEW v \in (righe \ righe') \cup (righe' \ righe)
               PROVE  v.di = req'[r].chi /\ v.coll = 0 /\ v.nome \in Pc
    OBVIOUS
  <2>1. pc \in [Richieste -> Passi] /\ req \in [Richieste -> Richiesta] /\ r \in Richieste
    BY DEF RubricaInv, Tipi, TipiRichieste, Richieste
  <2>2. ASSUME NEW s \in Richieste, Avanza(s) PROVE s = r
    BY <2>1, <2>2 DEF Avanza, Va
  <2>3. CASE Altro
    BY <2>3, AltroTabelle
  <2>4. CASE \E s \in Client : CominciaClient(s)
    <3>1. CominciaClient(r)
      BY <2>2, <2>4, CominciaClientAvanza DEF Richieste
    <3>2. ~(\E chi, di \in Utenti, coll \in 0 .. MaxColl : CheckGuid(r, chi, di, coll))
      BY <2>1 DEF CheckGuid, Legge, Va
    <3>3. ~(\E chi \in Utenti : Ab(r, chi))
      BY <2>1 DEF Ab, Legge, Va
    <3>4. ~(\E n \in Pc : Lasciapassare(r, n) \/ LasciapassareTecnico(r, n))
      BY <2>1 DEF Lasciapassare, LasciapassareTecnico, Rilascia, RilasciaTecnico, Legge, Va
    <3>5. PICK u \in Utenti, S \in SUBSET Pc : UpAb(r, u, S)
      BY <3>1, <3>2, <3>3, <3>4 DEF CominciaClient
    <3>6. req'[r].chi = u
      BY <2>1, <3>5, VuotaBene DEF UpAb, Va, Richiesta
    <3>7. CASE v \in righe \ righe'
      BY <3>5, <3>6, <3>7 DEF UpAb, Sincronizza, VociVia, Personali
    <3>8. CASE v \in righe' \ righe
      BY <3>5, <3>6, <3>8 DEF UpAb, Sincronizza
    <3> QED
      BY <3>7, <3>8
  <2>5. CASE \E s \in Pannello : CominciaPannello(s)
    BY <2>2, <2>5, CominciaPannelloAvanza DEF Richieste
  <2>6. CASE \E s \in Richieste : Passo(s)
    <3>1. Passo(r)
      BY <2>2, <2>6, PassoAvanza
    <3> QED
      BY <3>1 DEF Passo, CheckGuidCollezione, UserMaxRule, UserMaxRuleGruppo, Peers, PTags,
         PeerAdd, PeerUpdate, PeerDel, TagAdd, TagUpdate, TagDel, Permessa,
         ListByUserIdAndCollectionId, AddAddressBook, Cambia, Toglie, UpdateTags, Inserisci,
         UpdateAll, Cancella, Tieni, CreateRule, UpdateRule, NellaRubrica, CollectionReadRules,
         CollectionReadRulesGruppo, Proprietario, Conta, firmaERegistra, Muore
  <2> QED
    BY <2>3, <2>4, <2>5, <2>6 DEF Next
<1> QED
  BY <1>1, SempreInv, PTL DEF Spec, SoloPersonale
=============================================================================
