---------------------------- MODULE EventiProofs ----------------------------
(***************************************************************************)
(* Theorems about the events of the integration, from the registry of the  *)
(* connections that puts them in the queue (module RegistroConnessioni) to *)
(* the goroutine that delivers them (module Consegna, which implements     *)
(* CodaEventi): for any number of requests, connections, passes, notes,    *)
(* processes and events, and any times.                                    *)
(***************************************************************************)
EXTENDS RegistroConnessioni, Consegna, TLAPS

-----------------------------------------------------------------------------
(***************************************************************************)
(* Module RegistroConnessioni. TipiInv adds to the types what the requests *)
(* carry; VerificaInv and NoteInv say what a row read some steps before    *)
(* may still write back; RaccontoInv says of each thing the registry shows *)
(* that the queue has it, or that a request under way is about to put it   *)
(* there.                                                                  *)
(***************************************************************************)

(* What a request has been asked. *)
Moduli == [azione : {"new", "close", "", "nota"}, nome : Nomi,
           sessione : Sessioni \cup {SessioneNonAutorizzata},
           nota : Note \cup {Nessuno}, nonce : Nonce \cup {Nessuno}]

(* TypeOK says nothing of what the requests bring: it is part of the inductive
   invariant. *)
TipiInv ==
    /\ TypeOK
    /\ modulo \in [Richieste -> Moduli]
    /\ ex \in [Richieste -> Riga \cup {Nessuno}]

(* The forms of the requests are typed. *)
LEMMA ModuliTipo ==
    /\ ModuloVuoto \in Moduli
    /\ \A n \in Nonce \cup {Nessuno} : [ModuloVuoto EXCEPT !.nonce = n] \in Moduli
    /\ Chiusura \in Moduli
    /\ \A a \in Autorizzazioni, n \in Nonce \cup {Nessuno} : Apertura(a, n) \in Moduli
    /\ \A t \in Note \cup {Nessuno} : Annotazione(t) \in Moduli
<1>1. Nessuno \in Nomi
  BY DEF Nomi
<1>2. ModuloVuoto \in Moduli
  BY <1>1 DEF ModuloVuoto, Moduli
<1>3. \A n \in Nonce \cup {Nessuno} : [ModuloVuoto EXCEPT !.nonce = n] \in Moduli
  BY <1>2 DEF Moduli
<1>4. Chiusura \in Moduli
  BY <1>2 DEF Chiusura, Moduli
<1>5. ASSUME NEW a \in Autorizzazioni, NEW n \in Nonce \cup {Nessuno}
      PROVE  Apertura(a, n) \in Moduli
  <2>1. a.nome \in Nomi /\ a.sessione \in Sessioni
    BY DEF Nomi, Sessioni
  <2> QED
    BY <1>2, <2>1 DEF Apertura, Moduli
<1>6. \A t \in Note \cup {Nessuno} : Annotazione(t) \in Moduli
  BY <1>2 DEF Annotazione, Moduli
<1> QED
  BY <1>2, <1>3, <1>4, <1>5, <1>6

(* What a request writes on a row is a row, with the same id and pair. *)
LEMMA ScrittaTipo ==
    ASSUME NEW q \in Riga, NEW e \in Riga, NEW m \in Moduli
    PROVE  /\ Scritta(q, e, m) \in Riga
           /\ Scritta(q, e, m).id = q.id
           /\ Scritta(q, e, m).coppia = q.coppia
<1>1. CASE m.azione = "close"
  <2>1. Scritta(q, e, m) = [q EXCEPT !.chiusa   = TRUE,
                     !.nome     = SeNonZero(e.nome, @, Nessuno),
                     !.sessione = e.sessione,
                     !.nota     = SeNonZero(e.nota, @, Nessuno),
                     !.tecnico  = SeNonZero(e.tecnico, @, Nessuno)]
    BY <1>1 DEF Scritta
  <2> QED
    BY <2>1 DEF Riga, SeNonZero
<1>2. CASE m.azione = ""
  <2>1. Scritta(q, e, m) = [q EXCEPT !.nome = m.nome, !.sessione = m.sessione]
    BY <1>2 DEF Scritta
  <2> QED
    BY <2>1 DEF Riga, Moduli
<1>3. CASE m.azione \notin {"close", ""}
  <2>1. Scritta(q, e, m) = [q EXCEPT !.nota = m.nota]
    BY <1>3 DEF Scritta
  <2> QED
    BY <2>1 DEF Riga, Moduli
<1> QED
  BY <1>1, <1>2, <1>3

(* A request that begins keeps the types of what it holds. *)
LEMMA IniziaTipo ==
    ASSUME TipiInv, NEW r \in Richieste, NEW m \in Moduli, NEW q \in Riga,
           NEW dopo \in Passi, Comincia(r, m, q, dopo)
    PROVE  /\ pc' \in [Richieste -> Passi]
           /\ modulo' \in [Richieste -> Moduli]
           /\ ex' \in [Richieste -> Riga \cup {Nessuno}]
           /\ \A s \in Richieste : pc'[s] # "libera" => ex'[s] \in Riga
BY DEF Comincia, TipiInv, TypeOK

(* A request that goes on keeps the types of what it holds. *)
LEMMA ProsegueTipo ==
    ASSUME TipiInv, NEW r \in Richieste, NEW q, NEW dopo \in Passi,
           q \in Riga \/ dopo = "libera", Prosegui(r, dopo, q)
    PROVE  /\ pc' \in [Richieste -> Passi]
           /\ modulo' \in [Richieste -> Moduli]
           /\ ex' \in [Richieste -> Riga \cup {Nessuno}]
           /\ \A s \in Richieste : pc'[s] # "libera" => ex'[s] \in Riga
BY ModuliTipo DEF Prosegui, TipiInv, TypeOK

(* Where a handler goes after a write or a pass. *)
LEMMA DopoTipo ==
    ASSUME NEW m, NEW e
    PROVE  DopoLega(m, e) \in Passi /\ DopoScritta(m, e) \in Passi
BY DEF DopoLega, DopoScritta, Passi

-----------------------------------------------------------------------------
(* The table of the connections, as TypeOK has it. *)
RegistroTipo ==
    /\ registro \subseteq Riga
    /\ \A p, q \in registro : p.id = q.id => p = q
    /\ prossimo \in 1 .. MaxConn + 1
    /\ \A q \in registro : q.id < prossimo
    /\ guidNoti \subseteq Vivi

(* Writing on the rows, each with its id, keeps the table. *)
LEMMA RegistroRiscritto ==
    ASSUME TipiInv, NEW f, \A q \in registro : f[q] \in Riga /\ f[q].id = q.id,
           registro' = {f[q] : q \in registro}, UNCHANGED <<prossimo, guidNoti>>
    PROVE  RegistroTipo' /\ Vivi' = Vivi
BY DEF RegistroTipo, TipiInv, TypeOK, Vivi

(* Every step keeps the types. *)
LEMMA TipiPasso ==
    ASSUME TipiInv, [Next]_vars
    PROVE  TipiInv'
<1> USE RegistroAssumption
<1>1. ASSUME NEW r \in Richieste, NEW c \in Coppie, NEW n \in Nonce \cup {Nessuno},
             CreateAuditConn(r, c, n)
      PROVE  TipiInv'
  <2> DEFINE q == [id |-> prossimo, coppia |-> c, nome |-> Nessuno,
              sessione |-> SessioneNonAutorizzata, chiusa |-> FALSE, nota |-> Nessuno,
              tecnico |-> Nessuno]
             m == [ModuloVuoto EXCEPT !.nonce = n]
  <2>1. q \in Riga /\ q.id = prossimo
    BY <1>1 DEF CreateAuditConn, TipiInv, TypeOK, Riga, Id, Nomi
  <2>2. m \in Moduli
    BY ModuliTipo
  <2>3. /\ prossimo <= MaxConn
        /\ registro' = registro \cup {q}
        /\ prossimo' = prossimo + 1
        /\ Comincia(r, m, q, "lega") \/ UNCHANGED <<pc, modulo, ex>>
        /\ UNCHANGED <<lasciapassare, guidNoti, eventi>>
    BY <1>1 DEF CreateAuditConn
  <2> HIDE DEF q, m
  <2>4. RegistroTipo'
    BY <2>1, <2>3 DEF TipiInv, TypeOK, RegistroTipo, Vivi, Riga, Id
  <2>5. CASE Comincia(r, m, q, "lega")
    <3>1. "lega" \in Passi
      BY DEF Passi
    <3> QED
      BY <2>1, <2>2, <2>3, <2>4, <2>5, <3>1, IniziaTipo DEF TipiInv, TypeOK, RegistroTipo
  <2>6. CASE UNCHANGED <<pc, modulo, ex>>
    BY <2>3, <2>4, <2>6 DEF TipiInv, TypeOK, RegistroTipo
  <2> QED
    BY <2>3, <2>5, <2>6
<1>2. ASSUME NEW r \in Richieste, NEW m \in Moduli, NEW q \in registro,
             Comincia(r, m, q, "scrive"), UNCHANGED <<tabelle, guidNoti>>
      PROVE  TipiInv'
  <2>1. q \in Riga /\ "scrive" \in Passi
    BY DEF TipiInv, TypeOK, Passi
  <2>2. RegistroTipo'
    BY <1>2 DEF TipiInv, TypeOK, RegistroTipo, tabelle, Vivi
  <2> QED
    BY <1>2, <2>1, <2>2, IniziaTipo DEF TipiInv, TypeOK, RegistroTipo, tabelle
<1>3. ASSUME NEW r \in Richieste, Scrive(r)
      PROVE  TipiInv'
  <2> DEFINE m == modulo[r]
             e == ex[r]
             f == [q \in registro |-> IF q.id = e.id THEN Scritta(q, e, m) ELSE q]
             w == IF m.azione = "" THEN e ELSE Scritta(e, e, m)
  <2>1. m \in Moduli /\ e \in Riga
    BY <1>3 DEF Scrive, TipiInv, TypeOK
  <2>2. \A q \in registro : f[q] \in Riga /\ f[q].id = q.id
    <3> SUFFICES ASSUME NEW q \in registro PROVE f[q] \in Riga /\ f[q].id = q.id
      OBVIOUS
    <3>1. q \in Riga
      BY DEF TipiInv, TypeOK
    <3> QED
      BY <2>1, <3>1, ScrittaTipo
  <2>3. w \in Riga
    BY <2>1, ScrittaTipo
  <2>4. /\ registro' = {f[q] : q \in registro}
        /\ Prosegui(r, DopoScritta(m, e), w)
        /\ UNCHANGED <<prossimo, lasciapassare, guidNoti, eventi>>
    BY <1>3 DEF Scrive
  <2> HIDE DEF f, w
  <2>5. RegistroTipo'
    BY <2>2, <2>4, RegistroRiscritto
  <2> HIDE DEF m, e
  <2> QED
    BY <2>3, <2>4, <2>5, DopoTipo, ProsegueTipo DEF TipiInv, TypeOK, RegistroTipo
<1>4. ASSUME NEW r \in Richieste, Lega(r)
      PROVE  TipiInv'
  <2> DEFINE m == modulo[r]
             e == ex[r]
  <2>1. m \in Moduli /\ e \in Riga
    BY <1>4 DEF Lega, TipiInv, TypeOK
  <2>2. CASE /\ Prosegui(r, DopoLega(m, e), e)
             /\ UNCHANGED <<registro, lasciapassare, prossimo, guidNoti, eventi>>
    <3>1. RegistroTipo'
      BY <2>2 DEF TipiInv, TypeOK, RegistroTipo, Vivi
    <3> HIDE DEF m, e
    <3> QED
      BY <2>1, <2>2, <3>1, DopoTipo, ProsegueTipo DEF TipiInv, TypeOK, RegistroTipo
  <2>3. ASSUME NEW l \in lasciapassare, Legabile(l, m.nonce, e),
               lasciapassare' = (lasciapassare \ {l}) \cup {[l EXCEPT !.conn = e.id]},
               registro' = {Segnata(q, e, l.tecnico) : q \in registro},
               Prosegui(r, DopoLega(m, e), [e EXCEPT !.tecnico = l.tecnico]),
               UNCHANGED <<prossimo, guidNoti, eventi>>
        PROVE  TipiInv'
    <3>1. l \in Lasciapassare
      BY DEF TipiInv, TypeOK
    <3>2. \A q \in registro : /\ Segnata(q, e, l.tecnico) \in Riga
                              /\ Segnata(q, e, l.tecnico).id = q.id
      BY <3>1 DEF Segnata, Riga, Lasciapassare, TipiInv, TypeOK
    <3>3. RegistroTipo'
      <4> DEFINE f == [q \in registro |-> Segnata(q, e, l.tecnico)]
      <4>1. /\ \A q \in registro : f[q] \in Riga /\ f[q].id = q.id
            /\ registro' = {f[q] : q \in registro}
        BY <2>3, <3>2
      <4> HIDE DEF f
      <4> QED
        BY <2>3, <4>1, RegistroRiscritto
    <3>4. [e EXCEPT !.tecnico = l.tecnico] \in Riga
      BY <2>1, <3>1 DEF Riga, Lasciapassare
    <3>5. [l EXCEPT !.conn = e.id] \in Lasciapassare /\ [l EXCEPT !.conn = e.id].nonce = l.nonce
      BY <2>1, <3>1 DEF Riga, Lasciapassare
    <3>6. /\ lasciapassare' \subseteq Lasciapassare
          /\ \A h, k \in lasciapassare' : h.nonce = k.nonce => h = k
      <4> DEFINE l1 == [l EXCEPT !.conn = e.id]
      <4>1. lasciapassare' = (lasciapassare \ {l}) \cup {l1} /\ l1.nonce = l.nonce
        BY <2>3, <3>5
      <4>2. l1 \in Lasciapassare
        BY <3>5
      <4> HIDE DEF l1
      <4> QED
        BY <4>1, <4>2 DEF TipiInv, TypeOK
    <3> HIDE DEF m, e
    <3> QED
      BY <2>3, <3>3, <3>4, <3>6, DopoTipo, ProsegueTipo DEF TipiInv, TypeOK, RegistroTipo
  <2> QED
    BY <1>4, <2>2, <2>3 DEF Lega
<1>5. ASSUME NEW r \in Richieste, AccodaSessione(r)
      PROVE  TipiInv'
  <2> DEFINE m == modulo[r]
             e == ex[r]
  <2>1. m \in Moduli /\ e \in Riga
    BY <1>5 DEF AccodaSessione, TipiInv, TypeOK
  <2>2. DaAccodare(m, e) \subseteq Detto
    BY <2>1 DEF DaAccodare, Detto, Moduli, Riga
  <2>3. eventi' \subseteq Detto
    BY <1>5, <2>2 DEF AccodaSessione, TipiInv, TypeOK
  <2>4. RegistroTipo'
    BY <1>5 DEF AccodaSessione, TipiInv, TypeOK, RegistroTipo, Vivi
  <2>5. "libera" \in Passi
    BY DEF Passi
  <2> QED
    BY <1>5, <2>3, <2>4, <2>5, ProsegueTipo DEF AccodaSessione, TipiInv, TypeOK, RegistroTipo
<1>6. ASSUME NEW n \in Nonce, NEW p \in Pc, NEW t \in Tecnici, firmaERegistra(n, p, t)
      PROVE  TipiInv'
  <2>1. RegistroTipo'
    BY <1>6 DEF firmaERegistra, TipiInv, TypeOK, RegistroTipo, Vivi
  <2> DEFINE l == [nonce |-> n, pc |-> p, tecnico |-> t, conn |-> 0]
  <2>2. /\ l \in Lasciapassare
        /\ lasciapassare' = lasciapassare \cup {l}
        /\ \A k \in lasciapassare : k.nonce # l.nonce
    BY <1>6 DEF firmaERegistra, Lasciapassare
  <2> HIDE DEF l
  <2>3. /\ lasciapassare' \subseteq Lasciapassare
        /\ \A h, k \in lasciapassare' : h.nonce = k.nonce => h = k
    BY <2>2 DEF TipiInv, TypeOK
  <2> QED
    BY <1>6, <2>1, <2>3 DEF firmaERegistra, TipiInv, TypeOK, RegistroTipo
<1>7. ASSUME NEW p \in Pc, NEW s, NEW nome \in Nomi, ConnAttiva(p, s, nome)
      PROVE  TipiInv'
  <2>1. PICK q \in registro : guidNoti' = guidNoti \cup {q.id}
    BY <1>7 DEF ConnAttiva
  <2>2. RegistroTipo'
    BY <1>7, <2>1 DEF ConnAttiva, tabelle, TipiInv, TypeOK, RegistroTipo, Vivi
  <2> QED
    BY <1>7, <2>2 DEF ConnAttiva, tabelle, TipiInv, TypeOK, RegistroTipo
<1>8. ASSUME NEW ids \in SUBSET Id, BatchDeleteAuditConn(ids)
      PROVE  TipiInv'
  <2>1. RegistroTipo'
    BY <1>8 DEF BatchDeleteAuditConn, TipiInv, TypeOK, RegistroTipo, Vivi
  <2> QED
    BY <1>8, <2>1 DEF BatchDeleteAuditConn, TipiInv, TypeOK, RegistroTipo
<1>9. CASE UNCHANGED vars
  BY <1>9 DEF vars, tabelle, TipiInv, TypeOK, Vivi
<1>10. ASSUME NEW r \in Richieste, DalPc(r)
       PROVE  TipiInv'
  BY <1>1, <1>2, <1>10, ModuliTipo DEF DalPc, InfoByPeerIdAndConnId
<1>11. ASSUME NEW r \in Richieste, DalTecnico(r)
       PROVE  TipiInv'
  BY <1>2, <1>11, ModuliTipo DEF DalTecnico, NotaDiSessione, Nota, scriviNota
<1> QED
  BY <1>3, <1>4, <1>5, <1>6, <1>7, <1>8, <1>9, <1>10, <1>11 DEF Next, Prosegue, ConnDelete, BatchConnDelete

(* Type correctness. *)
THEOREM TypeCorrect == Spec => []TypeOK
<1>1. Init => TipiInv
  BY RegistroAssumption, ModuliTipo DEF Init, TipiInv, TypeOK, Vivi, Passi
<1>2. TipiInv /\ [Next]_vars => TipiInv'
  BY TipiPasso
<1>3. TipiInv => TypeOK
  BY DEF TipiInv
<1> QED
  BY <1>1, <1>2, <1>3, PTL DEF Spec
-----------------------------------------------------------------------------
(* A pass is bound once, and for ever. *)
THEOREM LegameSoloUnaVolta == Spec => LegameUnico
<1>1. [Next]_vars => [\A l \in lasciapassare : l.conn # 0 => l \in lasciapassare']_vars
  <2> SUFFICES ASSUME [Next]_vars, NEW l \in lasciapassare, l.conn # 0
               PROVE  l \in lasciapassare'
    OBVIOUS
  <2>1. ASSUME NEW r \in Richieste, Lega(r)
        PROVE  l \in lasciapassare'
    BY <2>1 DEF Lega, Legabile
  <2>2. ASSUME NEW n \in Nonce, NEW p \in Pc, NEW t \in Tecnici, firmaERegistra(n, p, t)
        PROVE  l \in lasciapassare'
    BY <2>2 DEF firmaERegistra
  <2>3. ASSUME UNCHANGED lasciapassare
        PROVE  l \in lasciapassare'
    BY <2>3
  <2> QED
    BY <2>1, <2>2, <2>3
       DEF Next, DalPc, CreateAuditConn, InfoByPeerIdAndConnId, DalTecnico, NotaDiSessione,
           Nota, scriviNota, Prosegue, Scrive, AccodaSessione, ConnAttiva,
           ConnDelete, BatchConnDelete, BatchDeleteAuditConn, tabelle, vars
<1> QED
  BY <1>1, PTL DEF Spec, LegameUnico

-----------------------------------------------------------------------------
(* The row q says nothing of a pass, or a pass of its PC is bound to it. *)
Fondata(q) ==
    q.tecnico # Nessuno =>
        \E l \in lasciapassare : l.conn = q.id /\ l.pc = q.coppia.pc /\ l.tecnico = q.tecnico

(* A row that a request keeps in memory may be older than the table's, which the
   close writes back: the invariant says of both what VerificaFondata says of the
   table, and that an id is of one pair for ever. *)
VerificaInv ==
    /\ \A q \in registro : Fondata(q)
    /\ \A r \in Richieste : pc[r] # "libera" =>
         /\ Fondata(ex[r])
         /\ ex[r].id < prossimo
         /\ \A q \in registro : q.id = ex[r].id => q.coppia = ex[r].coppia

(* What was founded stays so, since passes stay bound. *)
LEMMA FondataResta ==
    ASSUME TipiInv, NEW q \in Riga, Fondata(q),
           \A l \in lasciapassare : l.conn # 0 => l \in lasciapassare'
    PROVE  Fondata(q)'
<1>1. q.id # 0
  BY RegistroAssumption DEF Riga, Id
<1> QED
  BY <1>1 DEF Fondata

(* What a request writes on a row is as founded as the two rows it comes from. *)
LEMMA ScrittaFondata ==
    ASSUME NEW q \in Riga, NEW e \in Riga, NEW m \in Moduli,
           Fondata(q), Fondata(e), q.id = e.id, q.coppia = e.coppia
    PROVE  Fondata(Scritta(q, e, m))
<1> DEFINE s == Scritta(q, e, m)
<1>1. s.id = q.id /\ s.coppia = q.coppia
  BY ScrittaTipo
<1>2. s.tecnico \in {q.tecnico, e.tecnico}
  <2>1. CASE m.azione = "close"
    BY <2>1 DEF Scritta, SeNonZero, Riga
  <2>2. CASE m.azione = ""
    BY <2>2 DEF Scritta, Riga
  <2>3. CASE m.azione \notin {"close", ""}
    <3>1. s = [q EXCEPT !.nota = m.nota]
      BY <2>3 DEF Scritta
    <3> QED
      BY <3>1 DEF Riga
  <2> QED
    BY <2>1, <2>2, <2>3
<1>3. Fondata(s)
  <2> HIDE DEF s
  <2> QED
    BY <1>1, <1>2 DEF Fondata
<1> QED
  BY <1>3

(* A request that goes on with a row e, founded and of the pair of the table's. *)
LEMMA MemoriaProsegue ==
    ASSUME TipiInv, VerificaInv, NEW r \in Richieste, NEW dopo, NEW e,
           Prosegui(r, dopo, e),
           dopo # "libera" => /\ Fondata(e)'
                              /\ e.id < prossimo
                              /\ \A q \in registro : q.id = e.id => q.coppia = e.coppia,
           \A l \in lasciapassare : l.conn # 0 => l \in lasciapassare',
           \A q \in registro' : Fondata(q)',
           \A q \in registro' : \E p \in registro : p.id = q.id /\ p.coppia = q.coppia,
           prossimo' = prossimo
    PROVE  VerificaInv'
<1> SUFFICES ASSUME NEW s \in Richieste, pc'[s] # "libera"
             PROVE  /\ Fondata(ex[s])'
                    /\ ex'[s].id < prossimo
                    /\ \A q \in registro' : q.id = ex'[s].id => q.coppia = ex'[s].coppia
  BY DEF VerificaInv
<1>1. CASE s = r
  <2>1. dopo # "libera" /\ ex'[s] = e
    BY <1>1 DEF Prosegui, TipiInv, TypeOK
  <2>2. Fondata(ex[s])'
    BY <2>1 DEF Fondata
  <2> QED
    BY <2>1, <2>2
<1>2. CASE s # r
  <2>1. pc[s] # "libera" /\ ex'[s] = ex[s]
    BY <1>2 DEF Prosegui, TipiInv, TypeOK
  <2>2. ex[s] \in Riga /\ Fondata(ex[s])
    BY <2>1 DEF TipiInv, TypeOK, VerificaInv
  <2> QED
    BY <2>1, <2>2 DEF VerificaInv, Fondata, Riga, Id
<1> QED
  BY <1>1, <1>2

(* A request that begins with a row of the table, or goes nowhere new. *)
LEMMA MemoriaInizia ==
    ASSUME TipiInv, VerificaInv, NEW r \in Richieste, NEW m, NEW q \in registro', NEW dopo,
           Comincia(r, m, q, dopo) \/ UNCHANGED <<pc, modulo, ex>>,
           UNCHANGED lasciapassare,
           registro' = registro \/ (/\ registro' = registro \cup {q}
                                    /\ q.id = prossimo /\ q.tecnico = Nessuno),
           prossimo' \in Nat, prossimo <= prossimo', q.id < prossimo',
           RegistroTipo'
    PROVE  VerificaInv'
<1>1. \A p \in registro' : Fondata(p)'
  BY DEF VerificaInv, Fondata
<1>2. ASSUME NEW s \in Richieste, pc[s] # "libera", ex'[s] = ex[s]
      PROVE  /\ Fondata(ex[s])'
             /\ ex'[s].id < prossimo'
             /\ \A p \in registro' : p.id = ex'[s].id => p.coppia = ex'[s].coppia
  <2>1. ex[s] \in Riga /\ prossimo \in Int
    BY <1>2 DEF TipiInv, TypeOK
  <2>2. ex[s].id \in Int /\ ex[s].id < prossimo
    BY <1>2, <2>1, RegistroAssumption DEF Riga, Id, VerificaInv
  <2>3. Fondata(ex[s])'
    BY <1>2 DEF VerificaInv, Fondata
  <2> QED
    BY <1>2, <2>1, <2>2, <2>3 DEF VerificaInv
<1>3. CASE UNCHANGED <<pc, modulo, ex>>
  BY <1>1, <1>2, <1>3 DEF VerificaInv
<1>4. CASE Comincia(r, m, q, dopo)
  <2>1. ex' = [ex EXCEPT ![r] = q] /\ pc[r] = "libera" /\ pc' = [pc EXCEPT ![r] = dopo]
    BY <1>4 DEF Comincia
  <2>2. ex'[r] = q
    BY <2>1 DEF TipiInv
  <2>3. Fondata(ex[r])'
    BY <1>1, <2>2 DEF Fondata
  <2>4. \A p \in registro' : p.id = q.id => p.coppia = q.coppia
    BY DEF RegistroTipo
  <2>5. \A s \in Richieste : s # r => ex'[s] = ex[s] /\ pc'[s] = pc[s]
    BY <2>1 DEF TipiInv, TypeOK
  <2> QED
    BY <1>1, <1>2, <2>2, <2>3, <2>4, <2>5 DEF VerificaInv
<1> QED
  BY <1>3, <1>4

(* Every step keeps the invariant. *)
LEMMA VerificaPasso ==
    ASSUME TipiInv, VerificaInv, [Next]_vars
    PROVE  VerificaInv'
<1>0. TipiInv' /\ RegistroTipo /\ RegistroTipo'
  BY TipiPasso DEF TipiInv, TypeOK, RegistroTipo
<1>1. ASSUME NEW r \in Richieste, NEW c \in Coppie, NEW n \in Nonce \cup {Nessuno},
             CreateAuditConn(r, c, n)
      PROVE  VerificaInv'
  <2> DEFINE q == [id |-> prossimo, coppia |-> c, nome |-> Nessuno,
              sessione |-> SessioneNonAutorizzata, chiusa |-> FALSE, nota |-> Nessuno,
              tecnico |-> Nessuno]
             m == [ModuloVuoto EXCEPT !.nonce = n]
  <2>1. /\ registro' = registro \cup {q}
        /\ prossimo' = prossimo + 1
        /\ Comincia(r, m, q, "lega") \/ UNCHANGED <<pc, modulo, ex>>
        /\ UNCHANGED lasciapassare
    BY <1>1 DEF CreateAuditConn
  <2>2. q.id = prossimo /\ q.tecnico = Nessuno
    OBVIOUS
  <2> HIDE DEF q, m
  <2>3. prossimo \in Nat
    BY RegistroAssumption DEF TipiInv, TypeOK
  <2> QED
    BY <1>0, <2>1, <2>2, <2>3, MemoriaInizia
<1>2. ASSUME NEW r \in Richieste, NEW m, NEW q \in registro,
             Comincia(r, m, q, "scrive"), UNCHANGED <<tabelle, guidNoti>>
      PROVE  VerificaInv'
  <2>1. prossimo \in Nat /\ q.id < prossimo
    BY RegistroAssumption DEF TipiInv, TypeOK
  <2>2. UNCHANGED <<registro, prossimo, lasciapassare>>
    BY <1>2 DEF tabelle
  <2> QED
    BY <1>0, <1>2, <2>1, <2>2, MemoriaInizia
<1>3. ASSUME NEW r \in Richieste, Scrive(r)
      PROVE  VerificaInv'
  <2>0. PICK m \in Moduli, e \in Riga : m = modulo[r] /\ e = ex[r]
    BY <1>3 DEF Scrive, TipiInv, TypeOK
  <2> DEFINE w == IF m.azione = "" THEN e ELSE Scritta(e, e, m)
  <2>1. /\ Fondata(e) /\ e.id < prossimo
        /\ \A q \in registro : q.id = e.id => q.coppia = e.coppia
    BY <1>3, <2>0 DEF Scrive, VerificaInv
  <2>2. Fondata(w) /\ w.id = e.id /\ w.coppia = e.coppia
    BY <2>1, ScrittaFondata, ScrittaTipo
  <2>3. ASSUME NEW q \in registro'
        PROVE  Fondata(q) /\ \E p \in registro : p.id = q.id /\ p.coppia = q.coppia
    <3>1. PICK p \in registro : q = IF p.id = e.id THEN Scritta(p, e, m) ELSE p
      BY <1>3, <2>0 DEF Scrive
    <3>2. p \in Riga /\ Fondata(p)
      BY DEF TipiInv, TypeOK, VerificaInv
    <3> QED
      BY <2>1, <3>1, <3>2, ScrittaFondata, ScrittaTipo
  <2>4. /\ Prosegui(r, DopoScritta(m, e), w)
        /\ UNCHANGED <<prossimo, lasciapassare>>
    BY <1>3, <2>0 DEF Scrive
  <2> HIDE DEF w
  <2>5. Fondata(w)' /\ \A q \in registro' : Fondata(q)'
    BY <2>2, <2>3, <2>4 DEF Fondata
  <2> QED
    BY <2>1, <2>2, <2>3, <2>4, <2>5, MemoriaProsegue
<1>4. ASSUME NEW r \in Richieste, Lega(r)
      PROVE  VerificaInv'
  <2>0. PICK m \in Moduli, e \in Riga : m = modulo[r] /\ e = ex[r]
    BY <1>4 DEF Lega, TipiInv, TypeOK
  <2>1. /\ Fondata(e) /\ e.id < prossimo
        /\ \A q \in registro : q.id = e.id => q.coppia = e.coppia
    BY <1>4, <2>0 DEF Lega, VerificaInv
  <2>2. CASE /\ Prosegui(r, DopoLega(m, e), e)
             /\ UNCHANGED <<registro, lasciapassare, prossimo>>
    <3>1. Fondata(e)' /\ \A q \in registro' : Fondata(q)'
      BY <2>1, <2>2 DEF Fondata, VerificaInv
    <3> QED
      BY <2>1, <2>2, <3>1, MemoriaProsegue
  <2>3. ASSUME NEW l \in lasciapassare, Legabile(l, m.nonce, e),
               lasciapassare' = (lasciapassare \ {l}) \cup {[l EXCEPT !.conn = e.id]},
               registro' = {Segnata(q, e, l.tecnico) : q \in registro},
               Prosegui(r, DopoLega(m, e), [e EXCEPT !.tecnico = l.tecnico]),
               prossimo' = prossimo
        PROVE  VerificaInv'
    <3> DEFINE l1 == [l EXCEPT !.conn = e.id]
               e1 == [e EXCEPT !.tecnico = l.tecnico]
    <3>1. /\ l \in Lasciapassare /\ l.conn = 0 /\ l.pc = e.coppia.pc
          /\ l1.conn = e.id /\ l1.pc = e.coppia.pc /\ l1.tecnico = l.tecnico
      BY <2>3 DEF TipiInv, TypeOK, Legabile, Lasciapassare
    <3>2. e1.id = e.id /\ e1.coppia = e.coppia /\ e1.tecnico = l.tecnico
      BY <2>1 DEF Riga
    <3>3. l1 \in lasciapassare' /\ \A k \in lasciapassare : k.conn # 0 => k \in lasciapassare'
      BY <2>3, <3>1
    <3>4. Fondata(e1)'
      BY <3>1, <3>2, <3>3 DEF Fondata
    <3>5. ASSUME NEW q \in registro'
          PROVE  Fondata(q)' /\ \E p \in registro : p.id = q.id /\ p.coppia = q.coppia
      <4>1. PICK p \in registro : q = Segnata(p, e, l.tecnico)
        BY <2>3
      <4>2. p \in Riga /\ Fondata(p)
        BY DEF TipiInv, TypeOK, VerificaInv
      <4>3. CASE p.id = e.id
        <5>1. q.id = e.id /\ q.coppia = e.coppia /\ q.coppia = p.coppia /\ q.tecnico = l.tecnico
          BY <2>1, <4>1, <4>2, <4>3 DEF Segnata, Riga
        <5> QED
          BY <3>1, <3>3, <4>3, <5>1 DEF Fondata
      <4>4. CASE p.id # e.id
        <5>1. q = p
          BY <4>1, <4>4 DEF Segnata
        <5> QED
          BY <3>3, <4>2, <5>1, FondataResta
      <4> QED
        BY <4>3, <4>4
    <3> HIDE DEF l1, e1
    <3>6. Prosegui(r, DopoLega(m, e), e1)
      BY <2>3 DEF e1
    <3> QED
      BY <2>1, <2>3, <3>2, <3>3, <3>4, <3>5, <3>6, MemoriaProsegue
  <2> QED
    BY <1>4, <2>0, <2>2, <2>3 DEF Lega
<1>5. ASSUME NEW r \in Richieste, AccodaSessione(r)
      PROVE  VerificaInv'
  <2>1. /\ Prosegui(r, "libera", Nessuno)
        /\ UNCHANGED <<registro, prossimo, lasciapassare>>
    BY <1>5 DEF AccodaSessione
  <2>2. \A q \in registro' : Fondata(q)'
    BY <2>1 DEF VerificaInv, Fondata
  <2> QED
    BY <2>1, <2>2, MemoriaProsegue
<1>6. ASSUME UNCHANGED <<prossimo, pc, modulo, ex>>,
             \A q \in registro' : q \in registro,
             \A l \in lasciapassare : l \in lasciapassare'
      PROVE  VerificaInv'
  BY <1>6 DEF VerificaInv, Fondata
<1>7. ASSUME NEW n \in Nonce, NEW p \in Pc, NEW t \in Tecnici, firmaERegistra(n, p, t)
      PROVE  VerificaInv'
  BY <1>6, <1>7 DEF firmaERegistra
<1>8. ASSUME NEW p \in Pc, NEW s, NEW nome \in Nomi, ConnAttiva(p, s, nome)
      PROVE  VerificaInv'
  BY <1>6, <1>8 DEF ConnAttiva, tabelle
<1>9. ASSUME NEW ids \in SUBSET Id, BatchDeleteAuditConn(ids)
      PROVE  VerificaInv'
  BY <1>6, <1>9 DEF BatchDeleteAuditConn
<1>10. CASE UNCHANGED vars
  BY <1>6, <1>10 DEF vars, tabelle
<1>11. ASSUME NEW r \in Richieste, DalPc(r)
       PROVE  VerificaInv'
  BY <1>1, <1>2, <1>11 DEF DalPc, InfoByPeerIdAndConnId
<1>12. ASSUME NEW r \in Richieste, DalTecnico(r)
       PROVE  VerificaInv'
  BY <1>2, <1>12 DEF DalTecnico, NotaDiSessione, Nota, scriviNota
<1> QED
  BY <1>3, <1>4, <1>5, <1>7, <1>8, <1>9, <1>10, <1>11, <1>12 DEF Next, Prosegue, ConnDelete, BatchConnDelete

(* A row says that a pass verified it only if a pass of its PC is bound to it,
   with its account: for any number of requests, passes and restarts. *)
THEOREM VerificaSempreFondata == Spec => []VerificaFondata
<1>1. Init => TipiInv /\ VerificaInv
  BY RegistroAssumption, ModuliTipo DEF Init, TipiInv, TypeOK, Vivi, Passi, VerificaInv
<1>2. TipiInv /\ VerificaInv /\ [Next]_vars => TipiInv' /\ VerificaInv'
  BY TipiPasso, VerificaPasso
<1>3. VerificaInv => VerificaFondata
  BY DEF VerificaInv, Fondata, VerificaFondata
<1> QED
  BY <1>1, <1>2, <1>3, PTL DEF Spec

-----------------------------------------------------------------------------
(* The row q was authorised, if it has a session or a note. *)
Sana(q) == (q.sessione # SessioneNonAutorizzata \/ q.nota # Nessuno) => q.nome # Nessuno

(* The rows of id i still in the table were authorised. *)
Autorizzata(i) == \A q \in registro : q.id = i => q.nome # Nessuno

(* A note is written later than the row that allowed it was read, and a close
   brings back an older row: a name once written stays, so what was authorised
   when it was read still is. *)
NoteInv ==
    /\ \A q \in registro : Sana(q)
    /\ \A i \in guidNoti : Autorizzata(i)
    /\ \A r \in Richieste : pc[r] # "libera" =>
         /\ Sana(ex[r])
         /\ ex[r].nome # Nessuno => Autorizzata(ex[r].id)
         /\ ex[r].id < prossimo
         /\ modulo[r].azione = "" => modulo[r].nome # Nessuno
         /\ pc[r] = "scrive" /\ modulo[r].azione \notin {"", "close"} => ex[r].nome # Nessuno

(* What a request writes keeps the name of the row and leaves it sane. *)
LEMMA ScrittaSana ==
    ASSUME NEW q \in Riga, NEW e \in Riga, NEW m \in Moduli, Sana(q), Sana(e),
           m.azione = "" => m.nome # Nessuno,
           m.azione \notin {"", "close"} => q.nome # Nessuno
    PROVE  /\ Sana(Scritta(q, e, m))
           /\ q.nome # Nessuno => Scritta(q, e, m).nome # Nessuno
<1> DEFINE s == Scritta(q, e, m)
<1>1. CASE m.azione = "close"
  <2>1. s = [q EXCEPT !.chiusa   = TRUE,
                     !.nome     = SeNonZero(e.nome, @, Nessuno),
                     !.sessione = e.sessione,
                     !.nota     = SeNonZero(e.nota, @, Nessuno),
                     !.tecnico  = SeNonZero(e.tecnico, @, Nessuno)]
    BY <1>1 DEF Scritta
  <2>2. /\ s.nome = (IF e.nome # Nessuno THEN e.nome ELSE q.nome)
        /\ s.sessione = e.sessione
        /\ s.nota = (IF e.nota # Nessuno THEN e.nota ELSE q.nota)
    BY <2>1 DEF Riga, SeNonZero
  <2> HIDE DEF s
  <2>3. Sana(s) /\ (q.nome # Nessuno => s.nome # Nessuno)
    BY <2>2 DEF Sana
  <2> QED
    BY <2>3 DEF s
<1>2. CASE m.azione = ""
  <2>1. s = [q EXCEPT !.nome = m.nome, !.sessione = m.sessione]
    BY <1>2 DEF Scritta
  <2>2. s.nome = m.nome
    BY <2>1 DEF Riga
  <2> QED
    BY <1>2, <2>2 DEF Sana
<1>3. CASE m.azione \notin {"", "close"}
  <2>1. s = [q EXCEPT !.nota = m.nota]
    BY <1>3 DEF Scritta
  <2>2. s.nome = q.nome
    BY <2>1 DEF Riga
  <2> QED
    BY <1>3, <2>2 DEF Sana
<1> QED
  BY <1>1, <1>2, <1>3

(* What a close or a note writes on the row it has read keeps its name. *)
LEMMA ScrittaNome ==
    ASSUME NEW e \in Riga, NEW m \in Moduli, m.azione # ""
    PROVE  Scritta(e, e, m).nome = e.nome
<1>1. CASE m.azione = "close"
  <2>1. Scritta(e, e, m) = [e EXCEPT !.chiusa   = TRUE,
                     !.nome     = SeNonZero(e.nome, @, Nessuno),
                     !.sessione = e.sessione,
                     !.nota     = SeNonZero(e.nota, @, Nessuno),
                     !.tecnico  = SeNonZero(e.tecnico, @, Nessuno)]
    BY <1>1 DEF Scritta
  <2> QED
    BY <2>1 DEF Riga, SeNonZero
<1>2. CASE m.azione # "close"
  <2>1. Scritta(e, e, m) = [e EXCEPT !.nota = m.nota]
    BY <1>2 DEF Scritta
  <2> QED
    BY <2>1 DEF Riga
<1> QED
  BY <1>1, <1>2

(* A name is never taken away: what was authorised is so after a step that keeps
   the ids and the names. *)
LEMMA AutorizzataResta ==
    ASSUME NEW i, Autorizzata(i),
           \A q \in registro' : q.id = i =>
               \E p \in registro : p.id = i /\ (p.nome # Nessuno => q.nome # Nessuno)
    PROVE  Autorizzata(i)'
BY DEF Autorizzata

(* The ids are numbers, and those of the rows are below the next one. *)
LEMMA TipiNumeri ==
    ASSUME TipiInv
    PROVE  /\ \A p \in registro : p.id < prossimo /\ p.id \in Int
           /\ \A s \in Richieste : pc[s] # "libera" => ex[s].id \in Int
           /\ \A i \in guidNoti : \E p \in registro : p.id = i
           /\ prossimo \in Int
<1> USE RegistroAssumption
<1>1. \A p \in Riga : p.id \in Int
  BY DEF Riga, Id
<1>2. \A p \in registro : p.id < prossimo /\ p.id \in Int
  BY <1>1 DEF TipiInv, TypeOK
<1>3. \A s \in Richieste : pc[s] # "libera" => ex[s].id \in Int
  BY <1>1 DEF TipiInv, TypeOK
<1>4. \A i \in guidNoti : \E p \in registro : p.id = i
  BY DEF TipiInv, TypeOK, Vivi
<1>5. prossimo \in Int
  BY DEF TipiInv, TypeOK
<1> QED
  BY <1>2, <1>3, <1>4, <1>5

(* The order of the ids. *)
LEMMA Ordine ==
    ASSUME NEW a \in Int, NEW b \in Int, NEW c \in Int, a < b, b <= c
    PROVE  a < c /\ a # b
OBVIOUS

(* A request begins, with a row that allows what it has been asked. *)
LEMMA NoteInizia ==
    ASSUME TipiInv, RegistroTipo', NoteInv, NEW r \in Richieste, NEW m, NEW q \in registro', NEW dopo,
           Comincia(r, m, q, dopo) \/ UNCHANGED <<pc, modulo, ex>>,
           UNCHANGED guidNoti,
           registro' = registro \/ (registro' = registro \cup {q} /\ q.id = prossimo),
           Sana(q), prossimo' \in Int, prossimo <= prossimo', q.id < prossimo',
           m.azione = "" => m.nome # Nessuno,
           dopo = "scrive" /\ m.azione \notin {"", "close"} => q.nome # Nessuno
    PROVE  NoteInv'
<1>0. /\ \A p \in registro : p.id < prossimo /\ p.id \in Int
      /\ \A s \in Richieste : pc[s] # "libera" => ex[s].id \in Int
      /\ \A i \in guidNoti : \E p \in registro : p.id = i
      /\ prossimo \in Int /\ prossimo' \in Int
  BY TipiNumeri
<1>1. \A p \in registro' : Sana(p)
  BY DEF NoteInv
<1>2. ASSUME NEW i \in Int, i < prossimo, Autorizzata(i)
      PROVE  Autorizzata(i)'
  <2> SUFFICES ASSUME NEW p \in registro', p.id = i PROVE p.nome # Nessuno
    BY DEF Autorizzata
  <2>1. CASE p \in registro
    BY <1>2, <2>1 DEF Autorizzata
  <2>2. CASE p.id = prossimo
    <3>1. i # prossimo
      BY <1>0, <1>2, Ordine
    <3> QED
      BY <2>2, <3>1
  <2> QED
    BY <2>1, <2>2
<1>3. \A i \in guidNoti' : Autorizzata(i)'
  <2> SUFFICES ASSUME NEW i \in guidNoti PROVE Autorizzata(i)'
    OBVIOUS
  <2>1. i \in Int /\ i < prossimo /\ Autorizzata(i)
    BY <1>0 DEF NoteInv
  <2> QED
    BY <1>2, <2>1
<1>4. q.nome # Nessuno => Autorizzata(q.id)'
  BY DEF Autorizzata, RegistroTipo
<1>6. ASSUME NEW s \in Richieste, pc'[s] # "libera"
      PROVE  /\ Sana(ex'[s])
             /\ ex'[s].nome # Nessuno => Autorizzata(ex[s].id)'
             /\ ex'[s].id < prossimo'
             /\ modulo'[s].azione = "" => modulo'[s].nome # Nessuno
             /\ pc'[s] = "scrive" /\ modulo'[s].azione \notin {"", "close"} =>
                  ex'[s].nome # Nessuno
  <2>1. CASE ex'[s] = q /\ modulo'[s] = m /\ pc'[s] = dopo
    <3>1. q.nome # Nessuno => Autorizzata(ex[s].id)'
      BY <1>4, <2>1 DEF Autorizzata
    <3> QED
      BY <2>1, <3>1
  <2>2. CASE ex'[s] = ex[s] /\ modulo'[s] = modulo[s] /\ pc'[s] = pc[s]
    <3>2. ex[s].id \in Int /\ ex[s].id < prossimo
      BY <1>0, <1>6, <2>2 DEF NoteInv
    <3>3. PICK i \in Int : i = ex[s].id
      BY <3>2
    <3>4. ex[s].nome # Nessuno => Autorizzata(i)
      BY <1>6, <2>2, <3>3 DEF NoteInv
    <3>5. ex'[s].nome # Nessuno => Autorizzata(ex[s].id)'
      BY <1>2, <2>2, <3>2, <3>3, <3>4 DEF Autorizzata
    <3>6. ex'[s].id < prossimo'
      BY <1>0, <2>2, <3>2, Ordine
    <3> QED
      BY <1>6, <2>2, <3>5, <3>6 DEF NoteInv
  <2>3. \/ ex'[s] = q /\ modulo'[s] = m /\ pc'[s] = dopo
        \/ ex'[s] = ex[s] /\ modulo'[s] = modulo[s] /\ pc'[s] = pc[s]
    BY DEF Comincia, TipiInv, TypeOK
  <2> QED
    BY <2>1, <2>2, <2>3
<1> QED
  BY <1>1, <1>3, <1>6 DEF NoteInv, Sana

(* A request goes on, with the row it has read or with what it has written. *)
LEMMA NoteProsegue ==
    ASSUME TipiInv, NoteInv, NEW r \in Richieste, NEW dopo, NEW e,
           Prosegui(r, dopo, e), dopo # "scrive", pc[r] # "libera",
           dopo # "libera" => /\ Sana(e)
                              /\ e.nome # Nessuno => Autorizzata(e.id)'
                              /\ e.id < prossimo,
           \A q \in registro' : /\ Sana(q)
                                /\ \E p \in registro :
                                     p.id = q.id /\ (p.nome # Nessuno => q.nome # Nessuno),
           UNCHANGED <<prossimo, guidNoti>>
    PROVE  NoteInv'
<1>1. \A i : Autorizzata(i) => Autorizzata(i)'
  BY AutorizzataResta
<1>2. \A i \in guidNoti' : Autorizzata(i)'
  BY <1>1 DEF NoteInv
<1>3. ASSUME NEW s \in Richieste, pc'[s] # "libera"
      PROVE  /\ Sana(ex'[s])
             /\ ex'[s].nome # Nessuno => Autorizzata(ex[s].id)'
             /\ ex'[s].id < prossimo
             /\ modulo'[s].azione = "" => modulo'[s].nome # Nessuno
             /\ pc'[s] = "scrive" /\ modulo'[s].azione \notin {"", "close"} =>
                  ex'[s].nome # Nessuno
  <2>1. CASE s = r
    <3>1. ex'[s] = e /\ pc'[s] = dopo /\ modulo'[s] = modulo[s] /\ dopo # "libera"
      BY <1>3, <2>1 DEF Prosegui, TipiInv, TypeOK
    <3>2. e.nome # Nessuno => Autorizzata(ex[s].id)'
      BY <3>1 DEF Autorizzata
    <3> QED
      BY <2>1, <3>1, <3>2 DEF NoteInv
  <2>2. CASE s # r
    <3>1. ex'[s] = ex[s] /\ pc'[s] = pc[s] /\ modulo'[s] = modulo[s]
      BY <2>2, ModuliTipo DEF Prosegui, TipiInv, TypeOK
    <3>2. PICK i : i = ex[s].id
      OBVIOUS
    <3>3. ex[s].nome # Nessuno => Autorizzata(i)'
      BY <1>1, <1>3, <3>1, <3>2 DEF NoteInv
    <3>4. ex'[s].nome # Nessuno => Autorizzata(ex[s].id)'
      BY <3>1, <3>2, <3>3 DEF Autorizzata
    <3> QED
      BY <1>3, <3>1, <3>4 DEF NoteInv
  <2> QED
    BY <2>1, <2>2
<1> QED
  BY <1>2, <1>3 DEF NoteInv, Sana

(* Every step keeps the invariant. *)
LEMMA NotePasso ==
    ASSUME TipiInv, NoteInv, [Next]_vars
    PROVE  NoteInv'
<1>0. RegistroTipo /\ RegistroTipo'
  BY TipiPasso DEF TipiInv, TypeOK, RegistroTipo
<1>1. ASSUME NEW r \in Richieste, NEW c \in Coppie, NEW n \in Nonce \cup {Nessuno},
             CreateAuditConn(r, c, n)
      PROVE  NoteInv'
  <2> DEFINE q == [id |-> prossimo, coppia |-> c, nome |-> Nessuno,
              sessione |-> SessioneNonAutorizzata, chiusa |-> FALSE, nota |-> Nessuno,
              tecnico |-> Nessuno]
             m == [ModuloVuoto EXCEPT !.nonce = n]
  <2>1. /\ registro' = registro \cup {q}
        /\ prossimo' = prossimo + 1
        /\ Comincia(r, m, q, "lega") \/ UNCHANGED <<pc, modulo, ex>>
        /\ UNCHANGED guidNoti
    BY <1>1 DEF CreateAuditConn
  <2>2. q.id = prossimo /\ Sana(q)
    BY DEF Sana
  <2>3. m.azione = "new"
    BY DEF ModuloVuoto
  <2> HIDE DEF q, m
  <2>4. prossimo \in Int
    BY TipiNumeri
  <2>5. prossimo' \in Int /\ prossimo <= prossimo' /\ q.id < prossimo'
    BY <2>1, <2>2, <2>4
  <2> QED
    BY <1>0, <2>1, <2>2, <2>3, <2>5, NoteInizia
<1>2. ASSUME NEW r \in Richieste, NEW m \in Moduli, NEW q \in registro,
             Comincia(r, m, q, "scrive"), UNCHANGED <<tabelle, guidNoti>>,
             m.azione = "" => m.nome # Nessuno,
             m.azione \notin {"", "close"} => q.nome # Nessuno
      PROVE  NoteInv'
  <2>1. UNCHANGED <<registro, prossimo>>
    BY <1>2 DEF tabelle
  <2>2. prossimo \in Int /\ q.id < prossimo
    BY TipiNumeri
  <2>3. prossimo' \in Int /\ prossimo <= prossimo' /\ q.id < prossimo'
    BY <2>1, <2>2
  <2>4. Sana(q)
    BY DEF NoteInv
  <2> QED
    BY <1>0, <1>2, <2>1, <2>3, <2>4, NoteInizia
<1>3. ASSUME NEW r \in Richieste, Scrive(r)
      PROVE  NoteInv'
  <2>0. PICK m \in Moduli, e \in Riga : m = modulo[r] /\ e = ex[r]
    BY <1>3 DEF Scrive, TipiInv, TypeOK
  <2> DEFINE w == IF m.azione = "" THEN e ELSE Scritta(e, e, m)
  <2>1. /\ pc[r] = "scrive"
        /\ registro' = {IF q.id = e.id THEN Scritta(q, e, m) ELSE q : q \in registro}
        /\ Prosegui(r, DopoScritta(m, e), w)
        /\ UNCHANGED <<prossimo, guidNoti>>
    BY <1>3, <2>0 DEF Scrive
  <2>2. /\ Sana(e)
        /\ e.nome # Nessuno => Autorizzata(e.id)
        /\ e.id < prossimo
        /\ m.azione = "" => m.nome # Nessuno
        /\ m.azione \notin {"", "close"} => e.nome # Nessuno
    <3>1. e.nome # Nessuno => Autorizzata(ex[r].id)
      BY <2>0, <2>1 DEF NoteInv
    <3> QED
      BY <2>0, <2>1, <3>1 DEF NoteInv
  <2>3. ASSUME NEW q \in registro'
        PROVE  /\ Sana(q)
               /\ \E p \in registro : p.id = q.id /\ (p.nome # Nessuno => q.nome # Nessuno)
    <3>1. PICK p \in registro : q = IF p.id = e.id THEN Scritta(p, e, m) ELSE p
      BY <2>1
    <3>2. p \in Riga /\ Sana(p)
      BY DEF TipiInv, TypeOK, NoteInv
    <3>3. CASE p.id = e.id
      <4>1. m.azione \notin {"", "close"} => p.nome # Nessuno
        BY <2>2, <3>3 DEF Autorizzata
      <4> QED
        BY <2>2, <3>1, <3>2, <3>3, <4>1, ScrittaSana, ScrittaTipo
    <3>4. CASE p.id # e.id
      BY <3>1, <3>2, <3>4
    <3> QED
      BY <3>3, <3>4
  <2>4. Sana(w) /\ w.id = e.id /\ w.nome = e.nome
    BY <2>2, ScrittaSana, ScrittaTipo, ScrittaNome
  <2>5. w.nome # Nessuno => Autorizzata(w.id)'
    BY <2>2, <2>3, <2>4, AutorizzataResta
  <2>6. DopoScritta(m, e) # "scrive"
    BY DEF DopoScritta, DopoLega
  <2> HIDE DEF w
  <2> QED
    BY <2>1, <2>2, <2>3, <2>4, <2>5, <2>6, NoteProsegue
<1>4. ASSUME NEW r \in Richieste, Lega(r)
      PROVE  NoteInv'
  <2>0. PICK m \in Moduli, e \in Riga : m = modulo[r] /\ e = ex[r]
    BY <1>4 DEF Lega, TipiInv, TypeOK
  <2>1. pc[r] = "lega" /\ UNCHANGED <<prossimo, guidNoti>>
    BY <1>4 DEF Lega
  <2>2. /\ Sana(e)
        /\ e.nome # Nessuno => Autorizzata(e.id)
        /\ e.id < prossimo
    <3>1. e.nome # Nessuno => Autorizzata(ex[r].id)
      BY <2>0, <2>1 DEF NoteInv
    <3> QED
      BY <2>0, <2>1, <3>1 DEF NoteInv, Autorizzata
  <2>3. DopoLega(m, e) # "scrive"
    BY DEF DopoLega
  <2>4. ASSUME NEW t, NEW e1 \in {e, [e EXCEPT !.tecnico = t]},
               registro' = registro \/ registro' = {Segnata(q, e, t) : q \in registro},
               Prosegui(r, DopoLega(m, e), e1)
        PROVE  NoteInv'
    <3>1. e1.id = e.id /\ e1.nome = e.nome /\ e1.sessione = e.sessione /\ e1.nota = e.nota
      BY DEF Riga
    <3>2. ASSUME NEW q \in registro'
          PROVE  /\ Sana(q)
                 /\ \E p \in registro : p.id = q.id /\ (p.nome # Nessuno => q.nome # Nessuno)
      <4>1. PICK p \in registro : q = p \/ q = Segnata(p, e, t)
        BY <2>4
      <4>2. p \in Riga /\ Sana(p)
        BY DEF TipiInv, TypeOK, NoteInv
      <4>3. q.id = p.id /\ q.nome = p.nome /\ q.sessione = p.sessione /\ q.nota = p.nota
        BY <4>1, <4>2 DEF Segnata, Riga
      <4> QED
        BY <4>2, <4>3 DEF Sana
    <3>3. e1.nome # Nessuno => Autorizzata(e1.id)'
      BY <2>2, <3>1, <3>2, AutorizzataResta
    <3>4. Sana(e1) /\ e1.id < prossimo
      BY <2>2, <3>1 DEF Sana
    <3> QED
      BY <2>1, <2>3, <2>4, <3>2, <3>3, <3>4, NoteProsegue
  <2>5. CASE Prosegui(r, DopoLega(m, e), e) /\ UNCHANGED registro
    BY <2>4, <2>5
  <2>6. CASE \E l \in lasciapassare :
               /\ registro' = {Segnata(q, e, l.tecnico) : q \in registro}
               /\ Prosegui(r, DopoLega(m, e), [e EXCEPT !.tecnico = l.tecnico])
    <3>1. PICK l \in lasciapassare :
               /\ registro' = {Segnata(q, e, l.tecnico) : q \in registro}
               /\ Prosegui(r, DopoLega(m, e), [e EXCEPT !.tecnico = l.tecnico])
      BY <2>6
    <3>2. PICK t : t = l.tecnico
      OBVIOUS
    <3> QED
      BY <2>4, <3>1, <3>2
  <2> QED
    BY <1>4, <2>0, <2>5, <2>6 DEF Lega
<1>5. ASSUME NEW r \in Richieste, AccodaSessione(r)
      PROVE  NoteInv'
  <2>1. /\ pc[r] = "evento"
        /\ Prosegui(r, "libera", Nessuno)
        /\ UNCHANGED <<registro, prossimo, guidNoti>>
    BY <1>5 DEF AccodaSessione
  <2>2. \A q \in registro' : Sana(q) /\ q \in registro
    BY <2>1 DEF NoteInv
  <2> QED
    BY <2>1, <2>2, NoteProsegue
<1>6. ASSUME UNCHANGED <<prossimo, pc, modulo, ex>>,
             \A q \in registro' : q \in registro,
             \A i \in guidNoti' : i \in guidNoti \/ Autorizzata(i)
      PROVE  NoteInv'
  <2>1. \A i : Autorizzata(i) => Autorizzata(i)'
    BY <1>6 DEF Autorizzata
  <2>2. \A i \in guidNoti' : Autorizzata(i)'
    BY <1>6, <2>1 DEF NoteInv
  <2>3. \A q \in registro' : Sana(q)
    BY <1>6 DEF NoteInv
  <2>4. ASSUME NEW r \in Richieste, pc[r] # "libera", ex[r].nome # Nessuno
        PROVE  Autorizzata(ex[r].id)'
    <3>1. PICK i : i = ex[r].id
      OBVIOUS
    <3>2. Autorizzata(i)'
      BY <2>1, <2>4, <3>1 DEF NoteInv
    <3> QED
      BY <1>6, <3>1, <3>2 DEF Autorizzata
  <2> QED
    BY <1>6, <2>2, <2>3, <2>4 DEF NoteInv, Sana
<1>7. ASSUME NEW n \in Nonce, NEW p \in Pc, NEW t \in Tecnici, firmaERegistra(n, p, t)
      PROVE  NoteInv'
  BY <1>6, <1>7 DEF firmaERegistra
<1>8. ASSUME NEW p \in Pc, NEW s, NEW nome \in Nomi, ConnAttiva(p, s, nome)
      PROVE  NoteInv'
  <2>1. PICK q \in DellaSessione(p, s) : guidNoti' = guidNoti \cup {q.id}
    BY <1>8 DEF ConnAttiva, GuidConnessioneAperta, PiuRecente
  <2>2. q \in registro /\ q.nome # Nessuno
    BY DEF DellaSessione, NoteInv, Sana
  <2>3. Autorizzata(q.id)
    BY <1>0, <2>2 DEF Autorizzata, RegistroTipo
  <2> QED
    BY <1>6, <1>8, <2>1, <2>3 DEF ConnAttiva, tabelle
<1>9. ASSUME NEW ids \in SUBSET Id, BatchDeleteAuditConn(ids)
      PROVE  NoteInv'
  BY <1>6, <1>9 DEF BatchDeleteAuditConn
<1>10. CASE UNCHANGED vars
  BY <1>6, <1>10 DEF vars, tabelle
<1>11. ASSUME NEW r \in Richieste, DalPc(r)
       PROVE  NoteInv'
  <2>1. PICK c \in Coppie :
          \/ \E n \in Nonce \cup {Nessuno} : CreateAuditConn(r, c, n)
          \/ InfoByPeerIdAndConnId(r, c, Chiusura)
          \/ \E a \in Autorizzazioni, n \in Nonce \cup {Nessuno} :
               InfoByPeerIdAndConnId(r, c, Apertura(a, n))
    BY <1>11 DEF DalPc
  <2>2. Chiusura \in Moduli /\ Chiusura.azione = "close"
    BY ModuliTipo DEF Chiusura, ModuloVuoto
  <2>3. ASSUME NEW a \in Autorizzazioni, NEW n \in Nonce \cup {Nessuno}
        PROVE  /\ Apertura(a, n) \in Moduli
               /\ Apertura(a, n).azione = "" /\ Apertura(a, n).nome # Nessuno
    BY ModuliTipo, RegistroAssumption DEF Apertura, ModuloVuoto
  <2> QED
    BY <1>1, <1>2, <2>1, <2>2, <2>3 DEF InfoByPeerIdAndConnId
<1>12. ASSUME NEW r \in Richieste, DalTecnico(r)
       PROVE  NoteInv'
  <2>1. PICK nota \in Note \cup {Nessuno} :
          \/ \E p \in Pc, s \in Sessioni \cup {SessioneNonAutorizzata} : NotaDiSessione(r, p, s, nota)
          \/ Nota(r, nota)
    BY <1>12 DEF DalTecnico
  <2>2. PICK q \in registro : scriviNota(r, q, nota) /\ q.nome # Nessuno
    <3>1. CASE Nota(r, nota)
      BY <3>1 DEF Nota, NotaPerGuid, NoteInv, Autorizzata
    <3>2. CASE \E p \in Pc, s \in Sessioni \cup {SessioneNonAutorizzata} : NotaDiSessione(r, p, s, nota)
      BY <3>2 DEF NotaDiSessione, PiuRecente, DellaSessione, NoteInv, Sana
    <3> QED
      BY <2>1, <3>1, <3>2
  <2>3. Annotazione(nota) \in Moduli /\ Annotazione(nota).azione = "nota"
    BY ModuliTipo DEF Annotazione, ModuloVuoto
  <2> QED
    BY <1>2, <2>2, <2>3 DEF scriviNota
<1> QED
  BY <1>3, <1>4, <1>5, <1>7, <1>8, <1>9, <1>10, <1>11, <1>12 DEF Next, Prosegue, ConnDelete, BatchConnDelete

(* A note never lands on a connection that nobody has authorised: for any number
   of requests, and whatever an old close writes back. *)
THEOREM NoteSempreAutorizzate == Spec => []NoteSoloAutorizzate
<1>1. Init => TipiInv /\ NoteInv
  BY RegistroAssumption, ModuliTipo DEF Init, TipiInv, TypeOK, Vivi, Passi, NoteInv
<1>2. TipiInv /\ NoteInv /\ [Next]_vars => TipiInv' /\ NoteInv'
  BY TipiPasso, NotePasso
<1>3. NoteInv => NoteSoloAutorizzate
  BY DEF NoteInv, Sana, NoteSoloAutorizzate
<1> QED
  BY <1>1, <1>2, <1>3, PTL DEF Spec

-----------------------------------------------------------------------------
(* What the request r, if it is about to queue an event, will tell of i. *)
Annuncia(r, i, t) ==
    /\ pc[r] = "evento" \/ (pc[r] = "lega" /\ DopoLega(modulo[r], ex[r]) = "evento")
    /\ i = ex[r].id /\ t # Nessuno
    /\ t \in {IF modulo[r].azione = "" THEN modulo[r].nome ELSE ex[r].nome, ex[r].nota}

(* The text t of connection i is in an event, or in one that will be queued. *)
Detta(i, t) ==
    \/ [conn |-> i, testo |-> t] \in eventi
    \/ \E r \in Richieste : Annuncia(r, i, t)

(* A request that is going to write the row it has read may bring it back, or
   keep silent because it has found there what it would write: what it remembers
   of a connection still there has been told, as what the table shows. *)
RaccontoInv ==
    /\ \A q \in registro : \A t \in {q.nome, q.nota} \ {Nessuno} : Detta(q.id, t)
    /\ \A r \in Richieste : pc[r] = "scrive" /\ ex[r].id \in Vivi =>
         \A t \in {ex[r].nome, ex[r].nota} \ {Nessuno} : Detta(ex[r].id, t)

(* A request that begins takes no announcement away. *)
LEMMA DettaInizia ==
    ASSUME TipiInv, NEW r, NEW m, NEW q, NEW dopo,
           Comincia(r, m, q, dopo) \/ UNCHANGED <<pc, modulo, ex>>,
           NEW i \in Vivi', NEW t, Detta(i, t), \A d \in eventi : d.conn \in Vivi' => d \in eventi'
    PROVE  Detta(i, t)'
<1>1. ASSUME NEW s \in Richieste, Annuncia(s, i, t)
      PROVE  Annuncia(s, i, t)'
  <2>1. pc[s] # "libera"
    BY <1>1 DEF Annuncia
  <2>2. pc'[s] = pc[s] /\ modulo'[s] = modulo[s] /\ ex'[s] = ex[s]
    BY <2>1 DEF Comincia, TipiInv, TypeOK
  <2> QED
    BY <1>1, <2>2 DEF Annuncia
<1> QED
  BY <1>1 DEF Detta

(* Nor does a request that goes on, if it queues what it had announced or still
   announces it. *)
LEMMA DettaProsegue ==
    ASSUME TipiInv, NEW r \in Richieste, NEW dopo, NEW e, Prosegui(r, dopo, e),
           NEW i, NEW t, Detta(i, t), \A d \in eventi : d \in eventi',
           Annuncia(r, i, t) => Annuncia(r, i, t)' \/ [conn |-> i, testo |-> t] \in eventi'
    PROVE  Detta(i, t)'
<1>1. ASSUME NEW s \in Richieste, s # r, Annuncia(s, i, t)
      PROVE  Annuncia(s, i, t)'
  <2>1. pc'[s] = pc[s] /\ modulo'[s] = modulo[s] /\ ex'[s] = ex[s]
    BY <1>1, ModuliTipo DEF Prosegui, TipiInv, TypeOK
  <2> QED
    BY <1>1, <2>1 DEF Annuncia
<1> QED
  BY <1>1 DEF Detta

(* What is in the memory of a request that goes on. *)
LEMMA MemoriaDiChiProsegue ==
    ASSUME TipiInv, NEW r \in Richieste, NEW dopo, NEW e, Prosegui(r, dopo, e),
           dopo # "libera"
    PROVE  pc'[r] = dopo /\ modulo'[r] = modulo[r] /\ ex'[r] = e
BY ModuliTipo DEF Prosegui, TipiInv, TypeOK

(* The texts of a row after a request has written it. *)
LEMMA ScrittaTesti ==
    ASSUME NEW q \in Riga, NEW e \in Riga, NEW m \in Moduli
    PROVE  /\ m.azione = "close" =>
                /\ Scritta(q, e, m).nome = SeNonZero(e.nome, q.nome, Nessuno)
                /\ Scritta(q, e, m).nota = SeNonZero(e.nota, q.nota, Nessuno)
           /\ m.azione = "" =>
                Scritta(q, e, m).nome = m.nome /\ Scritta(q, e, m).nota = q.nota
           /\ m.azione \notin {"close", ""} =>
                Scritta(q, e, m).nome = q.nome /\ Scritta(q, e, m).nota = m.nota
<1>1. CASE m.azione = "close"
  <2>1. Scritta(q, e, m) = [q EXCEPT !.chiusa   = TRUE,
                     !.nome     = SeNonZero(e.nome, @, Nessuno),
                     !.sessione = e.sessione,
                     !.nota     = SeNonZero(e.nota, @, Nessuno),
                     !.tecnico  = SeNonZero(e.tecnico, @, Nessuno)]
    BY <1>1 DEF Scritta
  <2> QED
    BY <1>1, <2>1 DEF Riga
<1>2. CASE m.azione = ""
  <2>1. Scritta(q, e, m) = [q EXCEPT !.nome = m.nome, !.sessione = m.sessione]
    BY <1>2 DEF Scritta
  <2> QED
    BY <1>2, <2>1 DEF Riga
<1>3. CASE m.azione \notin {"close", ""}
  <2>1. Scritta(q, e, m) = [q EXCEPT !.nota = m.nota]
    BY <1>3 DEF Scritta
  <2> QED
    BY <1>3, <2>1 DEF Riga
<1> QED
  BY <1>1, <1>2, <1>3

(* The write: what it changes of a row has been told, or the request that has
   made the change is the one that will tell it. *)
LEMMA RaccontoScrive ==
    ASSUME TipiInv, RaccontoInv, NEW r \in Richieste, Scrive(r)
    PROVE  RaccontoInv'
<1>0. PICK m \in Moduli, e \in Riga : m = modulo[r] /\ e = ex[r]
  BY DEF Scrive, TipiInv, TypeOK
<1> DEFINE w == IF m.azione = "" THEN e ELSE Scritta(e, e, m)
<1>1. /\ pc[r] = "scrive"
      /\ registro' = {IF q.id = e.id THEN Scritta(q, e, m) ELSE q : q \in registro}
      /\ Prosegui(r, DopoScritta(m, e), w)
      /\ eventi' = eventi
  BY <1>0 DEF Scrive
<1>2. registro \subseteq Riga
  BY DEF TipiInv, TypeOK
<1>3. w.id = e.id /\ (m.azione = "" => w = e)
  BY ScrittaTipo
<1>4. m.azione \notin {"close", ""} => w.nota = m.nota
  BY ScrittaTesti
<1> HIDE DEF w
<1>5. Vivi' = Vivi
  <2>1. \A q \in registro : Scritta(q, e, m).id = q.id
    BY <1>2, ScrittaTipo
  <2>2. \A q \in registro' : \E p \in registro : p.id = q.id
    BY <1>1, <2>1
  <2>3. \A p \in registro : \E q \in registro' : p.id = q.id
    BY <1>1, <2>1
  <2> QED
    BY <2>2, <2>3 DEF Vivi
<1>6. \A i, t : Detta(i, t) => Detta(i, t)'
  <2> SUFFICES ASSUME NEW i, NEW t, Detta(i, t) PROVE Detta(i, t)'
    OBVIOUS
  <2>1. ~Annuncia(r, i, t)
    BY <1>1 DEF Annuncia
  <2> QED
    BY <1>1, <2>1, DettaProsegue
<1>7. e.id \in Vivi => \A t \in {e.nome, e.nota} \ {Nessuno} : Detta(e.id, t)
  BY <1>0, <1>1 DEF RaccontoInv
<1>8. ASSUME NEW q \in registro, q.id = e.id,
             NEW t \in {Scritta(q, e, m).nome, Scritta(q, e, m).nota} \ {Nessuno}
      PROVE  Detta(e.id, t)'
  <2>1. /\ q \in Riga /\ e.id \in Vivi
        /\ \A x \in {q.nome, q.nota} \ {Nessuno} : Detta(e.id, x)
    BY <1>2, <1>8 DEF RaccontoInv, Vivi
  <2>2. CASE Detta(e.id, t)
    BY <1>6, <2>2
  <2>3. CASE m.azione = "close"
    <3>1. t \in {e.nome, e.nota, q.nome, q.nota} \ {Nessuno}
      BY <2>1, <2>3, <1>8, ScrittaTesti DEF SeNonZero
    <3> QED
      BY <1>7, <2>1, <2>2, <3>1
  <2>4. CASE m.azione = "" /\ ~Detta(e.id, t)
    <3>0. t \in {m.nome, q.nota} /\ t # Nessuno
      BY <1>8, <2>1, <2>4, ScrittaTesti
    <3>1. t = m.nome /\ t # e.nome
      BY <1>7, <2>1, <2>4, <3>0
    <3>2. DopoLega(m, e) = "evento" /\ DopoScritta(m, e) \in {"lega", "evento"}
      BY <2>4, <3>1 DEF DopoLega, DopoScritta
    <3> DEFINE dopo == DopoScritta(m, e)
    <3>5. dopo # "libera" /\ w = e
      BY <1>3, <2>4, <3>2
    <3>6. Prosegui(r, dopo, w)
      BY <1>1
    <3> HIDE DEF dopo
    <3>7. pc'[r] = dopo /\ modulo'[r] = m /\ ex'[r] = e
      BY <1>0, <3>5, <3>6, MemoriaDiChiProsegue
    <3>3. pc'[r] = DopoScritta(m, e) /\ modulo'[r] = m /\ ex'[r] = e
      BY <3>7 DEF dopo
    <3>4. Annuncia(r, e.id, t)'
      BY <1>8, <2>4, <3>1, <3>2, <3>3 DEF Annuncia
    <3> QED
      BY <3>4 DEF Detta
  <2>5. CASE m.azione \notin {"close", ""} /\ ~Detta(e.id, t)
    <3>1. t = m.nota
      BY <1>8, <2>1, <2>5, ScrittaTesti
    <3>2. DopoScritta(m, e) = "evento"
      BY <2>5 DEF DopoScritta
    <3>3. pc'[r] = "evento" /\ modulo'[r] = m /\ ex'[r] = w
      BY <1>0, <1>1, <3>2, MemoriaDiChiProsegue
    <3>4. Annuncia(r, e.id, t)'
      BY <1>3, <1>4, <1>8, <2>5, <3>1, <3>3 DEF Annuncia
    <3> QED
      BY <3>4 DEF Detta
  <2> QED
    BY <2>2, <2>3, <2>4, <2>5
<1>9. ASSUME NEW p \in registro', NEW t \in {p.nome, p.nota} \ {Nessuno}
      PROVE  Detta(p.id, t)'
  <2>1. PICK q \in registro : p = IF q.id = e.id THEN Scritta(q, e, m) ELSE q
    BY <1>1
  <2>2. CASE q.id = e.id
    <3>1. p.id = e.id /\ Detta(e.id, t)'
      BY <1>2, <1>8, <1>9, <2>1, <2>2, ScrittaTipo
    <3> QED
      BY <3>1
  <2>3. CASE q.id # e.id
    BY <1>6, <1>9, <2>1, <2>3 DEF RaccontoInv
  <2> QED
    BY <2>2, <2>3
<1>10. ASSUME NEW s \in Richieste, pc'[s] = "scrive", ex'[s].id \in Vivi',
              NEW t \in {ex'[s].nome, ex'[s].nota} \ {Nessuno}
       PROVE  Detta(ex[s].id, t)'
  <2>1. s # r
    BY <1>1, <1>10 DEF Prosegui, DopoScritta, DopoLega, TipiInv, TypeOK
  <2>2. pc'[s] = pc[s] /\ ex'[s] = ex[s]
    BY <1>1, <2>1 DEF Prosegui, TipiInv, TypeOK
  <2>3. PICK i : i = ex[s].id
    OBVIOUS
  <2>4. Detta(i, t)'
    BY <1>5, <1>6, <1>10, <2>2, <2>3 DEF RaccontoInv
  <2> QED
    BY <2>2, <2>3, <2>4 DEF Detta, Annuncia
<1> QED
  BY <1>9, <1>10 DEF RaccontoInv, Detta, Annuncia

(* Every step keeps the invariant. *)
LEMMA RaccontoPasso ==
    ASSUME TipiInv, NoteInv, RaccontoInv, [Next]_vars
    PROVE  RaccontoInv'
<1>1. ASSUME NEW r, NEW m, NEW q, NEW dopo,
             Comincia(r, m, q, dopo) \/ UNCHANGED <<pc, modulo, ex>>,
             Comincia(r, m, q, dopo) /\ dopo = "scrive" => q \in registro,
             \A d \in eventi : d.conn \in Vivi' => d \in eventi',
             \A p \in registro' : p \in registro \/ (p.nome = Nessuno /\ p.nota = Nessuno),
             \A i \in Vivi' : i \in Vivi \/ i = prossimo
      PROVE  RaccontoInv'
  <2>1. \A i \in Vivi' : \A t : Detta(i, t) => Detta(i, t)'
    BY <1>1, DettaInizia
  <2>2. \A p \in registro' : \A t \in {p.nome, p.nota} \ {Nessuno} : Detta(p.id, t)'
    <3> SUFFICES ASSUME NEW p \in registro', NEW t \in {p.nome, p.nota} \ {Nessuno}
                 PROVE  Detta(p.id, t)'
      OBVIOUS
    <3>1. p \in registro /\ p.id \in Vivi'
      BY <1>1 DEF Vivi
    <3> QED
      BY <2>1, <3>1 DEF RaccontoInv
  <2>3. ASSUME NEW s \in Richieste, pc'[s] = "scrive", ex'[s].id \in Vivi',
               NEW t \in {ex'[s].nome, ex'[s].nota} \ {Nessuno}
        PROVE  Detta(ex[s].id, t)'
    <3>1. PICK i : i = ex'[s].id
      OBVIOUS
    <3>2. CASE ex'[s] \in registro
      BY <2>1, <2>3, <3>1, <3>2 DEF RaccontoInv, Detta, Annuncia
    <3>3. CASE pc'[s] = pc[s] /\ ex'[s] = ex[s]
      <4>1. i \in Vivi
        <5>1. ex[s].id # prossimo
          <6>1. ex[s].id < prossimo /\ ex[s].id \in Int /\ prossimo \in Int
            BY <2>3, <3>3, TipiNumeri DEF NoteInv
          <6> QED
            BY <6>1
        <5> QED
          BY <1>1, <2>3, <3>1, <3>3, <5>1
      <4>2. Detta(i, t)
        BY <2>3, <3>1, <3>3, <4>1 DEF RaccontoInv
      <4> QED
        BY <2>1, <2>3, <3>1, <4>2 DEF Detta, Annuncia
    <3>4. ex'[s] \in registro \/ (pc'[s] = pc[s] /\ ex'[s] = ex[s])
      <4>1. CASE UNCHANGED <<pc, modulo, ex>>
        BY <4>1
      <4>2. CASE Comincia(r, m, q, dopo)
        BY <1>1, <2>3, <4>2 DEF Comincia, TipiInv, TypeOK
      <4> QED
        BY <1>1, <4>1, <4>2
    <3> QED
      BY <3>2, <3>3, <3>4
  <2> QED
    BY <2>2, <2>3 DEF RaccontoInv, Detta, Annuncia
<1>2. ASSUME NEW r \in Richieste, NEW m, NEW q \in registro, Comincia(r, m, q, "scrive"),
             UNCHANGED <<tabelle, guidNoti>>
      PROVE  RaccontoInv'
  <2>1. UNCHANGED <<registro, eventi>>
    BY <1>2 DEF tabelle
  <2> QED
    BY <1>1, <1>2, <2>1 DEF Vivi
<1>3. ASSUME NEW r \in Richieste, NEW c \in Coppie, NEW n \in Nonce \cup {Nessuno},
             CreateAuditConn(r, c, n)
      PROVE  RaccontoInv'
  <2> DEFINE q == [id |-> prossimo, coppia |-> c, nome |-> Nessuno,
              sessione |-> SessioneNonAutorizzata, chiusa |-> FALSE, nota |-> Nessuno,
              tecnico |-> Nessuno]
             m == [ModuloVuoto EXCEPT !.nonce = n]
  <2>1. /\ registro' = registro \cup {q}
        /\ Comincia(r, m, q, "lega") \/ UNCHANGED <<pc, modulo, ex>>
        /\ eventi' = eventi
    BY <1>3 DEF CreateAuditConn
  <2>2. q.id = prossimo /\ q.nome = Nessuno /\ q.nota = Nessuno
    OBVIOUS
  <2> HIDE DEF q, m
  <2>3. \A i \in Vivi' : i \in Vivi \/ i = prossimo
    BY <2>1, <2>2 DEF Vivi
  <2> QED
    BY <1>1, <2>1, <2>2, <2>3
<1>4. ASSUME NEW r \in Richieste, DalPc(r)
      PROVE  RaccontoInv'
  BY <1>2, <1>3, <1>4 DEF DalPc, InfoByPeerIdAndConnId, PiuRecente
<1>5. ASSUME NEW r \in Richieste, DalTecnico(r)
      PROVE  RaccontoInv'
  BY <1>2, <1>5 DEF DalTecnico, NotaDiSessione, Nota, scriviNota, PiuRecente, DellaSessione
<1>6. ASSUME NEW r \in Richieste, Lega(r)
      PROVE  RaccontoInv'
  <2>0. PICK m \in Moduli, e \in Riga : m = modulo[r] /\ e = ex[r]
    BY <1>6 DEF Lega, TipiInv, TypeOK
  <2>1. pc[r] = "lega" /\ UNCHANGED eventi
    BY <1>6 DEF Lega
  <2>2. ASSUME NEW t, NEW e1 \in {e, [e EXCEPT !.tecnico = t]},
               registro' = registro \/ registro' = {Segnata(q, e, t) : q \in registro},
               Prosegui(r, DopoLega(m, e), e1)
        PROVE  RaccontoInv'
    <3>1. e1.id = e.id /\ e1.nome = e.nome /\ e1.sessione = e.sessione /\ e1.nota = e.nota
      BY DEF Riga
    <3>2. \A q \in registro : /\ Segnata(q, e, t).id = q.id /\ Segnata(q, e, t).nome = q.nome
                              /\ Segnata(q, e, t).nota = q.nota
      BY DEF Segnata, Riga, TipiInv, TypeOK
    <3>3. \A p \in registro' : \E q \in registro : p.id = q.id /\ p.nome = q.nome /\ p.nota = q.nota
      BY <2>2, <3>2
    <3>4. \A i \in Vivi' : i \in Vivi
      BY <3>3 DEF Vivi
    <3>5. \A i, x : Detta(i, x) => Detta(i, x)'
      <4> SUFFICES ASSUME NEW i, NEW x, Detta(i, x) PROVE Detta(i, x)'
        OBVIOUS
      <4>1. ASSUME Annuncia(r, i, x)
            PROVE  Annuncia(r, i, x)'
        <5>1. DopoLega(m, e) = "evento"
          BY <2>0, <2>1, <4>1 DEF Annuncia
        <5>2. pc'[r] = "evento" /\ modulo'[r] = m /\ ex'[r] = e1
          BY <2>0, <2>2, <5>1, MemoriaDiChiProsegue
        <5>3. /\ i = e.id /\ x # Nessuno
              /\ x \in {IF m.azione = "" THEN m.nome ELSE e.nome, e.nota}
          BY <2>0, <4>1 DEF Annuncia
        <5>4. /\ i = e1.id /\ x # Nessuno
              /\ x \in {IF m.azione = "" THEN m.nome ELSE e1.nome, e1.nota}
          BY <3>1, <5>3
        <5>5. /\ i = ex'[r].id /\ x # Nessuno
              /\ x \in {IF modulo'[r].azione = "" THEN modulo'[r].nome ELSE ex'[r].nome, ex'[r].nota}
          BY <5>2, <5>4
        <5> QED
          BY <5>2, <5>5 DEF Annuncia
      <4> QED
        BY <2>1, <2>2, <4>1, DettaProsegue
    <3>6. ASSUME NEW s \in Richieste, pc'[s] = "scrive"
          PROVE  pc[s] = "scrive" /\ ex'[s] = ex[s]
      BY <2>2, <3>6 DEF Prosegui, DopoLega, TipiInv, TypeOK
    <3>7. \A p \in registro' : \A x \in {p.nome, p.nota} \ {Nessuno} : Detta(p.id, x)'
      BY <3>3, <3>5 DEF RaccontoInv
    <3>8. ASSUME NEW s \in Richieste, pc'[s] = "scrive", ex'[s].id \in Vivi',
                 NEW x \in {ex'[s].nome, ex'[s].nota} \ {Nessuno}
          PROVE  Detta(ex[s].id, x)'
      <4>1. PICK i : i = ex[s].id
        OBVIOUS
      <4>2. Detta(i, x)'
        BY <3>4, <3>5, <3>6, <3>8, <4>1 DEF RaccontoInv
      <4> QED
        BY <3>6, <3>8, <4>1, <4>2 DEF Detta, Annuncia
    <3> QED
      BY <3>7, <3>8 DEF RaccontoInv, Detta, Annuncia
  <2>3. CASE Prosegui(r, DopoLega(m, e), e) /\ UNCHANGED registro
    BY <2>2, <2>3
  <2>4. CASE \E l \in lasciapassare :
               /\ registro' = {Segnata(q, e, l.tecnico) : q \in registro}
               /\ Prosegui(r, DopoLega(m, e), [e EXCEPT !.tecnico = l.tecnico])
    <3>1. PICK l \in lasciapassare :
               /\ registro' = {Segnata(q, e, l.tecnico) : q \in registro}
               /\ Prosegui(r, DopoLega(m, e), [e EXCEPT !.tecnico = l.tecnico])
      BY <2>4
    <3>2. PICK t : t = l.tecnico
      OBVIOUS
    <3> QED
      BY <2>2, <3>1, <3>2
  <2> QED
    BY <1>6, <2>0, <2>3, <2>4 DEF Lega
<1>7. ASSUME NEW r \in Richieste, AccodaSessione(r)
      PROVE  RaccontoInv'
  <2>1. /\ pc[r] = "evento" /\ UNCHANGED registro /\ Vivi' = Vivi
        /\ eventi' = eventi \cup {d \in DaAccodare(modulo[r], ex[r]) : d.conn \in Vivi}
        /\ Prosegui(r, "libera", Nessuno)
    BY <1>7 DEF AccodaSessione, Vivi
  <2>2. ASSUME NEW i \in Vivi, NEW t, Annuncia(r, i, t)
        PROVE  [conn |-> i, testo |-> t] \in eventi'
    BY <2>1, <2>2 DEF Annuncia, DaAccodare
  <2>3. \A i \in Vivi : \A t : Detta(i, t) => Detta(i, t)'
    BY <2>1, <2>2, DettaProsegue
  <2>4. ASSUME NEW s \in Richieste, pc'[s] = "scrive"
        PROVE  pc[s] = "scrive" /\ ex'[s] = ex[s]
    BY <2>1, <2>4 DEF Prosegui, TipiInv, TypeOK
  <2>5. \A q \in registro' : \A t \in {q.nome, q.nota} \ {Nessuno} : Detta(q.id, t)'
    BY <2>1, <2>3 DEF RaccontoInv, Vivi
  <2>6. ASSUME NEW s \in Richieste, pc'[s] = "scrive", ex'[s].id \in Vivi,
               NEW t \in {ex'[s].nome, ex'[s].nota} \ {Nessuno}
        PROVE  Detta(ex[s].id, t)'
    <3>1. PICK i : i = ex[s].id
      OBVIOUS
    <3>2. Detta(i, t)'
      BY <2>3, <2>4, <2>6, <3>1 DEF RaccontoInv
    <3> QED
      BY <2>4, <2>6, <3>1, <3>2 DEF Detta, Annuncia
  <2> QED
    BY <2>1, <2>5, <2>6 DEF RaccontoInv, Detta, Annuncia
<1>8. ASSUME UNCHANGED <<pc, modulo, ex>>, \A p \in registro' : p \in registro,
             \A d \in eventi : d.conn \in Vivi' => d \in eventi'
      PROVE  RaccontoInv'
  <2>1. \A i \in Vivi' : i \in Vivi
    BY <1>8 DEF Vivi
  <2> QED
    BY <1>1, <1>8, <2>1
<1>9. ASSUME NEW n \in Nonce, NEW p \in Pc, NEW t \in Tecnici, firmaERegistra(n, p, t)
      PROVE  RaccontoInv'
  BY <1>8, <1>9 DEF firmaERegistra
<1>10. ASSUME NEW p \in Pc, NEW s, NEW nome \in Nomi, ConnAttiva(p, s, nome)
       PROVE  RaccontoInv'
  BY <1>8, <1>10 DEF ConnAttiva, tabelle
<1>11. ASSUME NEW ids \in SUBSET Id, BatchDeleteAuditConn(ids)
       PROVE  RaccontoInv'
  <2>1. \A d \in eventi : d.conn \in Vivi' => d \in eventi'
    BY <1>11 DEF BatchDeleteAuditConn, Vivi
  <2> QED
    BY <1>8, <1>11, <2>1 DEF BatchDeleteAuditConn
<1>12. CASE UNCHANGED vars
  BY <1>8, <1>12 DEF vars, tabelle
<1> QED
  BY <1>4, <1>5, <1>6, <1>7, <1>9, <1>10, <1>11, <1>12, RaccontoScrive
     DEF Next, Prosegue, ConnDelete, BatchConnDelete

(* Nothing that the registry shows of a connection goes untold: who opened it and
   its note are in an event, or in one that a request still has to queue; for any
   number of requests, of rows read before others changed them, of deletions. *)
THEOREM SempreRaccontato == Spec => []Raccontato
<1>1. Init => TipiInv /\ NoteInv /\ RaccontoInv
  BY RegistroAssumption, ModuliTipo DEF Init, TipiInv, TypeOK, Vivi, Passi, NoteInv, RaccontoInv
<1>2. TipiInv /\ NoteInv /\ RaccontoInv /\ [Next]_vars => TipiInv' /\ NoteInv' /\ RaccontoInv'
  BY TipiPasso, NotePasso, RaccontoPasso
<1>3. RaccontoInv => Raccontato
  <2> SUFFICES ASSUME RaccontoInv, NEW q \in registro,
                      NEW d \in [conn : {q.id}, testo : {q.nome, q.nota} \ {Nessuno}]
               PROVE  d \in eventi \cup InArrivo
    BY DEF Raccontato, Mostrato
  <2>1. d = [conn |-> q.id, testo |-> d.testo] /\ d.testo \in {q.nome, q.nota} \ {Nessuno}
    OBVIOUS
  <2>2. Detta(q.id, d.testo)
    BY <2>1 DEF RaccontoInv
  <2>3. ASSUME NEW r \in Richieste, Annuncia(r, q.id, d.testo)
        PROVE  d \in InArrivo
    <3>1. /\ pc[r] = "evento" \/ (pc[r] = "lega" /\ DopoLega(modulo[r], ex[r]) = "evento")
          /\ d \in DaAccodare(modulo[r], ex[r])
      BY <2>1, <2>3 DEF Annuncia, DaAccodare
    <3> QED
      BY <3>1 DEF InArrivo
  <2> QED
    BY <2>1, <2>2, <2>3 DEF Detta
<1> QED
  BY <1>1, <1>2, <1>3, PTL DEF Spec

-----------------------------------------------------------------------------
(***************************************************************************)
(* Module Consegna. ConsegnaInv: no event is put off beyond its time or    *)
(* given up before (TabellaInv); the deliveries made of an event and those *)
(* its processes may still make (Peso) are one, and one for each thing     *)
(* that went wrong (Debito). Then, step by step, the queue of CodaEventi   *)
(* is implemented.                                                         *)
(***************************************************************************)

USE TempiAssumption
(* A row of the table, but for its next attempt, which is some number. *)
RigaInt == [id : Eventi, creato : Tempo, prossimo : Int, tentativi : Nat, esito : Esiti, chiuso : Tempo]

(* The table: one row for each id, none put off beyond its 24 hours, none given up before. *)
TabellaInv ==
    /\ inCoda \subseteq RigaInt
    /\ \A a, b \in inCoda : a.id = b.id => a = b
    /\ nuovo \in 1 .. EventiMax + 1
    /\ \A e \in inCoda :
         /\ e.id < nuovo
         /\ e.prossimo <= e.creato + durataTentativi
         /\ e.esito = "fallito" => e.chiuso >= e.creato + durataTentativi

(* What a goroutine has in hand is an event of the queue, with its time; if the receiver
   has answered well, it has taken it. *)
LavoroInv ==
    /\ passo \in [Processi -> PassiGira] /\ fermata \in [Processi -> BOOLEAN]
    /\ adesso \in [Processi -> Tempo] /\ ora \in Tempo /\ \A p \in Processi : adesso[p] <= ora
    /\ evento \in [Processi -> RigaInt \cup {NessunEvento}]
    /\ motivo \in [Processi -> {"ok", "rispostaPersa", "nonConsegnato"}]
    /\ ricevute \in [Eventi -> Nat] /\ incidenti \in Nat
    /\ \A p \in Processi : passo[p] \in {"invio", "esito"} =>
         /\ evento[p] \in RigaInt
         /\ evento[p].id < nuovo
         /\ \A r \in inCoda : r.id = evento[p].id => r.creato = evento[p].creato
    /\ \A p \in Processi : passo[p] = "esito" /\ motivo[p] = "ok" => ricevute[evento[p].id] > 0

(* At most two processes are up: the old one and the new one of a reload. *)
AlPiuDue ==
    \A p, q, s \in Processi : p # q /\ q # s /\ p # s => "spento" \in {passo[p], passo[q], passo[s]}

(* The event may still be sent: it is to come, or it waits in the queue. *)
Aperto(i) == i >= nuovo \/ \E e \in inCoda : e.id = i /\ e.esito = "inAttesa"

InMano(p, i) == passo[p] = "invio" /\ evento[p].id = i

Preso(p, i) == passo[p] = "esito" /\ evento[p].id = i /\ motivo[p] = "ok" /\ ~fermata[p]

(* How many times the event may still be sent because of p, with no other incident: by p,
   which has it in hand, and then, if p is to stop and so will not save the outcome, by
   the process that follows. *)
Peso(p, i) ==
    IF passo[p] = "spento" THEN 0
    ELSE IF ~Aperto(i) THEN (IF InMano(p, i) THEN 1 ELSE 0)
    ELSE IF Preso(p, i) THEN 0
    ELSE IF fermata[p] /\ (passo[p] = "scelta" \/ InMano(p, i)) THEN 2
    ELSE 1

(* The deliveries made and still to come are one, and one for each incident. *)
Debito(i) ==
    /\ ricevute[i] <= 1 + incidenti
    /\ \A p \in Processi : ricevute[i] + Peso(p, i) <= 1 + incidenti
    /\ \A p, q \in Processi : p # q => ricevute[i] + Peso(p, i) + Peso(q, i) <= 1 + incidenti
    /\ Aperto(i) /\ Accesi = {} => ricevute[i] <= incidenti

(* Until the receiver has answered, nothing went wrong with the attempt. *)
MotivoInv == \A p \in Processi : passo[p] # "esito" => motivo[p] = "ok"

ConsegnaInv == TabellaInv /\ LavoroInv /\ AlPiuDue /\ MotivoInv /\ \A i \in Eventi : Debito(i)
-----------------------------------------------------------------------------
LEMMA InizioConsegna == InitConsegna => ConsegnaInv
<1> SUFFICES ASSUME InitConsegna PROVE ConsegnaInv
  OBVIOUS
<1>1. TabellaInv
  <2>1. nuovo \in 1 .. EventiMax + 1
    BY DEF InitConsegna
  <2>2. inCoda = {}
    BY DEF InitConsegna
  <2> QED
    BY <2>1, <2>2 DEF TabellaInv
<1>2. LavoroInv
  <2>1. ora = 0 /\ incidenti = 0 /\ 0 \in Tempo
    BY DEF InitConsegna, Tempo
  <2>2. \A p \in Processi : passo[p] = "spento" /\ adesso[p] = 0
    BY DEF InitConsegna
  <2>3. /\ passo \in [Processi -> PassiGira] /\ fermata \in [Processi -> BOOLEAN]
        /\ adesso \in [Processi -> Tempo] /\ evento \in [Processi -> RigaInt \cup {NessunEvento}]
        /\ motivo \in [Processi -> {"ok", "rispostaPersa", "nonConsegnato"}]
        /\ ricevute \in [Eventi -> Nat]
    BY <2>1 DEF InitConsegna, PassiGira
  <2> QED
    BY <2>1, <2>2, <2>3 DEF LavoroInv
<1>3. AlPiuDue
  BY DEF AlPiuDue, InitConsegna
<1>5. MotivoInv
  BY DEF MotivoInv, InitConsegna
<1>4. \A i \in Eventi : Debito(i)
  <2> SUFFICES ASSUME NEW i \in Eventi PROVE Debito(i)
    OBVIOUS
  <2>1. ricevute[i] = 0 /\ incidenti = 0
    BY DEF InitConsegna
  <2>2. \A p \in Processi : Peso(p, i) = 0
    BY DEF Peso, InitConsegna
  <2> QED
    BY <2>1, <2>2 DEF Debito
<1> QED
  BY <1>1, <1>2, <1>3, <1>4, <1>5 DEF ConsegnaInv

-----------------------------------------------------------------------------
(* The table. *)

(* What an attempt writes leaves a row a row, not put off beyond its 24 hours. *)
LEMMA TentatoBene ==
    ASSUME NEW e \in RigaInt, NEW r \in RigaInt, NEW t \in Tempo, NEW m,
           r.id = e.id, r.creato = e.creato,
           r.prossimo <= r.creato + durataTentativi,
           r.esito = "fallito" => r.chiuso >= r.creato + durataTentativi
    PROVE  LET n == Tentato(e, t, m, r) IN
             /\ n \in RigaInt /\ n.id = r.id /\ n.creato = r.creato
             /\ n.prossimo <= n.creato + durataTentativi
             /\ n.esito = "fallito" => n.chiuso >= n.creato + durataTentativi
             /\ n.esito = "inAttesa" => r.esito = "inAttesa" /\ m # "ok"
             /\ n.esito = "consegnato" => m = "ok" \/ r.esito = "consegnato"
             /\ n.esito = "fallito" => r.esito = "fallito" \/ t >= r.creato + durataTentativi
<1>1. /\ t \in Nat /\ durataTentativi \in Nat /\ e.creato \in Nat /\ e.tentativi \in Nat
      /\ e.tentativi + 1 \in Nat
  BY DEF Tempo, RigaInt
<1>2. attesa(e.tentativi + 1) \in Int
  BY <1>1 DEF attesa, Minimo
<1> DEFINE limite == e.creato + durataTentativi
           a == Minimo(t + attesa(e.tentativi + 1), limite)
<1>3. limite \in Int /\ a \in Int /\ a <= limite
  BY <1>1, <1>2 DEF Minimo
<1>4. CASE m = "ok"
  BY <1>1, <1>4 DEF Tentato, RigaInt, Esiti
<1>5. CASE m # "ok" /\ t >= e.creato + durataTentativi
  BY <1>1, <1>5 DEF Tentato, RigaInt, Esiti
<1>6. CASE m # "ok" /\ ~(t >= e.creato + durataTentativi)
  <2>1. Tentato(e, t, m, r) = [r EXCEPT !.tentativi = e.tentativi + 1, !.prossimo = a]
    BY <1>6 DEF Tentato
  <2> HIDE DEF a
  <2> QED
    BY <1>1, <1>3, <1>6, <2>1 DEF RigaInt
<1> QED
  BY <1>4, <1>5, <1>6

LEMMA AccodaTabella ==
    ASSUME TabellaInv, ora \in Tempo, NEW t \in Tempo, Accoda(t)
    PROVE  TabellaInv'
<1> DEFINE e == [id |-> nuovo, creato |-> t, prossimo |-> t, tentativi |-> 0,
                 esito |-> "inAttesa", chiuso |-> 0]
<1>1. inCoda' = inCoda \cup {e} /\ nuovo' = nuovo + 1 /\ nuovo <= EventiMax /\ nuovo \in 1 .. EventiMax + 1
  BY DEF Accoda, TabellaInv
<1>2. e \in RigaInt /\ e.id = nuovo /\ e.prossimo = e.creato /\ e.creato \in Nat /\ e.esito = "inAttesa"
  <2>1. nuovo \in Eventi /\ t \in Int /\ t \in Nat /\ 0 \in Tempo /\ "inAttesa" \in Esiti
    BY <1>1 DEF Eventi, Tempo, Esiti
  <2> QED
    BY <2>1 DEF RigaInt
<1> HIDE DEF e
<1>3. \A a \in inCoda : a.id < nuovo /\ a.id \in Nat
  BY DEF TabellaInv, RigaInt, Eventi
<1>4. nuovo \in Nat /\ nuovo' = nuovo + 1
  BY <1>1
<1>5. \A a \in inCoda' : a \in inCoda \/ a = e
  BY <1>1
<1>6. \A a, b \in inCoda' : a.id = b.id => a = b
  <2>1. \A a \in inCoda : a.id # e.id
    BY <1>2, <1>3, <1>4
  <2> QED
    BY <1>5, <2>1 DEF TabellaInv
<1>7. \A a \in inCoda' : a.id < nuovo'
  BY <1>2, <1>3, <1>4, <1>5
<1>8. nuovo' \in 1 .. EventiMax + 1 /\ inCoda' \subseteq RigaInt
  BY <1>1, <1>2 DEF TabellaInv
<1>9. \A a \in inCoda' : /\ a.prossimo <= a.creato + durataTentativi
                         /\ a.esito = "fallito" => a.chiuso >= a.creato + durataTentativi
  <2>1. e.prossimo <= e.creato + durataTentativi /\ e.esito # "fallito"
    BY <1>2
  <2> QED
    BY <1>5, <2>1 DEF TabellaInv
<1> QED
  BY <1>6, <1>7, <1>8, <1>9 DEF TabellaInv

LEMMA AggiornaTabella ==
    ASSUME TabellaInv, NEW e \in RigaInt, NEW t \in Tempo, NEW m,
           \A r \in inCoda : r.id = e.id => r.creato = e.creato,
           Aggiorna(e, t, m), UNCHANGED nuovo
    PROVE  TabellaInv'
<1> DEFINE N(r) == IF r.id = e.id THEN Tentato(e, t, m, r) ELSE r
<1>1. inCoda' = {N(r) : r \in inCoda}
  BY DEF Aggiorna
<1>2. ASSUME NEW r \in inCoda
      PROVE  /\ N(r) \in RigaInt /\ N(r).id = r.id /\ N(r).id < nuovo
             /\ N(r).prossimo <= N(r).creato + durataTentativi
             /\ N(r).esito = "fallito" => N(r).chiuso >= N(r).creato + durataTentativi
  <2>1. /\ r \in RigaInt /\ r.id < nuovo /\ r.prossimo <= r.creato + durataTentativi
        /\ r.esito = "fallito" => r.chiuso >= r.creato + durataTentativi
    BY DEF TabellaInv
  <2>2. CASE r.id = e.id
    <3>1. r.creato = e.creato
      BY <2>2
    <3>2. N(r) = Tentato(e, t, m, r)
      BY <2>2
    <3> QED
      BY <2>1, <2>2, <3>1, <3>2, TentatoBene
  <2>3. CASE r.id # e.id
    BY <2>1, <2>3
  <2> QED
    BY <2>2, <2>3
<1> HIDE DEF N
<1>3. \A a, b \in inCoda' : a.id = b.id => a = b
  <2> SUFFICES ASSUME NEW r \in inCoda, NEW s \in inCoda, N(r).id = N(s).id PROVE N(r) = N(s)
    BY <1>1
  <2>1. r.id = s.id
    BY <1>2
  <2> QED
    BY <2>1 DEF TabellaInv
<1> QED
  BY <1>1, <1>2, <1>3 DEF TabellaInv

LEMMA TabellaPasso ==
    ASSUME TabellaInv, LavoroInv, [NextConsegna]_varsConsegna
    PROVE  TabellaInv'
<1>1. CASE UNCHANGED coda
  BY <1>1 DEF coda, TabellaInv
<1>2. ASSUME NEW t \in Tempo, Accoda(t) PROVE TabellaInv'
  BY <1>2, AccodaTabella DEF LavoroInv
<1>3. ASSUME NEW p \in Processi, Giro(p) PROVE TabellaInv'
  <2>1. inCoda' \subseteq inCoda /\ UNCHANGED nuovo
    BY <1>3 DEF Giro
  <2> QED
    BY <2>1 DEF TabellaInv
<1>4. ASSUME NEW p \in Processi, Esito(p) PROVE TabellaInv'
  <2>1. CASE UNCHANGED inCoda
    BY <1>4, <2>1 DEF Esito, TabellaInv
  <2>2. CASE Aggiorna(evento[p], adesso[p], motivo[p])
    <3>1. /\ evento[p] \in RigaInt /\ adesso[p] \in Tempo
          /\ \A r \in inCoda : r.id = evento[p].id => r.creato = evento[p].creato
          /\ UNCHANGED nuovo
      BY <1>4 DEF Esito, LavoroInv
    <3> QED
      BY <2>2, <3>1, AggiornaTabella
  <2> QED
    BY <1>4, <2>1, <2>2 DEF Esito
<1> QED
  <2>1. CASE UNCHANGED varsConsegna
    BY <1>1, <2>1 DEF varsConsegna
  <2>2. CASE OraPassa
    BY <1>1, <2>2 DEF OraPassa
  <2>3. ASSUME NEW p \in Processi, Avvia(p) \/ Ferma(p) \/ Muore(p) \/ Guasto(p) PROVE TabellaInv'
    BY <1>1, <2>3 DEF Avvia, Ferma, Muore, Guasto
  <2>4. ASSUME NEW p \in Processi, NEW q \in Processi, Ricarica(p, q) PROVE TabellaInv'
    BY <1>1, <2>4 DEF Ricarica
  <2>5. ASSUME NEW p \in Processi, Lavora(p) PROVE TabellaInv'
    BY <1>1, <1>3, <1>4, <2>5 DEF Lavora, Scegli, Manda
  <2> QED
    BY <1>2, <2>1, <2>2, <2>3, <2>4, <2>5 DEF NextConsegna
-----------------------------------------------------------------------------
(* What the goroutines have in hand. *)

(* The conjuncts of LavoroInv about what is in hand. *)
InManoInv ==
    /\ \A p \in Processi : passo[p] \in {"invio", "esito"} =>
         /\ evento[p] \in RigaInt
         /\ evento[p].id < nuovo
         /\ \A r \in inCoda : r.id = evento[p].id => r.creato = evento[p].creato
    /\ \A p \in Processi : passo[p] = "esito" /\ motivo[p] = "ok" => ricevute[evento[p].id] > 0

TipiLavoro ==
    /\ passo \in [Processi -> PassiGira] /\ fermata \in [Processi -> BOOLEAN]
    /\ adesso \in [Processi -> Tempo] /\ ora \in Tempo /\ \A p \in Processi : adesso[p] <= ora
    /\ evento \in [Processi -> RigaInt \cup {NessunEvento}]
    /\ motivo \in [Processi -> {"ok", "rispostaPersa", "nonConsegnato"}]
    /\ ricevute \in [Eventi -> Nat] /\ incidenti \in Nat

LEMMA LavoroParti == LavoroInv <=> TipiLavoro /\ InManoInv
BY DEF LavoroInv, TipiLavoro, InManoInv

LEMMA LavoroPartiDopo == LavoroInv' <=> TipiLavoro' /\ InManoInv'
BY LavoroParti, PTL

LEMMA IncidenteTipo ==
    ASSUME TipiLavoro, Incidente
    PROVE  incidenti' = incidenti + 1 /\ incidenti' \in Nat
BY DEF Incidente, TipiLavoro

LEMMA RitornaTipi ==
    ASSUME TipiLavoro, NEW p \in Processi, Ritorna(p), UNCHANGED <<ora, ricevute>>, incidenti' \in Nat
    PROVE  TipiLavoro'
<1>1. 0 \in Tempo /\ ora \in Nat
  BY DEF TipiLavoro, Tempo
<1> QED
  BY <1>1 DEF TipiLavoro, Ritorna, Dimentica, PassiGira

LEMMA SpegniTipi ==
    ASSUME TipiLavoro, NEW p \in Processi, Spegni(p), UNCHANGED <<ora, ricevute>>, incidenti' \in Nat
    PROVE  TipiLavoro'
<1>1. 0 \in Tempo /\ ora \in Nat
  BY DEF TipiLavoro, Tempo
<1> QED
  BY <1>1 DEF TipiLavoro, Spegni, Dimentica, PassiGira

LEMMA LavoroTipi ==
    ASSUME TabellaInv, TipiLavoro, InManoInv, [NextConsegna]_varsConsegna
    PROVE  TipiLavoro'
<1>1. CASE UNCHANGED varsConsegna
  BY <1>1 DEF varsConsegna, lavoro, storia, TipiLavoro
<1>2. CASE OraPassa
  <2>1. ora \in Nat /\ ora' = ora + 1 /\ ora' \in Tempo /\ UNCHANGED <<lavoro, storia>>
    BY <1>2 DEF OraPassa, TipiLavoro, Tempo
  <2>2. \A p \in Processi : adesso'[p] <= ora'
    BY <2>1 DEF lavoro, TipiLavoro, Tempo
  <2> QED
    BY <2>1, <2>2 DEF lavoro, storia, TipiLavoro
<1>3. ASSUME NEW t \in Tempo, Accoda(t) PROVE TipiLavoro'
  BY <1>3 DEF Accoda, lavoro, storia, TipiLavoro
<1>4. ASSUME NEW p \in Processi, NuovaConsegna(p), UNCHANGED <<ora, ricevute>>, incidenti' \in Nat
      PROVE  TipiLavoro'
  BY <1>4 DEF NuovaConsegna, TipiLavoro, PassiGira
<1>5. ASSUME NEW p \in Processi, Avvia(p) PROVE TipiLavoro'
  BY <1>4, <1>5 DEF Avvia, storia, TipiLavoro
<1>6. ASSUME NEW p \in Processi, NEW q \in Processi, Ricarica(p, q) PROVE TipiLavoro'
  BY <1>4, <1>6, IncidenteTipo DEF Ricarica
<1>7. ASSUME NEW p \in Processi, Ferma(p) PROVE TipiLavoro'
  BY <1>7, IncidenteTipo DEF Ferma, TipiLavoro
<1>8. ASSUME NEW p \in Processi, Muore(p) PROVE TipiLavoro'
  BY <1>8, IncidenteTipo, SpegniTipi DEF Muore
<1>9. ASSUME NEW p \in Processi, Guasto(p) PROVE TipiLavoro'
  BY <1>9, IncidenteTipo, RitornaTipi DEF Guasto
<1>10. ASSUME NEW p \in Processi, Giro(p) PROVE TipiLavoro'
  <2>1. UNCHANGED <<ora, ricevute, incidenti>>
    BY <1>10 DEF Giro, storia
  <2>2. CASE Spegni(p)
    BY <2>1, <2>2, SpegniTipi DEF TipiLavoro
  <2>3. CASE /\ adesso' = [adesso EXCEPT ![p] = ora] /\ passo' = [passo EXCEPT ![p] = "scelta"]
             /\ UNCHANGED <<fermata, evento, motivo>>
    <3>1. ora \in Nat
      BY DEF TipiLavoro, Tempo
    <3> QED
      BY <2>1, <2>3, <3>1 DEF TipiLavoro, PassiGira
  <2> QED
    BY <1>10, <2>2, <2>3 DEF Giro
<1>11. ASSUME NEW p \in Processi, Scegli(p) PROVE TipiLavoro'
  <2>1. UNCHANGED <<ora, ricevute, incidenti>>
    BY <1>11 DEF Scegli, storia
  <2>2. CASE Ritorna(p)
    BY <2>1, <2>2, RitornaTipi DEF TipiLavoro
  <2>3. CASE /\ \E e \in Pronti(adesso[p]) : evento' = [evento EXCEPT ![p] = e]
             /\ passo' = [passo EXCEPT ![p] = "invio"]
             /\ UNCHANGED <<fermata, adesso, motivo>>
    <3>1. PICK e \in RigaInt : evento' = [evento EXCEPT ![p] = e]
      BY <2>3 DEF Pronti, TabellaInv
    <3> QED
      BY <2>1, <2>3, <3>1 DEF TipiLavoro, PassiGira
  <2> QED
    BY <1>11, <2>2, <2>3 DEF Scegli
<1>12. ASSUME NEW p \in Processi, Manda(p) PROVE TipiLavoro'
  <2>1. /\ UNCHANGED <<ora, fermata, adesso, evento>> /\ passo' = [passo EXCEPT ![p] = "esito"]
        /\ evento[p].id \in Eventi
    BY <1>12 DEF Manda, InManoInv, RigaInt
  <2>2. ricevute' \in [Eventi -> Nat]
    BY <1>12, <2>1 DEF Manda, TipiLavoro
  <2>3. incidenti' \in Nat
    BY <1>12, IncidenteTipo DEF Manda, TipiLavoro
  <2>4. motivo' \in [Processi -> {"ok", "rispostaPersa", "nonConsegnato"}]
    BY <1>12 DEF Manda, TipiLavoro
  <2> QED
    BY <2>1, <2>2, <2>3, <2>4 DEF TipiLavoro, PassiGira
<1>13. ASSUME NEW p \in Processi, Esito(p) PROVE TipiLavoro'
  BY <1>13, RitornaTipi DEF Esito, storia, TipiLavoro
<1> QED
  BY <1>1, <1>2, <1>3, <1>5, <1>6, <1>7, <1>8, <1>9, <1>10, <1>11, <1>12, <1>13
  DEF NextConsegna, Lavora

(* No step gives a row another time, and every new row has a new id. *)
LEMMA RigheStesse ==
    ASSUME TabellaInv, LavoroInv, [NextConsegna]_varsConsegna
    PROVE  /\ nuovo <= nuovo'
           /\ \A r \in inCoda' : r.id < nuovo => \E s \in inCoda : s.id = r.id /\ s.creato = r.creato
           /\ nuovo \in Nat /\ nuovo' \in Nat
<1>1. nuovo \in Nat
  BY DEF TabellaInv
<1>2. CASE UNCHANGED nuovo /\ inCoda' \subseteq inCoda
  BY <1>1, <1>2
<1>3. CASE UNCHANGED coda
  BY <1>1, <1>3 DEF coda
<1>4. ASSUME NEW t \in Tempo, Accoda(t)
      PROVE  /\ nuovo <= nuovo' /\ nuovo' \in Nat
             /\ \A r \in inCoda' : r.id < nuovo => \E s \in inCoda : s.id = r.id /\ s.creato = r.creato
  <2>1. nuovo' = nuovo + 1 /\ \A r \in inCoda' : r \in inCoda \/ r.id = nuovo
    BY <1>4 DEF Accoda
  <2> QED
    BY <1>1, <2>1
<1>5. ASSUME NEW p \in Processi, Giro(p) PROVE UNCHANGED nuovo /\ inCoda' \subseteq inCoda
  BY <1>5 DEF Giro
<1>6. ASSUME NEW p \in Processi, Esito(p)
      PROVE  /\ UNCHANGED nuovo
             /\ \A r \in inCoda' : r.id < nuovo => \E s \in inCoda : s.id = r.id /\ s.creato = r.creato
  <2>1. UNCHANGED nuovo
    BY <1>6 DEF Esito
  <2>2. CASE UNCHANGED inCoda
    BY <2>1, <2>2
  <2>3. CASE Aggiorna(evento[p], adesso[p], motivo[p])
    <3> SUFFICES ASSUME NEW s \in inCoda, NEW r, 
                        r = IF s.id = evento[p].id THEN Tentato(evento[p], adesso[p], motivo[p], s) ELSE s
                 PROVE  s.id = r.id /\ s.creato = r.creato
      BY <2>1, <2>3 DEF Aggiorna
    <3>1. s \in RigaInt
      BY DEF TabellaInv
    <3>2. CASE s.id = evento[p].id
      BY <3>1, <3>2 DEF Tentato, RigaInt
    <3> QED
      BY <3>2
  <2> QED
    BY <1>6, <2>1, <2>2, <2>3 DEF Esito
<1> QED
  <2>1. CASE UNCHANGED varsConsegna
    BY <1>3, <2>1 DEF varsConsegna
  <2>2. CASE OraPassa
    BY <1>3, <2>2 DEF OraPassa
  <2>3. ASSUME NEW p \in Processi, Avvia(p) \/ Ferma(p) \/ Muore(p) \/ Guasto(p) PROVE UNCHANGED coda
    BY <2>3 DEF Avvia, Ferma, Muore, Guasto
  <2>4. ASSUME NEW p \in Processi, NEW q \in Processi, Ricarica(p, q) PROVE UNCHANGED coda
    BY <2>4 DEF Ricarica
  <2>5. ASSUME NEW p \in Processi, Scegli(p) \/ Manda(p) PROVE UNCHANGED coda
    BY <2>5 DEF Scegli, Manda
  <2> QED
    BY <1>1, <1>2, <1>3, <1>4, <1>5, <1>6, <2>1, <2>2, <2>3, <2>4, <2>5 DEF NextConsegna, Lavora

(* What stays in hand stays an event of the queue, with its time. *)
LEMMA InManoStesso ==
    ASSUME TabellaInv, LavoroInv, [NextConsegna]_varsConsegna, NEW q \in Processi,
           passo[q] \in {"invio", "esito"}, evento'[q] = evento[q]
    PROVE  /\ evento'[q] \in RigaInt /\ evento'[q].id < nuovo'
           /\ \A r \in inCoda' : r.id = evento'[q].id => r.creato = evento'[q].creato
<1>1. /\ evento[q] \in RigaInt /\ evento[q].id < nuovo
      /\ \A r \in inCoda : r.id = evento[q].id => r.creato = evento[q].creato
  BY DEF LavoroInv
<1>2. evento[q].id \in Nat
  BY <1>1 DEF RigaInt, Eventi
<1> QED
  BY <1>1, <1>2, RigheStesse

LEMMA InManoUguale ==
    ASSUME TabellaInv, LavoroInv, [NextConsegna]_varsConsegna, UNCHANGED ricevute,
           \A q \in Processi : passo'[q] \in {"invio", "esito"} =>
               passo[q] = passo'[q] /\ evento'[q] = evento[q] /\ motivo'[q] = motivo[q]
    PROVE  InManoInv'
BY InManoStesso DEF InManoInv, LavoroInv

LEMMA InManoPasso ==
    ASSUME TabellaInv, LavoroInv, [NextConsegna]_varsConsegna
    PROVE  InManoInv'
<1>1. passo \in [Processi -> PassiGira] /\ evento \in [Processi -> RigaInt \cup {NessunEvento}]
      /\ motivo \in [Processi -> {"ok", "rispostaPersa", "nonConsegnato"}]
  BY DEF LavoroInv
<1>2. CASE UNCHANGED <<lavoro, ricevute>>
  BY <1>2, InManoUguale DEF lavoro
<1>3. ASSUME NEW p \in Processi, NuovaConsegna(p), UNCHANGED ricevute PROVE InManoInv'
  <2>1. \A q \in Processi : passo'[q] \in {"invio", "esito"} =>
               passo[q] = passo'[q] /\ evento'[q] = evento[q] /\ motivo'[q] = motivo[q]
    BY <1>1, <1>3 DEF NuovaConsegna
  <2> QED
    BY <1>3, <2>1, InManoUguale
<1>4. ASSUME NEW p \in Processi, Spegni(p) \/ Ritorna(p), UNCHANGED ricevute PROVE InManoInv'
  <2>1. \A q \in Processi : passo'[q] \in {"invio", "esito"} =>
               passo[q] = passo'[q] /\ evento'[q] = evento[q] /\ motivo'[q] = motivo[q]
    BY <1>1, <1>4 DEF Spegni, Ritorna, Dimentica
  <2> QED
    BY <1>4, <2>1, InManoUguale
<1>5. ASSUME NEW p \in Processi, Ferma(p) PROVE InManoInv'
  BY <1>5, InManoUguale DEF Ferma
<1>6. ASSUME NEW p \in Processi, Giro(p) PROVE InManoInv'
  <2>1. UNCHANGED ricevute
    BY <1>6 DEF Giro, storia
  <2>2. CASE Spegni(p)
    BY <1>4, <2>1, <2>2
  <2>3. CASE passo' = [passo EXCEPT ![p] = "scelta"] /\ UNCHANGED <<evento, motivo>>
    <3>1. \A q \in Processi : passo'[q] \in {"invio", "esito"} =>
               passo[q] = passo'[q] /\ evento'[q] = evento[q] /\ motivo'[q] = motivo[q]
      BY <1>1, <2>3
    <3> QED
      BY <2>1, <3>1, InManoUguale
  <2> QED
    BY <1>6, <2>2, <2>3 DEF Giro
<1>7. ASSUME NEW p \in Processi, Scegli(p) PROVE InManoInv'
  <2>1. UNCHANGED <<ricevute, inCoda, nuovo>>
    BY <1>7 DEF Scegli, storia, coda
  <2>2. CASE Ritorna(p)
    BY <1>4, <2>1, <2>2
  <2>3. CASE /\ \E e \in Pronti(adesso[p]) : evento' = [evento EXCEPT ![p] = e]
             /\ passo' = [passo EXCEPT ![p] = "invio"]
             /\ UNCHANGED motivo
    <3>1. PICK e \in inCoda : evento' = [evento EXCEPT ![p] = e]
      BY <2>3 DEF Pronti
    <3>2. ASSUME NEW q \in Processi, passo'[q] \in {"invio", "esito"}
          PROVE  /\ evento'[q] \in RigaInt /\ evento'[q].id < nuovo'
                 /\ \A r \in inCoda' : r.id = evento'[q].id => r.creato = evento'[q].creato
                 /\ passo'[q] = "esito" /\ motivo'[q] = "ok" => ricevute'[evento'[q].id] > 0
      <4>1. CASE q = p
        <5>1. evento'[q] = e /\ passo'[q] = "invio"
          BY <1>1, <2>3, <3>1, <4>1
        <5> QED
          BY <2>1, <5>1 DEF TabellaInv
      <4>2. CASE q # p
        <5>1. evento'[q] = evento[q] /\ passo'[q] = passo[q] /\ motivo'[q] = motivo[q]
          BY <1>1, <2>3, <3>1, <4>2
        <5> QED
          BY <2>1, <3>2, <5>1 DEF LavoroInv
      <4> QED
        BY <4>1, <4>2
    <3> QED
      BY <3>2 DEF InManoInv
  <2> QED
    BY <1>7, <2>2, <2>3 DEF Scegli
<1>8. ASSUME NEW p \in Processi, Manda(p) PROVE InManoInv'
  <2>1. /\ UNCHANGED <<inCoda, nuovo, evento>> /\ passo' = [passo EXCEPT ![p] = "esito"]
        /\ passo[p] = "invio"
    BY <1>8 DEF Manda, coda
  <2>2. /\ evento[p].id \in Eventi /\ ricevute \in [Eventi -> Nat]
    BY <2>1 DEF LavoroInv, RigaInt
  <2>3. /\ \A q \in Processi \ {p} : motivo'[q] = motivo[q] /\ passo'[q] = passo[q]
        /\ motivo'[p] # "ok" \/ ricevute'[evento[p].id] = ricevute[evento[p].id] + 1
    <3>1. \A q \in Processi \ {p} : passo'[q] = passo[q]
      BY <1>1, <2>1
    <3>2. \/ ricevute' = [ricevute EXCEPT ![evento[p].id] = @ + 1] /\ UNCHANGED motivo
          \/ motivo' = [motivo EXCEPT ![p] = "rispostaPersa"]
          \/ motivo' = [motivo EXCEPT ![p] = "nonConsegnato"]
      BY <1>8 DEF Manda
    <3> QED
      BY <1>1, <2>2, <3>1, <3>2
  <2>4. \A i \in Eventi : ricevute'[i] >= ricevute[i] /\ ricevute[i] \in Nat /\ ricevute'[i] \in Nat
    <3>1. UNCHANGED ricevute \/ ricevute' = [ricevute EXCEPT ![evento[p].id] = @ + 1]
      BY <1>8 DEF Manda
    <3> QED
      BY <2>2, <3>1
  <2>5. \A q \in Processi : passo'[q] \in {"invio", "esito"} => passo[q] \in {"invio", "esito"}
    BY <1>1, <2>1
  <2>6. ASSUME NEW q \in Processi, passo'[q] = "esito", motivo'[q] = "ok"
        PROVE  ricevute'[evento[q].id] > 0
    <3>1. CASE q = p
      BY <2>2, <2>3, <2>6, <3>1
    <3>2. CASE q # p
      <4>1. passo[q] = "esito" /\ motivo[q] = "ok"
        BY <2>3, <2>6, <3>2
      <4>2. ricevute[evento[q].id] > 0 /\ evento[q].id \in Eventi
        BY <4>1 DEF LavoroInv, RigaInt
      <4> QED
        BY <2>4, <4>2
    <3> QED
      BY <3>1, <3>2
  <2>7. InManoInv
    BY LavoroParti
  <2> QED
    BY <2>1, <2>5, <2>6, <2>7 DEF InManoInv
<1>9. ASSUME NEW p \in Processi, Esito(p) PROVE InManoInv'
  BY <1>4, <1>9 DEF Esito, storia
<1> QED
  <2>1. CASE UNCHANGED varsConsegna
    BY <1>2, <2>1 DEF varsConsegna, storia
  <2>2. CASE OraPassa \/ \E t \in Tempo : Accoda(t)
    BY <1>2, <2>2 DEF OraPassa, Accoda, storia
  <2>3. ASSUME NEW p \in Processi, Avvia(p) \/ Ferma(p) \/ Muore(p) \/ Guasto(p) PROVE InManoInv'
    BY <1>3, <1>4, <1>5, <2>3 DEF Avvia, Muore, Guasto, storia
  <2>4. ASSUME NEW p \in Processi, NEW q \in Processi, Ricarica(p, q) PROVE InManoInv'
    BY <1>3, <2>4 DEF Ricarica
  <2> QED
    BY <1>6, <1>7, <1>8, <1>9, <2>1, <2>2, <2>3, <2>4 DEF NextConsegna, Lavora

LEMMA LavoroPasso ==
    ASSUME TabellaInv, LavoroInv, [NextConsegna]_varsConsegna
    PROVE  LavoroInv'
BY LavoroParti, LavoroPartiDopo, LavoroTipi, InManoPasso

(* Another process starts only when there is none, or one. *)
LEMMA DuePasso ==
    ASSUME LavoroInv, AlPiuDue, [NextConsegna]_varsConsegna
    PROVE  AlPiuDue'
<1>1. passo \in [Processi -> PassiGira]
  BY DEF LavoroInv
<1>2. ASSUME \A q \in Processi : passo[q] = "spento" => passo'[q] = "spento"
      PROVE  AlPiuDue'
  BY <1>2 DEF AlPiuDue
<1>3. CASE UNCHANGED passo
  BY <1>2, <1>3
<1>4. ASSUME NEW p \in Processi, NuovaConsegna(p), NEW q, Accesi \subseteq {q}
      PROVE  AlPiuDue'
  <2>1. \A s \in Processi : s # p /\ s # q => passo'[s] = "spento"
    BY <1>1, <1>4 DEF NuovaConsegna, Accesi
  <2> QED
    BY <2>1 DEF AlPiuDue
<1>5. ASSUME NEW p \in Processi, Lavora(p) \/ Muore(p) \/ Guasto(p) PROVE AlPiuDue'
  <2>1. passo[p] # "spento" \/ passo'[p] = "spento"
    BY <1>5 DEF Lavora, Giro, Scegli, Manda, Esito, Muore, Guasto
  <2>2. \A q \in Processi \ {p} : passo'[q] = passo[q]
    BY <1>1, <1>5 DEF Lavora, Giro, Scegli, Manda, Esito, Muore, Guasto, Spegni, Ritorna
  <2> QED
    BY <1>2, <2>1, <2>2
<1> QED
  <2>1. CASE UNCHANGED varsConsegna
    BY <1>3, <2>1 DEF varsConsegna, lavoro
  <2>2. CASE OraPassa \/ \E t \in Tempo : Accoda(t)
    BY <1>3, <2>2 DEF OraPassa, Accoda, lavoro
  <2>3. ASSUME NEW p \in Processi, Avvia(p) \/ Ferma(p) PROVE AlPiuDue'
    <3>1. CASE Avvia(p)
      <4>1. NuovaConsegna(p) /\ Accesi \subseteq {p}
        BY <3>1 DEF Avvia
      <4> QED
        BY <1>4, <4>1
    <3> QED
      BY <1>3, <2>3, <3>1 DEF Ferma
  <2>4. ASSUME NEW p \in Processi, NEW q \in Processi, Ricarica(p, q) PROVE AlPiuDue'
    <3>1. NuovaConsegna(p) /\ Accesi \subseteq {q}
      BY <2>4 DEF Ricarica
    <3> QED
      BY <1>4, <3>1
  <2> QED
    BY <1>5, <2>1, <2>2, <2>3, <2>4 DEF NextConsegna
-----------------------------------------------------------------------------
(* The deliveries. *)

LEMMA PesoTipo ==
    ASSUME NEW p, NEW i
    PROVE  Peso(p, i) \in 0 .. 2 /\ (passo[p] = "spento" => Peso(p, i) = 0)
BY DEF Peso

LEMMA PesoTipoDopo ==
    ASSUME NEW p, NEW i
    PROVE  Peso(p, i)' \in 0 .. 2 /\ (passo'[p] = "spento" => Peso(p, i)' = 0)
BY DEF Peso

(* An event never waits again. *)
LEMMA ApertoPasso ==
    ASSUME TabellaInv, LavoroInv, [NextConsegna]_varsConsegna, NEW i \in Eventi, Aperto(i)'
    PROVE  Aperto(i)
<1>1. nuovo \in Nat /\ i \in Nat
  BY DEF TabellaInv, Eventi
<1>2. CASE UNCHANGED coda
  BY <1>2 DEF coda, Aperto
<1>3. ASSUME NEW t \in Tempo, Accoda(t) PROVE Aperto(i)
  <2>1. /\ nuovo' = nuovo + 1
        /\ \A e \in inCoda' : e \in inCoda \/ e.id = nuovo
    BY <1>3 DEF Accoda
  <2>2. CASE i >= nuovo'
    BY <1>1, <2>1, <2>2 DEF Aperto
  <2>3. CASE \E e \in inCoda' : e.id = i /\ e.esito = "inAttesa"
    <3>1. PICK e \in inCoda' : e.id = i /\ e.esito = "inAttesa"
      BY <2>3
    <3>2. CASE e \in inCoda
      BY <3>1, <3>2 DEF Aperto
    <3>3. CASE e.id = nuovo
      BY <1>1, <3>1, <3>3 DEF Aperto
    <3> QED
      BY <2>1, <3>2, <3>3
  <2> QED
    BY <2>2, <2>3 DEF Aperto
<1>4. ASSUME NEW p \in Processi, Giro(p) PROVE Aperto(i)
  BY <1>4 DEF Giro, Aperto
<1>5. ASSUME NEW p \in Processi, Esito(p) PROVE Aperto(i)
  <2>1. UNCHANGED nuovo
    BY <1>5 DEF Esito
  <2>2. CASE UNCHANGED inCoda
    BY <2>1, <2>2 DEF Aperto
  <2>3. CASE Aggiorna(evento[p], adesso[p], motivo[p]) /\ ~(i >= nuovo)
    <3>1. PICK s \in inCoda : LET r == IF s.id = evento[p].id
                                       THEN Tentato(evento[p], adesso[p], motivo[p], s) ELSE s
                              IN r.id = i /\ r.esito = "inAttesa"
      BY <2>1, <2>3 DEF Aperto, Aggiorna
    <3>2. s.id = i /\ s.esito = "inAttesa"
      <4>1. CASE s.id = evento[p].id
        <5>1. s \in RigaInt
          BY DEF TabellaInv
        <5> QED
          BY <3>1, <4>1, <5>1 DEF Tentato, RigaInt
      <4>2. CASE s.id # evento[p].id
        BY <3>1, <4>2
      <4> QED
        BY <4>1, <4>2
    <3> QED
      BY <3>2 DEF Aperto
  <2> QED
    BY <1>5, <2>2, <2>3 DEF Esito, Aperto
<1> QED
  <2>1. CASE UNCHANGED varsConsegna
    BY <1>2, <2>1 DEF varsConsegna
  <2>2. CASE OraPassa
    BY <1>2, <2>2 DEF OraPassa
  <2>3. ASSUME NEW p \in Processi, Avvia(p) \/ Ferma(p) \/ Muore(p) \/ Guasto(p) PROVE Aperto(i)
    BY <1>2, <2>3 DEF Avvia, Ferma, Muore, Guasto
  <2>4. ASSUME NEW p \in Processi, NEW q \in Processi, Ricarica(p, q) PROVE Aperto(i)
    BY <1>2, <2>4 DEF Ricarica
  <2>5. ASSUME NEW p \in Processi, Lavora(p) PROVE Aperto(i)
    BY <1>2, <1>4, <1>5, <2>5 DEF Lavora, Scegli, Manda
  <2> QED
    BY <1>3, <2>1, <2>2, <2>3, <2>4, <2>5 DEF NextConsegna

(* A process that stays where it was owes no more than before. *)
LEMMA PesoFermo ==
    ASSUME NEW q, NEW i, Aperto(i)' => Aperto(i),
           passo'[q] = passo[q], evento'[q] = evento[q], motivo'[q] = motivo[q], fermata'[q] = fermata[q]
    PROVE  Peso(q, i)' <= Peso(q, i)
BY DEF Peso, InMano, Preso

(* A step of a process that is up, and stays up: what is delivered or comes to be owed
   was owed already, or is one more incident. *)
LEMMA DebitoDi ==
    ASSUME AlPiuDue, NEW i \in Eventi, Debito(i), ricevute[i] \in Nat, incidenti \in Nat,
           ricevute'[i] \in Nat, incidenti' \in Nat,
           NEW p \in Processi, passo[p] # "spento", passo'[p] # "spento",
           \A q \in Processi \ {p} : Peso(q, i)' <= Peso(q, i) /\ passo'[q] = passo[q],
           ricevute'[i] + Peso(p, i)' + incidenti <= ricevute[i] + Peso(p, i) + incidenti'
    PROVE  Debito(i)'
<1> DEFINE D(q) == Peso(q, i)
           E(q) == Peso(q, i)'
<1>1. \A q \in Processi : D(q) \in 0 .. 2 /\ E(q) \in 0 .. 2
  BY PesoTipo, PesoTipoDopo
<1>2. \A q \in Processi : passo[q] = "spento" => D(q) = 0
  BY PesoTipo
<1>3. /\ \A q \in Processi : ricevute[i] + D(q) <= 1 + incidenti
      /\ \A q, s \in Processi : q # s => ricevute[i] + D(q) + D(s) <= 1 + incidenti
  BY DEF Debito
<1>4. /\ \A q \in Processi \ {p} : E(q) <= D(q) /\ passo'[q] = passo[q]
      /\ ricevute'[i] + E(p) + incidenti <= ricevute[i] + D(p) + incidenti'
  OBVIOUS
<1> HIDE DEF D, E
<1>5. ricevute'[i] <= 1 + incidenti'
  BY <1>1, <1>3, <1>4
<1>6. ASSUME NEW q \in Processi PROVE ricevute'[i] + E(q) <= 1 + incidenti'
  <2>1. CASE q = p
    BY <1>1, <1>3, <1>4, <2>1
  <2>2. CASE q # p
    <3>1. ricevute[i] + D(p) + D(q) <= 1 + incidenti
      BY <1>3, <2>2
    <3>2. E(q) <= D(q)
      BY <1>4, <2>2
    <3> QED
      BY <1>1, <1>4, <3>1, <3>2
  <2> QED
    BY <2>1, <2>2
<1>7. ASSUME NEW q \in Processi, NEW s \in Processi, q # s, s # p
      PROVE  ricevute'[i] + E(q) + E(s) <= 1 + incidenti'
  <2>1. E(s) <= D(s)
    BY <1>4, <1>7
  <2>2. CASE q = p
    <3>1. ricevute[i] + D(p) + D(s) <= 1 + incidenti
      BY <1>3, <1>7
    <3> QED
      BY <1>1, <1>4, <2>1, <2>2, <3>1
  <2>3. CASE q # p
    <3>1. "spento" \in {passo[q], passo[s]}
      BY <1>7, <2>3 DEF AlPiuDue
    <3>2. D(q) = 0 \/ D(s) = 0
      BY <1>2, <3>1
    <3>3. E(q) <= D(q)
      BY <1>4, <2>3
    <3>4. ricevute[i] + D(p) + D(s) <= 1 + incidenti /\ ricevute[i] + D(p) + D(q) <= 1 + incidenti
      BY <1>3, <1>7, <2>3
    <3>5. D(q) \in 0 .. 2 /\ D(s) \in 0 .. 2 /\ D(p) \in 0 .. 2 /\ E(q) \in 0 .. 2 /\ E(s) \in 0 .. 2 /\ E(p) \in 0 .. 2
      BY <1>1
    <3> QED
      BY <1>4, <2>1, <3>2, <3>3, <3>4, <3>5
  <2> QED
    BY <2>2, <2>3
<1>8. ASSUME NEW q \in Processi, NEW s \in Processi, q # s
      PROVE  ricevute'[i] + E(q) + E(s) <= 1 + incidenti'
  <2>1. CASE s # p
    BY <1>7, <1>8, <2>1
  <2>2. CASE q # p
    <3>1. ricevute'[i] + E(s) + E(q) <= 1 + incidenti'
      BY <1>7, <1>8, <2>2
    <3>2. E(q) \in 0 .. 2 /\ E(s) \in 0 .. 2
      BY <1>1
    <3> QED
      BY <3>1, <3>2
  <2> QED
    BY <1>8, <2>1, <2>2
<1>9. Accesi' # {}
  BY DEF Accesi
<1> QED
  BY <1>5, <1>6, <1>8, <1>9 DEF Debito, E

(* A process that ends: it would have sent the event itself, or its end is an incident. *)
LEMMA DebitoSpegni ==
    ASSUME LavoroInv, NEW i \in Eventi, Debito(i), NEW p \in Processi, Spegni(p),
           passo[p] # "spento", Aperto(i)' => Aperto(i),
           UNCHANGED ricevute, incidenti' \in Nat, incidenti <= incidenti',
           Aperto(i) => Peso(p, i) >= 1 \/ incidenti' = incidenti + 1
    PROVE  Debito(i)'
<1> DEFINE D(q) == Peso(q, i)
           E(q) == Peso(q, i)'
<1>1. ricevute[i] \in Nat /\ incidenti \in Nat
  BY DEF LavoroInv
<1>2. \A q \in Processi : D(q) \in 0 .. 2 /\ E(q) \in 0 .. 2
  BY PesoTipo, PesoTipoDopo
<1>3. passo'[p] = "spento" /\ \A q \in Processi \ {p} : passo'[q] = passo[q]
  BY DEF Spegni, LavoroInv
<1>4. E(p) = 0
  BY <1>3, PesoTipoDopo
<1>5. \A q \in Processi \ {p} : E(q) <= D(q)
  <2>1. \A q \in Processi \ {p} : evento'[q] = evento[q] /\ motivo'[q] = motivo[q] /\ fermata'[q] = fermata[q]
    BY DEF Spegni, Dimentica, LavoroInv
  <2> QED
    BY <1>3, <2>1, PesoFermo
<1>6. /\ ricevute[i] <= 1 + incidenti
      /\ \A q \in Processi : ricevute[i] + D(q) <= 1 + incidenti
      /\ \A q, s \in Processi : q # s => ricevute[i] + D(q) + D(s) <= 1 + incidenti
  BY DEF Debito
<1>7. Aperto(i) => D(p) >= 1 \/ incidenti' = incidenti + 1
  OBVIOUS
<1> HIDE DEF D, E
<1>8. \A q \in Processi : E(q) <= D(q)
  BY <1>2, <1>4, <1>5
<1>9. ricevute'[i] <= 1 + incidenti' /\ \A q \in Processi : ricevute'[i] + E(q) <= 1 + incidenti'
  BY <1>1, <1>2, <1>6, <1>8
<1>10. ASSUME NEW q \in Processi, NEW s \in Processi, q # s
       PROVE  ricevute'[i] + E(q) + E(s) <= 1 + incidenti'
  <2>1. /\ E(q) <= D(q) /\ E(s) <= D(s) /\ ricevute[i] + D(q) + D(s) <= 1 + incidenti
        /\ E(q) \in Int /\ D(q) \in Int /\ E(s) \in Int /\ D(s) \in Int
    BY <1>2, <1>6, <1>8, <1>10
  <2> QED
    BY <1>1, <2>1
<1>11. Aperto(i)' => ricevute'[i] <= incidenti'
  <2>1. ricevute[i] + D(p) <= 1 + incidenti /\ D(p) \in 0 .. 2
    BY <1>2, <1>6
  <2> QED
    BY <1>1, <1>7, <2>1
<1> QED
  BY <1>9, <1>10, <1>11 DEF Debito, E

(* Nothing moves but the clock and the queue. *)
LEMMA DebitoFermo ==
    ASSUME NEW i \in Eventi, Debito(i), LavoroInv, UNCHANGED <<lavoro, storia>>, Aperto(i)' => Aperto(i)
    PROVE  Debito(i)'
<1> DEFINE D(q) == Peso(q, i)
           E(q) == Peso(q, i)'
<1>1. \A q \in Processi : D(q) \in 0 .. 2 /\ E(q) \in 0 .. 2
  BY PesoTipo, PesoTipoDopo
<1>2. \A q \in Processi : E(q) <= D(q)
  BY PesoFermo DEF lavoro
<1>3. /\ ricevute[i] <= 1 + incidenti
      /\ \A q \in Processi : ricevute[i] + D(q) <= 1 + incidenti
      /\ \A q, s \in Processi : q # s => ricevute[i] + D(q) + D(s) <= 1 + incidenti
      /\ Aperto(i) /\ Accesi = {} => ricevute[i] <= incidenti
  BY DEF Debito
<1>4. ricevute[i] \in Nat /\ incidenti \in Nat /\ ricevute' = ricevute /\ incidenti' = incidenti
  BY DEF LavoroInv, storia
<1>5. Accesi' = Accesi
  BY DEF Accesi, lavoro
<1> HIDE DEF D, E
<1>6. \A q \in Processi : ricevute'[i] + E(q) <= 1 + incidenti'
  BY <1>1, <1>2, <1>3, <1>4
<1>7. ASSUME NEW q \in Processi, NEW s \in Processi, q # s
      PROVE  ricevute'[i] + E(q) + E(s) <= 1 + incidenti'
  <2>1. /\ E(q) <= D(q) /\ E(s) <= D(s) /\ ricevute[i] + D(q) + D(s) <= 1 + incidenti
        /\ E(q) \in Int /\ D(q) \in Int /\ E(s) \in Int /\ D(s) \in Int
    BY <1>1, <1>2, <1>3, <1>7
  <2> QED
    BY <1>4, <2>1
<1> QED
  BY <1>3, <1>4, <1>5, <1>6, <1>7 DEF Debito, E

(* A process that starts owes each event that waits, once. *)
LEMMA DebitoComincia ==
    ASSUME LavoroInv, NEW i \in Eventi, Debito(i), NEW p \in Processi, NuovaConsegna(p),
           passo[p] = "spento", UNCHANGED <<coda, ricevute>>, NEW q, Accesi \subseteq {q},
           \/ Accesi = {} /\ incidenti' = incidenti
           \/ incidenti' = incidenti + 1
    PROVE  Debito(i)'
<1> DEFINE D(s) == Peso(s, i)
           E(s) == Peso(s, i)'
<1>1. ricevute[i] \in Nat /\ incidenti \in Nat /\ incidenti' \in Nat /\ ricevute' = ricevute
  BY DEF LavoroInv
<1>2. \A s \in Processi : D(s) \in 0 .. 2 /\ E(s) \in 0 .. 2
  BY PesoTipo, PesoTipoDopo
<1>3. passo'[p] = "giro" /\ \A s \in Processi \ {p} : passo'[s] = passo[s]
  BY DEF NuovaConsegna, LavoroInv
<1>4. Aperto(i)' = Aperto(i)
  BY DEF Aperto, coda
<1>5. E(p) <= 1 /\ (~Aperto(i) => E(p) = 0)
  BY <1>3, <1>4 DEF Peso, InMano, Preso
<1>6. \A s \in Processi \ {p} : E(s) <= D(s)
  BY <1>3, <1>4, PesoFermo DEF NuovaConsegna
<1>7. \A s \in Processi \ {p} : s # q => E(s) = 0
  <2>1. \A s \in Processi \ {p} : s # q => passo'[s] = "spento"
    BY <1>3 DEF Accesi
  <2> QED
    BY <2>1, PesoTipoDopo
<1>8. /\ ricevute[i] <= 1 + incidenti
      /\ \A s \in Processi : ricevute[i] + D(s) <= 1 + incidenti
      /\ Aperto(i) /\ Accesi = {} => ricevute[i] <= incidenti
  BY DEF Debito
<1>9. Accesi = {} => \A s \in Processi \ {p} : E(s) = 0
  <2>1. Accesi = {} => \A s \in Processi \ {p} : passo'[s] = "spento"
    BY <1>3 DEF Accesi
  <2> QED
    BY <2>1, PesoTipoDopo
<1>10. Accesi' # {}
  BY <1>3 DEF Accesi
<1> HIDE DEF D, E
<1>11. ricevute'[i] + E(p) <= 1 + incidenti'
  BY <1>1, <1>2, <1>5, <1>8
<1>12. ASSUME NEW s \in Processi \ {p} PROVE ricevute'[i] + E(p) + E(s) <= 1 + incidenti'
  <2>0. E(s) <= D(s) /\ E(s) \in 0 .. 2 /\ D(s) \in 0 .. 2 /\ E(p) \in 0 .. 2 /\ ricevute[i] + D(s) <= 1 + incidenti
    BY <1>2, <1>6, <1>8
  <2>1. CASE Accesi = {} /\ incidenti' = incidenti
    BY <1>1, <1>9, <1>11, <2>0, <2>1
  <2>2. CASE incidenti' = incidenti + 1
    BY <1>1, <1>5, <2>0, <2>2
  <2> QED
    BY <2>1, <2>2
<1>13. ASSUME NEW s \in Processi \ {p}, NEW r \in Processi \ {p}, s # r
       PROVE  ricevute'[i] + E(r) + E(s) <= 1 + incidenti'
  <2>1. E(s) = 0 \/ E(r) = 0
    BY <1>7, <1>13
  <2>2. /\ E(s) <= D(s) /\ E(s) \in 0 .. 2 /\ D(s) \in 0 .. 2 /\ ricevute[i] + D(s) <= 1 + incidenti
        /\ E(r) <= D(r) /\ E(r) \in 0 .. 2 /\ D(r) \in 0 .. 2 /\ ricevute[i] + D(r) <= 1 + incidenti
    BY <1>2, <1>6, <1>8
  <2> QED
    BY <1>1, <2>1, <2>2
<1>14. ASSUME NEW s \in Processi PROVE ricevute'[i] + E(s) <= 1 + incidenti'
  <2>1. CASE s = p
    BY <1>11, <2>1
  <2>2. CASE s # p
    <3>1. ricevute'[i] + E(p) + E(s) <= 1 + incidenti' /\ E(p) \in 0 .. 2 /\ E(s) \in 0 .. 2
      BY <1>2, <1>12, <2>2
    <3> QED
      BY <1>1, <3>1
  <2> QED
    BY <2>1, <2>2
<1>15. ASSUME NEW r \in Processi, NEW s \in Processi, r # s
       PROVE  ricevute'[i] + E(r) + E(s) <= 1 + incidenti'
  <2>1. CASE r = p
    BY <1>12, <1>15, <2>1
  <2>2. CASE s = p
    <3>1. ricevute'[i] + E(p) + E(r) <= 1 + incidenti' /\ E(p) \in 0 .. 2 /\ E(r) \in 0 .. 2
      BY <1>2, <1>12, <1>15, <2>2
    <3> QED
      BY <1>1, <2>2, <3>1
  <2>3. CASE r # p /\ s # p
    BY <1>13, <1>15, <2>3
  <2> QED
    BY <2>1, <2>2, <2>3
<1>16. ricevute'[i] <= 1 + incidenti'
  BY <1>1, <1>8
<1> QED
  BY <1>10, <1>14, <1>15, <1>16 DEF Debito, E

(* The outcome of an attempt that the receiver took closes the row. *)
LEMMA EsitoChiude ==
    ASSUME TabellaInv, LavoroInv, NEW p \in Processi, Esito(p), ~fermata[p], motivo[p] = "ok",
           NEW i \in Eventi, evento[p].id = i
    PROVE  ~Aperto(i)'
<1> DEFINE e == evento[p]
<1>1. /\ Aggiorna(e, adesso[p], motivo[p]) /\ UNCHANGED nuovo
      /\ e.id = i /\ i < nuovo /\ i \in Eventi /\ e \in RigaInt /\ nuovo \in Nat
  BY DEF Esito, LavoroInv, RigaInt, TabellaInv
<1>2. ~(i >= nuovo')
  BY <1>1 DEF Eventi
<1>3. ASSUME NEW r \in inCoda', r.id = i PROVE r.esito # "inAttesa"
  <2>1. PICK s \in inCoda : r = IF s.id = e.id THEN Tentato(e, adesso[p], motivo[p], s) ELSE s
    BY <1>1 DEF Aggiorna
  <2>2. s \in RigaInt
    BY DEF TabellaInv
  <2>3. s.id = e.id
    <3>1. CASE s.id # e.id
      BY <1>1, <1>3, <2>1, <3>1
    <3> QED
      BY <3>1
  <2>4. r = [s EXCEPT !.tentativi = e.tentativi + 1, !.esito = "consegnato", !.chiuso = adesso[p]]
    BY <2>1, <2>3 DEF Tentato
  <2> QED
    BY <2>2, <2>4 DEF RigaInt
<1> QED
  BY <1>2, <1>3 DEF Aperto

LEMMA MotivoPasso ==
    ASSUME LavoroInv, MotivoInv, [NextConsegna]_varsConsegna
    PROVE  MotivoInv'
<1>1. /\ passo \in [Processi -> PassiGira]
      /\ motivo \in [Processi -> {"ok", "rispostaPersa", "nonConsegnato"}]
  BY DEF LavoroInv
<1>2. CASE UNCHANGED <<passo, motivo>>
  BY <1>2 DEF MotivoInv
<1>3. ASSUME NEW p \in Processi, NEW s,
             passo' = [passo EXCEPT ![p] = s], motivo' = [motivo EXCEPT ![p] = "ok"]
      PROVE  MotivoInv'
  BY <1>1, <1>3 DEF MotivoInv
<1>4. ASSUME NEW p \in Processi, NEW s, passo[p] # "esito",
             passo' = [passo EXCEPT ![p] = s], UNCHANGED motivo
      PROVE  MotivoInv'
  BY <1>1, <1>4 DEF MotivoInv
<1>5. ASSUME NEW p \in Processi, Manda(p) PROVE MotivoInv'
  <2>1. passo' = [passo EXCEPT ![p] = "esito"] /\ \A q \in Processi \ {p} : motivo'[q] = motivo[q]
    BY <1>1, <1>5 DEF Manda
  <2> QED
    BY <1>1, <2>1 DEF MotivoInv
<1>6. ASSUME NEW p \in Processi, NuovaConsegna(p), passo[p] # "esito" PROVE MotivoInv'
  BY <1>4, <1>6 DEF NuovaConsegna
<1>7. ASSUME NEW p \in Processi, Spegni(p) \/ Ritorna(p) PROVE MotivoInv'
  BY <1>3, <1>7 DEF Spegni, Ritorna, Dimentica
<1>8. ASSUME NEW p \in Processi, Giro(p) \/ Scegli(p) PROVE MotivoInv'
  <2>1. CASE Spegni(p) \/ Ritorna(p)
    BY <1>7, <2>1
  <2>2. CASE passo' = [passo EXCEPT ![p] = "scelta"] /\ passo[p] = "giro" /\ UNCHANGED motivo
    BY <1>4, <2>2
  <2>3. CASE passo' = [passo EXCEPT ![p] = "invio"] /\ passo[p] = "scelta" /\ UNCHANGED motivo
    BY <1>4, <2>3
  <2> QED
    BY <1>8, <2>1, <2>2, <2>3 DEF Giro, Scegli
<1> QED
  <2>1. CASE UNCHANGED varsConsegna
    BY <1>2, <2>1 DEF varsConsegna, lavoro
  <2>2. CASE OraPassa \/ \E t \in Tempo : Accoda(t)
    BY <1>2, <2>2 DEF OraPassa, Accoda, lavoro
  <2>3. ASSUME NEW p \in Processi, Avvia(p) PROVE MotivoInv'
    BY <1>6, <2>3 DEF Avvia, Accesi
  <2>4. ASSUME NEW p \in Processi, NEW q \in Processi, Ricarica(p, q) PROVE MotivoInv'
    BY <1>6, <2>4 DEF Ricarica, Accesi
  <2>5. ASSUME NEW p \in Processi, Ferma(p) \/ Muore(p) \/ Guasto(p) \/ Esito(p) PROVE MotivoInv'
    BY <1>2, <1>7, <2>5 DEF Ferma, Muore, Guasto, Esito
  <2> QED
    BY <1>5, <1>8, <2>1, <2>2, <2>3, <2>4, <2>5 DEF NextConsegna, Lavora

(* What a step of a process leaves to it, and to the others. *)
LEMMA DebitoScegli ==
    ASSUME TabellaInv, LavoroInv, AlPiuDue, NEW i \in Eventi, Debito(i), Aperto(i)' => Aperto(i),
           NEW p \in Processi, Scegli(p)
    PROVE  Debito(i)'
<1>1. /\ passo \in [Processi -> PassiGira] /\ fermata \in [Processi -> BOOLEAN]
      /\ evento \in [Processi -> RigaInt \cup {NessunEvento}]
      /\ motivo \in [Processi -> {"ok", "rispostaPersa", "nonConsegnato"}]
      /\ ricevute[i] \in Nat /\ incidenti \in Nat
  BY DEF LavoroInv
<1>2. UNCHANGED <<inCoda, nuovo, ricevute, incidenti>> /\ passo[p] = "scelta"
  BY DEF Scegli, coda, storia
<1>3. Aperto(i)' = Aperto(i)
  BY <1>2 DEF Aperto
<1>4. /\ fermata' = fermata /\ passo'[p] \in {"giro", "invio"}
      /\ \A q \in Processi \ {p} : /\ passo'[q] = passo[q] /\ evento'[q] = evento[q]
                                   /\ motivo'[q] = motivo[q]
  BY <1>1 DEF Scegli, Ritorna, Dimentica
<1>5. \A q \in Processi \ {p} : Peso(q, i)' <= Peso(q, i) /\ passo'[q] = passo[q]
  BY <1>4, PesoFermo
<1>6. InMano(p, i)' => Aperto(i)
  <2> SUFFICES ASSUME passo'[p] = "invio", evento'[p].id = i PROVE Aperto(i)
    BY DEF InMano
  <2>1. ~Ritorna(p)
    BY <1>1 DEF Ritorna
  <2>2. PICK e \in Pronti(adesso[p]) : evento' = [evento EXCEPT ![p] = e]
    BY <2>1 DEF Scegli
  <2>3. e \in inCoda /\ e.esito = "inAttesa" /\ e.id = i
    BY <1>1, <2>2 DEF Pronti
  <2> QED
    BY <2>3 DEF Aperto
<1>7. Peso(p, i)' <= Peso(p, i)
  BY <1>2, <1>3, <1>4, <1>6 DEF Peso, InMano, Preso
<1>8. Peso(p, i)' \in Int /\ Peso(p, i) \in Int
  BY PesoTipo, PesoTipoDopo
<1>9. ricevute'[i] + Peso(p, i)' + incidenti <= ricevute[i] + Peso(p, i) + incidenti'
  BY <1>1, <1>2, <1>7, <1>8
<1> QED
  BY <1>1, <1>2, <1>4, <1>5, <1>9, DebitoDi

LEMMA DebitoManda ==
    ASSUME TabellaInv, LavoroInv, AlPiuDue, MotivoInv, NEW i \in Eventi, Debito(i),
           NEW p \in Processi, Manda(p)
    PROVE  Debito(i)'
<1>1. /\ passo \in [Processi -> PassiGira] /\ ricevute \in [Eventi -> Nat]
      /\ motivo \in [Processi -> {"ok", "rispostaPersa", "nonConsegnato"}]
      /\ ricevute[i] \in Nat /\ incidenti \in Nat
  BY DEF LavoroInv
<1>2. UNCHANGED <<inCoda, nuovo, fermata, evento>> /\ passo[p] = "invio" /\ passo'[p] = "esito"
  BY <1>1 DEF Manda, coda
<1>3. Aperto(i)' = Aperto(i)
  BY <1>2 DEF Aperto
<1>4. \A q \in Processi \ {p} : passo'[q] = passo[q] /\ motivo'[q] = motivo[q]
  BY <1>1 DEF Manda
<1>5. \A q \in Processi \ {p} : Peso(q, i)' <= Peso(q, i) /\ passo'[q] = passo[q]
  BY <1>2, <1>3, <1>4, PesoFermo
<1>6. motivo[p] = "ok" /\ evento[p].id \in Eventi
  BY <1>2 DEF MotivoInv, LavoroInv, RigaInt
<1>7. /\ ricevute'[i] \in Nat /\ incidenti' \in Nat
      /\ ricevute'[i] + Peso(p, i)' + incidenti <= ricevute[i] + Peso(p, i) + incidenti'
  <2>1. CASE /\ ricevute' = [ricevute EXCEPT ![evento[p].id] = @ + 1]
             /\ UNCHANGED <<motivo, incidenti>>
    <3>1. CASE evento[p].id = i
      <4>1. ricevute'[i] = ricevute[i] + 1
        BY <1>1, <2>1, <3>1
      <4>2. Peso(p, i)' + 1 <= Peso(p, i)
        BY <1>2, <1>3, <1>6, <2>1, <3>1 DEF Peso, InMano, Preso
      <4>3. Peso(p, i)' \in Int /\ Peso(p, i) \in Int
        BY PesoTipo, PesoTipoDopo
      <4> QED
        BY <1>1, <2>1, <4>1, <4>2, <4>3
    <3>2. CASE evento[p].id # i
      <4>1. ricevute'[i] = ricevute[i]
        BY <1>1, <2>1, <3>2
      <4>2. Peso(p, i)' <= Peso(p, i)
        BY <1>2, <1>3, <3>2 DEF Peso, InMano, Preso
      <4>3. Peso(p, i)' \in Int /\ Peso(p, i) \in Int
        BY PesoTipo, PesoTipoDopo
      <4> QED
        BY <1>1, <2>1, <4>1, <4>2, <4>3
    <3> QED
      BY <3>1, <3>2
  <2>2. CASE motivo' # motivo
    <3>1. motivo'[p] # "ok"
      BY <1>1, <1>6, <2>2 DEF Manda
    <3>2. Peso(p, i)' <= Peso(p, i)
      BY <1>2, <1>3, <3>1 DEF Peso, InMano, Preso
    <3>3. Peso(p, i)' \in Int /\ Peso(p, i) \in Int
      BY PesoTipo, PesoTipoDopo
    <3>4. CASE ricevute' = [ricevute EXCEPT ![evento[p].id] = @ + 1] /\ Incidente
      <4>1. ricevute'[i] \in {ricevute[i], ricevute[i] + 1} /\ incidenti' = incidenti + 1
        BY <1>1, <1>6, <3>4 DEF Incidente
      <4> QED
        BY <1>1, <3>2, <3>3, <4>1
    <3>5. CASE UNCHANGED <<ricevute, incidenti>>
      BY <1>1, <3>2, <3>3, <3>5
    <3> QED
      BY <2>2, <3>4, <3>5 DEF Manda
  <2>3. CASE motivo' = [motivo EXCEPT ![p] = "rispostaPersa"] \/ motivo' = [motivo EXCEPT ![p] = "nonConsegnato"]
    <3>1. motivo'[p] # motivo[p]
      BY <1>1, <1>6, <2>3
    <3> QED
      BY <2>2, <3>1
  <2> QED
    BY <2>1, <2>3 DEF Manda
<1> QED
  BY <1>1, <1>2, <1>5, <1>7, DebitoDi

LEMMA DebitoEsito ==
    ASSUME TabellaInv, LavoroInv, AlPiuDue, NEW i \in Eventi, Debito(i), Aperto(i)' => Aperto(i),
           NEW p \in Processi, Esito(p)
    PROVE  Debito(i)'
<1>1. /\ passo \in [Processi -> PassiGira]
      /\ evento \in [Processi -> RigaInt \cup {NessunEvento}]
      /\ motivo \in [Processi -> {"ok", "rispostaPersa", "nonConsegnato"}]
      /\ ricevute[i] \in Nat /\ incidenti \in Nat
  BY DEF LavoroInv
<1>2. /\ UNCHANGED <<nuovo, ricevute, incidenti, fermata>>
      /\ passo[p] = "esito" /\ passo'[p] = "giro"
      /\ \A q \in Processi \ {p} : /\ passo'[q] = passo[q] /\ evento'[q] = evento[q]
                                   /\ motivo'[q] = motivo[q]
  BY <1>1 DEF Esito, Ritorna, Dimentica, storia
<1>3. \A q \in Processi \ {p} : Peso(q, i)' <= Peso(q, i) /\ passo'[q] = passo[q]
  BY <1>2, PesoFermo
<1>4. Preso(p, i) => ~Aperto(i)'
  BY EsitoChiude DEF Preso
<1>5. Peso(p, i)' <= Peso(p, i)
  BY <1>2, <1>4 DEF Peso, InMano, Preso
<1>6. Peso(p, i)' \in Int /\ Peso(p, i) \in Int
  BY PesoTipo, PesoTipoDopo
<1>7. ricevute'[i] + Peso(p, i)' + incidenti <= ricevute[i] + Peso(p, i) + incidenti'
  BY <1>1, <1>2, <1>5, <1>6
<1> QED
  BY <1>1, <1>2, <1>3, <1>7, DebitoDi

LEMMA DebitoGiro ==
    ASSUME TabellaInv, LavoroInv, AlPiuDue, NEW i \in Eventi, Debito(i), Aperto(i)' => Aperto(i),
           NEW p \in Processi, Giro(p)
    PROVE  Debito(i)'
<1>1. /\ passo \in [Processi -> PassiGira] /\ ricevute[i] \in Nat /\ incidenti \in Nat
  BY DEF LavoroInv
<1>2. UNCHANGED <<ricevute, incidenti>> /\ passo[p] = "giro"
  BY DEF Giro, storia
<1>3. Aperto(i) => Peso(p, i) = 1
  BY <1>2 DEF Peso, InMano, Preso
<1>4. CASE Spegni(p)
  <2>1. /\ UNCHANGED ricevute /\ incidenti' \in Nat /\ incidenti <= incidenti'
        /\ Aperto(i) => Peso(p, i) >= 1 \/ incidenti' = incidenti + 1
    BY <1>1, <1>2, <1>3
  <2> QED
    BY <1>2, <1>4, <2>1, DebitoSpegni
<1>5. CASE /\ ~fermata[p] /\ passo' = [passo EXCEPT ![p] = "scelta"]
           /\ UNCHANGED <<fermata, evento, motivo>>
  <2>1. passo'[p] = "scelta" /\ \A q \in Processi \ {p} : passo'[q] = passo[q]
    BY <1>1, <1>5
  <2>2. \A q \in Processi \ {p} : Peso(q, i)' <= Peso(q, i) /\ passo'[q] = passo[q]
    BY <1>5, <2>1, PesoFermo
  <2>3. Peso(p, i)' <= Peso(p, i)
    BY <1>2, <1>5, <2>1 DEF Peso, InMano, Preso
  <2>4. Peso(p, i)' \in Int /\ Peso(p, i) \in Int
    BY PesoTipo, PesoTipoDopo
  <2>5. ricevute'[i] + Peso(p, i)' + incidenti <= ricevute[i] + Peso(p, i) + incidenti'
    BY <1>1, <1>2, <2>3, <2>4
  <2> QED
    BY <1>1, <1>2, <2>1, <2>2, <2>5, DebitoDi
<1> QED
  BY <1>4, <1>5 DEF Giro

(* A stop or a failed statement: one delivery more may come of it, and one incident. *)
LEMMA DebitoIncidente ==
    ASSUME TabellaInv, LavoroInv, AlPiuDue, NEW i \in Eventi, Debito(i), Aperto(i)' => Aperto(i),
           NEW p \in Processi, Ferma(p) \/ Guasto(p)
    PROVE  Debito(i)'
<1>1. /\ passo \in [Processi -> PassiGira] /\ fermata \in [Processi -> BOOLEAN]
      /\ evento \in [Processi -> RigaInt \cup {NessunEvento}]
      /\ motivo \in [Processi -> {"ok", "rispostaPersa", "nonConsegnato"}]
      /\ ricevute[i] \in Nat /\ incidenti \in Nat
  BY DEF LavoroInv
<1>2. UNCHANGED ricevute /\ incidenti' = incidenti + 1 /\ passo[p] # "spento" /\ passo'[p] # "spento"
  BY <1>1 DEF Ferma, Guasto, Incidente, Ritorna
<1>3. \A q \in Processi \ {p} : /\ passo'[q] = passo[q] /\ evento'[q] = evento[q]
                                 /\ motivo'[q] = motivo[q] /\ fermata'[q] = fermata[q]
  BY <1>1 DEF Ferma, Guasto, Ritorna, Dimentica
<1>4. \A q \in Processi \ {p} : Peso(q, i)' <= Peso(q, i) /\ passo'[q] = passo[q]
  BY <1>3, PesoFermo
<1>5. Peso(p, i)' <= Peso(p, i) + 1
  <2>1. CASE Ferma(p)
    <3>1. passo'[p] = passo[p] /\ evento'[p] = evento[p] /\ motivo'[p] = motivo[p] /\ ~fermata[p]
      BY <2>1 DEF Ferma
    <3> QED
      BY <3>1 DEF Peso, InMano, Preso
  <2>2. CASE Guasto(p)
    <3>1. passo'[p] = "giro" /\ passo[p] # "spento"
      BY <1>1, <2>2 DEF Guasto, Ritorna
    <3>2. Peso(p, i)' <= 1
      BY <3>1 DEF Peso, InMano, Preso
    <3>3. Peso(p, i) \in 0 .. 2 /\ Peso(p, i)' \in 0 .. 2
      BY PesoTipo, PesoTipoDopo
    <3> QED
      BY <3>2, <3>3
  <2> QED
    BY <2>1, <2>2
<1>6. Peso(p, i)' \in Int /\ Peso(p, i) \in Int
  BY PesoTipo, PesoTipoDopo
<1>7. ricevute'[i] + Peso(p, i)' + incidenti <= ricevute[i] + Peso(p, i) + incidenti'
  BY <1>1, <1>2, <1>5, <1>6
<1> QED
  BY <1>1, <1>2, <1>4, <1>7, DebitoDi

LEMMA DebitoPasso ==
    ASSUME TabellaInv, LavoroInv, AlPiuDue, MotivoInv, NEW i \in Eventi, Debito(i),
           [NextConsegna]_varsConsegna
    PROVE  Debito(i)'
<1>1. Aperto(i)' => Aperto(i)
  BY ApertoPasso
<1>2. CASE UNCHANGED varsConsegna
  BY <1>1, <1>2, DebitoFermo DEF varsConsegna
<1>3. CASE OraPassa \/ \E t \in Tempo : Accoda(t)
  BY <1>1, <1>3, DebitoFermo DEF OraPassa, Accoda
<1>4. ASSUME NEW p \in Processi, Avvia(p) PROVE Debito(i)'
  <2>1. /\ NuovaConsegna(p) /\ passo[p] = "spento" /\ UNCHANGED <<coda, ricevute>> /\ Accesi \subseteq {p}
        /\ Accesi = {} /\ incidenti' = incidenti
    BY <1>4 DEF Avvia, Accesi, storia
  <2> QED
    BY <2>1, DebitoComincia
<1>5. ASSUME NEW p \in Processi, NEW q \in Processi, Ricarica(p, q) PROVE Debito(i)'
  <2>1. /\ NuovaConsegna(p) /\ passo[p] = "spento" /\ UNCHANGED <<coda, ricevute>> /\ Accesi \subseteq {q}
        /\ incidenti' = incidenti + 1
    BY <1>5 DEF Ricarica, Accesi, Incidente
  <2> QED
    BY <2>1, DebitoComincia
<1>6. ASSUME NEW p \in Processi, Muore(p) PROVE Debito(i)'
  <2>1. /\ Spegni(p) /\ passo[p] # "spento" /\ UNCHANGED ricevute /\ incidenti' = incidenti + 1
        /\ incidenti' \in Nat /\ incidenti <= incidenti'
    BY <1>6 DEF Muore, Incidente, LavoroInv
  <2> QED
    BY <1>1, <2>1, DebitoSpegni
<1>7. ASSUME NEW p \in Processi, Lavora(p) \/ Ferma(p) \/ Guasto(p) PROVE Debito(i)'
  BY <1>1, <1>7, DebitoGiro, DebitoScegli, DebitoManda, DebitoEsito, DebitoIncidente DEF Lavora
<1> QED
  BY <1>2, <1>3, <1>4, <1>5, <1>6, <1>7 DEF NextConsegna
-----------------------------------------------------------------------------
LEMMA ConsegnaPasso == ConsegnaInv /\ [NextConsegna]_varsConsegna => ConsegnaInv'
<1> SUFFICES ASSUME ConsegnaInv, [NextConsegna]_varsConsegna PROVE ConsegnaInv'
  OBVIOUS
<1>1. TabellaInv /\ LavoroInv /\ AlPiuDue /\ MotivoInv /\ \A i \in Eventi : Debito(i)
  BY DEF ConsegnaInv
<1>2. \A i \in Eventi : Debito(i)'
  BY <1>1, DebitoPasso
<1> QED
  BY <1>1, <1>2, TabellaPasso, LavoroPasso, DuePasso, MotivoPasso DEF ConsegnaInv

LEMMA ConsegnaSempre == SpecConsegna => []ConsegnaInv
BY InizioConsegna, ConsegnaPasso, PTL DEF SpecConsegna

(* The receiver sees an event again only for something that went wrong, and once for
   each: Consegna.Passo, manda and gira with their stops, deaths, reloads and failures. *)
THEOREM DoppioniContati == SpecConsegna => []Doppioni
<1>1. ConsegnaInv => Doppioni
  BY DEF ConsegnaInv, Debito, Doppioni
<1> QED
  BY <1>1, ConsegnaSempre, PTL

(* No event is put off beyond its 24 hours, none is given up before: Consegna.Passo. *)
THEOREM MaiRinunciaPrima == SpecConsegna => []UltimoTentativo
<1>1. ConsegnaInv => UltimoTentativo
  BY DEF ConsegnaInv, TabellaInv, UltimoTentativo
<1> QED
  BY <1>1, ConsegnaSempre, PTL
-----------------------------------------------------------------------------
(***************************************************************************)
(* Consegna implements CodaEventi.                                         *)
(***************************************************************************)
Stato    == [i \in Eventi |-> StatoDi(i)]
Creato   == [i \in Eventi |-> CreatoDi(i)]
Ricevuto == {i \in Eventi : ricevute[i] > 0}

(* What the table says of an event, row or no row. *)
LEMMA StatoRiga ==
    ASSUME TabellaInv, NEW i \in Eventi, NEW e \in inCoda, e.id = i
    PROVE  StatoDi(i) = e.esito /\ CreatoDi(i) = e.creato
<1>1. (CHOOSE d \in inCoda : d.id = i) = e
  BY DEF TabellaInv
<1>2. ~(i >= nuovo)
  BY DEF TabellaInv, Eventi
<1> QED
  BY <1>1, <1>2 DEF StatoDi, CreatoDi

LEMMA StatoRigaDopo ==
    ASSUME TabellaInv', NEW i \in Eventi, NEW e \in inCoda', e.id = i
    PROVE  StatoDi(i)' = e.esito /\ CreatoDi(i)' = e.creato
<1>1. (CHOOSE d \in inCoda' : d.id = i) = e
  BY DEF TabellaInv
<1>2. ~(i >= nuovo')
  BY DEF TabellaInv, Eventi
<1> QED
  BY <1>1, <1>2 DEF StatoDi, CreatoDi

LEMMA StatoVuoto ==
    ASSUME NEW i, ~\E e \in inCoda : e.id = i
    PROVE  CreatoDi(i) = 0 /\ StatoDi(i) = IF i >= nuovo THEN "assente" ELSE "tolto"
BY DEF StatoDi, CreatoDi

LEMMA StatoVuotoDopo ==
    ASSUME NEW i, ~\E e \in inCoda' : e.id = i
    PROVE  CreatoDi(i)' = 0 /\ StatoDi(i)' = IF i >= nuovo' THEN "assente" ELSE "tolto"
BY DEF StatoDi, CreatoDi

(* The queue is as it was: the row of each event has the same outcome and time. *)
LEMMA CodaFerma ==
    ASSUME TabellaInv, TabellaInv', nuovo' = nuovo,
           \A e \in inCoda : \E d \in inCoda' : d.id = e.id /\ d.esito = e.esito /\ d.creato = e.creato,
           \A d \in inCoda' : \E e \in inCoda : d.id = e.id
    PROVE  Stato' = Stato /\ Creato' = Creato
<1>1. ASSUME NEW i \in Eventi PROVE StatoDi(i)' = StatoDi(i) /\ CreatoDi(i)' = CreatoDi(i)
  <2>1. CASE \E e \in inCoda : e.id = i
    <3>1. PICK e \in inCoda : e.id = i
      BY <2>1
    <3>2. PICK d \in inCoda' : d.id = i /\ d.esito = e.esito /\ d.creato = e.creato
      BY <3>1
    <3> QED
      BY <3>1, <3>2, StatoRiga, StatoRigaDopo
  <2>2. CASE ~\E e \in inCoda : e.id = i
    <3>1. ~\E e \in inCoda' : e.id = i
      BY <2>2
    <3> QED
      BY <2>2, <3>1, StatoVuoto, StatoVuotoDopo
  <2> QED
    BY <2>1, <2>2
<1> QED
  BY <1>1 DEF Stato, Creato

LEMMA CodaUguale ==
    ASSUME UNCHANGED coda
    PROVE  Stato' = Stato /\ Creato' = Creato
BY DEF coda, Stato, Creato, StatoDi, CreatoDi

(* A new row. *)
LEMMA AccodaCoda ==
    ASSUME TabellaInv, TabellaInv', ora \in Tempo, NEW t \in Tempo, Accoda(t),
           NEW n \in Eventi, n = nuovo
    PROVE  /\ Stato[n] = "assente" /\ t \in 0 .. ora
           /\ Stato' = [Stato EXCEPT ![n] = "inAttesa"]
           /\ Creato' = [Creato EXCEPT ![n] = t]
<1>1. n \in Nat /\ nuovo' = n + 1
  BY DEF Accoda, Eventi
<1>2. Stato[n] = "assente"
  BY <1>1 DEF StatoDi, Stato
<1>3. t \in 0 .. ora
  BY DEF Accoda, Tempo
<1>4. PICK r : /\ inCoda' = inCoda \cup {r} /\ r.id = n /\ r.esito = "inAttesa" /\ r.creato = t
  <2> DEFINE r == [id |-> nuovo, creato |-> t, prossimo |-> t, tentativi |-> 0,
                   esito |-> "inAttesa", chiuso |-> 0]
  <2>1. inCoda' = inCoda \cup {r}
    BY DEF Accoda
  <2>2. r.id = n /\ r.esito = "inAttesa" /\ r.creato = t
    OBVIOUS
  <2> HIDE DEF r
  <2> QED
    BY <2>1, <2>2
<1>5. \A e \in inCoda : e.id # n
  BY <1>1 DEF TabellaInv, RigaInt, Eventi
<1>6. StatoDi(n)' = "inAttesa" /\ CreatoDi(n)' = t
  BY <1>4, StatoRigaDopo
<1>7. ASSUME NEW i \in Eventi, i # n PROVE StatoDi(i)' = StatoDi(i) /\ CreatoDi(i)' = CreatoDi(i)
  <2>1. CASE \E e \in inCoda : e.id = i
    <3>1. PICK e \in inCoda : e.id = i
      BY <2>1
    <3>2. e \in inCoda'
      BY <1>4
    <3> QED
      BY <3>1, <3>2, StatoRiga, StatoRigaDopo
  <2>2. CASE ~\E e \in inCoda : e.id = i
    <3>1. ~\E e \in inCoda' : e.id = i
      BY <1>4, <1>7, <2>2
    <3>2. (i >= nuovo) = (i >= nuovo')
      BY <1>1, <1>7 DEF Eventi
    <3> QED
      BY <2>2, <3>1, <3>2, StatoVuoto, StatoVuotoDopo
  <2> QED
    BY <2>1, <2>2
<1>8. Stato' = [Stato EXCEPT ![n] = "inAttesa"] /\ Creato' = [Creato EXCEPT ![n] = t]
  BY <1>6, <1>7 DEF Stato, Creato
<1> QED
  BY <1>2, <1>3, <1>8

(* The rows taken away had an outcome. *)
LEMMA GiroCoda ==
    ASSUME TabellaInv, TabellaInv', NEW p \in Processi, Giro(p)
    PROVE  \E S \in SUBSET Eventi :
             /\ \A i \in S : Stato[i] \in {"consegnato", "fallito"}
             /\ Stato' = [i \in Eventi |-> IF i \in S THEN "tolto" ELSE Stato[i]]
             /\ Creato' = [i \in Eventi |-> IF i \in S THEN 0 ELSE Creato[i]]
<1> DEFINE S == {i \in Eventi : \E e \in inCoda \ inCoda' : e.id = i}
<1>1. /\ inCoda' \subseteq inCoda /\ nuovo' = nuovo
      /\ \A e \in inCoda \ inCoda' : e.esito # "inAttesa"
  BY DEF Giro, Scaduti
<1>2. ASSUME NEW i \in S
      PROVE  /\ Stato[i] \in {"consegnato", "fallito"} /\ StatoDi(i)' = "tolto" /\ CreatoDi(i)' = 0
  <2>1. PICK e \in inCoda \ inCoda' : e.id = i
    OBVIOUS
  <2>2. StatoDi(i) = e.esito /\ e.esito \in {"consegnato", "fallito"} /\ i \in Eventi
    BY <1>1, <2>1, StatoRiga DEF TabellaInv, RigaInt, Esiti
  <2>3. ~\E d \in inCoda' : d.id = i
    BY <1>1, <2>1 DEF TabellaInv
  <2>4. ~(i >= nuovo')
    BY <1>1, <2>1 DEF TabellaInv, Eventi
  <2> QED
    BY <2>2, <2>3, <2>4, StatoVuotoDopo DEF Stato
<1>3. ASSUME NEW i \in Eventi, i \notin S
      PROVE  StatoDi(i)' = StatoDi(i) /\ CreatoDi(i)' = CreatoDi(i)
  <2>1. CASE \E e \in inCoda : e.id = i
    <3>1. PICK e \in inCoda : e.id = i
      BY <2>1
    <3>2. e \in inCoda'
      BY <1>3, <3>1
    <3> QED
      BY <3>1, <3>2, StatoRiga, StatoRigaDopo
  <2>2. CASE ~\E e \in inCoda : e.id = i
    <3>1. ~\E e \in inCoda' : e.id = i
      BY <1>1, <2>2
    <3> QED
      BY <1>1, <2>2, <3>1, StatoVuoto, StatoVuotoDopo
  <2> QED
    BY <2>1, <2>2
<1>4. S \in SUBSET Eventi
  OBVIOUS
<1> HIDE DEF S
<1>5. Stato' = [i \in Eventi |-> IF i \in S THEN "tolto" ELSE Stato[i]]
  BY <1>2, <1>3 DEF Stato
<1>6. Creato' = [i \in Eventi |-> IF i \in S THEN 0 ELSE Creato[i]]
  BY <1>2, <1>3 DEF Creato
<1> QED
  BY <1>2, <1>4, <1>5, <1>6

(* The outcome of an attempt on the row that is there. *)
LEMMA EsitoCoda ==
    ASSUME TabellaInv, TabellaInv', LavoroInv, NEW p \in Processi, Esito(p)
    PROVE  \/ Stato' = Stato /\ Creato' = Creato
           \/ \E i \in Eventi, o \in {"consegnato", "fallito"} :
                /\ Stato[i] \notin {"assente", "tolto"}
                /\ \/ o = "consegnato" /\ ricevute[i] > 0
                   \/ o = "fallito" /\ ora >= Creato[i] + durataTentativi
                /\ Stato' = [Stato EXCEPT ![i] = o] /\ Creato' = Creato
<1> DEFINE e == evento[p]
           N(r) == IF r.id = e.id THEN Tentato(e, adesso[p], motivo[p], r) ELSE r
<1>1. UNCHANGED nuovo /\ (UNCHANGED inCoda \/ Aggiorna(e, adesso[p], motivo[p]))
  BY DEF Esito
<1>2. CASE UNCHANGED inCoda
  BY <1>1, <1>2, CodaUguale DEF coda
<1>3. CASE Aggiorna(e, adesso[p], motivo[p])
  <2>1. /\ e \in RigaInt /\ e.id \in Eventi /\ adesso[p] \in Tempo /\ ora \in Tempo /\ adesso[p] <= ora
        /\ \A r \in inCoda : r.id = e.id => r.creato = e.creato
        /\ motivo[p] = "ok" => ricevute[e.id] > 0
    BY DEF Esito, LavoroInv, RigaInt
  <2>2. inCoda' = {N(r) : r \in inCoda}
    BY <1>3 DEF Aggiorna
  <2>3. ASSUME NEW r \in inCoda, r.id = e.id
        PROVE  LET n == Tentato(e, adesso[p], motivo[p], r) IN
                 /\ n \in RigaInt /\ n.id = r.id /\ n.creato = r.creato
                 /\ n.esito = "inAttesa" => r.esito = "inAttesa"
                 /\ n.esito = "consegnato" => motivo[p] = "ok" \/ r.esito = "consegnato"
                 /\ n.esito = "fallito" => r.esito = "fallito" \/ adesso[p] >= r.creato + durataTentativi
    <3>1. /\ r \in RigaInt /\ r.creato = e.creato /\ r.prossimo <= r.creato + durataTentativi
          /\ r.esito = "fallito" => r.chiuso >= r.creato + durataTentativi
      BY <2>1, <2>3 DEF TabellaInv
    <3> QED
      BY <2>1, <2>3, <3>1, TentatoBene
  <2>4. \A r \in inCoda : N(r).id = r.id /\ N(r).creato = r.creato
    BY <2>3
  <2>5. \A r \in inCoda : r.id # e.id => N(r) = r
    OBVIOUS
  <2>6. \A d \in inCoda' : \E r \in inCoda : d.id = r.id
    BY <2>2, <2>4
  <2>7. CASE \A r \in inCoda : r.id = e.id => N(r).esito = r.esito
    <3>1. \A r \in inCoda : N(r) \in inCoda' /\ N(r).id = r.id /\ N(r).esito = r.esito /\ N(r).creato = r.creato
      BY <2>2, <2>4, <2>5, <2>7
    <3> HIDE DEF N
    <3> QED
      BY <1>1, <2>6, <3>1, CodaFerma
  <2>8. CASE \E r \in inCoda : r.id = e.id /\ N(r).esito # r.esito
    <3>1. PICK r \in inCoda : r.id = e.id /\ N(r).esito # r.esito
      BY <2>8
    <3>2. N(r) = Tentato(e, adesso[p], motivo[p], r)
      BY <3>1
    <3> DEFINE i == r.id
               o == N(r).esito
    <3>3. /\ i \in Eventi /\ o \in {"consegnato", "fallito"}
          /\ o = "consegnato" => motivo[p] = "ok"
          /\ o = "fallito" => adesso[p] >= r.creato + durataTentativi
          /\ r \in RigaInt
      BY <2>1, <2>3, <3>1, <3>2 DEF RigaInt, Esiti, TabellaInv
    <3>4. StatoDi(i) = r.esito /\ CreatoDi(i) = r.creato /\ r.esito \in Esiti
      BY <3>3, StatoRiga DEF RigaInt
    <3>5. StatoDi(i)' = o /\ CreatoDi(i)' = CreatoDi(i)
      <4>1. N(r) \in inCoda' /\ N(r).id = i /\ N(r).creato = r.creato
        BY <2>2, <2>4
      <4> HIDE DEF N
      <4> QED
        BY <3>3, <3>4, <4>1, StatoRigaDopo
    <3>6. ASSUME NEW k \in Eventi, k # i
          PROVE  StatoDi(k)' = StatoDi(k) /\ CreatoDi(k)' = CreatoDi(k)
      <4>1. CASE \E d \in inCoda : d.id = k
        <5>1. PICK d \in inCoda : d.id = k
          BY <4>1
        <5>2. d \in inCoda'
          BY <2>2, <2>5, <3>1, <3>6, <5>1
        <5> QED
          BY <5>1, <5>2, StatoRiga, StatoRigaDopo
      <4>2. CASE ~\E d \in inCoda : d.id = k
        <5>1. ~\E d \in inCoda' : d.id = k
          BY <2>6, <4>2
        <5> QED
          BY <1>1, <4>2, <5>1, StatoVuoto, StatoVuotoDopo
      <4> QED
        BY <4>1, <4>2
    <3>7. /\ o = "consegnato" => ricevute[i] > 0
          /\ o = "fallito" => ora >= Creato[i] + durataTentativi
      <4>1. r.creato \in Nat /\ durataTentativi \in Nat /\ adesso[p] \in Nat /\ ora \in Nat
        BY <2>1, <3>3 DEF RigaInt, Tempo
      <4>2. Creato[i] = r.creato
        BY <3>3, <3>4 DEF Creato
      <4> QED
        BY <2>1, <3>1, <3>3, <4>1, <4>2
    <3>8. Stato[i] \notin {"assente", "tolto"}
      BY <3>3, <3>4 DEF Stato, Esiti
    <3> HIDE DEF o
    <3>9. Stato' = [Stato EXCEPT ![i] = o] /\ Creato' = Creato
      BY <3>3, <3>5, <3>6 DEF Stato, Creato
    <3> QED
      BY <3>3, <3>7, <3>8, <3>9
  <2> QED
    BY <2>7, <2>8
<1> QED
  BY <1>1, <1>2, <1>3

(* The receiver takes the event that a goroutine sends, which is in the queue, or was. *)
LEMMA MandaCoda ==
    ASSUME TabellaInv, LavoroInv, NEW p \in Processi, Manda(p)
    PROVE  \/ Ricevuto' = Ricevuto
           \/ \E i \in Eventi : Stato[i] # "assente" /\ Ricevuto' = Ricevuto \cup {i}
<1>1. CASE UNCHANGED ricevute
  BY <1>1 DEF Ricevuto
<1>2. CASE ricevute' = [ricevute EXCEPT ![evento[p].id] = @ + 1]
  <2> DEFINE i == evento[p].id
  <2>1. i \in Eventi /\ i < nuovo /\ nuovo \in Nat /\ ricevute \in [Eventi -> Nat]
    BY DEF Manda, LavoroInv, RigaInt, TabellaInv
  <2>2. StatoDi(i) # "assente"
    <3>1. CASE \E e \in inCoda : e.id = i
      <4>1. PICK e \in inCoda : e.id = i
        BY <3>1
      <4>2. e.esito \in Esiti
        BY DEF TabellaInv, RigaInt
      <4> QED
        BY <2>1, <4>1, <4>2, StatoRiga DEF Esiti
    <3>2. CASE ~\E e \in inCoda : e.id = i
      BY <2>1, <3>2, StatoVuoto DEF Eventi
    <3> QED
      BY <3>1, <3>2
  <2>3. Ricevuto' = Ricevuto \cup {i}
    BY <1>2, <2>1 DEF Ricevuto
  <2> QED
    BY <2>1, <2>2, <2>3 DEF Stato
<1> QED
  BY <1>1, <1>2 DEF Manda

LEMMA InizioCoda == InitConsegna => Coda!Init
<1> SUFFICES ASSUME InitConsegna PROVE Coda!Init
  OBVIOUS
<1>1. \A i \in Eventi : StatoDi(i) = "assente" /\ CreatoDi(i) = 0
  <2>1. \A i \in Eventi : i >= nuovo /\ ~\E e \in inCoda : e.id = i
    BY DEF InitConsegna, Eventi
  <2> QED
    BY <2>1, StatoVuoto
<1>2. {i \in Eventi : ricevute[i] > 0} = {}
  BY DEF InitConsegna
<1> QED
  BY <1>1, <1>2 DEF Coda!Init, InitConsegna

(* Each step is a step of the abstract queue, or leaves it as it is. *)
LEMMA PassoCoda ==
    ConsegnaInv /\ ConsegnaInv' /\ [NextConsegna]_varsConsegna
      => [Coda!Next]_<<Stato, Creato, Ricevuto, ora>>
<1> SUFFICES ASSUME ConsegnaInv, ConsegnaInv', [NextConsegna]_varsConsegna
             PROVE  Coda!Next \/ UNCHANGED <<Stato, Creato, Ricevuto, ora>>
  OBVIOUS
<1>1. TabellaInv /\ TabellaInv' /\ LavoroInv
  BY DEF ConsegnaInv
<1>2. UNCHANGED coda => UNCHANGED <<Stato, Creato>>
  BY CodaUguale
<1>3. UNCHANGED ricevute => UNCHANGED Ricevuto
  BY DEF Ricevuto
<1>4. CASE UNCHANGED varsConsegna
  BY <1>2, <1>3, <1>4 DEF varsConsegna, storia
<1>5. CASE OraPassa
  <2>1. ora' > ora /\ UNCHANGED <<coda, ricevute>>
    BY <1>1, <1>5 DEF OraPassa, storia, LavoroInv, Tempo
  <2> QED
    BY <1>2, <1>3, <2>1 DEF Coda!Next, Coda!Passa, Stato, Creato, Ricevuto
<1>6. ASSUME NEW t \in Tempo, Accoda(t) PROVE Coda!Next
  <2>1. nuovo \in Eventi /\ UNCHANGED <<ora, ricevute>>
    BY <1>1, <1>6 DEF Accoda, storia, TabellaInv, Eventi
  <2>2. PICK n \in Eventi : n = nuovo
    BY <2>1
  <2>3. Stato[n] = "assente" /\ t \in 0 .. ora
    BY <1>1, <1>6, <2>2, AccodaCoda DEF LavoroInv
  <2>4. Stato' = [Stato EXCEPT ![n] = "inAttesa"] /\ Creato' = [Creato EXCEPT ![n] = t]
    BY <1>1, <1>6, <2>2, AccodaCoda DEF LavoroInv
  <2>5. Coda!Accoda(n, t)
    BY <1>1, <1>3, <2>1, <2>3, <2>4 DEF Coda!Accoda, Stato, Creato, Ricevuto, LavoroInv, Tempo
  <2> QED
    BY <2>3, <2>5 DEF Coda!Next
<1>7. ASSUME NEW p \in Processi, NEW q \in Processi,
             Avvia(p) \/ Ferma(p) \/ Muore(p) \/ Guasto(p) \/ Ricarica(p, q) \/ Scegli(p)
      PROVE  UNCHANGED <<Stato, Creato, Ricevuto, ora>>
  BY <1>2, <1>3, <1>7 DEF Avvia, Ferma, Muore, Guasto, Ricarica, Scegli, storia
<1>8. ASSUME NEW p \in Processi, Giro(p) PROVE Coda!Next
  <2>1. UNCHANGED <<ora, Ricevuto>>
    BY <1>3, <1>8 DEF Giro, storia
  <2>2. PICK S \in SUBSET Eventi :
             /\ \A i \in S : Stato[i] \in {"consegnato", "fallito"}
             /\ Stato' = [i \in Eventi |-> IF i \in S THEN "tolto" ELSE Stato[i]]
             /\ Creato' = [i \in Eventi |-> IF i \in S THEN 0 ELSE Creato[i]]
    BY <1>1, <1>8, GiroCoda
  <2>3. Coda!Togli(S)
    BY <2>1, <2>2 DEF Coda!Togli, Stato, Creato, Ricevuto
  <2> QED
    BY <2>3 DEF Coda!Next
<1>9. ASSUME NEW p \in Processi, Manda(p) PROVE Coda!Next \/ UNCHANGED <<Stato, Creato, Ricevuto, ora>>
  <2>1. UNCHANGED <<ora, Stato, Creato>>
    BY <1>2, <1>9 DEF Manda
  <2>2. CASE Ricevuto' = Ricevuto
    BY <2>1, <2>2
  <2>3. ASSUME NEW i \in Eventi, Stato[i] # "assente", Ricevuto' = Ricevuto \cup {i} PROVE Coda!Next
    <3>1. Coda!Ricevi(i)
      BY <2>1, <2>3 DEF Coda!Ricevi, Stato, Creato, Ricevuto
    <3> QED
      BY <3>1 DEF Coda!Next
  <2> QED
    BY <1>1, <1>9, <2>2, <2>3, MandaCoda
<1>10. ASSUME NEW p \in Processi, Esito(p) PROVE Coda!Next \/ UNCHANGED <<Stato, Creato, Ricevuto, ora>>
  <2>1. UNCHANGED <<ora, Ricevuto>>
    BY <1>3, <1>10 DEF Esito, storia
  <2>2. CASE Stato' = Stato /\ Creato' = Creato
    BY <2>1, <2>2
  <2>3. ASSUME NEW i \in Eventi, NEW o \in {"consegnato", "fallito"},
               Stato[i] \notin {"assente", "tolto"},
               \/ o = "consegnato" /\ ricevute[i] > 0
               \/ o = "fallito" /\ ora >= Creato[i] + durataTentativi,
               Stato' = [Stato EXCEPT ![i] = o], Creato' = Creato
        PROVE  Coda!Next
    <3>1. i \in Coda!Presenti
      BY <2>3 DEF Coda!Presenti, Stato
    <3>2. o = "consegnato" => i \in Ricevuto
      BY <2>3 DEF Ricevuto
    <3>3. Coda!Concludi(i, o)
      BY <2>1, <2>3, <3>1, <3>2 DEF Coda!Concludi, Stato, Creato, Ricevuto
    <3> QED
      BY <3>3 DEF Coda!Next
  <2> QED
    BY <1>1, <1>10, <2>2, <2>3, EsitoCoda
<1> QED
  BY <1>4, <1>5, <1>6, <1>7, <1>8, <1>9, <1>10 DEF NextConsegna, Lavora

(* Whatever stops, dies, is reloaded, is lost or fails, the queue keeps its promise: no
   event is forgotten before its outcome, consegnato only what the receiver took, fallito
   only after 24 hours. *)
THEOREM CodaMantenuta == SpecConsegna => ImplementaCoda
<1>1. InitConsegna => Coda!Init
  BY InizioCoda
<1>2. ConsegnaInv /\ ConsegnaInv' /\ [NextConsegna]_varsConsegna
        => [Coda!Next]_<<[i \in Eventi |-> StatoDi(i)], [i \in Eventi |-> CreatoDi(i)],
                        {i \in Eventi : ricevute[i] > 0}, ora>>
  BY PassoCoda DEF Stato, Creato, Ricevuto
<1> QED
  BY <1>1, <1>2, ConsegnaSempre, PTL DEF SpecConsegna, ImplementaCoda, Coda!Spec
===============================================================================
