--------------------------- MODULE TrascrizioneProofs ---------------------------
(***************************************************************************)
(* Theorems of module Trascrizione: for any number of requests, readings,  *)
(* connections and blocks, and for any contents and limits.                *)
(***************************************************************************)
EXTENDS Trascrizione, FiniteSetTheorems, WellFoundedInduction, TLAPS

(* The hash of a block is a hash. *)
LEMMA HashTipo ==
    ASSUME NEW h \in Hash, NEW x \in Dati
    PROVE  HashBlocco(h, x) \in Hash
BY DEF Hash, HashBlocco

(* The hash of a form is a hash. *)
LEMMA ModuliTipo ==
    ASSUME TypeOK, NEW f \in Moduli
    PROVE  f.seq \in Int /\ f.dati \in Dati /\ f.fine \in BOOLEAN /\ HashDi(f) \in Hash
<1>1. HashZero \in Hash
  BY DEF HashZero, Hash
<1>2. f.prec \in Hash
  BY <1>1 DEF TypeOK, Blocco, Moduli
<1>3. f.seq \in Int /\ f.dati \in Dati /\ f.fine \in BOOLEAN
  BY ParametriAssumption DEF Moduli
<1> QED
  BY <1>2, <1>3, HashTipo DEF HashDi

(* A reading goes on typed, block after block. *)
LEMMA ConBloccoTipo ==
    ASSUME NEW v \in Lettura, NEW b \in v.pagina
    PROVE  ConBlocco(v, b) \in Lettura
<1>1. b \in Blocco
  BY DEF Lettura
<1>2. HashBlocco(v.prec, b.dati) \in Hash
  BY <1>1, HashTipo DEF Lettura, Blocco
<1> DEFINE n      == v.blocchi + 1
           valido == b.dati \notin DirIgnota
           prec   == IF v.integra /\ valido THEN HashBlocco(v.prec, b.dati) ELSE v.prec
           ok     == valido /\ b.seq = n /\ ~v.fine /\ prec = b.hash
<1>3. n \in Int /\ prec \in Hash /\ ok \in BOOLEAN
  BY <1>2 DEF Lettura
<1>4. v.pagina \ {b} \in SUBSET Blocco
  BY DEF Lettura
<1>5. ConBlocco(v, b) = [v EXCEPT !.blocchi     = n,
                  !.prec        = prec,
                  !.integra     = @ /\ ok,
                  !.primoErrato = IF v.integra /\ ~ok THEN b.seq ELSE @,
                  !.fine        = @ \/ b.fine,
                  !.hash        = b.hash,
                  !.pagina      = @ \ {b}]
  BY DEF ConBlocco
<1> HIDE DEF n, valido, prec, ok
<1> QED
  BY <1>1, <1>3, <1>4, <1>5 DEF Lettura, Blocco

(* A reading starts typed. *)
LEMMA NuovaLetturaTipo ==
    ASSUME NEW i \in Id
    PROVE  NuovaLettura(i) \in Lettura
BY DEF NuovaLettura, Lettura, HashZero, Hash

-----------------------------------------------------------------------------
(* Type correctness. *)
THEOREM TypeCorrect == Spec => []TypeOK
<1>1. Init => TypeOK
  <2> SUFFICES ASSUME Init PROVE TypeOK
    OBVIOUS
  <2>1. registro \subseteq Riga /\ prossimo \in 1 .. MaxConn + 1
    BY ParametriAssumption DEF Init, Riga, Id, Tipi
  <2>2. blocchi \subseteq Blocco
    BY VecchiAssumption DEF Init
  <2> QED
    BY <2>1, <2>2 DEF Init, TypeOK
<1>2. TypeOK /\ [Next]_vars => TypeOK'
  <2> SUFFICES ASSUME TypeOK, [Next]_vars
               PROVE  TypeOK'
    OBVIOUS
  <2> USE ParametriAssumption
  <2>1. ASSUME NEW c \in Coppie, NEW t \in Tipi, CreateAuditConn(c, t)
        PROVE  TypeOK'
    BY <2>1 DEF CreateAuditConn, TypeOK, Riga, Id
  <2>2. ASSUME NEW q \in registro, NEW t \in Tipi, UpdateAuditConn(q, t)
        PROVE  TypeOK'
    BY <2>2 DEF UpdateAuditConn, TypeOK, Riga
  <2>3. ASSUME NEW ids \in SUBSET Id, BatchDeleteAuditConn(ids)
        PROVE  TypeOK'
    BY <2>3 DEF BatchDeleteAuditConn, TypeOK
  <2>4. ASSUME NEW r \in Richieste, NEW c \in Coppie, ConnTerminale(r, c)
        PROVE  TypeOK'
    BY <2>4 DEF ConnTerminale, PiuRecente, TypeOK, Riga, Id
  <2>5. ASSUME NEW r \in Richieste, UltimoBlocco(r)
        PROVE  TypeOK'
    <3>1. PICK f \in {m \in Moduli : Ammissibile(m)}, t \in Totali :
            /\ Continua(sessione[r], f, t)
            /\ riga' = [riga EXCEPT ![r] =
                          [conn |-> sessione[r], seq |-> f.seq, dati |-> f.dati,
                           hash |-> HashDi(f), fine |-> f.fine, totale |-> t]]
      BY <2>5 DEF UltimoBlocco
    <3>2. t \in Int
      BY DEF Totali
    <3>3. sessione[r] \in Id
      BY <2>5 DEF UltimoBlocco, TypeOK
    <3> DEFINE b == [conn |-> sessione[r], seq |-> f.seq, dati |-> f.dati,
                     hash |-> HashDi(f), fine |-> f.fine, totale |-> t]
    <3>4. b \in Blocco
      BY <3>2, <3>3, ModuliTipo DEF Blocco
    <3>5. riga' = [riga EXCEPT ![r] = b] /\ b # Nessuno
      BY <3>1, <3>4
    <3> HIDE DEF b
    <3> QED
      BY <2>5, <3>4, <3>5 DEF UltimoBlocco, TypeOK
  <2>6. ASSUME NEW r \in Richieste, Scarta(r)
        PROVE  TypeOK'
    BY <2>6 DEF Scarta, Congeda, TypeOK
  <2>7. ASSUME NEW r \in Richieste, CreateBlocco(r)
        PROVE  TypeOK'
    <3>1. riga[r] \in Blocco /\ r \in Processi
      BY <2>7 DEF CreateBlocco, TypeOK, Processi
    <3>2. NuovaLettura(riga[r].conn) \in Lettura
      BY <3>1, NuovaLetturaTipo DEF Blocco
    <3>3. blocchi' \subseteq Blocco
      BY <2>7, <3>1 DEF CreateBlocco, TypeOK
    <3>4. CASE Congeda(r) /\ lettura' = lettura
      BY <2>7, <3>3, <3>4 DEF CreateBlocco, Congeda, TypeOK
    <3>5. CASE /\ pc' = [pc EXCEPT ![r] = "verifica"]
               /\ lettura' = [lettura EXCEPT ![r] = NuovaLettura(riga[r].conn)]
               /\ UNCHANGED <<sessione, riga>>
      BY <2>7, <3>1, <3>2, <3>3, <3>5 DEF CreateBlocco, TypeOK
    <3> QED
      BY <2>7, <3>4, <3>5 DEF CreateBlocco
  <2>8. ASSUME NEW r \in Richieste, AccodaTerminale(r)
        PROVE  TypeOK'
    BY <2>8 DEF AccodaTerminale, Finita, Congeda, TypeOK, Evento, Lettura, Processi
  <2>9. ASSUME NEW r \in Richieste, InterrompiRichiesta(r)
        PROVE  TypeOK'
    BY <2>9 DEF InterrompiRichiesta, Congeda, TypeOK
  <2>10. ASSUME NEW p \in Processi, LeggiPagina(p)
         PROVE  TypeOK'
    <3> DEFINE v     == lettura[p]
               letti == Pagina(v.conn, v.dopo)
               corta == Cardinality(letti) < PaginaTerminale
    <3>1. v \in Lettura
      BY <2>10 DEF LeggiPagina, TypeOK
    <3>2. letti \in SUBSET Blocco
      BY DEF Pagina, Di, TypeOK
    <3>3. PICK d \in {v.dopo} \cup {b.seq : b \in letti} :
            lettura' = [lettura EXCEPT ![p] =
              [@ EXCEPT !.pagina = letti, !.ultima = corta, !.dopo = d]]
      BY <2>10 DEF LeggiPagina
    <3>4. d \in Int
      BY <3>1, <3>2 DEF Lettura, Blocco
    <3>5. corta \in BOOLEAN
      OBVIOUS
    <3> HIDE DEF letti, corta
    <3>6. [v EXCEPT !.pagina = letti, !.ultima = corta, !.dopo = d] \in Lettura
      BY <3>1, <3>2, <3>4, <3>5 DEF Lettura
    <3>7. lettura' \in [Processi -> Lettura \cup {Nessuno}]
      BY <3>3, <3>6 DEF TypeOK
    <3> QED
      BY <2>10, <3>7 DEF LeggiPagina, TypeOK
  <2>11. ASSUME NEW p \in Processi, VerificaBlocco(p)
         PROVE  TypeOK'
    BY <2>11, ConBloccoTipo DEF VerificaBlocco, TypeOK
  <2>12. ASSUME NEW l \in Lettori, NEW i \in Id, TerminalVerify(l, i)
         PROVE  TypeOK'
    BY <2>12, NuovaLetturaTipo DEF TerminalVerify, TypeOK
  <2>13. ASSUME NEW l \in Lettori, NEW q \in registro, TerminalExport(l, q)
         PROVE  TypeOK'
    BY <2>13, NuovaLetturaTipo DEF TerminalExport, TypeOK, Riga
  <2>14. ASSUME NEW l \in Lettori, Rispondi(l) \/ InterrompiLettura(l)
         PROVE  TypeOK'
    BY <2>14 DEF Rispondi, InterrompiLettura, TypeOK
  <2>15. CASE UNCHANGED vars
    BY <2>15 DEF vars, TypeOK
  <2> QED
    BY <2>1, <2>2, <2>3, <2>4, <2>5, <2>6, <2>7, <2>8, <2>9, <2>10, <2>11, <2>12,
       <2>13, <2>14, <2>15
       DEF Next, Registro, Gestore, Scorri, Pannello
<1> QED
  BY <1>1, <1>2, PTL DEF Spec
-----------------------------------------------------------------------------
(* A transcript without blocks is whole. *)
LEMMA CatenaVuota ==
    ASSUME NEW T, NEW i, \A b \in T : b.conn # i
    PROVE  Catena(T, i)
BY DEF Catena, Unici, Contigui, Concatenati, ChiusiDaFine, EntroIlLimite

(* The transcript of a connection depends on its own blocks alone. *)
LEMMA CatenaStessa ==
    ASSUME NEW T, NEW S, NEW i, Catena(T, i),
           \A b : b.conn = i => (b \in T <=> b \in S)
    PROVE  Catena(S, i)
<1>1. Unici(S, i)
  BY DEF Catena, Unici
<1>2. Contigui(S, i)
  BY DEF Catena, Contigui
<1>3. Concatenati(S, i)
  BY DEF Catena, Concatenati
<1>4. ChiusiDaFine(S, i)
  BY DEF Catena, ChiusiDaFine
<1>5. EntroIlLimite(S, i)
  BY DEF Catena, EntroIlLimite
<1> QED
  BY <1>1, <1>2, <1>3, <1>4, <1>5 DEF Catena

(* What salvaBlocco relies on: a block that follows one of the transcript, and
   whose seq the unique index finds free, is its new last block. *)
LEMMA CatenaEstesa ==
    ASSUME NEW T \in SUBSET Blocco, NEW b \in Blocco,
           Catena(T, b.conn), Segue(T, b),
           \A a \in T : ~(a.conn = b.conn /\ a.seq = b.seq)
    PROVE  Catena(T \cup {b}, b.conn)
<1> DEFINE i == b.conn
           S == T \cup {b}
<1> USE ParametriAssumption
<1>0. \A a \in S : a.seq \in Int
  BY DEF Blocco
<1>1. Unici(S, i)
  BY DEF Catena, Unici
<1>2. Contigui(S, i)
  <2> SUFFICES ASSUME NEW c \in S, c.conn = i
               PROVE  /\ c.seq \in 1 .. BlocchiMax
                      /\ \A s \in 1 .. c.seq : \E a \in S : a.conn = i /\ a.seq = s
    BY Zenon DEF Contigui
  <2>1. CASE c \in T
    BY <2>1 DEF Catena, Contigui
  <2>2. CASE c = b /\ b.seq = 1
    BY <2>2 DEF Segue
  <2>3. CASE c = b /\ \E a \in T : a.conn = i /\ a.seq = b.seq - 1
    <3>1. PICK a \in T : a.conn = i /\ a.seq = b.seq - 1
      BY <2>3
    <3>2. \A s \in 1 .. a.seq : \E d \in T : d.conn = i /\ d.seq = s
      BY <3>1 DEF Catena, Contigui
    <3>3. ASSUME NEW s \in 1 .. b.seq
          PROVE  \E d \in S : d.conn = i /\ d.seq = s
      <4>1. CASE s = b.seq
        BY <4>1
      <4>2. CASE s # b.seq
        BY <4>2, <3>1, <3>2, <1>0
      <4> QED
        BY <4>1, <4>2
    <3> QED
      BY <2>3, <3>3 DEF Segue
  <2> QED
    BY <2>1, <2>2, <2>3 DEF Segue
<1>3. Concatenati(S, i)
  BY DEF Catena, Concatenati, Segue
<1>4. \A a \in T : a.conn = i => a.seq < b.seq
  <2> SUFFICES ASSUME NEW a \in T, a.conn = i, ~(a.seq < b.seq)
               PROVE  FALSE
    OBVIOUS
  <2>1. b.seq \in 1 .. a.seq
    BY <1>0 DEF Segue
  <2> QED
    BY <2>1 DEF Catena, Contigui
<1>5. \A a \in T : a.conn = i => ~a.fine
  <2> SUFFICES ASSUME NEW a \in T, a.conn = i, a.fine
               PROVE  FALSE
    OBVIOUS
  <2>1. a.seq \in 1 .. BlocchiMax /\ a.seq < b.seq
    BY <1>4 DEF Catena, Contigui
  <2>2. PICK u \in T : u.conn = i /\ u.seq = b.seq - 1 /\ ~u.fine
    BY <2>1 DEF Segue
  <2>3. u.seq <= a.seq
    BY <2>2 DEF Catena, ChiusiDaFine
  <2>4. u.seq = a.seq
    BY <1>0, <2>1, <2>2, <2>3
  <2> QED
    BY <2>2, <2>4 DEF Catena, Unici
<1>6. ChiusiDaFine(S, i)
  <2> SUFFICES ASSUME NEW a \in S, NEW c \in S, a.conn = i, c.conn = i, a.fine
               PROVE  c.seq <= a.seq
    BY DEF ChiusiDaFine
  <2>1. a = b
    BY <1>5
  <2> QED
    BY <2>1, <1>0, <1>4
<1>7. EntroIlLimite(S, i)
  BY DEF Catena, EntroIlLimite, Segue
<1> QED
  BY <1>1, <1>2, <1>3, <1>6, <1>7 DEF Catena

(* A block that follows one of the table follows it in a larger table. *)
LEMMA SegueCresce ==
    ASSUME NEW T, NEW S, NEW b, Segue(T, b),
           \A a \in T : a.conn = b.conn => a \in S
    PROVE  Segue(S, b)
BY DEF Segue
-----------------------------------------------------------------------------
(* A step that leaves the table of the blocks, the registry's ids and what the
   requests hold keeps the invariant. *)
LEMMA CatenaFerma ==
    ASSUME CatenaInv, Vivi' = Vivi, UNCHANGED <<blocchi, pc, sessione, riga>>, IdFreschi'
    PROVE  CatenaInv'
BY DEF CatenaInv, CatenaIntegra, RighePronte

(* A request that ends keeps the invariant, if it saves nothing. *)
LEMMA CatenaCongeda ==
    ASSUME TypeOK, CatenaInv, NEW r \in Richieste, Congeda(r),
           UNCHANGED <<registro, blocchi>>, IdFreschi'
    PROVE  CatenaInv'
<1>1. Vivi' = Vivi
  BY DEF Vivi
<1>2. CatenaIntegra'
  BY <1>1 DEF CatenaInv, CatenaIntegra
<1>3. RighePronte'
  BY <1>1 DEF CatenaInv, RighePronte, Congeda, TypeOK
<1> QED
  BY <1>2, <1>3 DEF CatenaInv

(* Every step keeps the ids fresh. *)
LEMMA FreschiPasso ==
    ASSUME TypeOK, CatenaInv, [Next]_vars
    PROVE  IdFreschi'
<1>0. IdFreschi
  BY DEF CatenaInv
<1> USE ParametriAssumption DEF IdFreschi
<1>1. ASSUME NEW c \in Coppie, NEW t \in Tipi, CreateAuditConn(c, t)
      PROVE  IdFreschi'
  <2>1. prossimo \in Int /\ prossimo' = prossimo + 1
    BY <1>1 DEF CreateAuditConn, TypeOK
  <2>2. \A q \in registro' : q.id \in Int /\ q.id < prossimo'
    BY <1>0, <1>1, <2>1 DEF CreateAuditConn, TypeOK, Riga, Id
  <2>3. \A b \in blocchi' : b.conn < prossimo'
    BY <1>0, <1>1, <2>1 DEF CreateAuditConn, TypeOK, Blocco, Id
  <2>4. \A r \in Richieste : sessione'[r] < prossimo'
    BY <1>0, <1>1, <2>1 DEF CreateAuditConn, TypeOK, Id
  <2>5. \A p \in Processi : lettura'[p] # Nessuno => lettura'[p].conn < prossimo'
    BY <1>0, <1>1, <2>1 DEF CreateAuditConn, TypeOK, Lettura, Id
  <2>6. \A n \in DOMAIN eventi' : eventi'[n].conn < prossimo'
    <3>1. \A n \in DOMAIN eventi : eventi[n] \in Evento
      BY DEF TypeOK
    <3> QED
      BY <1>0, <1>1, <2>1, <3>1 DEF CreateAuditConn, Evento, Id
  <2> QED
    BY <2>2, <2>3, <2>4, <2>5, <2>6
<1>2. ASSUME NEW q \in registro, NEW t \in Tipi, UpdateAuditConn(q, t)
      PROVE  IdFreschi'
  BY <1>0, <1>2 DEF UpdateAuditConn, TypeOK, Riga
<1>3. ASSUME NEW ids \in SUBSET Id, BatchDeleteAuditConn(ids)
      PROVE  IdFreschi'
  BY <1>0, <1>3 DEF BatchDeleteAuditConn
<1>4. ASSUME NEW r \in Richieste, NEW c \in Coppie, ConnTerminale(r, c)
      PROVE  IdFreschi'
  BY <1>0, <1>4 DEF ConnTerminale, PiuRecente, TypeOK
<1>5. ASSUME NEW r \in Richieste, UltimoBlocco(r)
      PROVE  IdFreschi'
  BY <1>0, <1>5 DEF UltimoBlocco
<1>6. ASSUME NEW r \in Richieste, Congeda(r), UNCHANGED <<registro, prossimo, blocchi, eventi>>,
             lettura' = lettura \/ lettura' = [lettura EXCEPT ![r] = Nessuno]
      PROVE  IdFreschi'
  <2>1. \A q \in Richieste : sessione'[q] < prossimo
    BY <1>0, <1>6 DEF Congeda, TypeOK
  <2>2. \A p \in Processi : lettura'[p] # Nessuno => lettura'[p].conn < prossimo
    BY <1>0, <1>6 DEF TypeOK
  <2> QED
    BY <1>0, <1>6, <2>1, <2>2
<1>7. ASSUME NEW r \in Richieste, CreateBlocco(r)
      PROVE  IdFreschi'
  <2>0. riga[r].conn < prossimo
    BY <1>0, <1>7 DEF CreateBlocco, CatenaInv, RighePronte
  <2>1. riga[r].conn < prossimo' /\ NuovaLettura(riga[r].conn).conn = riga[r].conn
    BY <2>0, <1>7 DEF CreateBlocco, NuovaLettura
  <2>2. \A b \in blocchi' : b.conn < prossimo'
    BY <1>0, <1>7, <2>0 DEF CreateBlocco
  <2>3. \A q \in Richieste : sessione'[q] < prossimo'
    BY <1>0, <1>7 DEF CreateBlocco, Congeda, TypeOK
  <2>4. \A p \in Processi : lettura'[p] # Nessuno => lettura'[p].conn < prossimo'
    BY <1>0, <1>7, <2>1 DEF CreateBlocco, TypeOK
  <2> QED
    BY <1>0, <1>7, <2>2, <2>3, <2>4 DEF CreateBlocco
<1>8. ASSUME NEW r \in Richieste, AccodaTerminale(r)
      PROVE  IdFreschi'
  <2>1. lettura[r] # Nessuno /\ lettura[r].conn < prossimo
    BY <1>0, <1>8 DEF AccodaTerminale, Finita, Processi
  <2>2. \A n \in DOMAIN eventi' : eventi'[n].conn < prossimo'
    BY <1>0, <1>8, <2>1 DEF AccodaTerminale, TypeOK
  <2>3. \A q \in Richieste : sessione'[q] < prossimo'
    BY <1>0, <1>8 DEF AccodaTerminale, Congeda, TypeOK
  <2>4. \A p \in Processi : lettura'[p] # Nessuno => lettura'[p].conn < prossimo'
    BY <1>0, <1>8 DEF AccodaTerminale, TypeOK
  <2>5. UNCHANGED <<registro, prossimo, blocchi>>
    BY <1>8 DEF AccodaTerminale
  <2> QED
    BY <1>0, <2>2, <2>3, <2>4, <2>5
<1>9. ASSUME NEW p \in Processi, LeggiPagina(p)
      PROVE  IdFreschi'
  <2>1. PICK d, l, u : lettura' = [lettura EXCEPT ![p] =
                          [@ EXCEPT !.pagina = l, !.ultima = u, !.dopo = d]]
    BY <1>9, Zenon DEF LeggiPagina
  <2>2. lettura[p] \in Lettura
    BY <1>9 DEF LeggiPagina, TypeOK
  <2>3. [lettura[p] EXCEPT !.pagina = l, !.ultima = u, !.dopo = d].conn = lettura[p].conn
    BY <2>2 DEF Lettura
  <2>4. lettura[p].conn < prossimo
    BY <1>0, <1>9 DEF LeggiPagina
  <2>5. \A q \in Processi : lettura'[q] # Nessuno => lettura'[q].conn < prossimo
    BY <1>0, <2>1, <2>3, <2>4 DEF TypeOK
  <2> QED
    BY <1>0, <1>9, <2>5 DEF LeggiPagina
<1>10. ASSUME NEW p \in Processi, VerificaBlocco(p)
       PROVE  IdFreschi'
  <2>1. PICK b \in lettura[p].pagina : lettura' = [lettura EXCEPT ![p] = ConBlocco(@, b)]
    BY <1>10 DEF VerificaBlocco
  <2>2. lettura[p] \in Lettura
    BY <1>10 DEF VerificaBlocco, TypeOK
  <2> DEFINE w == ConBlocco(lettura[p], b)
  <2>3. w.conn = lettura[p].conn
    BY <2>2 DEF ConBlocco, Lettura
  <2>4. lettura' = [lettura EXCEPT ![p] = w]
    BY <2>1
  <2> HIDE DEF w
  <2> QED
    BY <1>0, <1>10, <2>3, <2>4 DEF VerificaBlocco, TypeOK
<1>11. ASSUME NEW l \in Lettori, NEW i \in Id, TerminalVerify(l, i)
       PROVE  IdFreschi'
  BY <1>0, <1>11 DEF TerminalVerify, NuovaLettura, TypeOK
<1>12. ASSUME NEW l \in Lettori, NEW q \in registro, TerminalExport(l, q)
       PROVE  IdFreschi'
  BY <1>0, <1>12 DEF TerminalExport, NuovaLettura, TypeOK
<1>13. ASSUME NEW l \in Lettori, Rispondi(l) \/ InterrompiLettura(l)
       PROVE  IdFreschi'
  BY <1>0, <1>13 DEF Rispondi, InterrompiLettura, TypeOK
<1>14. CASE UNCHANGED vars
  BY <1>0, <1>14 DEF vars
<1> QED
  BY <1>1, <1>2, <1>3, <1>4, <1>5, <1>6, <1>7, <1>8, <1>9, <1>10, <1>11, <1>12,
     <1>13, <1>14
     DEF Next, Registro, Gestore, Scorri, Pannello, Scarta, InterrompiRichiesta
-----------------------------------------------------------------------------
(* What UltimoBlocco has read is enough: the form it lets through is the first
   block, or follows the last one. *)
LEMMA ContinuaSegue ==
    ASSUME TypeOK, NEW i, NEW f \in Moduli, NEW t \in Totali, NEW b \in Blocco,
           Ammissibile(f), Continua(i, f, t), i # 0 => Contigui(blocchi, i), i \in Id,
           b.conn = i, b.seq = f.seq, b.dati = f.dati, b.hash = HashDi(f), b.totale = t
    PROVE  Segue(blocchi, b)
<1> USE ParametriAssumption
<1>1. f.seq \in Int /\ f.seq <= BlocchiMax
  BY ModuliTipo DEF Ammissibile
<1>2. b.totale <= TrascrizioneMax
  BY DEF Continua
<1>3. CASE Di(i) = {} /\ f.seq = 1 /\ HashDi(f) = HashBlocco(HashZero, f.dati)
  BY <1>1, <1>2, <1>3 DEF Segue
<1>4. CASE \E u \in blocchi : /\ Ultimo(i, u)
                              /\ f.seq = u.seq + 1
                              /\ HashDi(f) = HashBlocco(u.hash, f.dati)
                              /\ ~u.fine
  <2>1. PICK u \in blocchi : /\ u.conn = i
                             /\ f.seq = u.seq + 1
                             /\ HashDi(f) = HashBlocco(u.hash, f.dati)
                             /\ ~u.fine
    BY <1>4 DEF Ultimo, Di
  <2>2. u.seq \in 1 .. BlocchiMax
    BY <2>1 DEF Contigui, Id
  <2>3. b.seq \in 1 .. BlocchiMax /\ u.seq = b.seq - 1
    BY <1>1, <2>1, <2>2
  <2> QED
    BY <1>2, <2>1, <2>3 DEF Segue
<1> QED
  BY <1>3, <1>4 DEF Continua

(* Every step keeps the invariant. *)
LEMMA CatenaPasso ==
    ASSUME TypeOK, CatenaInv, [Next]_vars
    PROVE  CatenaInv'
<1>0. IdFreschi /\ IdFreschi' /\ CatenaIntegra /\ RighePronte
  BY FreschiPasso DEF CatenaInv
<1> USE ParametriAssumption
<1>1. ASSUME NEW c \in Coppie, NEW t \in Tipi, CreateAuditConn(c, t)
      PROVE  CatenaInv'
  <2> DEFINE q == [id |-> prossimo, coppia |-> c, tipo |-> t]
  <2>0. registro' = registro \cup {q} /\ q.id = prossimo
    BY <1>1 DEF CreateAuditConn
  <2> HIDE DEF q
  <2>1. Vivi' = Vivi \cup {prossimo} /\ UNCHANGED <<blocchi, pc, sessione, riga>>
    BY <1>1, <2>0 DEF CreateAuditConn, Vivi
  <2>2. prossimo \in Int
    BY DEF TypeOK
  <2>3. Catena(blocchi, prossimo)
    <3>1. \A b \in blocchi : b.conn # prossimo
      BY <1>0, <2>2 DEF IdFreschi
    <3> QED
      BY <3>1, CatenaVuota
  <2>4. CatenaIntegra'
    BY <1>0, <2>1, <2>3 DEF CatenaIntegra
  <2>5. \A r \in Richieste : sessione[r] # prossimo
    BY <1>0, <2>2 DEF IdFreschi
  <2>6. RighePronte'
    BY <1>0, <2>1, <2>5 DEF RighePronte
  <2> QED
    BY <1>0, <2>4, <2>6 DEF CatenaInv
<1>2. ASSUME NEW q \in registro, NEW t \in Tipi, UpdateAuditConn(q, t)
      PROVE  CatenaInv'
  <2>1. q \in Riga
    BY DEF TypeOK
  <2>2. [q EXCEPT !.tipo = t].id = q.id
    BY <2>1 DEF Riga
  <2> DEFINE q1 == [q EXCEPT !.tipo = t]
  <2>3. registro' = (registro \ {q}) \cup {q1} /\ q1.id = q.id
    BY <1>2, <2>2 DEF UpdateAuditConn
  <2> HIDE DEF q1
  <2>4. Vivi' = Vivi
    BY <2>3 DEF Vivi
  <2> QED
    BY <1>0, <1>2, <2>4, CatenaFerma DEF UpdateAuditConn
<1>3. ASSUME NEW ids \in SUBSET Id, BatchDeleteAuditConn(ids)
      PROVE  CatenaInv'
  <2>1. Vivi' = Vivi \ ids
    BY <1>3 DEF BatchDeleteAuditConn, Vivi
  <2>2. \A b : b.conn \notin ids => (b \in blocchi <=> b \in blocchi')
    BY <1>3 DEF BatchDeleteAuditConn
  <2>3. CatenaIntegra'
    <3> SUFFICES ASSUME NEW i \in Vivi' PROVE Catena(blocchi', i)
      BY DEF CatenaIntegra
    <3>1. Catena(blocchi, i) /\ i \notin ids
      BY <1>0, <2>1 DEF CatenaIntegra
    <3> QED
      BY <2>2, <3>1, CatenaStessa
  <2>4. RighePronte'
    <3> SUFFICES ASSUME NEW r \in Richieste, pc[r] = "crea"
                 PROVE  /\ riga[r].conn = sessione[r]
                        /\ sessione[r] \in Vivi' => Segue(blocchi', riga[r])
      BY <1>3 DEF RighePronte, BatchDeleteAuditConn
    <3>1. riga[r].conn = sessione[r]
      BY <1>0 DEF RighePronte
    <3>2. ASSUME sessione[r] \in Vivi' PROVE Segue(blocchi', riga[r])
      <4>1. Segue(blocchi, riga[r]) /\ riga[r].conn \notin ids
        BY <1>0, <2>1, <3>1, <3>2 DEF RighePronte
      <4>2. \A a \in blocchi : a.conn = riga[r].conn => a \in blocchi'
        BY <2>2, <4>1
      <4> QED
        BY <4>1, <4>2, SegueCresce
    <3> QED
      BY <3>1, <3>2
  <2> QED
    BY <1>0, <2>3, <2>4 DEF CatenaInv
<1>4. ASSUME NEW r \in Richieste, NEW c \in Coppie, ConnTerminale(r, c)
      PROVE  CatenaInv'
  <2>1. Vivi' = Vivi /\ blocchi' = blocchi
    BY <1>4 DEF ConnTerminale, Vivi
  <2>2. CatenaIntegra'
    BY <1>0, <2>1 DEF CatenaIntegra
  <2>3. RighePronte'
    BY <1>0, <1>4, <2>1 DEF RighePronte, ConnTerminale, TypeOK
  <2> QED
    BY <1>0, <2>2, <2>3 DEF CatenaInv
<1>5. ASSUME NEW r \in Richieste, UltimoBlocco(r)
      PROVE  CatenaInv'
  <2>1. PICK f \in Moduli, t \in Totali :
          /\ Ammissibile(f)
          /\ Continua(sessione[r], f, t)
          /\ riga' = [riga EXCEPT ![r] =
                        [conn |-> sessione[r], seq |-> f.seq, dati |-> f.dati,
                         hash |-> HashDi(f), fine |-> f.fine, totale |-> t]]
    BY <1>5 DEF UltimoBlocco
  <2> DEFINE b == [conn |-> sessione[r], seq |-> f.seq, dati |-> f.dati,
                   hash |-> HashDi(f), fine |-> f.fine, totale |-> t]
  <2>2. sessione[r] \in Id
    BY <1>5 DEF UltimoBlocco, TypeOK
  <2>3. b \in Blocco
    BY <2>2, ModuliTipo DEF Blocco, Totali
  <2>4. /\ b.conn = sessione[r] /\ b.seq = f.seq /\ b.dati = f.dati
        /\ b.hash = HashDi(f) /\ b.totale = t
    OBVIOUS
  <2>5. riga' = [riga EXCEPT ![r] = b]
    BY <2>1
  <2> HIDE DEF b
  <2>6. Vivi' = Vivi /\ UNCHANGED <<blocchi, sessione>>
    BY <1>5 DEF UltimoBlocco, Vivi
  <2>7. sessione[r] \in Vivi => Segue(blocchi, b)
    <3> SUFFICES ASSUME sessione[r] \in Vivi PROVE Segue(blocchi, b)
      OBVIOUS
    <3>1. Contigui(blocchi, sessione[r])
      BY <1>0 DEF CatenaIntegra, Catena
    <3> QED
      BY <2>1, <2>2, <2>3, <2>4, <3>1, ContinuaSegue
  <2>8. RighePronte'
    BY <1>0, <1>5, <2>4, <2>5, <2>6, <2>7 DEF RighePronte, UltimoBlocco, TypeOK
  <2>9. CatenaIntegra'
    BY <1>0, <2>6 DEF CatenaIntegra
  <2> QED
    BY <1>0, <2>8, <2>9 DEF CatenaInv
<1>6. ASSUME NEW r \in Richieste, CreateBlocco(r), IndiceUnico(riga[r]),
             blocchi' = blocchi \cup {riga[r]}
      PROVE  CatenaInv'
  <2> DEFINE b == riga[r]
  <2>1. b \in Blocco /\ pc[r] = "crea" /\ Vivi' = Vivi
    BY <1>6 DEF CreateBlocco, TypeOK, Vivi
  <2>2. b.conn = sessione[r] /\ (b.conn \in Vivi => Segue(blocchi, b))
    BY <1>0, <2>1 DEF RighePronte
  <2> HIDE DEF b
  <2>3. blocchi' = blocchi \cup {b} /\ \A a \in blocchi : ~(a.conn = b.conn /\ a.seq = b.seq)
    BY <1>6 DEF IndiceUnico, b
  <2>4. CatenaIntegra'
    <3> SUFFICES ASSUME NEW i \in Vivi PROVE Catena(blocchi', i)
      BY <2>1 DEF CatenaIntegra
    <3>1. Catena(blocchi, i)
      BY <1>0 DEF CatenaIntegra
    <3>2. CASE i = b.conn
      <4>1. blocchi \in SUBSET Blocco
        BY DEF TypeOK
      <4> QED
        BY <2>1, <2>2, <2>3, <3>1, <3>2, <4>1, CatenaEstesa
    <3>3. CASE i # b.conn
      <4>1. \A a : a.conn = i => (a \in blocchi <=> a \in blocchi')
        BY <2>3, <3>3
      <4> QED
        BY <3>1, <4>1, CatenaStessa
    <3> QED
      BY <3>2, <3>3
  <2>5. \A q \in Richieste : pc'[q] = "crea" =>
          pc[q] = "crea" /\ riga'[q] = riga[q] /\ sessione'[q] = sessione[q]
    BY <1>6 DEF CreateBlocco, Congeda, TypeOK
  <2>6. RighePronte'
    <3> SUFFICES ASSUME NEW q \in Richieste, pc'[q] = "crea"
                 PROVE  /\ riga'[q].conn = sessione'[q]
                        /\ sessione'[q] \in Vivi => Segue(blocchi', riga'[q])
      BY <2>1 DEF RighePronte
    <3>1. /\ riga[q].conn = sessione[q]
          /\ sessione[q] \in Vivi => Segue(blocchi, riga[q])
      BY <1>0, <2>5 DEF RighePronte
    <3>2. \A a \in blocchi : a \in blocchi'
      BY <2>3
    <3> QED
      BY <2>5, <3>1, <3>2, SegueCresce
  <2> QED
    BY <1>0, <2>4, <2>6 DEF CatenaInv
<1>7. ASSUME NEW r \in Richieste, CreateBlocco(r), ~IndiceUnico(riga[r])
      PROVE  CatenaInv'
  BY <1>0, <1>7, CatenaCongeda DEF CreateBlocco
<1>8. ASSUME NEW r \in Richieste,
             Scarta(r) \/ AccodaTerminale(r) \/ InterrompiRichiesta(r)
      PROVE  CatenaInv'
  BY <1>0, <1>8, CatenaCongeda DEF Scarta, AccodaTerminale, InterrompiRichiesta
<1>9. ASSUME UNCHANGED <<registro, blocchi, pc, sessione, riga>>
      PROVE  CatenaInv'
  <2>1. Vivi' = Vivi
    BY <1>9 DEF Vivi
  <2> QED
    BY <1>0, <1>9, <2>1, CatenaFerma
<1>10. ASSUME NEW p \in Processi, Scorri(p)
       PROVE  CatenaInv'
  BY <1>9, <1>10 DEF Scorri, LeggiPagina, VerificaBlocco
<1>11. ASSUME NEW l \in Lettori, Pannello(l) \/ Rispondi(l)
       PROVE  CatenaInv'
  BY <1>9, <1>11 DEF Pannello, Rispondi, TerminalVerify, TerminalExport, InterrompiLettura
<1>12. CASE UNCHANGED vars
  BY <1>9, <1>12 DEF vars
<1>13. ASSUME NEW r \in Richieste, CreateBlocco(r)
       PROVE  CatenaInv'
  BY <1>6, <1>7, <1>13 DEF CreateBlocco
<1> QED
  BY <1>1, <1>2, <1>3, <1>4, <1>5, <1>8, <1>10, <1>11, <1>12, <1>13
     DEF Next, Registro, Gestore

(* The invariant holds at the start. *)
LEMMA CatenaInizio ==
    ASSUME Init
    PROVE  CatenaInv
<1>1. IdFreschi
  BY VecchiAssumption, ParametriAssumption DEF Init, IdFreschi
<1>2. CatenaIntegra
  <2>1. CASE registro = {}
    BY <2>1 DEF CatenaIntegra, Vivi
  <2>2. CASE registro # {}
    <3>1. Vivi = {1} /\ blocchi = Vecchi
      BY <2>2 DEF Init, Vivi
    <3> QED
      BY <3>1, VecchiAssumption DEF CatenaIntegra
  <2> QED
    BY <2>1, <2>2
<1>3. RighePronte
  BY DEF Init, RighePronte
<1> QED
  BY <1>1, <1>2, <1>3 DEF CatenaInv

(* The transcript of a registered connection is whole, in every state of every
   interleaving of the requests, of their deaths and of the panel's deletions. *)
THEOREM TrascrizioneIntegra == Spec => []CatenaIntegra
<1>1. Init => CatenaInv
  BY CatenaInizio
<1>2. TypeOK /\ CatenaInv /\ [Next]_vars => CatenaInv'
  BY CatenaPasso
<1>3. CatenaInv => CatenaIntegra
  BY DEF CatenaInv
<1> QED
  BY <1>1, <1>2, <1>3, TypeCorrect, PTL DEF Spec
-----------------------------------------------------------------------------
(***************************************************************************)
(* The readings.  What a reading v has seen, when its connection is there: *)
(* a prefix of the table T, up to the block v.blocchi, whose hash it has   *)
(* recomputed; and in its page the blocks that follow, up to v.dopo.       *)
(***************************************************************************)
Letto(T, v) ==
    \/ v.blocchi = 0 /\ v.prec = HashZero /\ ~v.fine
    \/ \E b \in T : /\ b.conn = v.conn /\ b.seq = v.blocchi
                    /\ b.hash = v.hash /\ b.fine = v.fine

InPagina(T, v) ==
    /\ v.blocchi \in Nat /\ v.blocchi <= v.dopo
    /\ \A b \in v.pagina : b \in T /\ b.conn = v.conn /\ v.blocchi < b.seq /\ b.seq <= v.dopo
    /\ \A s \in v.blocchi + 1 .. v.dopo : \E b \in v.pagina : b.seq = s

Legge(T, v) == v.integra /\ v.hash = v.prec /\ Letto(T, v) /\ InPagina(T, v)

(* The blocks of the table are finitely many and have a dir that is known. *)
TabellaInv ==
    /\ IsFiniteSet(blocchi)
    /\ \A b \in blocchi : b.dati \notin DirIgnota
    /\ \A r \in Richieste : pc[r] = "crea" => riga[r].dati \notin DirIgnota

LettureInv ==
    \A p \in Processi : lettura[p] # Nessuno /\ lettura[p].conn \in Vivi =>
        Legge(blocchi, lettura[p])

(* A reading starts with nothing read. *)
LEMMA LeggeNuova ==
    ASSUME NEW T, NEW i
    PROVE  Legge(T, NuovaLettura(i))
BY DEF Legge, Letto, InPagina, NuovaLettura

(* What a reading has seen depends on the blocks of its connection alone, and
   stays so while they stay. *)
LEMMA LeggeResta ==
    ASSUME NEW T, NEW S, NEW v, Legge(T, v), \A b \in T : b.conn = v.conn => b \in S
    PROVE  Legge(S, v)
<1>1. Letto(S, v)
  BY DEF Legge, Letto
<1>2. InPagina(S, v)
  BY DEF Legge, InPagina
<1> QED
  BY <1>1, <1>2 DEF Legge

(* A page is the blocks that follow, up to the last one it has: the blocks of a
   whole transcript are numbered without holes. *)
LEMMA PaginaPiena ==
    ASSUME TypeOK, IsFiniteSet(blocchi), NEW i, Catena(blocchi, i), NEW n \in Nat
    PROVE  /\ \A b \in Pagina(i, n) : b \in blocchi /\ b.conn = i /\ n < b.seq
           /\ \A b \in Pagina(i, n) : \A s \in n + 1 .. b.seq : \E a \in Pagina(i, n) : a.seq = s
<1> DEFINE resto == {b \in Di(i) : b.seq > n}
<1>0. \A b \in resto : b \in blocchi /\ b.conn = i /\ b.seq \in Int /\ n < b.seq
  BY DEF Di, TypeOK, Blocco
<1>1. \A b \in Pagina(i, n) : /\ b \in resto
                              /\ Cardinality({a \in resto : a.seq < b.seq}) < PaginaTerminale
  BY DEF Pagina
<1>2. ASSUME NEW b \in Pagina(i, n), NEW s \in n + 1 .. b.seq
      PROVE  \E a \in Pagina(i, n) : a.seq = s
  <2>1. s \in 1 .. b.seq /\ b \in blocchi /\ b.conn = i
    <3>1. b \in resto
      BY <1>1
    <3>2. b \in blocchi /\ b.conn = i /\ b.seq \in Int
      BY <1>0, <3>1
    <3> QED
      BY <3>2
  <2>2. PICK a \in blocchi : a.conn = i /\ a.seq = s
    BY <2>1 DEF Catena, Contigui
  <2>3. a \in resto
    BY <2>2 DEF Di
  <2> DEFINE A == {c \in resto : c.seq < a.seq}
             B == {c \in resto : c.seq < b.seq}
  <2>4. A \in SUBSET B
    <3>1. a.seq \in Int /\ b.seq \in Int /\ a.seq <= b.seq
      BY <2>1, <2>2 DEF TypeOK, Blocco
    <3>2. \A c \in resto : c.seq < a.seq => c.seq < b.seq
      BY <1>0, <3>1
    <3> QED
      BY <3>2
  <2>5. B \in SUBSET blocchi
    BY <1>0
  <2>6. IsFiniteSet(B) /\ Cardinality(A) <= Cardinality(B) /\ IsFiniteSet(A)
    BY <2>4, <2>5, FS_Subset
  <2>7. Cardinality(A) \in Nat /\ Cardinality(B) \in Nat /\ Cardinality(B) < PaginaTerminale
    BY <1>1, <2>6, FS_CardinalityType
  <2>8. Cardinality(A) < PaginaTerminale
    BY <2>6, <2>7, ParametriAssumption
  <2>9. a \in Pagina(i, n)
    BY <2>3, <2>8 DEF Pagina
  <2> QED
    BY <2>2, <2>9
<1> QED
  BY <1>0, <1>1, <1>2

(* A query of ScorriTerminale, when what was read before is verified. *)
LEMMA LeggeLaPagina ==
    ASSUME TypeOK, IsFiniteSet(blocchi), NEW v \in Lettura, Catena(blocchi, v.conn),
           Legge(blocchi, v), v.pagina = {},
           NEW P, P = Pagina(v.conn, v.dopo),
           NEW d, d = v.dopo \/ \E b \in P : b.seq = d, \A b \in P : b.seq <= d,
           NEW w, w.conn = v.conn, w.blocchi = v.blocchi, w.pagina = P, w.dopo = d,
           w.integra = v.integra, w.hash = v.hash, w.prec = v.prec, w.fine = v.fine
    PROVE  Legge(blocchi, w)
<1>1. v.dopo \in Int /\ v.blocchi \in Nat /\ v.blocchi <= v.dopo
  BY DEF Legge, InPagina, Lettura
<1>2. v.blocchi = v.dopo
  <2>1. v.blocchi + 1 .. v.dopo = {}
    BY DEF Legge, InPagina
  <2> QED
    BY <1>1, <2>1
<1>3. v.dopo \in Nat
  BY <1>1, <1>2
<1>4. /\ \A b \in P : b \in blocchi /\ b.conn = v.conn /\ v.dopo < b.seq
      /\ \A b \in P : \A s \in v.dopo + 1 .. b.seq : \E a \in P : a.seq = s
  BY <1>3, PaginaPiena
<1>5. Letto(blocchi, w)
  BY DEF Legge, Letto
<1>6. v.blocchi <= d
  BY <1>1, <1>2, <1>4 DEF TypeOK, Blocco
<1>7. \A s \in v.blocchi + 1 .. d : \E b \in P : b.seq = s
  BY <1>2, <1>3, <1>4
<1>8. InPagina(blocchi, w)
  BY <1>1, <1>2, <1>4, <1>6, <1>7 DEF InPagina
<1> QED
  BY <1>5, <1>8 DEF Legge

(* The body of the loop of ScorriTerminale finds no error in a whole transcript. *)
LEMMA LeggeIlBlocco ==
    ASSUME TypeOK, TabellaInv, NEW v \in Lettura, Catena(blocchi, v.conn), Legge(blocchi, v),
           NEW b \in v.pagina, \A a \in v.pagina : b.seq <= a.seq
    PROVE  Legge(blocchi, ConBlocco(v, b))
<1>1. b \in blocchi /\ b.conn = v.conn /\ b \in Blocco /\ b.dati \notin DirIgnota
  BY DEF Legge, InPagina, TabellaInv, TypeOK
<1>2. /\ v.blocchi \in Nat /\ v.dopo \in Int /\ b.seq \in Int
      /\ v.blocchi < b.seq /\ b.seq <= v.dopo
  BY <1>1 DEF Legge, InPagina, Lettura, Blocco
<1>3. b.seq = v.blocchi + 1
  <2>1. v.blocchi + 1 \in v.blocchi + 1 .. v.dopo
    BY <1>2
  <2>2. PICK a \in v.pagina : a.seq = v.blocchi + 1
    BY <2>1 DEF Legge, InPagina
  <2> QED
    BY <1>2, <2>2
<1>4. \A a \in blocchi : a.conn = v.conn => a.seq \in 1 .. BlocchiMax
  BY DEF Catena, Contigui
<1>5. b.hash = HashBlocco(v.prec, b.dati) /\ ~v.fine
  <2>1. CASE v.blocchi = 0
    <3>1. v.prec = HashZero /\ ~v.fine
      BY <1>4, <2>1 DEF Legge, Letto
    <3>2. b.seq = 1
      BY <1>3, <2>1
    <3>3. \A a \in blocchi : a.conn = v.conn => a.seq # 0
      BY <1>4
    <3>4. b.hash = HashBlocco(HashZero, b.dati)
      BY <1>1, <3>2, <3>3 DEF Catena, Concatenati
    <3> QED
      BY <3>1, <3>4
  <2>2. CASE v.blocchi # 0
    <3>1. PICK u \in blocchi : /\ u.conn = v.conn /\ u.seq = v.blocchi
                               /\ u.hash = v.hash /\ u.fine = v.fine
      BY <2>2 DEF Legge, Letto
    <3>2. PICK a \in blocchi : /\ a.conn = v.conn /\ a.seq = b.seq - 1 /\ ~a.fine
                               /\ b.hash = HashBlocco(a.hash, b.dati)
      BY <1>1, <1>2, <1>3, <2>2 DEF Catena, Concatenati
    <3>3. a.seq = u.seq
      BY <1>2, <1>3, <3>1, <3>2
    <3>4. a = u
      BY <3>1, <3>2, <3>3 DEF Catena, Unici
    <3>5. v.hash = v.prec
      BY DEF Legge
    <3> QED
      BY <3>1, <3>2, <3>4, <3>5
  <2> QED
    BY <2>1, <2>2
<1> DEFINE w == ConBlocco(v, b)
<1>6. v.integra = TRUE
  BY DEF Legge, Lettura
<1>7. /\ w.conn = v.conn /\ w.blocchi = b.seq /\ w.pagina = v.pagina \ {b} /\ w.dopo = v.dopo
      /\ w.integra = TRUE /\ w.hash = b.hash /\ w.prec = b.hash /\ w.fine = b.fine
  BY <1>1, <1>3, <1>5, <1>6 DEF ConBlocco, Lettura, Blocco
<1> HIDE DEF w
<1>8. Letto(blocchi, w)
  BY <1>1, <1>7 DEF Letto
<1>9. InPagina(blocchi, w)
  <2>1. \A a \in v.pagina : a \in blocchi /\ a.conn = v.conn /\ a.seq \in Int /\ a.seq <= v.dopo
    BY DEF Legge, InPagina, TypeOK, Blocco
  <2>2. \A a \in v.pagina : a # b => b.seq < a.seq
    <3> SUFFICES ASSUME NEW a \in v.pagina, a # b PROVE b.seq < a.seq
      OBVIOUS
    <3>1. a.seq # b.seq
      BY <1>1, <2>1 DEF Catena, Unici
    <3> QED
      BY <1>2, <2>1, <3>1
  <2>3. \A s \in b.seq + 1 .. v.dopo : \E a \in v.pagina : a.seq = s /\ a # b
    BY <1>2, <1>3 DEF Legge, InPagina
  <2> QED
    BY <1>2, <1>7, <2>1, <2>2, <2>3 DEF InPagina
<1> QED
  BY <1>7, <1>8, <1>9 DEF Legge, w
-----------------------------------------------------------------------------
(* A connection that is there was there, if its id is not a new one, and so are
   its blocks: they leave the table only with it. *)
LEMMA BlocchiRestano ==
    ASSUME TypeOK, [Next]_vars, NEW i \in Id, i < prossimo, i \in Vivi'
    PROVE  i \in Vivi /\ \A b \in blocchi : b.conn = i => b \in blocchi'
<1>1. ASSUME NEW c \in Coppie, NEW t \in Tipi, CreateAuditConn(c, t)
      PROVE  i \in Vivi /\ \A b \in blocchi : b.conn = i => b \in blocchi'
  <2> DEFINE q == [id |-> prossimo, coppia |-> c, tipo |-> t]
  <2>0. registro' = registro \cup {q} /\ q.id = prossimo
    BY <1>1 DEF CreateAuditConn
  <2> HIDE DEF q
  <2>1. Vivi' = Vivi \cup {prossimo} /\ blocchi' = blocchi /\ prossimo \in Int
    BY <1>1, <2>0 DEF CreateAuditConn, Vivi, TypeOK
  <2> QED
    BY <2>1 DEF Id
<1>2. ASSUME NEW q \in registro, NEW t \in Tipi, UpdateAuditConn(q, t)
      PROVE  i \in Vivi /\ \A b \in blocchi : b.conn = i => b \in blocchi'
  BY <1>2 DEF UpdateAuditConn, Vivi, TypeOK, Riga
<1>3. ASSUME NEW ids \in SUBSET Id, BatchDeleteAuditConn(ids)
      PROVE  i \in Vivi /\ \A b \in blocchi : b.conn = i => b \in blocchi'
  BY <1>3 DEF BatchDeleteAuditConn, Vivi
<1>4. ASSUME UNCHANGED registro, blocchi \subseteq blocchi'
      PROVE  i \in Vivi /\ \A b \in blocchi : b.conn = i => b \in blocchi'
  BY <1>4 DEF Vivi
<1>5. ASSUME NEW r \in Richieste,
             \/ \E c \in Coppie : ConnTerminale(r, c)
             \/ Gestore(r)
             \/ InterrompiRichiesta(r)
      PROVE  UNCHANGED registro /\ blocchi \subseteq blocchi'
  BY <1>5 DEF ConnTerminale, Gestore, UltimoBlocco, Scarta, CreateBlocco, AccodaTerminale,
              InterrompiRichiesta
<1>6. ASSUME \/ \E p \in Processi : Scorri(p)
             \/ \E l \in Lettori : Pannello(l) \/ Rispondi(l)
             \/ UNCHANGED vars
      PROVE  UNCHANGED registro /\ blocchi \subseteq blocchi'
  BY <1>6 DEF Scorri, LeggiPagina, VerificaBlocco, Pannello, Rispondi, TerminalVerify,
              TerminalExport, InterrompiLettura, vars
<1> QED
  BY <1>1, <1>2, <1>3, <1>4, <1>5, <1>6 DEF Next, Registro

(* Every step keeps the table finite and its dirs known. *)
LEMMA TabellaPasso ==
    ASSUME TypeOK, TabellaInv, [Next]_vars
    PROVE  TabellaInv'
<1> USE DEF TabellaInv
<1>1. ASSUME blocchi' \subseteq blocchi,
             \A r \in Richieste : pc'[r] = "crea" => pc[r] = "crea" /\ riga'[r] = riga[r]
      PROVE  TabellaInv'
  BY <1>1, FS_Subset
<1>2. CASE Registro
  BY <1>1, <1>2 DEF Registro, CreateAuditConn, UpdateAuditConn, BatchDeleteAuditConn
<1>3. ASSUME NEW r \in Richieste, NEW c \in Coppie, ConnTerminale(r, c)
      PROVE  TabellaInv'
  BY <1>1, <1>3 DEF ConnTerminale, TypeOK
<1>4. ASSUME NEW r \in Richieste, UltimoBlocco(r)
      PROVE  TabellaInv'
  <2>1. PICK f \in Moduli, t \in Totali :
          /\ Ammissibile(f)
          /\ riga' = [riga EXCEPT ![r] =
                        [conn |-> sessione[r], seq |-> f.seq, dati |-> f.dati,
                         hash |-> HashDi(f), fine |-> f.fine, totale |-> t]]
    BY <1>4 DEF UltimoBlocco
  <2>2. riga'[r].dati = f.dati /\ \A q \in Richieste : q # r => riga'[q] = riga[q]
    BY <2>1 DEF TypeOK
  <2> QED
    BY <1>4, <2>1, <2>2 DEF UltimoBlocco, Ammissibile, TypeOK
<1>5. ASSUME NEW r \in Richieste, CreateBlocco(r)
      PROVE  TabellaInv'
  <2>1. \A q \in Richieste : pc'[q] = "crea" => pc[q] = "crea" /\ riga'[q] = riga[q]
    BY <1>5 DEF CreateBlocco, Congeda, TypeOK
  <2>2. IsFiniteSet(blocchi \cup {riga[r]})
    BY FS_AddElement
  <2> QED
    BY <1>1, <1>5, <2>1, <2>2 DEF CreateBlocco
<1>6. ASSUME NEW r \in Richieste, Scarta(r) \/ AccodaTerminale(r) \/ InterrompiRichiesta(r)
      PROVE  TabellaInv'
  BY <1>1, <1>6 DEF Scarta, AccodaTerminale, InterrompiRichiesta, Congeda, TypeOK
<1>7. ASSUME \/ \E p \in Processi : Scorri(p)
             \/ \E l \in Lettori : Pannello(l) \/ Rispondi(l)
             \/ UNCHANGED vars
      PROVE  TabellaInv'
  BY <1>1, <1>7 DEF Scorri, LeggiPagina, VerificaBlocco, Pannello, Rispondi, TerminalVerify,
                    TerminalExport, InterrompiLettura, vars
<1> QED
  BY <1>2, <1>3, <1>4, <1>5, <1>6, <1>7 DEF Next, Gestore

(* What a step does to a reading that goes on: nothing, or it begins it, or
   brings it a page or a block further. *)
LEMMA LetturaPasso ==
    ASSUME TypeOK, [Next]_vars, NEW p \in Processi, lettura'[p] # Nessuno
    PROVE  \/ lettura[p] # Nessuno /\ lettura'[p] = lettura[p]
           \/ \E i : lettura'[p] = NuovaLettura(i)
           \/ LeggiPagina(p)
           \/ VerificaBlocco(p)
<1>1. CASE Registro
  BY <1>1 DEF Registro, CreateAuditConn, UpdateAuditConn, BatchDeleteAuditConn
<1>2. ASSUME NEW r \in Richieste, NEW c \in Coppie, ConnTerminale(r, c)
      PROVE  lettura' = lettura
  BY <1>2 DEF ConnTerminale
<1>3. ASSUME NEW r \in Richieste, CreateBlocco(r)
      PROVE  lettura' = lettura \/ lettura' = [lettura EXCEPT ![r] = NuovaLettura(riga[r].conn)]
  BY <1>3 DEF CreateBlocco
<1>4. ASSUME NEW r \in Richieste,
             UltimoBlocco(r) \/ Scarta(r) \/ AccodaTerminale(r) \/ InterrompiRichiesta(r)
      PROVE  lettura' = lettura \/ lettura' = [lettura EXCEPT ![r] = Nessuno]
  BY <1>4 DEF UltimoBlocco, Scarta, AccodaTerminale, InterrompiRichiesta
<1>5. ASSUME NEW q \in Processi, Scorri(q), q # p
      PROVE  lettura'[p] = lettura[p]
  BY <1>5 DEF Scorri, LeggiPagina, VerificaBlocco, TypeOK
<1>6. ASSUME NEW l \in Lettori, Pannello(l) \/ Rispondi(l)
      PROVE  \/ \E i : lettura' = [lettura EXCEPT ![l] = NuovaLettura(i)]
             \/ lettura' = [lettura EXCEPT ![l] = Nessuno]
  BY <1>6 DEF Pannello, Rispondi, TerminalVerify, TerminalExport, InterrompiLettura
<1>7. CASE UNCHANGED vars
  BY <1>7 DEF vars
<1> QED
  BY <1>1, <1>2, <1>3, <1>4, <1>5, <1>6, <1>7 DEF Next, Gestore, Scorri, TypeOK

(* Every step keeps what the readings have seen. *)
LEMMA LetturePasso ==
    ASSUME TypeOK, CatenaInv, TabellaInv, LettureInv, [Next]_vars
    PROVE  LettureInv'
<1> SUFFICES ASSUME NEW p \in Processi, lettura'[p] # Nessuno, lettura'[p].conn \in Vivi'
             PROVE  Legge(blocchi', lettura'[p])
  BY DEF LettureInv
<1>1. CASE lettura[p] # Nessuno /\ lettura'[p] = lettura[p]
  <2> DEFINE v == lettura[p]
  <2>1. v \in Lettura /\ v.conn \in Id /\ v.conn < prossimo
    BY <1>1 DEF TypeOK, Lettura, CatenaInv, IdFreschi
  <2>2. v.conn \in Vivi /\ \A b \in blocchi : b.conn = v.conn => b \in blocchi'
    BY <1>1, <2>1, BlocchiRestano
  <2>3. Legge(blocchi, v)
    BY <1>1, <2>2 DEF LettureInv
  <2> HIDE DEF v
  <2>4. Legge(blocchi', v)
    BY <2>2, <2>3, LeggeResta
  <2> QED
    BY <1>1, <2>4 DEF v
<1>2. CASE \E i : lettura'[p] = NuovaLettura(i)
  BY <1>2, LeggeNuova
<1>3. CASE LeggiPagina(p)
  <2> DEFINE v == lettura[p]
             P == Pagina(v.conn, v.dopo)
             u == Cardinality(P) < PaginaTerminale
  <2>1. v \in Lettura /\ v.pagina = {} /\ Vivi' = Vivi /\ blocchi' = blocchi
    BY <1>3 DEF LeggiPagina, TypeOK, Vivi
  <2>2. PICK d \in {v.dopo} \cup {b.seq : b \in P} :
          /\ \A b \in P : b.seq <= d
          /\ lettura' = [lettura EXCEPT ![p] =
               [@ EXCEPT !.pagina = P, !.ultima = u, !.dopo = d]]
    BY <1>3 DEF LeggiPagina
  <2>3. lettura'[p] = [v EXCEPT !.pagina = P, !.ultima = u, !.dopo = d]
    BY <2>2 DEF TypeOK
  <2> DEFINE w == lettura'[p]
  <2>4. /\ w.conn = v.conn /\ w.blocchi = v.blocchi /\ w.pagina = P /\ w.dopo = d
        /\ w.integra = v.integra /\ w.hash = v.hash /\ w.prec = v.prec /\ w.fine = v.fine
    BY <2>1, <2>3 DEF Lettura
  <2>5. Legge(blocchi, v) /\ Catena(blocchi, v.conn) /\ IsFiniteSet(blocchi)
    BY <1>3, <2>1, <2>4 DEF LettureInv, LeggiPagina, CatenaInv, CatenaIntegra, TabellaInv
  <2>6. d = v.dopo \/ \E b \in P : b.seq = d
    BY <2>2
  <2>7. P = Pagina(v.conn, v.dopo)
    OBVIOUS
  <2> HIDE DEF v, u, P, w
  <2>8. Legge(blocchi, w)
    BY <2>1, <2>2, <2>4, <2>5, <2>6, <2>7, LeggeLaPagina
  <2> QED
    BY <2>1, <2>8 DEF w
<1>4. CASE VerificaBlocco(p)
  <2> DEFINE v == lettura[p]
  <2>1. v \in Lettura /\ Vivi' = Vivi /\ blocchi' = blocchi
    BY <1>4 DEF VerificaBlocco, TypeOK, Vivi
  <2>2. PICK b \in v.pagina : /\ \A a \in v.pagina : b.seq <= a.seq
                              /\ lettura' = [lettura EXCEPT ![p] = ConBlocco(@, b)]
    BY <1>4 DEF VerificaBlocco
  <2>3. lettura'[p] = ConBlocco(v, b)
    BY <2>2 DEF TypeOK
  <2>4. lettura'[p].conn = v.conn
    BY <2>1, <2>3 DEF Lettura, ConBlocco
  <2>5. Legge(blocchi, v) /\ Catena(blocchi, v.conn)
    BY <1>4, <2>1, <2>4 DEF LettureInv, VerificaBlocco, CatenaInv, CatenaIntegra
  <2> HIDE DEF v
  <2>6. Legge(blocchi, lettura'[p])
    BY <2>1, <2>2, <2>3, <2>5, LeggeIlBlocco
  <2> QED
    BY <2>1, <2>6
<1> QED
  BY <1>1, <1>2, <1>3, <1>4, LetturaPasso

TrascrizioneInv == TypeOK /\ CatenaInv /\ TabellaInv /\ LettureInv

(* The invariants of the requests and of the readings together. *)
THEOREM InvariantiTrascrizione == Spec => []TrascrizioneInv
<1>1. Init => CatenaInv /\ TabellaInv /\ LettureInv
  <2> SUFFICES ASSUME Init PROVE TabellaInv /\ LettureInv
    BY CatenaInizio
  <2>1. TabellaInv
    BY VecchiAssumption, FS_EmptySet DEF Init, TabellaInv
  <2>2. LettureInv
    BY DEF Init, LettureInv
  <2> QED
    BY <2>1, <2>2
<1>2. TypeOK /\ CatenaInv /\ TabellaInv /\ LettureInv /\ [Next]_vars
        => (CatenaInv /\ TabellaInv /\ LettureInv)'
  BY CatenaPasso, TabellaPasso, LetturePasso
<1> QED
  BY <1>1, <1>2, TypeCorrect, PTL DEF Spec, TrascrizioneInv

(* A reading page by page of a connection still in the registry, with blocks
   added behind it and other readings at work, never finds an error, and when it
   ends it has read every block up to the last of its last page. *)
THEOREM LetturaSempreFedele == Spec => []LetturaFedele
<1>1. TrascrizioneInv => LetturaFedele
  <2> SUFFICES ASSUME TrascrizioneInv, NEW p \in Processi, lettura[p] # Nessuno,
                      lettura[p].conn \in Vivi
               PROVE  LET v == lettura[p] IN
                      /\ v.integra
                      /\ \/ v.blocchi = 0
                         \/ \E b \in Di(v.conn) : b.seq = v.blocchi /\ b.hash = v.hash /\ b.fine = v.fine
                      /\ Finita(p) => v.blocchi = v.dopo
    BY DEF LetturaFedele
  <2>1. lettura[p] \in Lettura /\ Legge(blocchi, lettura[p])
    BY DEF TrascrizioneInv, TypeOK, LettureInv
  <2>2. ASSUME Finita(p) PROVE lettura[p].blocchi = lettura[p].dopo
    <3>1. lettura[p].blocchi + 1 .. lettura[p].dopo = {}
      BY <2>1, <2>2 DEF Legge, InPagina, Finita
    <3>2. lettura[p].blocchi \in Nat /\ lettura[p].dopo \in Int /\ lettura[p].blocchi <= lettura[p].dopo
      BY <2>1 DEF Legge, InPagina, Lettura
    <3> QED
      BY <3>1, <3>2
  <2> QED
    BY <2>1, <2>2 DEF Legge, Letto, Di
<1> QED
  BY <1>1, InvariantiTrascrizione, PTL
-----------------------------------------------------------------------------
(***************************************************************************)
(* The events.                                                             *)
(***************************************************************************)
(* As many blocks come after the one numbered n and before k as there are
   numbers in between, if none is missing. *)
LEMMA Numerati ==
    ASSUME NEW R, \A b \in R : b.seq \in Int, \A a, b \in R : a.seq = b.seq => a = b,
           NEW n \in Int, NEW k \in Int, n < k,
           \A b \in R : n < b.seq,
           \A s \in n + 1 .. k - 1 : \E b \in R : b.seq = s,
           NEW S, \A b : b \in S <=> b \in R /\ b.seq < k
    PROVE  IsFiniteSet(S) /\ Cardinality(S) = k - 1 - n
<1> DEFINE I == n + 1 .. k - 1
           f == [s \in I |-> CHOOSE b \in R : b.seq = s]
<1>1. \A s \in I : f[s] \in R /\ f[s].seq = s
  <2> SUFFICES ASSUME NEW s \in I PROVE f[s] \in R /\ f[s].seq = s
    OBVIOUS
  <2>1. \E b \in R : b.seq = s
    OBVIOUS
  <2>2. f[s] = CHOOSE b \in R : b.seq = s
    OBVIOUS
  <2> QED
    BY <2>1, <2>2
<1>2. f \in [I -> S]
  BY <1>1
<1> HIDE DEF f
<1>3. f \in Injection(I, S)
  BY <1>1, <1>2 DEF Injection, IsInjective
<1>4. \A b \in S : b.seq \in I /\ f[b.seq] = b
  BY <1>1
<1>5. f \in Surjection(I, S)
  BY <1>2, <1>4 DEF Surjection
<1>6. ExistsBijection(I, S)
  BY <1>3, <1>5 DEF ExistsBijection, Bijection
<1>7. IsFiniteSet(I) /\ Cardinality(I) = k - 1 - n
  BY FS_Interval
<1> QED
  BY <1>6, <1>7, FS_Bijection

(* A page that is not full has every block that follows. *)
LEMMA PaginaCorta ==
    ASSUME TypeOK, IsFiniteSet(blocchi), NEW i, Catena(blocchi, i), NEW n \in Nat,
           Cardinality(Pagina(i, n)) < PaginaTerminale,
           NEW c \in blocchi, c.conn = i, n < c.seq
    PROVE  c \in Pagina(i, n)
<1> DEFINE R    == {b \in Di(i) : b.seq > n}
           K    == PaginaTerminale
           P    == Pagina(i, n)
           F(k) == {b \in R : b.seq < k}
<1> USE ParametriAssumption
<1>1. \A b \in R : b \in blocchi /\ b.conn = i /\ b.seq \in Int /\ n < b.seq
  BY DEF Di, TypeOK, Blocco
<1>2. c \in R
  BY DEF Di
<1>3. P = {b \in R : Cardinality(F(b.seq)) < K}
  BY DEF Pagina
<1>4. \A a, b \in R : a.seq = b.seq => a = b
  BY <1>1 DEF Catena, Unici
<1>5. \A s \in n + 1 .. c.seq : \E b \in R : b.seq = s
  BY <1>1, <1>2 DEF Catena, Contigui, Di
<1>6. c.seq \in Int
  BY <1>1, <1>2
<1> HIDE DEF R, P
<1>7. \A k \in n + 1 .. c.seq : IsFiniteSet(F(k)) /\ Cardinality(F(k)) = k - 1 - n
  <2> SUFFICES ASSUME NEW k \in n + 1 .. c.seq
               PROVE  IsFiniteSet(F(k)) /\ Cardinality(F(k)) = k - 1 - n
    OBVIOUS
  <2>1. \A s \in n + 1 .. k - 1 : \E b \in R : b.seq = s
    BY <1>5, <1>6
  <2>2. \A b : b \in F(k) <=> b \in R /\ b.seq < k
    OBVIOUS
  <2>3. k \in Int /\ n < k
    BY <1>6
  <2> HIDE DEF F
  <2> QED
    BY <1>1, <1>4, <2>1, <2>2, <2>3, Numerati
<1> HIDE DEF F
<1>8. ASSUME c \notin P PROVE FALSE
  <2>1. ~(Cardinality(F(c.seq)) < K)
    BY <1>2, <1>3, <1>8
  <2>2. c.seq \in n + 1 .. c.seq
    BY <1>1, <1>2, <1>6
  <2>3. n + K + 1 \in n + 1 .. c.seq
    BY <1>6, <1>7, <2>1, <2>2
  <2>4. \A b \in F(n + K + 1) : b \in R /\ b.seq \in n + 1 .. c.seq /\ b.seq < n + K + 1
    BY <1>1, <1>6, <2>3 DEF F
  <2>5. \A b \in F(n + K + 1) : Cardinality(F(b.seq)) < K
    BY <1>7, <2>4
  <2>6. F(n + K + 1) \in SUBSET P
    BY <1>3, <2>4, <2>5
  <2>7. P \in SUBSET blocchi
    BY <1>1, <1>3
  <2>8. IsFiniteSet(P) /\ Cardinality(F(n + K + 1)) <= Cardinality(P)
    BY <2>6, <2>7, FS_Subset
  <2>9. Cardinality(F(n + K + 1)) = K /\ Cardinality(P) \in Nat
    BY <1>7, <2>3, <2>8, FS_CardinalityType
  <2> QED
    BY <2>8, <2>9 DEF P
<1> QED
  BY <1>8 DEF P

(* The block b of table T closes the session the reading v verifies, and v will
   come to it, or has it in its page, or is past it. *)
Chiude(T, b, v) ==
    /\ b \in T /\ b.conn = v.conn /\ b.fine
    /\ v.ultima => b.seq <= v.dopo

(* Where the handlers that verify a session are: each at its own connection,
   with the block that closes it in the table and no event of it in the queue. *)
VerificheInv ==
    /\ \A r \in Richieste : pc[r] = "verifica" =>
         /\ lettura[r] # Nessuno
         /\ lettura[r].conn \in Vivi => Chiude(blocchi, riga[r], lettura[r])
    /\ \A r, q \in Richieste :
         /\ pc[r] = "verifica" /\ pc[q] = "verifica"
         /\ lettura[r].conn = lettura[q].conn /\ lettura[r].conn \in Vivi
         => r = q
    /\ \A r \in Richieste, n \in DOMAIN eventi :
         pc[r] = "verifica" /\ eventi[n].conn = lettura[r].conn => lettura[r].conn \notin Vivi

(* The index refuses the block that would follow the one with fine. *)
LEMMA NessunoDopoFine ==
    ASSUME TypeOK, CatenaInv, NEW r \in Richieste, pc[r] = "crea", IndiceUnico(riga[r]),
           riga[r].conn \in Vivi
    PROVE  \A a \in blocchi : a.conn = riga[r].conn => ~a.fine
<1> DEFINE b == riga[r]
<1>1. b \in Blocco /\ Segue(blocchi, b) /\ Catena(blocchi, b.conn)
  BY DEF TypeOK, CatenaInv, CatenaIntegra, RighePronte
<1>2. \A a \in blocchi : a.conn = b.conn => a.seq # b.seq
  BY DEF IndiceUnico
<1>3. b.seq \in 1 .. BlocchiMax /\ \A a \in blocchi : a.seq \in Int
  BY <1>1 DEF Segue, TypeOK, Blocco
<1> HIDE DEF b
<1> SUFFICES ASSUME NEW a \in blocchi, a.conn = b.conn, a.fine
             PROVE  FALSE
  BY DEF b
<1>4. a.seq \in 1 .. BlocchiMax
  BY <1>1 DEF Catena, Contigui
<1>5. a.seq < b.seq
  <2> SUFFICES ASSUME b.seq <= a.seq PROVE FALSE
    BY <1>3, <1>4
  <2>1. b.seq \in 1 .. a.seq
    BY <1>3
  <2> QED
    BY <1>1, <1>2, <2>1 DEF Catena, Contigui
<1>6. PICK u \in blocchi : u.conn = b.conn /\ u.seq = b.seq - 1 /\ ~u.fine
  BY <1>1, <1>3, <1>4, <1>5 DEF Segue
<1>7. u.seq <= a.seq
  BY <1>1, <1>6 DEF Catena, ChiusiDaFine
<1>8. u.seq = a.seq
  BY <1>3, <1>5, <1>6, <1>7
<1> QED
  BY <1>1, <1>6, <1>8 DEF Catena, Unici

(* What a step does to a handler that verifies: nothing but its reading goes on,
   or it begins, with the block with fine it has saved. *)
LEMMA VerificaPasso ==
    ASSUME TypeOK, [Next]_vars, NEW r \in Richieste, pc'[r] = "verifica"
    PROVE  \/ /\ pc[r] = "verifica" /\ riga'[r] = riga[r]
              /\ lettura'[r] = lettura[r] \/ LeggiPagina(r) \/ VerificaBlocco(r)
           \/ /\ pc[r] = "crea" /\ IndiceUnico(riga[r]) /\ riga[r].fine
              /\ blocchi' = blocchi \cup {riga[r]} /\ UNCHANGED <<registro, eventi, riga>>
              /\ lettura' = [lettura EXCEPT ![r] = NuovaLettura(riga[r].conn)]
              /\ \A q \in Richieste : q # r => pc'[q] = pc[q]
<1>0. r \in Processi
  BY DEF Processi
<1>1. CASE Registro
  BY <1>1 DEF Registro, CreateAuditConn, UpdateAuditConn, BatchDeleteAuditConn
<1>2. ASSUME NEW q \in Richieste,
             \/ \E c \in Coppie : ConnTerminale(q, c)
             \/ UltimoBlocco(q)
      PROVE  q # r /\ pc'[r] = pc[r] /\ riga'[r] = riga[r] /\ lettura' = lettura
  BY <1>2 DEF ConnTerminale, UltimoBlocco, TypeOK
<1>3. ASSUME NEW q \in Richieste,
             Scarta(q) \/ AccodaTerminale(q) \/ InterrompiRichiesta(q)
      PROVE  q # r /\ pc'[r] = pc[r] /\ riga'[r] = riga[r] /\ lettura'[r] = lettura[r]
  BY <1>0, <1>3 DEF Scarta, AccodaTerminale, InterrompiRichiesta, Congeda, TypeOK
<1>4. ASSUME NEW q \in Richieste, CreateBlocco(q), q # r
      PROVE  pc'[r] = pc[r] /\ riga'[r] = riga[r] /\ lettura'[r] = lettura[r]
  BY <1>0, <1>4 DEF CreateBlocco, Congeda, TypeOK
<1>5. CASE CreateBlocco(r)
  BY <1>5 DEF CreateBlocco, Congeda, TypeOK
<1>6. ASSUME NEW p \in Processi, Scorri(p)
      PROVE  \/ p # r /\ lettura'[r] = lettura[r] /\ UNCHANGED <<pc, riga>>
             \/ p = r /\ Scorri(r) /\ UNCHANGED <<pc, riga>>
  BY <1>0, <1>6 DEF Scorri, LeggiPagina, VerificaBlocco, TypeOK
<1>7. ASSUME NEW l \in Lettori, Pannello(l) \/ Rispondi(l)
      PROVE  lettura'[r] = lettura[r] /\ UNCHANGED <<pc, riga>>
  <2>1. l # r
    BY ParametriAssumption
  <2> QED
    BY <1>0, <1>7, <2>1 DEF Pannello, Rispondi, TerminalVerify, TerminalExport, InterrompiLettura, TypeOK
<1>8. CASE UNCHANGED vars
  BY <1>8 DEF vars
<1> QED
  BY <1>1, <1>2, <1>3, <1>4, <1>5, <1>6, <1>7, <1>8 DEF Next, Gestore, Scorri

(* A reading goes on at the same connection, and past the blocks of its pages. *)
LEMMA ChiudeScorre ==
    ASSUME TypeOK, CatenaInv, TabellaInv, LettureInv, NEW p \in Processi,
           lettura[p] # Nessuno, LeggiPagina(p) \/ VerificaBlocco(p)
    PROVE  /\ lettura'[p].conn = lettura[p].conn
           /\ lettura'[p] # Nessuno /\ UNCHANGED <<registro, blocchi, eventi>>
           /\ \A b : lettura[p].conn \in Vivi /\ Chiude(blocchi, b, lettura[p]) =>
                Chiude(blocchi, b, lettura'[p])
<1> DEFINE v == lettura[p]
           w == lettura'[p]
<1>1. v \in Lettura /\ UNCHANGED <<registro, blocchi, eventi>>
  BY DEF LeggiPagina, VerificaBlocco, TypeOK
<1>2. CASE VerificaBlocco(p)
  <2>1. PICK b \in v.pagina : lettura' = [lettura EXCEPT ![p] = ConBlocco(@, b)]
    BY <1>2 DEF VerificaBlocco
  <2>2. w = ConBlocco(v, b)
    BY <2>1 DEF TypeOK
  <2>3. w.conn = v.conn /\ w.ultima = v.ultima /\ w.dopo = v.dopo /\ w # Nessuno
    <3>1. w \in Lettura
      BY <1>1, <2>2, ConBloccoTipo
    <3>2. w.conn = v.conn /\ w.ultima = v.ultima /\ w.dopo = v.dopo
      BY <1>1, <2>2 DEF ConBlocco, Lettura
    <3> QED
      BY <3>1, <3>2, ParametriAssumption
  <2> HIDE DEF v, w
  <2>4. \A b1 : Chiude(blocchi, b1, v) => Chiude(blocchi, b1, w)
    BY <2>3 DEF Chiude
  <2> QED
    BY <1>1, <2>3, <2>4 DEF v, w
<1>3. CASE LeggiPagina(p)
  <2> DEFINE P == Pagina(v.conn, v.dopo)
             u == Cardinality(P) < PaginaTerminale
  <2>1. PICK d \in {v.dopo} \cup {b.seq : b \in P} :
          /\ \A b \in P : b.seq <= d
          /\ lettura' = [lettura EXCEPT ![p] = [@ EXCEPT !.pagina = P, !.ultima = u, !.dopo = d]]
    BY <1>3 DEF LeggiPagina
  <2>2. w = [v EXCEPT !.pagina = P, !.ultima = u, !.dopo = d]
    BY <2>1 DEF TypeOK
  <2>3. w.conn = v.conn /\ w.ultima = u /\ w.dopo = d
    BY <1>1, <2>2 DEF Lettura
  <2>4. d = v.dopo \/ \E b \in P : b.seq = d
    BY <2>1
  <2>5. w # Nessuno /\ d \in Int
    <3>1. P \in SUBSET Blocco /\ u \in BOOLEAN
      BY DEF Pagina, Di, TypeOK
    <3> HIDE DEF P, u
    <3>2. d \in Int
      BY <1>1, <2>4, <3>1 DEF Blocco, Lettura
    <3>3. w \in Lettura
      BY <1>1, <2>2, <3>1, <3>2 DEF Lettura
    <3> QED
      BY <3>2, <3>3, ParametriAssumption
  <2>6. u = (Cardinality(Pagina(v.conn, v.dopo)) < PaginaTerminale) /\ P = Pagina(v.conn, v.dopo)
    OBVIOUS
  <2>7. ASSUME NEW b, v.conn \in Vivi, Chiude(blocchi, b, v)
        PROVE  Chiude(blocchi, b, w)
    <3>1. Legge(blocchi, v) /\ Catena(blocchi, v.conn) /\ IsFiniteSet(blocchi)
      BY <2>7 DEF LettureInv, CatenaInv, CatenaIntegra, TabellaInv
    <3>2. v.dopo \in Nat
      BY <1>1, <3>1 DEF Legge, InPagina, Lettura
    <3>3. b \in blocchi /\ b.conn = v.conn /\ b.fine /\ b.seq \in Int
      BY <2>7 DEF Chiude, TypeOK, Blocco
    <3>4. \A a \in P : v.dopo < a.seq
      BY <3>1, <3>2, PaginaPiena
    <3> HIDE DEF v, w, P, u
    <3>5. ASSUME u PROVE b.seq <= d
      <4>1. CASE b.seq <= v.dopo
        BY <2>4, <2>5, <3>2, <3>3, <3>4, <4>1
      <4>2. CASE v.dopo < b.seq
        <5>1. b \in P
          BY <2>6, <3>1, <3>2, <3>3, <3>5, <4>2, PaginaCorta
        <5> QED
          BY <2>1, <5>1
      <4> QED
        BY <3>2, <3>3, <4>1, <4>2
    <3> QED
      BY <2>3, <3>3, <3>5 DEF Chiude
  <2> QED
    BY <1>1, <2>3, <2>5, <2>7
<1> QED
  BY <1>2, <1>3

(* The queue grows only by the event of a verification that has ended. *)
LEMMA EventiPasso ==
    ASSUME TypeOK, [Next]_vars
    PROVE  eventi' = eventi \/ \E r \in Richieste : AccodaTerminale(r)
BY DEF Next, Registro, CreateAuditConn, UpdateAuditConn, BatchDeleteAuditConn, ConnTerminale,
       Gestore, UltimoBlocco, Scarta, CreateBlocco, InterrompiRichiesta, Scorri, LeggiPagina,
       VerificaBlocco, Pannello, TerminalVerify, TerminalExport, InterrompiLettura, Rispondi, vars

(* The verification of a session that is there has read up to its last block. *)
LEMMA VerificaFinita ==
    ASSUME TypeOK, CatenaInv, LettureInv, VerificheInv, NEW r \in Richieste,
           pc[r] = "verifica", Finita(r), lettura[r].conn \in Vivi
    PROVE  /\ lettura[r].integra
           /\ riga[r] \in Di(lettura[r].conn) /\ riga[r].fine /\ riga[r].hash = lettura[r].hash
<1> DEFINE v == lettura[r]
           b == riga[r]
<1>1. v \in Lettura /\ Legge(blocchi, v) /\ Catena(blocchi, v.conn) /\ Chiude(blocchi, b, v)
  BY DEF TypeOK, LettureInv, VerificheInv, CatenaInv, CatenaIntegra, Processi
<1>2. v.pagina = {} /\ v.ultima
  BY DEF Finita
<1> HIDE DEF v, b
<1>3. v.blocchi = v.dopo
  <2>1. v.blocchi + 1 .. v.dopo = {}
    BY <1>1, <1>2 DEF Legge, InPagina
  <2>2. v.blocchi \in Nat /\ v.dopo \in Int /\ v.blocchi <= v.dopo
    BY <1>1 DEF Legge, InPagina, Lettura
  <2> QED
    BY <2>1, <2>2
<1>4. b \in blocchi /\ b.conn = v.conn /\ b.fine /\ b.seq <= v.blocchi /\ b.seq \in 1 .. BlocchiMax
  BY <1>1, <1>2, <1>3 DEF Chiude, Catena, Contigui
<1>5. v.blocchi # 0 /\ v.blocchi \in Nat
  BY <1>1, <1>4 DEF Legge, InPagina
<1>6. PICK a \in blocchi : a.conn = v.conn /\ a.seq = v.blocchi /\ a.hash = v.hash
  BY <1>1, <1>5 DEF Legge, Letto
<1>7. a.seq <= b.seq
  BY <1>1, <1>4, <1>6 DEF Catena, ChiusiDaFine
<1>8. a = b
  BY <1>1, <1>4, <1>5, <1>6, <1>7 DEF Catena, Unici
<1> QED
  BY <1>1, <1>4, <1>6, <1>8 DEF Legge, Di, v, b

(* Every step keeps the verifications apart, each with the block that closes
   its session. *)
LEMMA VerifichePasso ==
    ASSUME TypeOK, TypeOK', CatenaInv, TabellaInv, LettureInv, VerificheInv, EventoVeritiero,
           [Next]_vars
    PROVE  VerificheInv'
<1> DEFINE Prosegue(r) == /\ pc[r] = "verifica" /\ riga'[r] = riga[r]
                          /\ lettura'[r] = lettura[r] \/ LeggiPagina(r) \/ VerificaBlocco(r)
           Inizia(r)   == /\ pc[r] = "crea" /\ IndiceUnico(riga[r]) /\ riga[r].fine
                          /\ blocchi' = blocchi \cup {riga[r]} /\ UNCHANGED <<registro, eventi, riga>>
                          /\ lettura' = [lettura EXCEPT ![r] = NuovaLettura(riga[r].conn)]
                          /\ \A q \in Richieste : q # r => pc'[q] = pc[q]
<1>1. \A r \in Richieste : pc'[r] = "verifica" => Prosegue(r) \/ Inizia(r)
  BY VerificaPasso
<1>2. ASSUME NEW r \in Richieste, Prosegue(r)
      PROVE  /\ lettura[r] # Nessuno /\ lettura'[r] # Nessuno
             /\ lettura'[r].conn = lettura[r].conn
             /\ lettura[r].conn \in Id /\ lettura[r].conn < prossimo
             /\ lettura[r].conn \in Vivi' =>
                  /\ lettura[r].conn \in Vivi
                  /\ Chiude(blocchi, riga[r], lettura[r])
                  /\ Chiude(blocchi', riga'[r], lettura'[r])
  <2>1. lettura[r] # Nessuno /\ r \in Processi
    BY <1>2 DEF VerificheInv, Processi
  <2>2. lettura[r].conn \in Id /\ lettura[r].conn < prossimo
    BY <2>1 DEF TypeOK, Lettura, CatenaInv, IdFreschi
  <2>3. ASSUME lettura[r].conn \in Vivi'
        PROVE  /\ lettura[r].conn \in Vivi
               /\ Chiude(blocchi, riga[r], lettura[r])
               /\ Chiude(blocchi', riga[r], lettura[r])
    <3>1. /\ lettura[r].conn \in Vivi
          /\ \A b \in blocchi : b.conn = lettura[r].conn => b \in blocchi'
      BY <2>2, <2>3, BlocchiRestano
    <3> QED
      BY <1>2, <3>1 DEF VerificheInv, Chiude
  <2>4. CASE lettura'[r] = lettura[r]
    BY <1>2, <2>1, <2>2, <2>3, <2>4
  <2>5. CASE LeggiPagina(r) \/ VerificaBlocco(r)
    <3>1. /\ lettura'[r].conn = lettura[r].conn /\ lettura'[r] # Nessuno /\ blocchi' = blocchi
          /\ \A b : lettura[r].conn \in Vivi /\ Chiude(blocchi, b, lettura[r]) =>
               Chiude(blocchi, b, lettura'[r])
      BY <2>1, <2>5, ChiudeScorre
    <3> QED
      BY <1>2, <2>1, <2>2, <2>3, <3>1
  <2> QED
    BY <1>2, <2>4, <2>5
<1>3. ASSUME NEW r \in Richieste, Inizia(r)
      PROVE  /\ Vivi' = Vivi
             /\ lettura'[r] = NuovaLettura(riga[r].conn) /\ lettura'[r].conn = riga[r].conn
             /\ \A q \in Richieste : q # r => lettura'[q] = lettura[q] /\ pc'[q] = pc[q]
             /\ riga[r].conn \in Vivi => \A a \in blocchi : a.conn = riga[r].conn => ~a.fine
  <2>1. /\ Vivi' = Vivi
        /\ lettura'[r] = NuovaLettura(riga[r].conn)
        /\ \A q \in Richieste : q # r => lettura'[q] = lettura[q] /\ pc'[q] = pc[q]
    BY <1>3 DEF Vivi, TypeOK, Processi
  <2>2. lettura'[r].conn = riga[r].conn
    BY <2>1 DEF NuovaLettura
  <2>3. riga[r].conn \in Vivi => \A a \in blocchi : a.conn = riga[r].conn => ~a.fine
    BY <1>3, NessunoDopoFine
  <2> QED
    BY <2>1, <2>2, <2>3
<1> HIDE DEF Prosegue
<1>4. ASSUME NEW r \in Richieste, pc'[r] = "verifica"
      PROVE  /\ lettura'[r] # Nessuno
             /\ lettura'[r].conn \in Vivi' => Chiude(blocchi', riga'[r], lettura'[r])
  <2>1. CASE Prosegue(r)
    BY <1>2, <2>1
  <2>2. CASE Inizia(r)
    <3>1. riga[r] \in Blocco
      BY <2>2 DEF TypeOK
    <3>2. NuovaLettura(riga[r].conn) \in Lettura
      BY <3>1, NuovaLetturaTipo DEF Blocco
    <3>3. lettura'[r] # Nessuno
      BY <1>3, <2>2, <3>2, ParametriAssumption
    <3>4. /\ lettura'[r] = NuovaLettura(riga[r].conn) /\ lettura'[r].conn = riga[r].conn
          /\ riga'[r] = riga[r] /\ riga[r] \in blocchi' /\ riga[r].fine
      BY <1>3, <2>2
    <3> HIDE DEF Inizia
    <3>5. ~lettura'[r].ultima
      BY <3>4 DEF NuovaLettura
    <3> QED
      BY <3>3, <3>4, <3>5 DEF Chiude
  <2> QED
    BY <1>1, <1>4, <2>1, <2>2
<1>5. ASSUME NEW r \in Richieste, NEW q \in Richieste, pc'[r] = "verifica", pc'[q] = "verifica",
             lettura'[r].conn = lettura'[q].conn, lettura'[r].conn \in Vivi'
      PROVE  r = q
  <2>1. CASE Prosegue(r) /\ Prosegue(q)
    <3>1. pc[r] = "verifica" /\ pc[q] = "verifica"
      BY <2>1 DEF Prosegue
    <3> QED
      BY <1>2, <1>5, <2>1, <3>1 DEF VerificheInv
  <2>2. ASSUME NEW a \in Richieste, NEW b \in Richieste, Inizia(a), pc'[b] = "verifica",
               lettura'[a].conn = lettura'[b].conn, lettura'[a].conn \in Vivi', a # b
        PROVE  FALSE
    <3>1. /\ lettura'[b] = lettura[b] /\ pc'[b] = pc[b]
          /\ Vivi' = Vivi /\ lettura'[a].conn = riga[a].conn
          /\ riga[a].conn \in Vivi => \A c \in blocchi : c.conn = riga[a].conn => ~c.fine
      BY <1>3, <2>2
    <3> HIDE DEF Inizia
    <3>2. /\ pc[b] = "verifica" /\ riga[a].conn \in Vivi /\ lettura[b].conn = riga[a].conn
          /\ \A c \in blocchi : c.conn = riga[a].conn => ~c.fine
      BY <2>2, <3>1
    <3> QED
      BY <3>2 DEF VerificheInv, Chiude, IndiceUnico
  <2> QED
    BY <1>1, <1>5, <2>1, <2>2
<1>6. ASSUME NEW r \in Richieste, pc'[r] = "verifica", NEW n \in DOMAIN eventi',
             eventi'[n].conn = lettura'[r].conn, lettura'[r].conn \in Vivi'
      PROVE  FALSE
  <2>1. CASE eventi' = eventi
    <3>1. CASE Prosegue(r)
      <4>1. pc[r] = "verifica"
        BY <3>1 DEF Prosegue
      <4> QED
        BY <1>2, <1>6, <2>1, <3>1, <4>1 DEF VerificheInv
    <3>2. CASE Inizia(r)
      <4>1. eventi[n].conn = riga[r].conn /\ riga[r].conn \in Vivi
        BY <1>3, <1>6, <2>1, <3>2
      <4>2. \E b \in Di(riga[r].conn) : b.fine
        BY <1>6, <2>1, <4>1 DEF EventoVeritiero
      <4> QED
        BY <1>3, <3>2, <4>1, <4>2 DEF Di
    <3> QED
      BY <1>1, <1>6, <3>1, <3>2
  <2>2. ASSUME NEW q \in Richieste, AccodaTerminale(q)
        PROVE  FALSE
    <3>1. /\ pc[q] = "verifica" /\ pc'[q] = "libera" /\ Vivi' = Vivi /\ UNCHANGED blocchi
          /\ lettura' = [lettura EXCEPT ![q] = Nessuno]
          /\ pc' = [pc EXCEPT ![q] = "libera"]
      BY <2>2 DEF AccodaTerminale, Congeda, TypeOK, Vivi
    <3>2. r # q /\ pc[r] = "verifica" /\ lettura'[r] = lettura[r]
      BY <1>6, <3>1 DEF TypeOK, Processi
    <3>3. \/ n \in DOMAIN eventi /\ eventi'[n] = eventi[n]
          \/ eventi'[n].conn = lettura[q].conn
      BY <2>2 DEF AccodaTerminale, TypeOK
    <3> QED
      BY <1>6, <3>1, <3>2, <3>3 DEF VerificheInv
  <2> QED
    BY <2>1, <2>2, EventiPasso
<1> QED
  BY <1>4, <1>5, <1>6 DEF VerificheInv

(* Every step keeps the events true. *)
LEMMA EventoPasso ==
    ASSUME TypeOK, CatenaInv, LettureInv, VerificheInv, EventoVeritiero, [Next]_vars
    PROVE  EventoVeritiero'
<1>1. ASSUME NEW n \in DOMAIN eventi, eventi[n].conn \in Vivi'
      PROVE  /\ eventi[n].conn \in Vivi /\ eventi[n].integra
             /\ \E b \in blocchi' : b.conn = eventi[n].conn /\ b.fine /\ b.hash = eventi[n].hash
  <2>1. eventi[n] \in Evento
    BY DEF TypeOK
  <2>2. eventi[n].conn \in Id /\ eventi[n].conn < prossimo
    BY <2>1 DEF Evento, CatenaInv, IdFreschi
  <2>3. /\ eventi[n].conn \in Vivi
        /\ \A b \in blocchi : b.conn = eventi[n].conn => b \in blocchi'
    BY <1>1, <2>2, BlocchiRestano
  <2> QED
    BY <2>3 DEF EventoVeritiero, Di
<1>2. CASE eventi' = eventi
  <2>1. \A m, n \in DOMAIN eventi :
          eventi[m].conn = eventi[n].conn /\ eventi[m].conn \in Vivi' => m = n
    BY <1>1 DEF EventoVeritiero
  <2> QED
    BY <1>1, <1>2, <2>1 DEF EventoVeritiero, Di
<1>3. ASSUME NEW r \in Richieste, AccodaTerminale(r)
      PROVE  EventoVeritiero'
  <2> DEFINE v == lettura[r]
             e == [conn |-> v.conn, integra |-> v.integra, hash |-> v.hash]
             N == Len(eventi) + 1
  <2>1. pc[r] = "verifica" /\ Finita(r) /\ Vivi' = Vivi /\ blocchi' = blocchi
        /\ eventi' = Append(eventi, e)
    BY <1>3 DEF AccodaTerminale, Vivi
  <2>2. e.conn = v.conn /\ e.integra = v.integra /\ e.hash = v.hash
    OBVIOUS
  <2>3. v.conn \in Vivi => v.integra /\ \E b \in blocchi : b.conn = v.conn /\ b.fine /\ b.hash = v.hash
    BY <2>1, VerificaFinita DEF Di
  <2>4. \A n \in DOMAIN eventi : eventi[n].conn = v.conn => v.conn \notin Vivi
    BY <2>1 DEF VerificheInv
  <2> HIDE DEF e, v
  <2>5. /\ DOMAIN eventi' = DOMAIN eventi \cup {N}
        /\ \A n \in DOMAIN eventi : eventi'[n] = eventi[n]
        /\ eventi'[N] = e
    BY <2>1 DEF TypeOK
  <2> HIDE DEF N
  <2>6. ASSUME NEW n \in DOMAIN eventi', eventi'[n].conn \in Vivi
        PROVE  /\ eventi'[n].integra
               /\ \E b \in blocchi : b.conn = eventi'[n].conn /\ b.fine /\ b.hash = eventi'[n].hash
    BY <1>1, <2>1, <2>2, <2>3, <2>5, <2>6
  <2>7. ASSUME NEW m \in DOMAIN eventi', NEW n \in DOMAIN eventi',
               eventi'[m].conn = eventi'[n].conn, eventi'[m].conn \in Vivi
        PROVE  m = n
    BY <2>2, <2>4, <2>5, <2>7 DEF EventoVeritiero
  <2> QED
    BY <2>1, <2>6, <2>7 DEF EventoVeritiero, Di
<1> QED
  BY <1>2, <1>3, EventiPasso

(* terminale.chiuso is queued once for a session that is there, certifies it
   whole and carries the hash of the block with fine, whatever blocks, deletions
   and deaths come in between. *)
THEOREM EventoSempreVeritiero == Spec => []EventoVeritiero
<1>1. Init => VerificheInv /\ EventoVeritiero
  BY DEF Init, VerificheInv, EventoVeritiero
<1>2. TrascrizioneInv /\ TrascrizioneInv' /\ VerificheInv /\ EventoVeritiero /\ [Next]_vars
        => (VerificheInv /\ EventoVeritiero)'
  BY VerifichePasso, EventoPasso DEF TrascrizioneInv
<1> QED
  BY <1>1, <1>2, InvariantiTrascrizione, PTL DEF Spec
-----------------------------------------------------------------------------
(***************************************************************************)
(* Sums over finite sets.                                                  *)
(***************************************************************************)
(* Induction over the subsets of a finite set, stated with the set A of those
   that have the property: the provers have no induction rule over operators. *)
LEMMA InduzioneInsiemi ==
    ASSUME NEW S, IsFiniteSet(S), NEW A,
           \A s \in SUBSET S : (\A t \in SUBSET s : t # s => t \in A) => s \in A
    PROVE  SUBSET S \subseteq A
<1> SUFFICES ASSUME ~(SUBSET S \subseteq A) PROVE FALSE
  OBVIOUS
<1> DEFINE T == (SUBSET S) \ A
           R == StrictSubsetOrdering(S)
<1>1. T # {} /\ T \subseteq SUBSET S
  OBVIOUS
<1>2. IsWellFoundedOn(R, SUBSET S)
  <2>1. FiniteSubsetsOf(S) = SUBSET S
    BY FS_FiniteSubsetsOfFinite
  <2>2. IsWellFoundedOn(StrictSubsetOrdering(S), FiniteSubsetsOf(S))
    BY FS_StrictSubsetOrderingWellFounded
  <2> QED
    BY <2>1, <2>2
<1> HIDE DEF T, R
<1>3. PICK x \in T : \A y \in T : ~(<<y, x>> \in R)
  <2>1. \E x \in T : \A y \in T : ~(<<y, x>> \in R)
    BY <1>1, <1>2, WFMin
  <2> QED
    BY <2>1
<1>4. x \in SUBSET S /\ x \notin A
  BY <1>3 DEF T
<1>5. ASSUME NEW t \in SUBSET x, t # x
      PROVE  t \in A
  <2>1. t \in SUBSET S /\ <<t, x>> \in (SUBSET S) \X (SUBSET S)
    BY <1>4
  <2>2. <<t, x>> \in R
    BY <2>1, <1>5 DEF R, StrictSubsetOrdering
  <2> QED
    BY <1>3, <2>1, <2>2 DEF T
<1> QED
  BY <1>4, <1>5

(* The sum of the weights w of the members of S, as MapThenSumSet takes it:
   Parziali gives it for every subset of S, one chosen member after another. *)
Scelto(s) == CHOOSE x \in s : TRUE
Cifra(w, g, s) == IF s = {} THEN 0 ELSE w[Scelto(s)] + g[s \ {Scelto(s)}]
Risolve(w, g, S) == g = [s \in SUBSET S |-> Cifra(w, g, s)]
Parziali(w, S) == CHOOSE g : Risolve(w, g, S)
Somma(w, S) == Parziali(w, S)[S]
Pesa(w, S) == \A x \in S : w[x] \in Nat

(* A set that is not empty has the member that is chosen. *)
LEMMA SceltoDi == ASSUME NEW s, s # {} PROVE Scelto(s) \in s
BY DEF Scelto

(* The sums of the subsets of S depend on their weights alone. *)
LEMMA Uguali ==
    ASSUME NEW S, IsFiniteSet(S), NEW Z, S \subseteq Z, NEW w, NEW v, \A x \in S : w[x] = v[x],
           NEW g, NEW h, Risolve(w, g, S), Risolve(v, h, Z)
    PROVE  \A s \in SUBSET S : g[s] = h[s]
<1> DEFINE A == {s \in SUBSET S : g[s] = h[s]}
<1>1. ASSUME NEW s \in SUBSET S, \A t \in SUBSET s : t # s => t \in A
      PROVE  s \in A
  <2>1. g[s] = Cifra(w, g, s) /\ h[s] = Cifra(v, h, s)
    <3>1. s \in SUBSET Z
      OBVIOUS
    <3> QED
      BY <3>1 DEF Risolve
  <2>2. CASE s = {}
    BY <2>1, <2>2 DEF Cifra
  <2>3. CASE s # {}
    <3> DEFINE x == Scelto(s)
               u == s \ {x}
    <3>1. x \in s /\ w[x] = v[x]
      BY <2>3, SceltoDi
    <3>2. u \in SUBSET s /\ u # s
      BY <3>1
    <3>3. g[u] = h[u]
      BY <1>1, <3>2
    <3>4. Cifra(w, g, s) = w[x] + g[u] /\ Cifra(v, h, s) = v[x] + h[u]
      BY <2>3 DEF Cifra
    <3> HIDE DEF x, u
    <3> QED
      BY <2>1, <3>1, <3>3, <3>4
  <2> QED
    BY <2>2, <2>3
<1> HIDE DEF A
<1>2. SUBSET S \subseteq A
  BY <1>1, InduzioneInsiemi
<1> QED
  BY <1>2 DEF A

(* The sums of the subsets of a finite set exist. *)
LEMMA Esiste ==
    ASSUME NEW w, NEW S, IsFiniteSet(S)
    PROVE  \A s \in SUBSET S : Risolve(w, Parziali(w, s), s)
<1> DEFINE A == {s \in SUBSET S : Risolve(w, Parziali(w, s), s)}
<1>1. ASSUME NEW s \in SUBSET S, \A t \in SUBSET s : t # s => t \in A
      PROVE  s \in A
  <2> DEFINE k == [z \in SUBSET s |-> Somma(w, z)]
             h == [t \in SUBSET s |-> IF t = s THEN Cifra(w, k, s) ELSE Somma(w, t)]
  <2>1. ASSUME NEW t \in SUBSET s
        PROVE  h[t] = Cifra(w, h, t)
    <3>1. CASE t = {} /\ s = {}
      BY <3>1 DEF Cifra
    <3>2. CASE t = {} /\ s # {}
      <4>1. Risolve(w, Parziali(w, t), t)
        BY <1>1, <3>2
      <4>2. Somma(w, t) = Cifra(w, Parziali(w, t), t)
        BY <4>1 DEF Risolve, Somma
      <4> QED
        BY <3>2, <4>2 DEF Cifra
    <3>3. CASE t # {} /\ t # s
      <4> DEFINE x == Scelto(t)
                 u == t \ {x}
      <4>1. x \in t
        BY <3>3, SceltoDi
      <4>2. u \in SUBSET t /\ u \in SUBSET s /\ u # s /\ u # t
        BY <4>1, <3>3
      <4>3. Risolve(w, Parziali(w, t), t) /\ Risolve(w, Parziali(w, u), u)
        BY <1>1, <3>3, <4>2
      <4>4. IsFiniteSet(u)
        BY <4>2, FS_Subset
      <4>5. Somma(w, u) = Parziali(w, t)[u]
        <5>1. u \subseteq t /\ \A y \in u : w[y] = w[y]
          BY <4>2
        <5> HIDE DEF h, u, x
        <5> QED
          BY <4>3, <4>4, <5>1, Uguali DEF Somma
      <4>6. h[t] = Somma(w, t) /\ h[u] = Somma(w, u)
        BY <3>3, <4>2
      <4>7. Somma(w, t) = Cifra(w, Parziali(w, t), t)
        BY <4>3 DEF Risolve, Somma
      <4>8. Cifra(w, Parziali(w, t), t) = w[x] + Parziali(w, t)[u] /\ Cifra(w, h, t) = w[x] + h[u]
        BY <3>3 DEF Cifra
      <4> HIDE DEF h, u, x
      <4> QED
        BY <4>5, <4>6, <4>7, <4>8
    <3>4. CASE t # {} /\ t = s
      <4> DEFINE x == Scelto(s)
                 u == s \ {x}
      <4>1. x \in s /\ s # {}
        BY <3>4, SceltoDi
      <4>2. u \in SUBSET s /\ u # s
        BY <4>1
      <4>3. h[u] = Somma(w, u) /\ k[u] = Somma(w, u) /\ h[s] = Cifra(w, k, s)
        BY <4>2
      <4>4. Cifra(w, k, s) = w[x] + k[u] /\ Cifra(w, h, s) = w[x] + h[u]
        BY <4>1 DEF Cifra
      <4> HIDE DEF h, u, x, k
      <4> QED
        BY <3>4, <4>3, <4>4
    <3> QED
      BY <3>1, <3>2, <3>3, <3>4
  <2>2. h = [t \in SUBSET s |-> h[t]]
    OBVIOUS
  <2> HIDE DEF h
  <2>3. Risolve(w, h, s)
    BY <2>1, <2>2 DEF Risolve
  <2>4. Risolve(w, Parziali(w, s), s)
    BY <2>3 DEF Parziali
  <2> QED
    BY <2>4
<1> HIDE DEF A
<1>2. SUBSET S \subseteq A
  BY <1>1, InduzioneInsiemi
<1> QED
  BY <1>2 DEF A

(* Sums with the same weights are the same. *)
LEMMA SommaStessa ==
    ASSUME NEW S, IsFiniteSet(S), NEW w, NEW v, \A x \in S : w[x] = v[x]
    PROVE  Somma(w, S) = Somma(v, S)
<1>1. Risolve(w, Parziali(w, S), S) /\ Risolve(v, Parziali(v, S), S)
  BY Esiste
<1> QED
  BY <1>1, Uguali DEF Somma

(* One step of a sum. *)
LEMMA SommaPasso ==
    ASSUME NEW w, NEW S, IsFiniteSet(S)
    PROVE  /\ S = {} => Somma(w, S) = 0
           /\ S # {} => Somma(w, S) = w[Scelto(S)] + Somma(w, S \ {Scelto(S)})
<1>1. Risolve(w, Parziali(w, S), S)
  BY Esiste
<1>2. Somma(w, S) = Cifra(w, Parziali(w, S), S)
  BY <1>1 DEF Risolve, Somma
<1>3. CASE S = {}
  BY <1>2, <1>3 DEF Cifra
<1>4. CASE S # {}
  <2> DEFINE u == S \ {Scelto(S)}
  <2>1. u \subseteq S /\ IsFiniteSet(u)
    BY FS_Subset
  <2>2. Risolve(w, Parziali(w, u), u)
    BY <2>1, Esiste
  <2>3. Somma(w, u) = Parziali(w, S)[u]
    <3>1. \A x \in u : w[x] = w[x]
      OBVIOUS
    <3> HIDE DEF u
    <3> QED
      BY <1>1, <2>1, <2>2, <3>1, Uguali DEF Somma
  <2>4. Cifra(w, Parziali(w, S), S) = w[Scelto(S)] + Parziali(w, S)[u]
    BY <1>4 DEF Cifra
  <2> QED
    BY <1>2, <1>4, <2>3, <2>4
<1> QED
  BY <1>3, <1>4

(* A sum of naturals is a natural. *)
LEMMA SommaTipo ==
    ASSUME NEW w, NEW S, IsFiniteSet(S), Pesa(w, S)
    PROVE  \A s \in SUBSET S : Somma(w, s) \in Nat
<1> DEFINE A == {s \in SUBSET S : Somma(w, s) \in Nat}
<1>1. ASSUME NEW s \in SUBSET S, \A t \in SUBSET s : t # s => t \in A
      PROVE  s \in A
  <2>1. IsFiniteSet(s)
    BY FS_Subset
  <2>2. CASE s = {}
    <3>1. Somma(w, s) = 0
      BY <2>1, <2>2, SommaPasso
    <3> QED
      BY <3>1
  <2>3. CASE s # {}
    <3> DEFINE x == Scelto(s)
    <3>1. x \in s /\ w[x] \in Nat
      BY <2>3, SceltoDi DEF Pesa
    <3>2. Somma(w, s \ {x}) \in Nat
      BY <1>1, <3>1
    <3>3. Somma(w, s) = w[x] + Somma(w, s \ {x})
      BY <2>1, <2>3, SommaPasso
    <3> HIDE DEF x
    <3> QED
      BY <3>1, <3>2, <3>3
  <2> QED
    BY <2>2, <2>3
<1> HIDE DEF A
<1>2. SUBSET S \subseteq A
  BY <1>1, InduzioneInsiemi
<1> QED
  BY <1>2 DEF A

(* A sum does not depend on the order of its terms: any of them can be the
   last. *)
LEMMA SommaTolta ==
    ASSUME NEW w, NEW S, IsFiniteSet(S), Pesa(w, S), NEW x \in S
    PROVE  Somma(w, S) = Somma(w, S \ {x}) + w[x]
<1> DEFINE A == {s \in SUBSET S : \A y \in s : Somma(w, s) = Somma(w, s \ {y}) + w[y]}
<1>1. ASSUME NEW s \in SUBSET S, \A t \in SUBSET s : t # s => t \in A
      PROVE  s \in A
  <2> SUFFICES ASSUME NEW y \in s PROVE Somma(w, s) = Somma(w, s \ {y}) + w[y]
    OBVIOUS
  <2> DEFINE z == Scelto(s)
  <2>1. IsFiniteSet(s) /\ s # {} /\ z \in s
    BY FS_Subset, SceltoDi
  <2>2. Somma(w, s) = w[z] + Somma(w, s \ {z})
    BY <2>1, SommaPasso
  <2> HIDE DEF z
  <2>3. /\ w[z] \in Nat /\ w[y] \in Nat
        /\ Somma(w, s \ {z}) \in Nat /\ Somma(w, s \ {y}) \in Nat
        /\ Somma(w, (s \ {z}) \ {y}) \in Nat
    BY <2>1, SommaTipo DEF Pesa
  <2>4. CASE y = z
    BY <2>2, <2>3, <2>4
  <2>5. CASE y # z
    <3>1. s \ {z} \in A /\ s \ {y} \in A
      <4>1. s \ {z} \in SUBSET s /\ s \ {z} # s /\ s \ {y} \in SUBSET s /\ s \ {y} # s
        BY <2>1
      <4> HIDE DEF A
      <4> QED
        BY <1>1, <4>1
    <3>2. y \in s \ {z} /\ z \in s \ {y}
      BY <2>1, <2>5
    <3>3. Somma(w, s \ {z}) = Somma(w, (s \ {z}) \ {y}) + w[y]
      BY <3>1, <3>2
    <3>4. Somma(w, s \ {y}) = Somma(w, (s \ {y}) \ {z}) + w[z]
      BY <3>1, <3>2
    <3>5. (s \ {y}) \ {z} = (s \ {z}) \ {y}
      OBVIOUS
    <3> DEFINE v  == Somma(w, (s \ {z}) \ {y})
               vz == Somma(w, s \ {z})
               vy == Somma(w, s \ {y})
               wz == w[z]
               wy == w[y]
               vs == Somma(w, s)
    <3>6. vz = v + wy /\ vy = v + wz /\ vs = wz + vz
      BY <2>2, <3>3, <3>4, <3>5
    <3>7. v \in Nat /\ wz \in Nat /\ wy \in Nat
      BY <2>3
    <3> HIDE DEF v, vz, vy, wz, wy, vs
    <3>8. vs = vy + wy
      BY <3>6, <3>7
    <3> QED
      BY <3>8 DEF vs, vy, wy
  <2> QED
    BY <2>4, <2>5
<1> HIDE DEF A
<1>2. SUBSET S \subseteq A
  BY <1>1, InduzioneInsiemi
<1> QED
  BY <1>2 DEF A

(* Two sets whose members match one to one, weight by weight, have the same sum. *)
LEMMA SommaCorrisponde ==
    ASSUME NEW S, IsFiniteSet(S), NEW w, Pesa(w, S), NEW f, NEW v,
           \A x, y \in S : f[x] = f[y] => x = y,
           \A x \in S : v[f[x]] = w[x]
    PROVE  Somma(w, S) = Somma(v, {f[x] : x \in S})
<1> DEFINE F(s) == {f[x] : x \in s}
           A == {s \in SUBSET S : IsFiniteSet(F(s)) /\ Somma(w, s) = Somma(v, F(s))}
<1>1. ASSUME NEW s \in SUBSET S, \A t \in SUBSET s : t # s => t \in A
      PROVE  s \in A
  <2>1. IsFiniteSet(s)
    BY FS_Subset
  <2>2. CASE s = {}
    <3>1. F(s) = {} /\ IsFiniteSet(F(s))
      BY <2>2, FS_EmptySet
    <3>2. Somma(w, s) = Somma(v, F(s))
      <4> HIDE DEF F
      <4> QED
        BY <2>1, <2>2, <3>1, SommaPasso
    <3> QED
      BY <3>1, <3>2
  <2>3. CASE s # {}
    <3> DEFINE x == Scelto(s)
    <3>1. x \in s
      BY <2>3, SceltoDi
    <3> HIDE DEF x
    <3>2. F(s) \ {f[x]} = F(s \ {x}) /\ f[x] \in F(s)
      BY <3>1
    <3>3. Pesa(v, F(s)) /\ Pesa(w, s)
      BY DEF Pesa
    <3>4. Somma(w, s \ {x}) = Somma(v, F(s \ {x})) /\ IsFiniteSet(F(s \ {x}))
      BY <1>1, <3>1
    <3>8. F(s) = F(s \ {x}) \cup {f[x]}
      <4> HIDE DEF F
      <4> QED
        BY <3>2
    <3> DEFINE G == F(s \ {x})
    <3>10. IsFiniteSet(G) /\ F(s) = G \cup {f[x]}
      BY <3>4, <3>8
    <3> HIDE DEF F, G
    <3>9. IsFiniteSet(F(s))
      BY <3>10, FS_AddElement
    <3>5. Somma(v, F(s)) = Somma(v, F(s) \ {f[x]}) + v[f[x]]
      BY <3>9, <3>2, <3>3, SommaTolta
    <3>6. Somma(w, s) = Somma(w, s \ {x}) + w[x]
      BY <2>1, <3>1, <3>3, SommaTolta
    <3>7. v[f[x]] = w[x]
      BY <3>1
    <3> QED
      BY <3>2, <3>4, <3>5, <3>6, <3>7, <3>9
  <2> QED
    BY <2>2, <2>3
<1> HIDE DEF A
<1>2. SUBSET S \subseteq A
  BY <1>1, InduzioneInsiemi
<1> QED
  BY <1>2 DEF A
-----------------------------------------------------------------------------
(***************************************************************************)
(* The totals.                                                             *)
(***************************************************************************)
(* The bytes of the blocks of T, as UltimoBlocco sums them. *)
Pesi(T) == [b \in T |-> Byte[b.dati]]
Lunghezza(T) == MapThenSumSet(LAMBDA b : Byte[b.dati], T)

(* The sum of UltimoBlocco is the sum of the lengths. *)
LEMMA SommaBlocchi ==
    ASSUME NEW T, IsFiniteSet(T)
    PROVE  Lunghezza(T) = Somma(Pesi(T), T)
<1> DEFINE C(g, s) == IF s = {} THEN 0 ELSE Byte[(CHOOSE x \in s : TRUE).dati] + g[s \ {CHOOSE x \in s : TRUE}]
           G == CHOOSE g : g = [s \in SUBSET T |-> C(g, s)]
           p == Parziali(Pesi(T), T)
<1>1. Lunghezza(T) = G[T]
  BY DEF Lunghezza, MapThenSumSet, MapThenFoldSet
<1>2. \A g : \A s \in SUBSET T : C(g, s) = Cifra(Pesi(T), g, s)
  <2> SUFFICES ASSUME NEW g, NEW s \in SUBSET T PROVE C(g, s) = Cifra(Pesi(T), g, s)
    OBVIOUS
  <2>1. CASE s = {}
    BY <2>1 DEF Cifra
  <2>2. CASE s # {}
    <3>1. Scelto(s) \in T
      BY <2>2, SceltoDi
    <3> QED
      BY <2>2, <3>1 DEF Cifra, Scelto, Pesi
  <2> QED
    BY <2>1, <2>2
<1>3. Risolve(Pesi(T), p, T)
  BY Esiste
<1> HIDE DEF C, p
<1>4. p = [s \in SUBSET T |-> C(p, s)]
  BY <1>2, <1>3 DEF Risolve
<1>5. G = [s \in SUBSET T |-> C(G, s)]
  BY <1>4
<1> HIDE DEF G
<1>6. Risolve(Pesi(T), G, T)
  BY <1>2, <1>5 DEF Risolve
<1>7. G[T] = p[T]
  <2>1. \A x \in T : Pesi(T)[x] = Pesi(T)[x]
    OBVIOUS
  <2> QED
    BY <1>3, <1>6, <2>1, Uguali
<1> QED
  BY <1>1, <1>7 DEF Somma, p

(* The bytes of a transcript without blocks are 0; those of T are a natural, and
   those of T without one of its blocks, and the bytes of that block. *)
LEMMA ByteTolti ==
    ASSUME NEW T \in SUBSET Blocco, IsFiniteSet(T)
    PROVE  /\ Lunghezza({}) = 0
           /\ Lunghezza(T) \in Nat
           /\ \A x \in T : Lunghezza(T) = Lunghezza(T \ {x}) + Byte[x.dati]
<1>1. Pesa(Pesi(T), T)
  BY ParametriAssumption DEF Pesa, Pesi, Blocco
<1>2. Lunghezza(T) \in Nat
  BY <1>1, SommaBlocchi, SommaTipo
<1>3. ASSUME NEW x \in T
      PROVE  Lunghezza(T) = Lunghezza(T \ {x}) + Byte[x.dati]
  <2> DEFINE R == T \ {x}
  <2>1. IsFiniteSet(R) /\ \A b \in R : Pesi(T)[b] = Pesi(R)[b]
    BY FS_Subset DEF Pesi
  <2>2. Pesi(T)[x] = Byte[x.dati]
    BY DEF Pesi
  <2>3. Somma(Pesi(T), T) = Somma(Pesi(T), R) + Pesi(T)[x]
    BY <1>1, SommaTolta
  <2> HIDE DEF R
  <2>4. Somma(Pesi(T), R) = Somma(Pesi(R), R)
    BY <2>1, SommaStessa
  <2>5. Lunghezza(R) = Somma(Pesi(R), R) /\ Lunghezza(T) = Somma(Pesi(T), T)
    BY <2>1, SommaBlocchi
  <2> QED
    BY <2>2, <2>3, <2>4, <2>5 DEF R
<1>4. Lunghezza({}) = 0
  BY FS_EmptySet, SommaBlocchi, SommaPasso
<1> QED
  BY <1>2, <1>3, <1>4

(* The blocks of T that come before b in its transcript, and the total of b when
   it is the length of those and its own. *)
Prima(T, b) == {a \in T : a.conn = b.conn /\ a.seq < b.seq}
Esatto(T, b) == b.totale = Lunghezza(Prima(T, b)) + Byte[b.dati]

(* The inductive invariant behind TotaleEsatto: the block in hand has its total
   right as well, and the blocks before it are all in the table already. *)
TotaliInv ==
    /\ \A b \in blocchi : b.conn \in Vivi /\ b.totale # Nullo => Esatto(blocchi, b)
    /\ \A r \in Richieste : pc[r] = "crea" /\ sessione[r] \in Vivi => Esatto(blocchi, riga[r])

(* The block a unique index lets in comes after every block that follows one of
   the table: before those there is no seq left. *)
LEMMA PrimaResta ==
    ASSUME NEW T \in SUBSET Blocco, NEW n \in Blocco, NEW b \in Blocco,
           b.conn = n.conn => Contigui(T, n.conn) /\ Segue(T, n) /\ (b \in T \/ Segue(T, b)),
           \A a \in T : ~(a.conn = n.conn /\ a.seq = n.seq)
    PROVE  Prima(T \cup {n}, b) = Prima(T, b)
<1> SUFFICES ASSUME n.conn = b.conn, n.seq < b.seq PROVE FALSE
  BY DEF Prima
<1> USE ParametriAssumption
<1>1. n.seq \in Int /\ b.seq \in Int /\ 1 <= n.seq
  BY DEF Segue, Blocco
<1>2. \E c \in T : c.conn = n.conn /\ n.seq <= c.seq /\ c.seq \in Int
  <2>1. CASE b \in T
    BY <1>1, <2>1
  <2>2. CASE Segue(T, b)
    <3>1. PICK a \in T : a.conn = b.conn /\ a.seq = b.seq - 1
      BY <1>1, <2>2 DEF Segue
    <3> QED
      BY <1>1, <3>1
  <2> QED
    BY <2>1, <2>2
<1>3. PICK c \in T : c.conn = n.conn /\ n.seq <= c.seq /\ c.seq \in Int
  BY <1>2
<1>4. n.seq \in 1 .. c.seq
  BY <1>1, <1>3
<1> QED
  BY <1>3, <1>4 DEF Contigui

(* The block a unique index lets in is the last of its transcript. *)
LEMMA UltimoInserito ==
    ASSUME NEW T \in SUBSET Blocco, NEW n \in Blocco, Contigui(T, n.conn), Segue(T, n),
           \A a \in T : ~(a.conn = n.conn /\ a.seq = n.seq)
    PROVE  \A a \in T : a.conn = n.conn => a.seq < n.seq
<1> SUFFICES ASSUME NEW a \in T, a.conn = n.conn, ~(a.seq < n.seq) PROVE FALSE
  OBVIOUS
<1> USE ParametriAssumption
<1>1. n.seq \in 1 .. a.seq
  BY DEF Segue, Blocco
<1> QED
  BY <1>1 DEF Contigui

(* What UltimoBlocco counts is what the last block and those before it carry. *)
LEMMA TotaleLetto ==
    ASSUME TypeOK, IsFiniteSet(blocchi), NEW i \in Id, Unici(blocchi, i),
           NEW u \in blocchi, Ultimo(i, u), u.totale # Nullo => Esatto(blocchi, u)
    PROVE  TotaleFino(i, u) = Lunghezza(Di(i))
<1>1. CASE u.totale = Nullo
  BY <1>1 DEF TotaleFino, Lunghezza
<1>2. CASE u.totale # Nullo
  <2>1. Di(i) \in SUBSET Blocco /\ IsFiniteSet(Di(i)) /\ u \in Di(i) /\ u.conn = i
    <3>1. Di(i) \subseteq blocchi
      BY DEF Di
    <3> QED
      BY <3>1, FS_Subset DEF TypeOK, Ultimo, Di
  <2>2. Lunghezza(Di(i)) = Lunghezza(Di(i) \ {u}) + Byte[u.dati]
    BY <2>1, ByteTolti
  <2>3. Di(i) \ {u} = Prima(blocchi, u)
    <3>1. \A b \in blocchi : b.conn = i /\ b # u => b.seq < u.seq
      <4> SUFFICES ASSUME NEW b \in blocchi, b.conn = i, b # u PROVE b.seq < u.seq
        OBVIOUS
      <4>1. b.seq <= u.seq /\ b.seq # u.seq
        BY <2>1 DEF Ultimo, Di, Unici
      <4>2. b.seq \in Int /\ u.seq \in Int
        BY DEF TypeOK, Blocco
      <4> QED
        BY <4>1, <4>2
    <3>2. ~(u.seq < u.seq)
      BY DEF TypeOK, Blocco
    <3> QED
      BY <2>1, <3>1, <3>2 DEF Prima, Di
  <2> QED
    BY <1>2, <2>2, <2>3 DEF Esatto, TotaleFino
<1> QED
  BY <1>1, <1>2

(* The block UltimoBlocco makes has its total right. *)
LEMMA TotaleNuovo ==
    ASSUME TypeOK, IsFiniteSet(blocchi), NEW i \in Id, Unici(blocchi, i),
           \A u \in Di(i) : u.totale # Nullo => Esatto(blocchi, u),
           NEW f \in Moduli, NEW t, Continua(i, f, t), NEW b \in Blocco,
           b.conn = i, b.seq = f.seq, b.dati = f.dati, b.totale = t
    PROVE  Esatto(blocchi, b)
<1>1. CASE Di(i) = {} /\ t = Byte[f.dati]
  <2>1. Prima(blocchi, b) = {}
    BY <1>1 DEF Prima, Di
  <2>2. Lunghezza({}) = 0
    BY ByteTolti, FS_EmptySet
  <2>3. Byte[b.dati] \in Nat
    BY ParametriAssumption DEF Blocco
  <2> QED
    BY <1>1, <2>1, <2>2, <2>3 DEF Esatto
<1>2. CASE \E u \in blocchi : Ultimo(i, u) /\ f.seq = u.seq + 1 /\ t = TotaleFino(i, u) + Byte[f.dati]
  <2>1. PICK u \in blocchi : Ultimo(i, u) /\ f.seq = u.seq + 1 /\ t = TotaleFino(i, u) + Byte[f.dati]
    BY <1>2
  <2>2. u \in Di(i)
    BY <2>1 DEF Ultimo
  <2>3. TotaleFino(i, u) = Lunghezza(Di(i))
    BY <2>1, <2>2, TotaleLetto
  <2>4. Prima(blocchi, b) = Di(i)
    <3>1. \A a \in Di(i) : a.seq \in Int /\ a.seq <= u.seq /\ u.seq \in Int
      BY <2>1 DEF Ultimo, Di, TypeOK, Blocco
    <3>2. \A a \in Di(i) : a.seq < b.seq
      BY <2>1, <3>1
    <3> QED
      BY <3>2 DEF Prima, Di
  <2> QED
    BY <2>1, <2>3, <2>4 DEF Esatto
<1> QED
  BY <1>1, <1>2 DEF Continua

(* What a step does to the table and to the connections. *)
LEMMA TavolaPasso ==
    ASSUME TypeOK, [Next]_vars
    PROVE  \/ \E c \in Coppie, t \in Tipi : CreateAuditConn(c, t)
           \/ \E ids \in SUBSET Id : BatchDeleteAuditConn(ids)
           \/ \E r \in Richieste :
                /\ pc[r] = "crea" /\ IndiceUnico(riga[r])
                /\ blocchi' = blocchi \cup {riga[r]}
                /\ UNCHANGED <<registro, prossimo>>
           \/ blocchi' = blocchi /\ Vivi' = Vivi /\ prossimo' = prossimo
<1>1. ASSUME NEW q \in registro, NEW t \in Tipi, UpdateAuditConn(q, t)
      PROVE  blocchi' = blocchi /\ Vivi' = Vivi /\ prossimo' = prossimo
  <2> DEFINE q1 == [q EXCEPT !.tipo = t]
  <2>1. q \in Riga /\ q1.id = q.id
    BY DEF TypeOK, Riga
  <2>2. registro' = (registro \ {q}) \cup {q1} /\ blocchi' = blocchi /\ prossimo' = prossimo
    BY <1>1 DEF UpdateAuditConn
  <2> HIDE DEF q1
  <2> QED
    BY <2>1, <2>2 DEF Vivi
<1>2. CASE UNCHANGED <<registro, prossimo, blocchi>>
  BY <1>2 DEF Vivi
<1>3. ASSUME NEW r \in Richieste, CreateBlocco(r)
      PROVE  \/ /\ pc[r] = "crea" /\ IndiceUnico(riga[r])
                /\ blocchi' = blocchi \cup {riga[r]}
                /\ UNCHANGED <<registro, prossimo>>
             \/ UNCHANGED <<registro, prossimo, blocchi>>
  BY <1>3 DEF CreateBlocco
<1>4. \/ Registro
      \/ \E r \in Richieste : CreateBlocco(r)
      \/ UNCHANGED <<registro, prossimo, blocchi>>
  BY DEF Next, ConnTerminale, Gestore, UltimoBlocco, Scarta, AccodaTerminale, InterrompiRichiesta,
         Scorri, LeggiPagina, VerificaBlocco, Pannello, TerminalVerify, TerminalExport,
         InterrompiLettura, Rispondi, vars
<1> QED
  BY <1>1, <1>2, <1>3, <1>4 DEF Registro

(* What a step does to the blocks in hand. *)
LEMMA MaiPresa ==
    ASSUME TypeOK, [Next]_vars, NEW q \in Richieste, pc'[q] = "crea"
    PROVE  \/ pc[q] = "crea" /\ riga'[q] = riga[q] /\ sessione'[q] = sessione[q]
           \/ UltimoBlocco(q)
<1>1. ASSUME NEW r \in Richieste, Gestore(r) \/ InterrompiRichiesta(r)
      PROVE  \/ pc[q] = "crea" /\ riga'[q] = riga[q] /\ sessione'[q] = sessione[q]
             \/ UltimoBlocco(q)
  BY <1>1 DEF Gestore, UltimoBlocco, Scarta, CreateBlocco, AccodaTerminale, InterrompiRichiesta,
              Congeda, TypeOK
<1>2. ASSUME NEW r \in Richieste, NEW c \in Coppie, ConnTerminale(r, c)
      PROVE  pc[q] = "crea" /\ riga'[q] = riga[q] /\ sessione'[q] = sessione[q]
  BY <1>2 DEF ConnTerminale, TypeOK
<1>3. \/ \E r \in Richieste : Gestore(r) \/ InterrompiRichiesta(r)
      \/ \E r \in Richieste, c \in Coppie : ConnTerminale(r, c)
      \/ UNCHANGED <<pc, sessione, riga>>
  BY DEF Next, Registro, CreateAuditConn, UpdateAuditConn, BatchDeleteAuditConn,
         Scorri, LeggiPagina, VerificaBlocco, Pannello, TerminalVerify, TerminalExport,
         InterrompiLettura, Rispondi, vars
<1> QED
  BY <1>1, <1>2, <1>3

(* The blocks before one of the table, or before one that follows one of the
   table, are there for good. *)
LEMMA PrimaFerma ==
    ASSUME TypeOK, CatenaInv, [Next]_vars, NEW b \in Blocco, b.conn \in Vivi', b.conn < prossimo,
           b.conn \in Vivi => b \in blocchi \/ Segue(blocchi, b)
    PROVE  b.conn \in Vivi /\ Prima(blocchi', b) = Prima(blocchi, b)
<1>1. b.conn \in Vivi
  BY BlocchiRestano DEF Blocco
<1>2. CASE blocchi' = blocchi
  BY <1>1, <1>2 DEF Prima
<1>3. ASSUME NEW ids \in SUBSET Id, BatchDeleteAuditConn(ids)
      PROVE  Prima(blocchi', b) = Prima(blocchi, b)
  <2>1. b.conn \notin ids /\ blocchi' = {a \in blocchi : a.conn \notin ids}
    BY <1>3 DEF BatchDeleteAuditConn, Vivi
  <2> QED
    BY <2>1 DEF Prima
<1>4. ASSUME NEW r \in Richieste, pc[r] = "crea", IndiceUnico(riga[r]),
             blocchi' = blocchi \cup {riga[r]}
      PROVE  Prima(blocchi', b) = Prima(blocchi, b)
  <2> DEFINE n == riga[r]
  <2>1. n \in Blocco /\ blocchi \in SUBSET Blocco
    BY <1>4 DEF TypeOK
  <2>2. n.conn = sessione[r] /\ (n.conn \in Vivi => Segue(blocchi, n))
    BY <1>4 DEF CatenaInv, RighePronte
  <2>3. Contigui(blocchi, b.conn)
    BY <1>1 DEF CatenaInv, CatenaIntegra, Catena
  <2>4. \A a \in blocchi : ~(a.conn = n.conn /\ a.seq = n.seq)
    BY <1>4 DEF IndiceUnico
  <2> HIDE DEF n
  <2>5. Prima(blocchi \cup {n}, b) = Prima(blocchi, b)
    BY <1>1, <2>1, <2>2, <2>3, <2>4, PrimaResta
  <2> QED
    BY <1>4, <2>5 DEF n
<1> QED
  BY <1>1, <1>2, <1>3, <1>4, TavolaPasso DEF CreateAuditConn

(* Every step keeps the totals. *)
LEMMA TotaliPasso ==
    ASSUME TypeOK, TypeOK', CatenaInv, TabellaInv, TotaliInv, [Next]_vars
    PROVE  TotaliInv'
<1>1. ASSUME NEW b \in Blocco, b.conn \in Vivi', b.conn < prossimo,
             b.conn \in Vivi => (b \in blocchi \/ Segue(blocchi, b)) /\ Esatto(blocchi, b)
      PROVE  Esatto(blocchi', b)
  <2>1. b.conn \in Vivi /\ Prima(blocchi', b) = Prima(blocchi, b)
    BY <1>1, PrimaFerma
  <2> QED
    BY <1>1, <2>1 DEF Esatto
<1>2. ASSUME NEW r \in Richieste, pc[r] = "crea", riga[r].conn \in Vivi'
      PROVE  Esatto(blocchi', riga[r])
  <2>1. riga[r] \in Blocco /\ riga[r].conn = sessione[r] /\ sessione[r] < prossimo
    BY <1>2 DEF TypeOK, CatenaInv, RighePronte, IdFreschi
  <2>2. riga[r].conn \in Vivi => Segue(blocchi, riga[r]) /\ Esatto(blocchi, riga[r])
    BY <1>2, <2>1 DEF CatenaInv, RighePronte, TotaliInv
  <2> QED
    BY <1>1, <1>2, <2>1, <2>2
<1>3. ASSUME NEW b \in blocchi', b.conn \in Vivi', b.totale # Nullo
      PROVE  Esatto(blocchi', b)
  <2>1. CASE b \in blocchi
    <3>1. b \in Blocco /\ b.conn < prossimo
      BY <2>1 DEF TypeOK, CatenaInv, IdFreschi
    <3>2. b.conn \in Vivi => Esatto(blocchi, b)
      BY <1>3, <2>1 DEF TotaliInv
    <3> QED
      BY <1>1, <1>3, <2>1, <3>1, <3>2
  <2>2. CASE b \notin blocchi
    <3>1. PICK r \in Richieste : pc[r] = "crea" /\ b = riga[r]
      BY <1>3, <2>2, TavolaPasso DEF CreateAuditConn, BatchDeleteAuditConn
    <3> QED
      BY <1>2, <1>3, <3>1
  <2> QED
    BY <2>1, <2>2
<1>4. ASSUME NEW q \in Richieste, UltimoBlocco(q), sessione'[q] \in Vivi'
      PROVE  Esatto(blocchi', riga'[q])
  <2> DEFINE i == sessione[q]
  <2>1. PICK f \in Moduli, t \in Totali :
          /\ Continua(i, f, t)
          /\ riga' = [riga EXCEPT ![q] =
                        [conn |-> i, seq |-> f.seq, dati |-> f.dati,
                         hash |-> HashDi(f), fine |-> f.fine, totale |-> t]]
    BY <1>4 DEF UltimoBlocco
  <2>2. riga'[q] = [conn |-> i, seq |-> f.seq, dati |-> f.dati,
                    hash |-> HashDi(f), fine |-> f.fine, totale |-> t]
    BY <2>1 DEF TypeOK
  <2>3. /\ pc'[q] = "crea" /\ blocchi' = blocchi /\ i \in Vivi /\ i \in Id
    BY <1>4 DEF UltimoBlocco, TypeOK, Vivi
  <2> DEFINE b == riga'[q]
  <2>4. b \in Blocco
    BY <2>3 DEF TypeOK
  <2>5. b.conn = i /\ b.seq = f.seq /\ b.dati = f.dati /\ b.totale = t
    BY <2>2
  <2>6. Unici(blocchi, i) /\ IsFiniteSet(blocchi)
    BY <2>3 DEF CatenaInv, CatenaIntegra, Catena, TabellaInv
  <2>7. \A u \in Di(i) : u.totale # Nullo => Esatto(blocchi, u)
    BY <2>3 DEF TotaliInv, Di
  <2> HIDE DEF b, i
  <2>8. Esatto(blocchi, b)
    BY <2>1, <2>3, <2>4, <2>5, <2>6, <2>7, TotaleNuovo
  <2> QED
    BY <2>3, <2>8 DEF b
<1>5. ASSUME NEW q \in Richieste, pc'[q] = "crea", sessione'[q] \in Vivi'
      PROVE  Esatto(blocchi', riga'[q])
  <2>1. CASE UltimoBlocco(q)
    BY <1>4, <1>5, <2>1
  <2>2. CASE pc[q] = "crea" /\ riga'[q] = riga[q] /\ sessione'[q] = sessione[q]
    BY <1>2, <1>5, <2>2 DEF CatenaInv, RighePronte
  <2> QED
    BY <1>5, <2>1, <2>2, MaiPresa
<1> QED
  BY <1>3, <1>5 DEF TotaliInv

(* The total of a block that has it is the length of the transcript up to it. *)
LEMMA TotaliBastano ==
    ASSUME TypeOK, CatenaInv, TabellaInv, TotaliInv
    PROVE  TotaleEsatto
<1> SUFFICES ASSUME NEW b \in blocchi, b.conn \in Vivi, b.totale # Nullo
             PROVE  b.totale = Lunghezza({a \in Di(b.conn) : a.seq <= b.seq})
  BY DEF TotaleEsatto, Lunghezza
<1> DEFINE F == {a \in Di(b.conn) : a.seq <= b.seq}
<1>1. b \in Blocco /\ \A a \in blocchi : a.seq \in Int
  BY DEF TypeOK, Blocco
<1>2. F \in SUBSET Blocco /\ IsFiniteSet(F) /\ b \in F
  <2>1. F \subseteq blocchi /\ b \in F
    BY <1>1 DEF Di
  <2> QED
    BY <2>1, FS_Subset DEF TypeOK, TabellaInv
<1>3. F \ {b} = Prima(blocchi, b)
  <2>1. \A a \in blocchi : a.conn = b.conn /\ a.seq = b.seq => a = b
    BY DEF CatenaInv, CatenaIntegra, Catena, Unici
  <2>2. \A a \in blocchi : a.conn = b.conn => (a.seq <= b.seq /\ a # b <=> a.seq < b.seq)
    BY <1>1, <2>1
  <2> QED
    BY <2>2 DEF Prima, Di
<1>4. Esatto(blocchi, b)
  BY DEF TotaliInv
<1> HIDE DEF F
<1>5. Lunghezza(F) = Lunghezza(F \ {b}) + Byte[b.dati]
  BY <1>2, ByteTolti
<1> QED
  BY <1>3, <1>4, <1>5 DEF Esatto, F

(* The totals are right in every reachable state. *)
LEMMA TotaliSempre == Spec => []TotaliInv
<1>1. Init => TotaliInv
  BY VecchiAssumption DEF Init, TotaliInv
<1>2. TrascrizioneInv /\ TrascrizioneInv' /\ TotaliInv /\ [Next]_vars => TotaliInv'
  BY TotaliPasso DEF TrascrizioneInv
<1> QED
  BY <1>1, <1>2, InvariantiTrascrizione, PTL DEF Spec

(* The total saved in a block, which salvaBlocco trusts instead of summing, is
   the length of the transcript up to it, whatever requests, deletions and deaths
   come between the reading of the last block and the saving of the next. *)
THEOREM TotaleSempreEsatto == Spec => []TotaleEsatto
<1>1. TrascrizioneInv /\ TotaliInv => TotaleEsatto
  BY TotaliBastano DEF TrascrizioneInv
<1> QED
  BY <1>1, InvariantiTrascrizione, TotaliSempre, PTL
-----------------------------------------------------------------------------
(***************************************************************************)
(* The journal.                                                            *)
(***************************************************************************)
(* A set of blocks that is finite and not empty has a last one. *)
LEMMA UltimoEsiste ==
    ASSUME NEW R, IsFiniteSet(R), R # {}, \A b \in R : b.seq \in Int
    PROVE  \E u \in R : \A b \in R : b.seq <= u.seq
<1> DEFINE A == {s \in SUBSET R : s = {} \/ \E u \in s : \A b \in s : b.seq <= u.seq}
<1>1. ASSUME NEW s \in SUBSET R, \A t \in SUBSET s : t # s => t \in A
      PROVE  s \in A
  <2> SUFFICES ASSUME s # {} PROVE \E u \in s : \A b \in s : b.seq <= u.seq
    OBVIOUS
  <2>1. PICK x \in s : TRUE
    OBVIOUS
  <2>2. s \ {x} \in A
    BY <1>1, <2>1
  <2>3. CASE s \ {x} = {}
    <3>1. \A b \in s : b.seq <= x.seq
      BY <2>1, <2>3
    <3> QED
      BY <2>1, <3>1
  <2>4. CASE \E u \in s \ {x} : \A b \in s \ {x} : b.seq <= u.seq
    <3>1. PICK u \in s \ {x} : \A b \in s \ {x} : b.seq <= u.seq
      BY <2>4
    <3>2. CASE x.seq <= u.seq
      BY <3>1, <3>2
    <3>3. CASE ~(x.seq <= u.seq)
      <4>1. \A b \in s : b.seq <= x.seq
        BY <2>1, <3>1, <3>3
      <4> QED
        BY <2>1, <4>1
    <3> QED
      BY <3>2, <3>3
  <2> QED
    BY <2>2, <2>3, <2>4
<1> HIDE DEF A
<1>2. SUBSET R \subseteq A
  BY <1>1, InduzioneInsiemi
<1> QED
  BY <1>2 DEF A

Blocchi(T, i) == {b \in T : b.conn = i}

(* The blocks of a transcript are numbered from 1 to their number. *)
LEMMA Numerazione ==
    ASSUME NEW T \in SUBSET Blocco, IsFiniteSet(T), NEW i, Unici(T, i), Contigui(T, i)
    PROVE  LET R == Blocchi(T, i)
               n == Cardinality(R)
           IN  /\ IsFiniteSet(R) /\ n \in Nat
               /\ \A b \in R : b.seq \in 1 .. n
               /\ \A s \in 1 .. n : \E b \in R : b.seq = s
<1> DEFINE R == Blocchi(T, i)
<1>1. /\ IsFiniteSet(R) /\ R \subseteq T /\ \A b \in R : b.seq \in Int /\ b.conn = i
      /\ \A b \in T : b.conn = i => b \in R
  BY FS_Subset DEF Blocco, Blocchi
<1>2. \E n \in Nat : /\ \A b \in R : b.seq \in 1 .. n
                     /\ \A s \in 1 .. n : \E b \in R : b.seq = s
  <2>1. CASE R = {}
    <3>1. \A s \in 1 .. 0 : FALSE
      OBVIOUS
    <3> QED
      BY <2>1, <3>1
  <2>2. CASE R # {}
    <3> HIDE DEF R
    <3>1. PICK u \in R : \A b \in R : b.seq <= u.seq
      BY <1>1, <2>2, UltimoEsiste
    <3>2. \A b \in R : b.seq \in 1 .. BlocchiMax /\ \A s \in 1 .. b.seq : \E a \in R : a.seq = s
      BY <1>1 DEF Contigui
    <3>3. u.seq \in Nat /\ \A b \in R : b.seq \in 1 .. u.seq
      BY <3>1, <3>2, ParametriAssumption
    <3> QED
      BY <3>2, <3>3
  <2> QED
    BY <2>1, <2>2
<1>3. PICK n \in Nat : /\ \A b \in R : b.seq \in 1 .. n
                       /\ \A s \in 1 .. n : \E b \in R : b.seq = s
  BY <1>2
<1>4. Cardinality(R) = n
  <2> HIDE DEF R
  <2> DEFINE k == n + 1
             z == 0
  <2>1. \A a, b \in R : a.seq = b.seq => a = b
    BY <1>1 DEF Unici
  <2>2. k \in Int /\ z \in Int /\ z < k
    OBVIOUS
  <2>3. \A b \in R : z < b.seq
    BY <1>3
  <2>4. \A s \in z + 1 .. k - 1 : \E b \in R : b.seq = s
    BY <1>3
  <2>5. \A b : b \in R <=> b \in R /\ b.seq < k
    BY <1>3
  <2>6. k - 1 - z = n
    OBVIOUS
  <2> HIDE DEF k, z
  <2>7. IsFiniteSet(R) /\ Cardinality(R) = k - 1 - z
    <3>1. \A b \in R : b.seq \in Int
      BY <1>1
    <3> QED
      BY <2>1, <2>2, <2>3, <2>4, <2>5, <3>1, Numerati
  <2> QED
    BY <2>6, <2>7
<1> QED
  BY <1>1, <1>3, <1>4

(* The weight of a journal is the sum of the lengths of its contents. *)
LEMMA PesoSomma ==
    ASSUME NEW n \in Nat, NEW d, DOMAIN d = 1 .. n
    PROVE  Diario!Peso(d) = Somma([k \in 1 .. n |-> Byte[d[k]]], 1 .. n)
<1> DEFINE D == 1 .. n
           w == [k \in D |-> Byte[d[k]]]
           C(g, s) == IF s = {} THEN 0 ELSE Byte[d[CHOOSE x \in s : TRUE]] + g[s \ {CHOOSE x \in s : TRUE}]
           G == CHOOSE g : g = [s \in SUBSET D |-> C(g, s)]
           p == Parziali(w, D)
<1>0. IsFiniteSet(D)
  BY FS_Interval
<1>1. Diario!Peso(d) = G[D]
  BY DEF Diario!Peso, Diario!MapThenSumSet, Diario!MapThenFoldSet, MapThenSumSet, MapThenFoldSet
<1>2. \A g : \A s \in SUBSET D : C(g, s) = Cifra(w, g, s)
  <2> SUFFICES ASSUME NEW g, NEW s \in SUBSET D PROVE C(g, s) = Cifra(w, g, s)
    OBVIOUS
  <2>1. CASE s = {}
    BY <2>1 DEF Cifra
  <2>2. CASE s # {}
    <3>1. Scelto(s) \in D
      BY <2>2, SceltoDi
    <3>2. w[Scelto(s)] = Byte[d[Scelto(s)]]
      BY <3>1
    <3> HIDE DEF w, D
    <3> QED
      BY <2>2, <3>2 DEF Cifra, Scelto
  <2> QED
    BY <2>1, <2>2
<1> HIDE DEF C, p, D, w
<1>3. Risolve(w, p, D)
  BY <1>0, Esiste DEF p
<1>4. p = [s \in SUBSET D |-> C(p, s)]
  BY <1>2, <1>3 DEF Risolve
<1>5. G = [s \in SUBSET D |-> C(G, s)]
  BY <1>4
<1> HIDE DEF G
<1>6. Risolve(w, G, D)
  BY <1>2, <1>5 DEF Risolve
<1>7. G[D] = p[D]
  <2>1. \A x \in D : w[x] = w[x]
    OBVIOUS
  <2> QED
    BY <1>0, <1>3, <1>6, <2>1, Uguali
<1> QED
  BY <1>1, <1>7 DEF Somma, p, D, w

(* The journal of a transcript weighs what its blocks do. *)
LEMMA PesoDiario ==
    ASSUME NEW T \in SUBSET Blocco, IsFiniteSet(T), NEW i, Unici(T, i), Contigui(T, i)
    PROVE  Diario!Peso(DiarioDi(T, i)) = Lunghezza(Blocchi(T, i))
<1> DEFINE R == Blocchi(T, i)
           n == Cardinality(R)
           d == DiarioDi(T, i)
           f == [b \in R |-> b.seq]
           v == [k \in 1 .. n |-> Byte[d[k]]]
           w == Pesi(R)
<1>1. /\ IsFiniteSet(R) /\ n \in Nat
      /\ \A b \in R : b.seq \in 1 .. n
      /\ \A s \in 1 .. n : \E b \in R : b.seq = s
  BY Numerazione
<1>2. \A a, b \in R : a.seq = b.seq => a = b
  BY DEF Unici, Blocchi
<1>3. d = [k \in 1 .. n |-> (CHOOSE b \in R : b.seq = k).dati]
  BY DEF DiarioDi, Blocchi
<1>4. R \subseteq T
  BY DEF Blocchi
<1> HIDE DEF R, n, d
<1>5. \A b \in R : d[b.seq] = b.dati
  <2> SUFFICES ASSUME NEW b \in R PROVE d[b.seq] = b.dati
    OBVIOUS
  <2>1. (CHOOSE a \in R : a.seq = b.seq) = b
    BY <1>2
  <2> QED
    BY <1>1, <1>3, <2>1
<1>6. \A b \in R : v[f[b]] = w[b]
  BY <1>1, <1>5 DEF Pesi
<1>7. Pesa(w, R)
  BY <1>4, ParametriAssumption DEF Pesa, Pesi, Blocco
<1>8. {f[b] : b \in R} = 1 .. n
  BY <1>1
<1>9. \A a, b \in R : f[a] = f[b] => a = b
  BY <1>2
<1> HIDE DEF f, w
<1>10. Somma(w, R) = Somma(v, 1 .. n)
  <2> HIDE DEF v
  <2>1. Somma(w, R) = Somma(v, {f[b] : b \in R})
    BY <1>1, <1>6, <1>7, <1>9, SommaCorrisponde
  <2> QED
    BY <1>8, <2>1
<1>11. Diario!Peso(d) = Somma(v, 1 .. n)
  BY <1>1, <1>3, PesoSomma
<1>12. Lunghezza(R) = Somma(w, R)
  BY <1>1, SommaBlocchi DEF w
<1> QED
  BY <1>10, <1>11, <1>12 DEF R, d

(* A transcript without blocks has an empty journal. *)
LEMMA DiarioVuoto ==
    ASSUME NEW T, NEW i, \A b \in T : b.conn # i
    PROVE  DiarioDi(T, i) = << >>
<1> DEFINE R == {b \in T : b.conn = i}
<1>1. Cardinality(R) = 0
  <2>1. R = {}
    OBVIOUS
  <2> HIDE DEF R
  <2> QED
    BY <2>1, FS_EmptySet
<1>2. DiarioDi(T, i) = [n \in 1 .. Cardinality(R) |-> (CHOOSE b \in R : b.seq = n).dati]
  BY DEF DiarioDi
<1> HIDE DEF R
<1>3. 1 .. Cardinality(R) = {}
  BY <1>1
<1> QED
  BY <1>2, <1>3

(* The journal of a connection depends on its own blocks alone. *)
LEMMA DiarioStesso ==
    ASSUME NEW T, NEW S, NEW i, \A b : b.conn = i => (b \in T <=> b \in S)
    PROVE  DiarioDi(T, i) = DiarioDi(S, i)
<1> DEFINE R == {b \in T : b.conn = i}
           Q == {b \in S : b.conn = i}
<1>1. /\ DiarioDi(T, i) = [n \in 1 .. Cardinality(R) |-> (CHOOSE b \in R : b.seq = n).dati]
      /\ DiarioDi(S, i) = [n \in 1 .. Cardinality(Q) |-> (CHOOSE b \in Q : b.seq = n).dati]
  BY DEF DiarioDi
<1>2. R = Q
  OBVIOUS
<1> HIDE DEF R, Q
<1> QED
  BY <1>1, <1>2

(* A new last block is one more content at the end of the journal. *)
LEMMA DiarioCresce ==
    ASSUME NEW T \in SUBSET Blocco, IsFiniteSet(T), NEW b \in Blocco,
           Unici(T, b.conn), Contigui(T, b.conn), Segue(T, b),
           \A a \in T : ~(a.conn = b.conn /\ a.seq = b.seq)
    PROVE  /\ DiarioDi(T, b.conn) \in Seq(Dati)
           /\ Len(DiarioDi(T, b.conn)) = b.seq - 1
           /\ DiarioDi(T \cup {b}, b.conn) = Append(DiarioDi(T, b.conn), b.dati)
<1> DEFINE i == b.conn
           R == Blocchi(T, i)
           S == Blocchi(T \cup {b}, i)
           n == Cardinality(R)
           d == DiarioDi(T, i)
           e == DiarioDi(T \cup {b}, i)
<1>1. /\ IsFiniteSet(R) /\ n \in Nat
      /\ \A a \in R : a.seq \in 1 .. n
      /\ \A s \in 1 .. n : \E a \in R : a.seq = s
  BY Numerazione
<1>2. \A a, c \in R : a.seq = c.seq => a = c
  BY DEF Unici, Blocchi
<1>3. \A a \in R : a.seq < b.seq
  BY UltimoInserito DEF Blocchi
<1>4. b.seq \in Int /\ 1 <= b.seq /\ (b.seq = 1 \/ \E a \in R : a.seq = b.seq - 1)
  BY ParametriAssumption DEF Segue, Blocchi
<1>5. S = R \cup {b} /\ b \notin R
  BY <1>3, <1>4 DEF Blocchi
<1>6. d = [k \in 1 .. n |-> (CHOOSE a \in R : a.seq = k).dati]
  BY DEF DiarioDi, Blocchi
<1>7. e = [k \in 1 .. Cardinality(S) |-> (CHOOSE a \in S : a.seq = k).dati]
  BY DEF DiarioDi, Blocchi
<1>8. \A a \in R : a.dati \in Dati
  BY DEF Blocchi, Blocco
<1>9. b.dati \in Dati
  BY DEF Blocco
<1> HIDE DEF R, S, n, d, e
<1>10. b.seq = n + 1
  <2>1. CASE n = 0
    <3>1. R = {}
      BY <1>1, <2>1
    <3> QED
      BY <1>4, <2>1, <3>1
  <2>2. CASE n # 0
    <3>1. \E a \in R : a.seq = n
      BY <1>1, <2>2
    <3>2. n < b.seq
      BY <1>3, <3>1
    <3>3. b.seq - 1 <= n
      BY <1>1, <1>4
    <3> QED
      BY <1>1, <1>4, <3>2, <3>3
  <2> QED
    BY <2>1, <2>2
<1>11. Cardinality(S) = n + 1
  BY <1>1, <1>5, FS_AddElement DEF n
<1>12. \A k \in 1 .. n : /\ (CHOOSE a \in R : a.seq = k) \in R
                         /\ (CHOOSE a \in S : a.seq = k) = (CHOOSE a \in R : a.seq = k)
  <2> SUFFICES ASSUME NEW k \in 1 .. n
               PROVE  /\ (CHOOSE a \in R : a.seq = k) \in R
                      /\ (CHOOSE a \in S : a.seq = k) = (CHOOSE a \in R : a.seq = k)
    OBVIOUS
  <2> DEFINE y == CHOOSE a \in R : a.seq = k
             z == CHOOSE a \in S : a.seq = k
  <2>1. \E a \in R : a.seq = k
    BY <1>1
  <2>2. y \in R /\ y.seq = k
    BY <2>1
  <2>3. z \in S /\ z.seq = k
    BY <1>5, <2>1
  <2>4. z \in R
    BY <1>1, <1>5, <1>10, <2>3
  <2> HIDE DEF y, z
  <2>5. y = z
    BY <1>2, <2>2, <2>3, <2>4
  <2> QED
    BY <2>2, <2>5 DEF y, z
<1>13. \A k : k = n + 1 => (CHOOSE a \in S : a.seq = k) = b
  <2> SUFFICES ASSUME NEW k, k = n + 1 PROVE (CHOOSE a \in S : a.seq = k) = b
    OBVIOUS
  <2> DEFINE z == CHOOSE a \in S : a.seq = k
  <2>1. b \in S /\ b.seq = k
    BY <1>5, <1>10
  <2>2. z \in S /\ z.seq = k
    BY <2>1
  <2> HIDE DEF z
  <2>3. z \notin R
    BY <1>1, <2>2
  <2>4. z = b
    BY <1>5, <2>2, <2>3
  <2> QED
    BY <2>4 DEF z
<1>14. d \in Seq(Dati) /\ Len(d) = n
  <2>1. d \in [1 .. n -> Dati]
    BY <1>6, <1>8, <1>12
  <2> QED
    BY <1>1, <2>1
<1>15. e = [k \in 1 .. n + 1 |-> IF k = n + 1 THEN b.dati ELSE d[k]]
  <2>1. \A k \in 1 .. n + 1 :
          (CHOOSE a \in S : a.seq = k).dati = IF k = n + 1 THEN b.dati ELSE d[k]
    <3> SUFFICES ASSUME NEW k \in 1 .. n + 1
                 PROVE  (CHOOSE a \in S : a.seq = k).dati = IF k = n + 1 THEN b.dati ELSE d[k]
      OBVIOUS
    <3>1. CASE k = n + 1
      <4> DEFINE z == CHOOSE a \in S : a.seq = k
      <4>1. z = b
        BY <1>13, <3>1
      <4> HIDE DEF z
      <4>2. z.dati = IF k = n + 1 THEN b.dati ELSE d[k]
        BY <3>1, <4>1
      <4> QED
        BY <4>2 DEF z
    <3>2. CASE k # n + 1
      <4>1. k \in 1 .. n
        BY <1>1, <3>2
      <4>2. d[k] = (CHOOSE a \in R : a.seq = k).dati
        BY <1>6, <4>1
      <4> QED
        BY <1>12, <3>2, <4>1, <4>2
    <3> QED
      BY <3>1, <3>2
  <2> QED
    BY <1>7, <1>11, <2>1
<1>16. e = Append(d, b.dati)
  BY <1>14, <1>15
<1>17. Len(d) = b.seq - 1
  BY <1>1, <1>10, <1>14
<1> QED
  BY <1>14, <1>16, <1>17 DEF d, e

-----------------------------------------------------------------------------
(* The journals and their states, as the refinement reads them off the tables. *)
Stati == [i \in Id |-> StatoDi(i)]
Diari == [i \in Id |-> IF i \in Vivi THEN DiarioDi(blocchi, i) ELSE << >>]

(* The tables a server finds hold journals the promise starts from. *)
LEMMA InizioDiario == Init => Diario!Init
<1> SUFFICES ASSUME Init PROVE Diario!Init
  OBVIOUS
<1> USE ParametriAssumption
<1>1. CASE registro = {}
  <2>1. Vivi = {} /\ prossimo = 1
    BY <1>1 DEF Init, Vivi
  <2>2. \A i \in Id : StatoDi(i) = "nuova"
    BY <2>1 DEF StatoDi, Id
  <2>3. Stati = [i \in Id |-> "nuova"] /\ Diari = [i \in Id |-> << >>]
    BY <2>1, <2>2 DEF Stati, Diari
  <2> QED
    BY <2>3 DEF Diario!Init, Stati, Diari
<1>2. ASSUME NEW c \in Coppie, registro = {[id |-> 1, coppia |-> c, tipo |-> "terminale"]}
      PROVE  Diario!Init
  <2>1. Vivi = {1} /\ prossimo = 2 /\ blocchi = Vecchi
    BY <1>2 DEF Init, Vivi
  <2>2. PICK s \in {"aperta", "chiusa"} : StatoDi(1) = s
    BY <2>1 DEF StatoDi
  <2>3. \A i \in Id : i # 1 => StatoDi(i) = "nuova"
    BY <2>1 DEF StatoDi, Id
  <2>4. Stati = [i \in Id |-> IF i = 1 THEN s ELSE "nuova"]
    BY <2>2, <2>3 DEF Stati
  <2>5. Diari = [i \in Id |-> IF i = 1 THEN DiarioDi(Vecchi, 1) ELSE << >>]
    BY <2>1 DEF Diari
  <2> QED
    BY <2>4, <2>5 DEF Diario!Init, Stati, Diari
<1> QED
  BY <1>1, <1>2 DEF Init

(* Connection i keeps its state and its journal when it keeps its row and its
   blocks. *)
LEMMA StatoResta ==
    ASSUME NEW i \in Id, i \in Vivi' <=> i \in Vivi, (i >= prossimo)' <=> i >= prossimo,
           i \in Vivi => \A b : b.conn = i => (b \in blocchi' <=> b \in blocchi)
    PROVE  StatoDi(i)' = StatoDi(i) /\ Diari'[i] = Diari[i]
<1>1. CASE i \in Vivi
  <2>1. Di(i)' = Di(i)
    BY <1>1 DEF Di
  <2>2. DiarioDi(blocchi', i) = DiarioDi(blocchi, i)
    BY <1>1, DiarioStesso
  <2> QED
    BY <1>1, <2>1, <2>2 DEF StatoDi, Diari
<1>2. CASE i \notin Vivi
  BY <1>2 DEF StatoDi, Diari
<1> QED
  BY <1>1, <1>2

(* A step of the program is a step of the journals, or leaves them as they are. *)
LEMMA PassoDiario ==
    ASSUME TypeOK, TypeOK', CatenaInv, TabellaInv, TotaliInv, [Next]_vars
    PROVE  Diario!Next \/ UNCHANGED <<Stati, Diari>>
<1> USE ParametriAssumption
<1>0. prossimo \in Nat /\ Vivi \subseteq Id /\ \A i \in Vivi : i < prossimo
  BY DEF TypeOK, Vivi, Riga, CatenaInv, IdFreschi
<1>1. CASE blocchi' = blocchi /\ Vivi' = Vivi /\ prossimo' = prossimo
  <2>1. \A i \in Id : StatoDi(i)' = StatoDi(i) /\ Diari'[i] = Diari[i]
    BY <1>1, StatoResta
  <2> QED
    BY <2>1 DEF Stati, Diari
<1>2. ASSUME NEW c \in Coppie, NEW t \in Tipi, CreateAuditConn(c, t)
      PROVE  Diario!Next
  <2>0. prossimo \in Id
    BY <1>2 DEF CreateAuditConn, TypeOK, Id
  <2> SUFFICES ASSUME NEW n \in Id, n = prossimo PROVE Diario!Next
    BY <2>0
  <2>1. prossimo' = n + 1 /\ Vivi' = Vivi \cup {n} /\ n \notin Vivi /\ blocchi' = blocchi
    <3> DEFINE q == [id |-> prossimo, coppia |-> c, tipo |-> t]
    <3>1. registro' = registro \cup {q} /\ q.id = n
      BY <1>2 DEF CreateAuditConn
    <3> HIDE DEF q
    <3> QED
      BY <1>0, <1>2, <3>1 DEF CreateAuditConn, Vivi
  <2>2. \A b \in blocchi : b.conn # n
    BY <1>0 DEF CatenaInv, IdFreschi, TypeOK, Blocco, Id
  <2>3. ASSUME NEW i \in Id, i # n
        PROVE  StatoDi(i)' = StatoDi(i) /\ Diari'[i] = Diari[i]
    <3>1. (i >= prossimo)' <=> i >= prossimo
      BY <1>0, <2>1, <2>3 DEF Id
    <3> QED
      BY <2>1, <2>3, <3>1, StatoResta
  <2>4. StatoDi(n) = "nuova" /\ \A j \in Id : j < n => StatoDi(j) # "nuova"
    BY <1>0 DEF StatoDi, Id
  <2>5. StatoDi(n)' = "aperta"
    BY <1>0, <2>1, <2>2 DEF StatoDi, Di
  <2>6. Diari'[n] = Diari[n]
    <3>1. DiarioDi(blocchi', n) = << >>
      BY <2>1, <2>2, DiarioVuoto
    <3> QED
      BY <2>1, <3>1 DEF Diari
  <2>7. Diari' = Diari
    BY <2>3, <2>6 DEF Diari
  <2>8. Stati' = [Stati EXCEPT ![n] = "aperta"]
    BY <2>3, <2>5 DEF Stati
  <2>9. Diario!Apri(n)
    BY <2>4, <2>7, <2>8 DEF Diario!Apri, Stati, Diari
  <2> QED
    BY <2>9 DEF Diario!Next
<1>3. ASSUME NEW ids \in SUBSET Id, BatchDeleteAuditConn(ids)
      PROVE  Diario!Next
  <2>1. /\ prossimo' = prossimo /\ Vivi' = Vivi \ ids
        /\ blocchi' = {b \in blocchi : b.conn \notin ids}
    BY <1>3 DEF BatchDeleteAuditConn, Vivi
  <2>2. ASSUME NEW i \in Id, i \notin ids
        PROVE  StatoDi(i)' = StatoDi(i) /\ Diari'[i] = Diari[i]
    <3>1. \A b : b.conn = i => (b \in blocchi' <=> b \in blocchi)
      BY <2>1, <2>2
    <3> QED
      BY <2>1, <2>2, <3>1, StatoResta
  <2>3. ASSUME NEW i \in ids
        PROVE  /\ StatoDi(i)' = IF StatoDi(i) # "nuova" THEN "cancellata" ELSE StatoDi(i)
               /\ Diari'[i] = << >>
    BY <1>0, <2>1, <2>3 DEF StatoDi, Diari, Id
  <2>4. Stati' = [i \in Id |-> IF i \in ids /\ Stati[i] # "nuova" THEN "cancellata" ELSE Stati[i]]
    BY <2>2, <2>3 DEF Stati
  <2>5. Diari' = [i \in Id |-> IF i \in ids THEN << >> ELSE Diari[i]]
    BY <2>2, <2>3 DEF Diari
  <2>6. Diario!Cancella(ids)
    BY <2>4, <2>5 DEF Diario!Cancella, Stati, Diari
  <2> QED
    BY <2>6 DEF Diario!Next
<1>4. ASSUME NEW r \in Richieste, pc[r] = "crea", IndiceUnico(riga[r]),
             blocchi' = blocchi \cup {riga[r]}, UNCHANGED <<registro, prossimo>>
      PROVE  Diario!Next \/ UNCHANGED <<Stati, Diari>>
  <2>1. riga[r] \in Blocco
    BY <1>4 DEF TypeOK
  <2> SUFFICES ASSUME NEW b \in Blocco, b = riga[r] PROVE Diario!Next \/ UNCHANGED <<Stati, Diari>>
    BY <2>1
  <2> SUFFICES ASSUME NEW i \in Id, i = b.conn PROVE Diario!Next \/ UNCHANGED <<Stati, Diari>>
    BY DEF Blocco
  <2>2. Vivi' = Vivi /\ blocchi' = blocchi \cup {b} /\ prossimo' = prossimo
    BY <1>4 DEF Vivi
  <2>3. ASSUME NEW j \in Id, j # i \/ j \notin Vivi
        PROVE  StatoDi(j)' = StatoDi(j) /\ Diari'[j] = Diari[j]
    <3>1. j \in Vivi => \A a : a.conn = j => (a \in blocchi' <=> a \in blocchi)
      BY <2>2, <2>3
    <3> QED
      BY <2>2, <3>1, StatoResta
  <2>4. CASE i \notin Vivi
    <3>1. \A j \in Id : StatoDi(j)' = StatoDi(j) /\ Diari'[j] = Diari[j]
      BY <2>3, <2>4
    <3> QED
      BY <3>1 DEF Stati, Diari
  <2>5. CASE i \in Vivi
    <3>1. /\ Unici(blocchi, i) /\ Contigui(blocchi, i) /\ IsFiniteSet(blocchi)
          /\ blocchi \in SUBSET Blocco
      BY <2>5 DEF CatenaInv, CatenaIntegra, Catena, TabellaInv, TypeOK
    <3>2. b.conn = sessione[r] /\ Segue(blocchi, b) /\ Esatto(blocchi, b)
      BY <1>4, <2>5 DEF CatenaInv, RighePronte, TotaliInv
    <3>3. \A a \in blocchi : ~(a.conn = b.conn /\ a.seq = b.seq)
      BY <1>4 DEF IndiceUnico
    <3>4. \A a \in blocchi : a.conn = i => ~a.fine
      BY <1>4, <2>5, NessunoDopoFine
    <3>5. /\ Diari[i] = DiarioDi(blocchi, i)
          /\ Diari'[i] = Append(Diari[i], b.dati)
          /\ Len(Diari[i]) = b.seq - 1
      <4>1. /\ DiarioDi(blocchi, i) \in Seq(Dati)
            /\ Len(DiarioDi(blocchi, i)) = b.seq - 1
            /\ DiarioDi(blocchi \cup {b}, i) = Append(DiarioDi(blocchi, i), b.dati)
        BY <3>1, <3>2, <3>3, DiarioCresce
      <4>2. Diari[i] = DiarioDi(blocchi, i) /\ Diari'[i] = DiarioDi(blocchi', i)
        BY <2>2, <2>5 DEF Diari
      <4> QED
        BY <2>2, <4>1, <4>2
    <3>6. Len(Diari[i]) < BlocchiMax
      BY <3>2, <3>5 DEF Segue, Blocco
    <3>7. Diario!Peso(Diari[i]) + Byte[b.dati] <= TrascrizioneMax
      <4>1. Prima(blocchi, b) = Blocchi(blocchi, i)
        <5>1. \A a \in blocchi : a.conn = b.conn => a.seq < b.seq
          BY <3>1, <3>2, <3>3, UltimoInserito
        <5> QED
          BY <5>1 DEF Prima, Blocchi
      <4>2. Diario!Peso(Diari[i]) = Lunghezza(Blocchi(blocchi, i))
        BY <3>1, <3>5, PesoDiario
      <4>3. b.totale <= TrascrizioneMax
        BY <3>2 DEF Segue
      <4> QED
        BY <3>2, <4>1, <4>2, <4>3 DEF Esatto
    <3>8. StatoDi(i) = "aperta" /\ StatoDi(i)' = IF b.fine THEN "chiusa" ELSE "aperta"
      <4>1. i < prossimo /\ ~(i >= prossimo)
        BY <1>0, <2>5 DEF Id
      <4>2. \A a \in blocchi' : a.conn = i /\ a.fine <=> a = b /\ b.fine
        BY <2>2, <3>4
      <4>3. b \in blocchi'
        BY <2>2
      <4>4. (\E a \in Di(i)' : a.fine) <=> b.fine
        BY <4>2, <4>3 DEF Di
      <4>5. ~\E a \in Di(i) : a.fine
        BY <3>4 DEF Di
      <4>6. StatoDi(i) = "aperta"
        BY <2>5, <4>1, <4>5 DEF StatoDi
      <4>7. StatoDi(i)' = IF b.fine THEN "chiusa" ELSE "aperta"
        BY <2>2, <2>5, <4>1, <4>4 DEF StatoDi
      <4> QED
        BY <4>6, <4>7
    <3>9. Diari' = [Diari EXCEPT ![i] = Append(@, b.dati)]
      BY <2>3, <3>5 DEF Diari
    <3>10. Stati' = [Stati EXCEPT ![i] = IF b.fine THEN "chiusa" ELSE @]
      BY <2>3, <3>8 DEF Stati
    <3>11. b.dati \in Dati /\ b.fine \in BOOLEAN /\ Stati[i] = "aperta"
      BY <3>8 DEF Blocco, Stati
    <3>12. Diario!Aggiungi(i, b.dati, b.fine)
      BY <3>6, <3>7, <3>9, <3>10, <3>11 DEF Diario!Aggiungi, Stati, Diari
    <3> QED
      BY <3>11, <3>12 DEF Diario!Next
  <2> QED
    BY <2>4, <2>5
<1> QED
  BY <1>1, <1>2, <1>3, <1>4, TavolaPasso

(* The handlers, the panel and the deletions, step by step, do to the journals
   what the promise allows: one content at a time at the end, within the limits,
   until the end of the session or the deletion of the connection. *)
THEOREM DiarioMantenuto == Spec => ImplementaDiario
<1>1. Init => Diario!Init
  BY InizioDiario
<1>2. TrascrizioneInv /\ TrascrizioneInv' /\ TotaliInv /\ [Next]_vars
        => [Diario!Next]_<<[i \in Id |-> StatoDi(i)],
                           [i \in Id |-> IF i \in Vivi THEN DiarioDi(blocchi, i) ELSE << >>]>>
  BY PassoDiario DEF TrascrizioneInv, Stati, Diari
<1> QED
  BY <1>1, <1>2, InvariantiTrascrizione, TotaliSempre, PTL DEF Spec, ImplementaDiario, Diario!Spec
=============================================================================
