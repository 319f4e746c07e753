----------------------------- MODULE Trascrizione -----------------------------
(***************************************************************************)
(* The transcript of the terminal sessions (src/service/audit.go and the   *)
(* handlers of POST /api/audit/terminal and /api/admin/audit_conn).        *)
(*                                                                         *)
(* The controlled PC posts its transcript one block per request; gin runs  *)
(* every request in a goroutine of its own, and the database (SQLite, one  *)
(* connection) interleaves the requests between one statement and the      *)
(* next.  So a request here is a process that goes through the statements  *)
(* of its handler one action at a time, keeping what it has read.          *)
(*                                                                         *)
(* A table is the set of its rows.  A hash is the sequence of the contents *)
(* (dir and data) it was computed from: SHA-256 without collisions.        *)
(***************************************************************************)
EXTENDS Integers, FiniteSets, Sequences, FiniteSetsExt

CONSTANTS
    Richieste,       \* the requests that can run at once
    Lettori,         \* the panel's readings (verify, export) that can run at once
    Coppie,          \* the pairs peer_id, conn_id: a restarted PC uses one again
    Dati,            \* what a block can carry: its dir and its data
    Byte,            \* [Dati -> Nat], the length of the data
    DirIgnota,       \* the members of Dati whose dir is neither in nor out
    BloccoMax,       \* model.BloccoTerminaleMax
    TrascrizioneMax, \* model.TrascrizioneTerminale
    BlocchiMax,      \* model.BlocchiTerminaleMax
    PaginaTerminale, \* blocks read by one query of ScorriTerminale
    Vecchi,          \* the rows of connection 1 saved before version 269
    Integrazione,    \* whether the integration is on (Integrazione.Attiva)
    Guasti,          \* whether a request may die half way
    MaxConn,         \* bound: connections ever registered
    Nessuno          \* a process that does nothing

Id        == 1 .. MaxConn
Processi  == Richieste \cup Lettori
Tipi      == {"altro", "terminale"}    \* AuditConnTerminale or any other type
Nullo     == -1                        \* the NULL of column totale
Hash      == Seq(Dati)
HashZero  == << >>

HashBlocco(prec, dati) == Append(prec, dati)

Blocco == [conn : Id, seq : Int, dati : Dati, hash : Hash, fine : BOOLEAN,
           totale : Int]

Riga == [id : Id, coppia : Coppie, tipo : Tipi]

Lettura == [conn : Id, dopo : Int, pagina : SUBSET Blocco, ultima : BOOLEAN,
            integra : BOOLEAN, blocchi : Int, fine : BOOLEAN, hash : Hash,
            prec : Hash, primoErrato : Int]

(***************************************************************************)
(* T is a well formed transcript of connection i: its blocks are numbered  *)
(* from 1 without holes, each hash continues the one before, no block      *)
(* follows the one with fine, and none passes the limits.                  *)
(***************************************************************************)
Unici(T, i) ==
    \A a, b \in T : a.conn = i /\ b.conn = i /\ a.seq = b.seq => a = b

Contigui(T, i) ==
    \A b \in T : b.conn = i =>
        /\ b.seq \in 1 .. BlocchiMax
        /\ \A s \in 1 .. b.seq : \E a \in T : a.conn = i /\ a.seq = s

Concatenati(T, i) ==
    \A b \in T : b.conn = i =>
        \/ b.seq = 1 /\ b.hash = HashBlocco(HashZero, b.dati)
        \/ \E a \in T : /\ a.conn = i
                        /\ a.seq = b.seq - 1
                        /\ ~a.fine
                        /\ b.hash = HashBlocco(a.hash, b.dati)

ChiusiDaFine(T, i) ==
    \A a, b \in T : a.conn = i /\ b.conn = i /\ a.fine => b.seq <= a.seq

EntroIlLimite(T, i) == \A b \in T : b.conn = i => b.totale <= TrascrizioneMax

Catena(T, i) ==
    /\ Unici(T, i)
    /\ Contigui(T, i)
    /\ Concatenati(T, i)
    /\ ChiusiDaFine(T, i)
    /\ EntroIlLimite(T, i)

ASSUME ParametriAssumption ==
    /\ Byte \in [Dati -> Nat] /\ DirIgnota \subseteq Dati
    /\ BloccoMax \in Nat /\ TrascrizioneMax \in Nat
    /\ BlocchiMax \in Nat \ {0}
    /\ PaginaTerminale \in Nat \ {0}
    /\ MaxConn \in Nat \ {0}
    /\ Integrazione \in BOOLEAN /\ Guasti \in BOOLEAN
    /\ Richieste \cap Lettori = {}
    /\ Nessuno \notin Blocco /\ Nessuno \notin Lettura

(* What an older version left is a transcript of connection 1, without totals. *)
ASSUME VecchiAssumption ==
    /\ IsFiniteSet(Vecchi) /\ Vecchi \subseteq Blocco
    /\ \A b \in Vecchi : b.conn = 1 /\ b.totale = Nullo /\ b.dati \notin DirIgnota
    /\ Catena(Vecchi, 1)

VARIABLES
    registro,   \* audit_conns: the rows of the connections
    prossimo,   \* the next id of audit_conns (AUTOINCREMENT: never used twice)
    blocchi,    \* audit_terminals: the rows of the blocks
    eventi,     \* terminale.chiuso events put in the queue, in order
    pc,         \* [Richieste -> where the handler is]
    sessione,   \* [Richieste -> the id of the row ConnTerminale has found]
    riga,       \* [Richieste -> the block the request is about to save]
    lettura     \* [Processi -> the state of its ScorriTerminale]

vars == <<registro, prossimo, blocchi, eventi, pc, sessione, riga, lettura>>

Vivi == {r.id : r \in registro}

Di(i) == {b \in blocchi : b.conn = i}

-----------------------------------------------------------------------------
Init ==
    /\ registro \in {{}} \cup {{[id |-> 1, coppia |-> c, tipo |-> "terminale"]} : c \in Coppie}
    /\ prossimo = IF registro = {} THEN 1 ELSE 2
    /\ blocchi = IF registro = {} THEN {} ELSE Vecchi
    /\ eventi = << >>
    /\ pc = [r \in Richieste |-> "libera"]
    /\ sessione = [r \in Richieste |-> 0]
    /\ riga = [r \in Richieste |-> Nessuno]
    /\ lettura = [p \in Processi |-> Nessuno]

(***************************************************************************)
(* The registry, as far as the transcript depends on it.  The columns the  *)
(* transcript does not read are in module RegistroConnessioni.             *)
(***************************************************************************)
CreateAuditConn(c, t) ==
    /\ prossimo <= MaxConn
    /\ registro' = registro \cup {[id |-> prossimo, coppia |-> c, tipo |-> t]}
    /\ prossimo' = prossimo + 1
    /\ UNCHANGED <<blocchi, eventi, pc, sessione, riga, lettura>>

(* The authorisation and the close write the type they carry on the row they
   read before: any row, with any type. *)
UpdateAuditConn(r, t) ==
    /\ registro' = (registro \ {r}) \cup {[r EXCEPT !.tipo = t]}
    /\ UNCHANGED <<prossimo, blocchi, eventi, pc, sessione, riga, lettura>>

(* The panel deletes connections: one transaction, blocks first. *)
BatchDeleteAuditConn(ids) ==
    /\ blocchi' = {b \in blocchi : b.conn \notin ids}
    /\ registro' = {r \in registro : r.id \notin ids}
    /\ UNCHANGED <<prossimo, eventi, pc, sessione, riga, lettura>>

-----------------------------------------------------------------------------
(* The rows with a given peer_id and conn_id; the session is the last one. *)
PiuRecente(c, r) ==
    /\ r \in registro /\ r.coppia = c
    /\ \A q \in registro : q.coppia = c => q.id <= r.id

(* A block arrives from the PC: ConnTerminale.  What the form says is chosen
   when it is first compared with the transcript, in UltimoBlocco. *)
ConnTerminale(r, c) ==
    /\ pc[r] = "libera"
    /\ \E q \in registro :
         /\ PiuRecente(c, q) /\ q.tipo = "terminale"
         /\ sessione' = [sessione EXCEPT ![r] = q.id]
    /\ pc' = [pc EXCEPT ![r] = "ultimo"]
    /\ UNCHANGED <<registro, prossimo, blocchi, eventi, riga, lettura>>

(* The forms a PC can send; hash continues prec.  One that continues nothing
   stored matches no transcript: the hashes in the table are enough. *)
Moduli ==
    [seq : 0 .. BlocchiMax + 1, dati : Dati, fine : BOOLEAN,
     prec : {HashZero} \cup {b.hash : b \in blocchi}]

HashDi(f) == HashBlocco(f.prec, f.dati)

(* What salvaBlocco accepts of a form without reading the transcript. *)
Ammissibile(f) ==
    /\ f.dati \notin DirIgnota
    /\ Byte[f.dati] <= BloccoMax
    /\ Byte[f.dati] = 0 => f.fine
    /\ f.seq <= BlocchiMax

Ultimo(i, u) == u \in Di(i) /\ \A b \in Di(i) : b.seq <= u.seq

(* Mutant: the blocks without a total count nothing. *)
TotaleFinoSenzaSomma(i, u) == IF u.totale # Nullo THEN u.totale ELSE 0

(* The bytes UltimoBlocco returns: saved in the last block, or summed. *)
TotaleFino(i, u) ==
    IF u.totale # Nullo THEN u.totale
    ELSE MapThenSumSet(LAMBDA b : Byte[b.dati], Di(i))

(* Mutant: the last block read is not asked whether it has fine. *)
ContinuaDopoFine(i, f, t) ==
    \/ Di(i) = {} /\ f.seq = 1 /\ HashDi(f) = HashBlocco(HashZero, f.dati)
       /\ t = Byte[f.dati]
    \/ \E u \in blocchi :
         /\ Ultimo(i, u) /\ f.seq = u.seq + 1 /\ HashDi(f) = HashBlocco(u.hash, f.dati)
         /\ t = TotaleFino(i, u) + Byte[f.dati]

(* The switch of salvaBlocco: the form f continues the transcript of connection
   i as UltimoBlocco reads it, and brings its total to t. *)
Continua(i, f, t) ==
    \/ /\ Di(i) = {}
       /\ f.seq = 1
       /\ HashDi(f) = HashBlocco(HashZero, f.dati)
       /\ t = Byte[f.dati]
       /\ t <= TrascrizioneMax
    \/ \E u \in blocchi :
         /\ Ultimo(i, u)
         /\ f.seq = u.seq + 1
         /\ HashDi(f) = HashBlocco(u.hash, f.dati)
         /\ ~u.fine
         /\ t = TotaleFino(i, u) + Byte[f.dati]
         /\ t <= TrascrizioneMax

(* The request is over: its goroutine keeps nothing. *)
Congeda(r) ==
    /\ pc' = [pc EXCEPT ![r] = "libera"]
    /\ sessione' = [sessione EXCEPT ![r] = 0]
    /\ riga' = [riga EXCEPT ![r] = Nessuno]

Totali == 0 .. TrascrizioneMax

UltimoBlocco(r) ==
    /\ pc[r] = "ultimo"
    /\ \E f \in {m \in Moduli : Ammissibile(m)}, t \in Totali :
         /\ Continua(sessione[r], f, t)
         /\ riga' = [riga EXCEPT ![r] =
                       [conn |-> sessione[r], seq |-> f.seq, dati |-> f.dati,
                        hash |-> HashDi(f), fine |-> f.fine, totale |-> t]]
    /\ pc' = [pc EXCEPT ![r] = "crea"]
    /\ UNCHANGED <<registro, prossimo, blocchi, eventi, sessione, lettura>>

(* A form the checks refuse: the answer is the same and nothing is saved. *)
Scarta(r) ==
    /\ pc[r] = "ultimo"
    /\ {f \in Moduli : ~(Ammissibile(f) /\ \E t \in Totali : Continua(sessione[r], f, t))} # {}
    /\ Congeda(r)
    /\ UNCHANGED <<registro, prossimo, blocchi, eventi, lettura>>

(* Mutant: the table has no unique index. *)
IndiceAssente(b) == TRUE

(* The unique index idx_audit_terminal_blocco. *)
IndiceUnico(b) == \A a \in blocchi : ~(a.conn = b.conn /\ a.seq = b.seq)

NuovaLettura(i) ==
    [conn |-> i, dopo |-> 0, pagina |-> {}, ultima |-> FALSE, integra |-> TRUE,
     blocchi |-> 0, fine |-> FALSE, hash |-> HashZero, prec |-> HashZero,
     primoErrato |-> 0]

(* Mutant: the block with fine is saved and terminaleChiuso is not called. *)
CreateBloccoSenzaEvento(r) ==
    /\ pc[r] = "crea"
    /\ blocchi' = IF IndiceUnico(riga[r]) THEN blocchi \cup {riga[r]} ELSE blocchi
    /\ Congeda(r)
    /\ UNCHANGED <<registro, prossimo, eventi, lettura>>

CreateBlocco(r) ==
    LET b == riga[r] IN
    /\ pc[r] = "crea"
    /\ \/ /\ IndiceUnico(b)
          /\ blocchi' = blocchi \cup {b}
          /\ \/ /\ b.fine /\ Integrazione          \* terminaleChiuso
                /\ pc' = [pc EXCEPT ![r] = "verifica"]
                /\ lettura' = [lettura EXCEPT ![r] = NuovaLettura(b.conn)]
                /\ UNCHANGED <<sessione, riga>>
             \/ /\ ~(b.fine /\ Integrazione)
                /\ Congeda(r)
                /\ lettura' = lettura
       \/ /\ ~IndiceUnico(b)
          /\ Congeda(r)
          /\ UNCHANGED <<blocchi, lettura>>
    /\ UNCHANGED <<registro, prossimo, eventi>>

-----------------------------------------------------------------------------
(* ScorriTerminale.  The panel reads any id; the export wants the row. *)
TerminalVerify(l, i) ==
    /\ lettura[l] = Nessuno
    /\ i < prossimo
    /\ lettura' = [lettura EXCEPT ![l] = NuovaLettura(i)]
    /\ UNCHANGED <<registro, prossimo, blocchi, eventi, pc, sessione, riga>>

TerminalExport(l, q) ==
    /\ lettura[l] = Nessuno
    /\ q.tipo = "terminale"
    /\ lettura' = [lettura EXCEPT ![l] = NuovaLettura(q.id)]
    /\ UNCHANGED <<registro, prossimo, blocchi, eventi, pc, sessione, riga>>

(* Mutant: the page starts one block too far. *)
PaginaSaltata(i, dopo) ==
    LET resto == {b \in Di(i) : b.seq > dopo + 1}
    IN  {b \in resto : Cardinality({a \in resto : a.seq < b.seq}) < PaginaTerminale}

(* The first PaginaTerminale blocks of connection i after the one numbered dopo. *)
Pagina(i, dopo) ==
    LET resto == {b \in Di(i) : b.seq > dopo}
    IN  {b \in resto : Cardinality({a \in resto : a.seq < b.seq}) < PaginaTerminale}

LeggiPagina(p) ==
    /\ lettura[p] # Nessuno
    /\ lettura[p].pagina = {} /\ ~lettura[p].ultima
    /\ LET letti == Pagina(lettura[p].conn, lettura[p].dopo) IN
       \E d \in {lettura[p].dopo} \cup {b.seq : b \in letti} :
         /\ \A b \in letti : b.seq <= d
         /\ lettura' = [lettura EXCEPT ![p] =
              [@ EXCEPT !.pagina = letti,
                        !.ultima = Cardinality(letti) < PaginaTerminale,
                        !.dopo   = d]]
    /\ UNCHANGED <<registro, prossimo, blocchi, eventi, pc, sessione, riga>>

(* One block of the page: the body of the loop of ScorriTerminale. *)
ConBlocco(v, b) ==
    LET n      == v.blocchi + 1
        valido == b.dati \notin DirIgnota
        prec   == IF v.integra /\ valido THEN HashBlocco(v.prec, b.dati) ELSE v.prec
        ok     == valido /\ b.seq = n /\ ~v.fine /\ prec = b.hash
    IN  [v EXCEPT !.blocchi     = n,
                  !.prec        = prec,
                  !.integra     = @ /\ ok,
                  !.primoErrato = IF v.integra /\ ~ok THEN b.seq ELSE @,
                  !.fine        = @ \/ b.fine,
                  !.hash        = b.hash,
                  !.pagina      = @ \ {b}]

VerificaBlocco(p) ==
    /\ lettura[p] # Nessuno
    /\ \E b \in lettura[p].pagina :
         /\ \A a \in lettura[p].pagina : b.seq <= a.seq
         /\ lettura' = [lettura EXCEPT ![p] = ConBlocco(@, b)]
    /\ UNCHANGED <<registro, prossimo, blocchi, eventi, pc, sessione, riga>>

(* Mutant: the verification stops at the end of the first page. *)
FinitaPrimaPagina(p) == lettura[p] # Nessuno /\ lettura[p].pagina = {} /\ lettura[p].dopo # 0

Finita(p) == lettura[p] # Nessuno /\ lettura[p].pagina = {} /\ lettura[p].ultima

(* The answer to the panel. *)
Rispondi(l) ==
    /\ Finita(l)
    /\ lettura' = [lettura EXCEPT ![l] = Nessuno]
    /\ UNCHANGED <<registro, prossimo, blocchi, eventi, pc, sessione, riga>>

(* The end of terminaleChiuso: the event with the outcome of the verification. *)
AccodaTerminale(r) ==
    /\ pc[r] = "verifica" /\ Finita(r)
    /\ eventi' = Append(eventi, [conn    |-> lettura[r].conn,
                                 integra |-> lettura[r].integra,
                                 hash    |-> lettura[r].hash])
    /\ lettura' = [lettura EXCEPT ![r] = Nessuno]
    /\ Congeda(r)
    /\ UNCHANGED <<registro, prossimo, blocchi>>

(* A database error or the death of the process: the goroutine ends where it
   is, what it has written stays. *)
InterrompiRichiesta(r) ==
    /\ Guasti
    /\ pc[r] # "libera"
    /\ Congeda(r)
    /\ lettura' = [lettura EXCEPT ![r] = Nessuno]
    /\ UNCHANGED <<registro, prossimo, blocchi, eventi>>

(* A reading given up half way, by the panel or by an error: always possible. *)
InterrompiLettura(l) ==
    /\ lettura[l] # Nessuno
    /\ lettura' = [lettura EXCEPT ![l] = Nessuno]
    /\ UNCHANGED <<registro, prossimo, blocchi, eventi, pc, sessione, riga>>

-----------------------------------------------------------------------------
Registro ==
    \/ \E c \in Coppie, t \in Tipi : CreateAuditConn(c, t)
    \/ \E r \in registro, t \in Tipi : UpdateAuditConn(r, t)
    \/ \E ids \in SUBSET Id : BatchDeleteAuditConn(ids)

(* A running handler goes on to its end: nothing in it waits for another. *)
Gestore(r) ==
    \/ UltimoBlocco(r)
    \/ Scarta(r)
    \/ CreateBlocco(r)
    \/ AccodaTerminale(r)

Scorri(p) == LeggiPagina(p) \/ VerificaBlocco(p)

Pannello(l) ==
    \/ \E i \in Id : TerminalVerify(l, i)
    \/ \E q \in registro : TerminalExport(l, q)
    \/ InterrompiLettura(l)

Next ==
    \/ Registro
    \/ \E r \in Richieste :
         \/ \E c \in Coppie : ConnTerminale(r, c)
         \/ Gestore(r)
         \/ InterrompiRichiesta(r)
    \/ \E p \in Processi : Scorri(p)
    \/ \E l \in Lettori : Pannello(l) \/ Rispondi(l)

Spec == Init /\ [][Next]_vars

(* The Go scheduler runs every goroutine that can run, and SQLite answers. *)
Equita ==
    /\ \A r \in Richieste : WF_vars(Gestore(r))
    /\ \A p \in Processi : WF_vars(Scorri(p))
    /\ \A l \in Lettori : WF_vars(Rispondi(l))

FairSpec == Spec /\ Equita

-----------------------------------------------------------------------------
Evento == [conn : Id, integra : BOOLEAN, hash : Hash]

(* Every variable has its type, and a handler has read what its place says. *)
TypeOK ==
    /\ registro \subseteq Riga
    /\ prossimo \in 1 .. MaxConn + 1
    /\ blocchi \subseteq Blocco
    /\ eventi \in Seq(Evento)
    /\ pc \in [Richieste -> {"libera", "ultimo", "crea", "verifica"}]
    /\ sessione \in [Richieste -> Id \cup {0}]
    /\ riga \in [Richieste -> Blocco \cup {Nessuno}]
    /\ lettura \in [Processi -> Lettura \cup {Nessuno}]
    /\ \A r \in Richieste :
         /\ pc[r] # "libera" => sessione[r] # 0
         /\ pc[r] \in {"crea", "verifica"} => riga[r] # Nessuno

(* The transcript of every connection in the registry is whole: numbered from
   1 without holes, chained, closed by fine, within the limits, whatever
   requests of salvaBlocco ran at once, were repeated or died half way. *)
CatenaIntegra == \A i \in Vivi : Catena(blocchi, i)

(* The inductive invariant behind CatenaIntegra.  Ids are fresh: nothing speaks
   of a connection that is not registered yet.  And the block a request is about
   to save still follows one that is there, or is the first: blocks leave the
   table only with their connection, so what UltimoBlocco has read can only have
   been overtaken, and then the unique index refuses the block. *)
IdFreschi ==
    /\ \A q \in registro : q.id < prossimo
    /\ \A b \in blocchi : b.conn < prossimo
    /\ \A r \in Richieste : sessione[r] < prossimo
    /\ \A p \in Processi : lettura[p] # Nessuno => lettura[p].conn < prossimo
    /\ \A n \in DOMAIN eventi : eventi[n].conn < prossimo

Segue(T, b) ==
    /\ b.seq \in 1 .. BlocchiMax
    /\ b.totale <= TrascrizioneMax
    /\ \/ b.seq = 1 /\ b.hash = HashBlocco(HashZero, b.dati)
       \/ \E a \in T : /\ a.conn = b.conn
                      /\ a.seq = b.seq - 1
                      /\ ~a.fine
                      /\ b.hash = HashBlocco(a.hash, b.dati)

RighePronte ==
    \A r \in Richieste : pc[r] = "crea" =>
        /\ riga[r].conn = sessione[r]
        /\ sessione[r] \in Vivi => Segue(blocchi, riga[r])

CatenaInv == IdFreschi /\ CatenaIntegra /\ RighePronte

(* The total saved in a block, which salvaBlocco trusts instead of summing, is
   the sum of the blocks up to it, also after rows that have none. *)
TotaleEsatto ==
    \A b \in blocchi : b.conn \in Vivi /\ b.totale # Nullo =>
        b.totale = MapThenSumSet(LAMBDA a : Byte[a.dati],
                                 {a \in Di(b.conn) : a.seq <= b.seq})

(* A reading page by page of a connection still in the registry never cries
   wolf, even with the session in progress: what it has read is a prefix of
   the transcript, and when it ends it has read the blocks there were. *)
LetturaFedele ==
    \A p \in Processi : lettura[p] # Nessuno /\ lettura[p].conn \in Vivi =>
        LET v == lettura[p] IN
        /\ v.integra
        /\ \/ v.blocchi = 0
           \/ \E b \in Di(v.conn) : b.seq = v.blocchi /\ b.hash = v.hash /\ b.fine = v.fine
        /\ Finita(p) => v.blocchi = v.dopo

(* terminale.chiuso is put in the queue once for a session, and certifies the
   chain as it ends: the hash of the block with fine. *)
EventoVeritiero ==
    /\ \A n \in DOMAIN eventi : eventi[n].conn \in Vivi =>
         /\ eventi[n].integra
         /\ \E b \in Di(eventi[n].conn) : b.fine /\ b.hash = eventi[n].hash
    /\ \A m, n \in DOMAIN eventi :
         eventi[m].conn = eventi[n].conn /\ eventi[m].conn \in Vivi => m = n

(***************************************************************************)
(* The promise of DiarioTerminale: a connection's journal is what its      *)
(* blocks carry, in order of seq.  The blocks no row owns are outside.     *)
(***************************************************************************)
StatoDi(i) ==
    IF i >= prossimo THEN "nuova"
    ELSE IF i \notin Vivi THEN "cancellata"
    ELSE IF \E b \in Di(i) : b.fine THEN "chiusa" ELSE "aperta"

DiarioDi(T, i) ==
    LET R == {b \in T : b.conn = i}
    IN  [n \in 1 .. Cardinality(R) |-> (CHOOSE b \in R : b.seq = n).dati]

Diario == INSTANCE DiarioTerminale WITH
    Iniziale <- DiarioDi(Vecchi, 1),
    stato    <- [i \in Id |-> StatoDi(i)],
    diario   <- [i \in Id |-> IF i \in Vivi THEN DiarioDi(blocchi, i) ELSE << >>]

(* Every step of the handlers, whatever their interleaving, is a step of the
   abstract journal or leaves it as it is. *)
ImplementaDiario == Diario!Spec

(* With the integration on and no request dying, a block with fine is always
   followed by a terminale.chiuso of its connection. *)
FinePortaEvento ==
    Integrazione => \A i \in Id :
        (\E b \in blocchi : b.conn = i /\ b.fine)
            ~> (\E n \in DOMAIN eventi : eventi[n].conn = i)
=============================================================================
