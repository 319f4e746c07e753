-------------------------- MODULE RegistroConnessioni --------------------------
(***************************************************************************)
(* The registry of the connections (POST /api/audit/conn, the notes, the   *)
(* panel's deletion) and the passes (lasciapassare) that verify who opens  *)
(* them: src/http/controller/api/audit.go, src/service/audit.go and        *)
(* src/service/lasciapassare.go.                                           *)
(*                                                                         *)
(* A handler reads the row, writes it with another statement and then      *)
(* queues its event: a request is a process that keeps the row it has      *)
(* read, while other requests change it.  A request that dies, or whose    *)
(* statement fails, is one that takes no other step: the specification     *)
(* obliges none to go on.  Modelled with the integration on, and without   *)
(* the column amministratore (and SegnaAmministratore, which writes only   *)
(* that): nothing here reads it.                                           *)
(***************************************************************************)
EXTENDS Integers, FiniteSets

CONSTANTS
    Richieste,      \* the requests that can run at once
    Pc,             \* the PCs registered
    Coppie,         \* the pairs [pc, conn] of a peer_id and a conn_id
    Autorizzazioni, \* what an authorisation brings: [nome, sessione]
    Note,           \* the texts of the notes
    Nonce,          \* the nonces of the passes
    Tecnici,        \* the accounts a pass names
    MaxConn,        \* bound: connections ever registered
    Nessuno         \* an empty text, nonce, note or account; no row

Id         == 1 .. MaxConn
Nomi       == {a.nome : a \in Autorizzazioni} \cup {Nessuno}
Sessioni   == {a.sessione : a \in Autorizzazioni}
SessioneNonAutorizzata == 0

Riga == [id : Id, coppia : Coppie, nome : Nomi,
         sessione : Sessioni \cup {SessioneNonAutorizzata},
         chiusa : BOOLEAN, nota : Note \cup {Nessuno},
         tecnico : Tecnici \cup {Nessuno}]

Lasciapassare == [nonce : Nonce, pc : Pc, tecnico : Tecnici, conn : Id \cup {0}]

(* What an event tells of a connection: a name or a note. *)
Detto == [conn : Id, testo : (Nomi \cup Note) \ {Nessuno}]

ASSUME RegistroAssumption ==
    /\ \A c \in Coppie : DOMAIN c = {"pc", "conn"} /\ c.pc \in Pc /\ c.conn \in Nat
    /\ \A a \in Autorizzazioni :
         /\ DOMAIN a = {"nome", "sessione"}
         /\ a.nome # Nessuno /\ a.sessione # SessioneNonAutorizzata
    /\ MaxConn \in Nat \ {0}
    /\ Nessuno \notin Note \cup Nonce \cup Tecnici \cup Riga

VARIABLES
    registro,       \* audit_conns: the set of its rows
    prossimo,       \* the next id (AUTOINCREMENT)
    lasciapassare,  \* the table of the passes
    guidNoti,       \* the rows whose guid ConnAttiva has given to somebody
    eventi,         \* what the events put in the queue tell of the rows in registro
    pc,             \* [Richieste -> where the handler is]
    modulo,         \* [Richieste -> what it has been asked]
    ex              \* [Richieste -> the row it has read (or created)]

tabelle == <<registro, prossimo, lasciapassare, eventi>>
vars    == <<tabelle, guidNoti, pc, modulo, ex>>

Passi == {"libera", "scrive", "lega", "evento"}

ModuloVuoto == [azione |-> "new", nome |-> Nessuno, sessione |-> SessioneNonAutorizzata,
                nota |-> Nessuno, nonce |-> Nessuno]

Init ==
    /\ registro = {} /\ prossimo = 1
    /\ lasciapassare = {}
    /\ guidNoti = {}
    /\ eventi = {}
    /\ pc = [r \in Richieste |-> "libera"]
    /\ modulo = [r \in Richieste |-> ModuloVuoto]
    /\ ex = [r \in Richieste |-> Nessuno]

Vivi == {q.id : q \in registro}

Comincia(r, m, q, passo) ==
    /\ pc[r] = "libera"
    /\ pc' = [pc EXCEPT ![r] = passo]
    /\ modulo' = [modulo EXCEPT ![r] = m]
    /\ ex' = [ex EXCEPT ![r] = q]

(* The handler goes on, with the row it keeps in memory; or it is over. *)
Prosegui(r, passo, q) ==
    /\ pc' = [pc EXCEPT ![r] = passo]
    /\ modulo' = IF passo = "libera" THEN [modulo EXCEPT ![r] = ModuloVuoto] ELSE modulo
    /\ ex' = [ex EXCEPT ![r] = IF passo = "libera" THEN Nessuno ELSE q]

-----------------------------------------------------------------------------
(* firmaERegistra: a pass for a PC, in the name of an account.  Who may have
   one is decided before (Rilascia, RilasciaTecnico). *)
firmaERegistra(n, p, t) ==
    /\ \A l \in lasciapassare : l.nonce # n
    /\ lasciapassare' = lasciapassare \cup {[nonce |-> n, pc |-> p, tecnico |-> t, conn |-> 0]}
    /\ UNCHANGED <<registro, prossimo, guidNoti, eventi, pc, modulo, ex>>

(* legaLasciapassare has something to do: a nonce, on a row not verified as far
   as the handler knows. *)
DaLegare(m, q) == m.nonce # Nessuno /\ q.tecnico = Nessuno

(* The socket is open: action new. *)
CreateAuditConn(r, c, n) ==
    LET q == [id |-> prossimo, coppia |-> c, nome |-> Nessuno,
              sessione |-> SessioneNonAutorizzata, chiusa |-> FALSE, nota |-> Nessuno,
              tecnico |-> Nessuno]
        m == [ModuloVuoto EXCEPT !.nonce = n]
    IN  /\ prossimo <= MaxConn
        /\ pc[r] = "libera"
        /\ registro' = registro \cup {q}
        /\ prossimo' = prossimo + 1
        /\ IF DaLegare(m, q) THEN Comincia(r, m, q, "lega") ELSE UNCHANGED <<pc, modulo, ex>>
        /\ UNCHANGED <<lasciapassare, guidNoti, eventi>>

PiuRecente(S, q) == q \in S /\ \A p \in S : p.id <= q.id

(* connessioneAudit: the close or the authorisation reads the last row of its pair. *)
InfoByPeerIdAndConnId(r, c, m) ==
    /\ \E q \in registro :
         /\ PiuRecente({p \in registro : p.coppia = c}, q)
         /\ Comincia(r, m, q, "scrive")
    /\ UNCHANGED <<tabelle, guidNoti>>

Chiusura == [ModuloVuoto EXCEPT !.azione = "close"]

Apertura(a, n) == [ModuloVuoto EXCEPT !.azione = "", !.nome = a.nome,
                       !.sessione = a.sessione, !.nonce = n]

Annotazione(nota) == [ModuloVuoto EXCEPT !.azione = "nota", !.nota = nota]

(* Mutant: sessioneNonAutorizzata is not refused. *)
DellaSessioneZero(p, s) == {q \in registro : q.coppia.pc = p /\ q.sessione = s}

(* The rows a technician reaches with a session_id: never with "0". *)
DellaSessione(p, s) ==
    {q \in registro : q.coppia.pc = p /\ q.sessione = s /\ s # SessioneNonAutorizzata}

(* scriviNota writes only a note that is not there yet. *)
scriviNota(r, q, nota) ==
    /\ q.nota # nota
    /\ Comincia(r, Annotazione(nota), q, "scrive")
    /\ UNCHANGED <<tabelle, guidNoti>>

NotaDiSessione(r, p, s, nota) ==
    \E q \in registro : PiuRecente(DellaSessione(p, s), q) /\ scriviNota(r, q, nota)

(* Whoever holds a guid reaches its row, while the row is there. *)
NotaPerGuid(q) == q.id \in guidNoti

Nota(r, nota) ==
    \E q \in registro : NotaPerGuid(q) /\ scriviNota(r, q, nota)

GuidConnessioneAperta(p, s, nome) ==
    {q \in DellaSessione(p, s) : q.nome = nome /\ ~q.chiusa}

(* The technician's PC asks for the guid of its open connection of that type. *)
ConnAttiva(p, s, nome) ==
    /\ \E q \in registro :
         /\ PiuRecente(GuidConnessioneAperta(p, s, nome), q)
         /\ guidNoti' = guidNoti \cup {q.id}
    /\ UNCHANGED <<tabelle, pc, modulo, ex>>

-----------------------------------------------------------------------------
(* Updates skips the zero values, and writes all the others. *)
SeNonZero(nuovo, vecchio, zero) == IF nuovo # zero THEN nuovo ELSE vecchio

(* What each request writes on the row q.  The close writes back the whole row e
   that it has read. *)
Scritta(q, e, m) ==
    CASE m.azione = "close" ->
           [q EXCEPT !.chiusa   = TRUE,
                     !.nome     = SeNonZero(e.nome, @, Nessuno),
                     !.sessione = e.sessione,
                     !.nota     = SeNonZero(e.nota, @, Nessuno),
                     !.tecnico  = SeNonZero(e.tecnico, @, Nessuno)]
      [] m.azione = "" -> [q EXCEPT !.nome = m.nome, !.sessione = m.sessione]
      [] OTHER         -> [q EXCEPT !.nota = m.nota]

(* Mutant: the row in memory is updated before it is compared. *)
DopoLegaUguale(m, e) == "libera"

(* What is left after the pass: the event, if the row read was another. *)
DopoLega(m, e) ==
    IF m.azione = "" /\ <<e.nome, e.sessione>> # <<m.nome, m.sessione>>
      THEN "evento" ELSE "libera"

DopoScritta(m, e) ==
    IF m.azione # "" THEN "evento"
    ELSE IF DaLegare(m, e) THEN "lega" ELSE DopoLega(m, e)

(* UpdateAuditConn, or the update of scriviNota; no row if it has been deleted. *)
Scrive(r) ==
    LET m == modulo[r]
        e == ex[r]
    IN  /\ pc[r] = "scrive"
        /\ registro' = {IF q.id = e.id THEN Scritta(q, e, m) ELSE q : q \in registro}
        /\ Prosegui(r, DopoScritta(m, e), IF m.azione = "" THEN e ELSE Scritta(e, e, m))
        /\ UNCHANGED <<prossimo, lasciapassare, guidNoti, eventi>>

(* Mutant: a pass is good for the same PC also after it has opened a session. *)
LegabileAncora(l, n, e) == l.nonce = n /\ l.pc = e.coppia.pc /\ e.coppia.conn # 0

(* The pass l, of nonce n, can be bound to the connection e. *)
Legabile(l, n, e) ==
    /\ l.nonce = n
    /\ l.pc = e.coppia.pc
    /\ l.conn = 0
    /\ e.coppia.conn # 0

(* Mutant: the row is found by PC and conn_id, which come back. *)
SegnataCoppia(q, e, t) == IF q.coppia = e.coppia THEN [q EXCEPT !.tecnico = t] ELSE q

Segnata(q, e, t) == IF q.id = e.id THEN [q EXCEPT !.tecnico = t] ELSE q

(* Lega, one transaction; then the rest of the handler, whatever came of it: a
   pass that cannot be bound, an account that is gone, an error of the database. *)
Lega(r) ==
    LET m == modulo[r]
        e == ex[r]
    IN  /\ pc[r] = "lega"
        /\ \/ \E l \in lasciapassare :
                /\ Legabile(l, m.nonce, e)
                /\ lasciapassare' = (lasciapassare \ {l}) \cup {[l EXCEPT !.conn = e.id]}
                /\ registro' = {Segnata(q, e, l.tecnico) : q \in registro}
                /\ Prosegui(r, DopoLega(m, e), [e EXCEPT !.tecnico = l.tecnico])
           \/ /\ Prosegui(r, DopoLega(m, e), e)
              /\ UNCHANGED <<registro, lasciapassare>>
        /\ UNCHANGED <<prossimo, guidNoti, eventi>>

(* connessione.aperta carries what the request brings, connessione.chiusa and
   connessione.nota the row in memory; all of them with its note. *)
DaAccodare(m, e) ==
    [conn : {e.id}, testo : {IF m.azione = "" THEN m.nome ELSE e.nome, e.nota} \ {Nessuno}]

AccodaSessione(r) ==
    /\ pc[r] = "evento"
    /\ eventi' = eventi \cup {d \in DaAccodare(modulo[r], ex[r]) : d.conn \in Vivi}
    /\ Prosegui(r, "libera", Nessuno)
    /\ UNCHANGED <<registro, prossimo, lasciapassare, guidNoti>>

(* The panel deletes connections; their passes stay as they are, and their guid
   is good for nothing. *)
BatchDeleteAuditConn(ids) ==
    /\ registro' = {q \in registro : q.id \notin ids}
    /\ guidNoti' = guidNoti \ ids
    /\ eventi' = {d \in eventi : d.conn \notin ids}
    /\ UNCHANGED <<prossimo, lasciapassare, pc, modulo, ex>>

(* One connection that is there, or a list of any ids: never an empty one. *)
ConnDelete(id) == id \in Vivi /\ BatchDeleteAuditConn({id})

BatchConnDelete(ids) == ids # {} /\ BatchDeleteAuditConn(ids)

-----------------------------------------------------------------------------
DalPc(r) ==
    \E c \in Coppie :
        \/ \E n \in Nonce \cup {Nessuno} : CreateAuditConn(r, c, n)
        \/ InfoByPeerIdAndConnId(r, c, Chiusura)
        \/ \E a \in Autorizzazioni, n \in Nonce \cup {Nessuno} :
             InfoByPeerIdAndConnId(r, c, Apertura(a, n))

DalTecnico(r) ==
    \E nota \in Note \cup {Nessuno} :
        \/ \E p \in Pc, s \in Sessioni \cup {SessioneNonAutorizzata} : NotaDiSessione(r, p, s, nota)
        \/ Nota(r, nota)

Prosegue(r) == Scrive(r) \/ Lega(r) \/ AccodaSessione(r)

Next ==
    \/ \E r \in Richieste : DalPc(r) \/ DalTecnico(r) \/ Prosegue(r)
    \/ \E n \in Nonce, p \in Pc, t \in Tecnici : firmaERegistra(n, p, t)
    \/ \E p \in Pc, s \in Sessioni \cup {SessioneNonAutorizzata}, nome \in Nomi :
         ConnAttiva(p, s, nome)
    \/ \E id \in Id : ConnDelete(id)
    \/ \E ids \in SUBSET Id : BatchConnDelete(ids)

Spec == Init /\ [][Next]_vars

-----------------------------------------------------------------------------
(* Every variable has its type; id and nonce are keys, and a running handler
   has a row. *)
TypeOK ==
    /\ registro \subseteq Riga
    /\ \A p, q \in registro : p.id = q.id => p = q
    /\ prossimo \in 1 .. MaxConn + 1
    /\ \A q \in registro : q.id < prossimo
    /\ lasciapassare \subseteq Lasciapassare
    /\ \A k, l \in lasciapassare : k.nonce = l.nonce => k = l
    /\ guidNoti \subseteq Vivi
    /\ eventi \subseteq Detto
    /\ pc \in [Richieste -> Passi]
    /\ \A r \in Richieste : pc[r] # "libera" => ex[r] \in Riga

(* A row says that a pass verified it only if a pass of its PC is bound to it,
   with that account: whatever requests carried the nonce at once, were repeated
   or came after a restart of the PC, and although a close writes back what it
   had read. *)
VerificaFondata ==
    \A q \in registro : q.tecnico # Nessuno =>
        \E l \in lasciapassare :
            l.conn = q.id /\ l.pc = q.coppia.pc /\ l.tecnico = q.tecnico

(* A pass is bound once, and for ever: also when its connection is deleted. *)
LegameUnico ==
    [][\A l \in lasciapassare : l.conn # 0 => l \in lasciapassare']_vars

(* A note never lands on a connection that nobody has authorised, which still
   waits for the click or was refused (the comment of sessioneNonAutorizzata). *)
NoteSoloAutorizzate ==
    \A q \in registro : q.nota # Nessuno => q.nome # Nessuno

(* Nothing that the registry shows of a connection is untold: who opened it and
   its note are in an event, or in the one a request still has to queue. *)
InArrivo ==
    UNION {DaAccodare(modulo[r], ex[r]) : r \in
             {q \in Richieste : \/ pc[q] = "evento"
                                \/ /\ pc[q] = "lega"
                                   /\ DopoLega(modulo[q], ex[q]) = "evento"}}

Mostrato ==
    UNION {[conn : {q.id}, testo : {q.nome, q.nota} \ {Nessuno}] : q \in registro}

Raccontato == Mostrato \subseteq eventi \cup InArrivo
=============================================================================
