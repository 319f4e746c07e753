------------------------------ MODULE Dispositivi ------------------------------
(***************************************************************************)
(* The table of the PCs (peers): the sysinfo that creates a PC, binds its  *)
(* ID to an uuid and registers its key; the logins and logouts that bind a *)
(* PC to a user; the panel, and the deletion of a user.                    *)
(* src/service/peer.go, src/http/controller/api/peer.go, admin/peer.go,    *)
(* Login, Logout and Delete of src/service/user.go.                        *)
(*                                                                         *)
(* A request is a process, and each of its statements a step.  The unique  *)
(* index on the IDs is there.  Whether a signature is in time and not      *)
(* repeated is module Heartbeat; the sessions are module Sessioni.         *)
(***************************************************************************)
EXTENDS Integers, FiniteSets

CONSTANTS
    Richieste,          \* the requests that can run at once
    Id,                 \* the IDs of PCs
    Uuid,               \* the uuids they send
    Chiavi,             \* the public keys
    Utenti,
    Nessuno,            \* an empty column, a header that is not there
    FirmaObbligatoria,  \* app.firma-obbligatoria
    MaxRighe            \* bound: rows ever created

ASSUME DispositiviAssumption ==
    /\ Nessuno \notin Id \cup Uuid \cup Chiavi \cup Utenti
    /\ "falsa" \notin Chiavi /\ Nessuno # "falsa"
    /\ FirmaObbligatoria \in BOOLEAN /\ MaxRighe \in Nat

VARIABLES
    peers,      \* the rows
    prossima,   \* the row_id of the next one
    pc,         \* [Richieste -> the next step of the request]
    req         \* [Richieste -> what it carries and has read]

vars == <<peers, prossima, pc, req>>

O(S) == S \cup {Nessuno}

Peer == [riga : 1 .. MaxRighe, id : Id, uuid : O(Uuid), chiave : O(Chiavi), utente : O(Utenti)]

(* What a sysinfo or a login has read, or carries; riga is 0 if it has found no PC,
   letto the uuid it had. *)
Req == [riga : 0 .. MaxRighe, id : O(Id), uuid : O(Uuid), chiave : O(Chiavi), utente : O(Utenti),
        letto : O(Uuid)]

Vuota == [riga |-> 0, id |-> Nessuno, uuid |-> Nessuno, chiave |-> Nessuno, utente |-> Nessuno,
          letto |-> Nessuno]

(* A sysinfo: an old client neither has a key nor signs.  firma is the key that has
   signed, or a signature that does not hold: wrong, late or repeated. *)
Moduli == [id : Id, uuid : Uuid, pk : O(Chiavi), firma : O(Chiavi) \cup {"falsa"}]

Init ==
    /\ peers = {} /\ prossima = 1
    /\ pc = [r \in Richieste |-> "libera"]
    /\ req = [r \in Richieste |-> Vuota]

Va(r, passo, q) == pc' = [pc EXCEPT ![r] = passo] /\ req' = [req EXCEPT ![r] = q]
Finisce(r)      == Va(r, "libera", Vuota)
Legge(r, passo, q) == Va(r, passo, q) /\ UNCHANGED <<peers, prossima>>

(* Mutant: the database has no unique index. *)
IndiceAssente(id, riga) == TRUE

(* idx_peers_id_unico lets the row have the ID. *)
IndiceIdUnico(id, riga) == \A p \in peers : p.id = id => p.riga = riga

(* An UPDATE of the row, if it is still there: the columns that are not empty. *)
Aggiornati(riga, q) == {IF p.riga # riga THEN p
                        ELSE [c \in DOMAIN p |-> IF c # "riga" /\ q[c] # Nessuno THEN q[c] ELSE p[c]] : p \in peers}

-----------------------------------------------------------------------------
(* The sysinfo *)

FindById(id) == {p \in peers : p.id = id}

StessoDispositivo(p, m) == p.uuid = m.uuid

Firmato(m, chiave) == chiave # Nessuno /\ m.firma = chiave

(* RiconosciFirmato does not refuse: a PC with a key wants its signature, another one
   wants the signature of the key it sends, only if it is mandatory. *)
RiconosciFirmato(m) ==
    LET salvate == {p.chiave : p \in FindById(m.id)} \ {Nessuno} IN
    IF salvate # {} THEN \E k \in salvate : Firmato(m, k)
    ELSE FirmaObbligatoria => Firmato(m, m.pk)

(* The key to be saved, of a new PC or of one with the same uuid. *)
Chiave(m) ==
    IF /\ Firmato(m, m.pk)
       /\ \A p \in FindById(m.id) : p.chiave = Nessuno /\ StessoDispositivo(p, m)
    THEN m.pk ELSE Nessuno

(* Mutant: a PC that has an uuid takes another one. *)
RiconosceChiunque(p, m) == TRUE

(* Another uuid is refused, unless the PC has none. *)
Riconosce(p, m) == StessoDispositivo(p, m) \/ p.uuid = Nessuno

SysInfo(r, m) ==
    LET q == [Vuota EXCEPT !.id = m.id, !.uuid = m.uuid, !.chiave = Chiave(m)] IN
    /\ pc[r] = "libera" /\ RiconosciFirmato(m)
    /\ \/ FindById(m.id) = {} /\ Legge(r, "ultimo", q)
       \/ \E p \in FindById(m.id) :
             /\ Riconosce(p, m)
             /\ Legge(r, IF p.utente = Nessuno THEN "ultimo" ELSE "aggiorna",
                      [q EXCEPT !.riga = p.riga, !.utente = p.utente, !.letto = p.uuid])

(* ultimoUtente: the user of the last login of the device, in the register of the
   accesses; any one, for what follows. *)
UltimoUtente(r) ==
    /\ pc[r] = "ultimo"
    /\ \E u \in O(Utenti) :
          Legge(r, IF req[r].riga = 0 THEN "crea" ELSE "aggiorna", [req[r] EXCEPT !.utente = u])

(* The INSERT of a row; the second of two with one ID finds the index. *)
Inserisce(id, uuid, chiave, utente) ==
    IF IndiceIdUnico(id, 0)
    THEN /\ prossima <= MaxRighe
         /\ peers' = peers \cup {[riga |-> prossima, id |-> id, uuid |-> uuid, chiave |-> chiave, utente |-> utente]}
         /\ prossima' = prossima + 1
    ELSE UNCHANGED <<peers, prossima>>

CreaPc(r) ==
    LET q == req[r] IN
    /\ pc[r] = "crea"
    /\ Inserisce(q.id, q.uuid, q.chiave, q.utente)
    /\ Finisce(r)

(* The sysinfo of a known PC writes everything it carries, the key apart. *)
Aggiorna(r) ==
    LET q == req[r] IN
    /\ pc[r] = "aggiorna"
    /\ IF IndiceIdUnico(q.id, q.riga)
       THEN /\ peers' = Aggiornati(q.riga, [q EXCEPT !.chiave = Nessuno])
            /\ IF q.chiave = Nessuno THEN Finisce(r) ELSE Va(r, "registra", q)
       ELSE Finisce(r) /\ UNCHANGED peers
    /\ UNCHANGED prossima

(* Mutant: the condition on the column is left out. *)
DaRegistrareSempre(riga) == {p \in peers : p.riga = riga}

(* The row that the UPDATE of the key finds: it has none. *)
DaRegistrare(riga) == {p \in peers : p.riga = riga /\ p.chiave = Nessuno}

RegistraChiave(r) ==
    LET q == req[r] IN
    /\ pc[r] = "registra"
    /\ peers' = {IF p \in DaRegistrare(q.riga) THEN [p EXCEPT !.chiave = q.chiave] ELSE p : p \in peers}
    /\ Finisce(r)
    /\ UNCHANGED prossima

-----------------------------------------------------------------------------
(* The user of a PC *)

(* The first one, by row_id. *)
Prima(S) == {p \in S : \A q \in S : p.riga <= q.riga}

(* A login of the client binds its PC to the user: the first row with the uuid is
   read, ... *)
UuidBindUserId(r, u, uuid) ==
    /\ pc[r] = "libera"
    /\ \E p \in Prima({p \in peers : p.uuid = uuid}) :
          Legge(r, "scrivi", [riga |-> p.riga, id |-> p.id, uuid |-> p.uuid, chiave |-> p.chiave,
                              utente |-> u, letto |-> p.uuid])

(* ... and all of it is written back. *)
ScriveUtente(r) ==
    LET q == req[r] IN
    /\ pc[r] = "scrivi"
    /\ peers' = IF IndiceIdUnico(q.id, q.riga) THEN Aggiornati(q.riga, q) ELSE peers
    /\ Finisce(r)
    /\ UNCHANGED prossima

(* A logout reads the user's PC with the uuid of the token, and takes its user away. *)
UuidUnbindUserId(r, u, uuid) ==
    /\ pc[r] = "libera"
    /\ \E p \in Prima({p \in peers : p.uuid = uuid /\ p.utente = u}) :
          Legge(r, "scollega", [Vuota EXCEPT !.riga = p.riga])

Scollega(r) ==
    /\ pc[r] = "scollega"
    /\ peers' = {IF p.riga = req[r].riga THEN [p EXCEPT !.utente = Nessuno] ELSE p : p \in peers}
    /\ Finisce(r)
    /\ UNCHANGED prossima

(* A user is deleted: its PCs are left without one. *)
EraseUserId(u) ==
    /\ peers' = {IF p.utente = u THEN [p EXCEPT !.utente = Nessuno] ELSE p : p \in peers}
    /\ UNCHANGED <<prossima, pc, req>>

-----------------------------------------------------------------------------
(* The panel *)

IdUsato(id, riga) == \E p \in peers : p.id = id /\ p.riga # riga

(* A new PC, with an uuid or none; riga is 0. *)
Create(r, id, uuid) ==
    /\ pc[r] = "libera" /\ ~IdUsato(id, 0)
    /\ Legge(r, "inserisci", [Vuota EXCEPT !.id = id, !.uuid = uuid])

Inserisci(r) ==
    /\ pc[r] = "inserisci"
    /\ Inserisce(req[r].id, req[r].uuid, Nessuno, Nessuno)
    /\ Finisce(r)

(* The form of a PC: an empty uuid leaves the one there is. *)
Update(r, riga, id, uuid) ==
    /\ pc[r] = "libera" /\ ~IdUsato(id, riga)
    /\ Legge(r, "salva", [Vuota EXCEPT !.riga = riga, !.id = id, !.uuid = uuid])

UpdateDalPannello(r) ==
    LET q == req[r] IN
    /\ pc[r] = "salva"
    /\ peers' = IF IndiceIdUnico(q.id, q.riga) THEN Aggiornati(q.riga, q) ELSE peers
    /\ Finisce(r)
    /\ UNCHANGED prossima

(* One PC, or several in one transaction. *)
Delete(S) ==
    /\ S # {}
    /\ peers' = peers \ S
    /\ UNCHANGED <<prossima, pc, req>>

(* The request dies: a statement fails, or the process with every request in it. *)
Muore(r) ==
    /\ pc[r] # "libera"
    /\ Legge(r, "libera", Vuota)

Passo(r) ==
    \/ \E m \in Moduli : SysInfo(r, m)
    \/ UltimoUtente(r) \/ CreaPc(r) \/ Aggiorna(r) \/ RegistraChiave(r)
    \/ \E u \in Utenti, uuid \in Uuid : UuidUnbindUserId(r, u, uuid)
    \/ \E u \in Utenti, uuid \in Uuid : UuidBindUserId(r, u, uuid)
    \/ ScriveUtente(r) \/ Scollega(r)
    \/ \E id \in Id, uuid \in O(Uuid) : Create(r, id, uuid)
    \/ \E p \in peers, id \in Id, uuid \in O(Uuid) : Update(r, p.riga, id, uuid)
    \/ Inserisci(r) \/ UpdateDalPannello(r)
    \/ Muore(r)

Next ==
    \/ \E r \in Richieste : Passo(r)
    \/ \E S \in SUBSET peers : Delete(S)
    \/ \E u \in Utenti : EraseUserId(u)

Spec == Init /\ [][Next]_vars
-----------------------------------------------------------------------------
(* Every variable has its type, and the row_ids are a key. *)
TypeOK ==
    /\ peers \subseteq Peer
    /\ \A p, q \in peers : p.riga = q.riga => p = q
    /\ prossima \in 1 .. MaxRighe + 1
    /\ \A p \in peers : p.riga < prossima
    /\ pc \in [Richieste -> {"libera", "ultimo", "crea", "aggiorna", "registra", "scrivi",
                             "scollega", "inserisci", "salva"}]
    /\ req \in [Richieste -> Req]

(* README.md:531, src/service/peer.go:156-158: an ID is of one PC, whatever sysinfo,
   panels and logins write at once. *)
UnoPerId == \A p, q \in peers : p.id = q.id => p = q

(* README.md:615-620: the first key stays.  Neither another sysinfo that had found no
   key, nor a login that writes back an older row, nor the panel changes it or takes it
   away: only the deletion of the PC. *)
ChiaveFerma == [][\A p \in peers, q \in peers' :
    p.riga = q.riga /\ p.chiave # Nessuno => q.chiave = p.chiave]_vars

(* The uuid of a PC changes only by the panel, or by a request that had read the PC
   with no uuid or with that same one, and was overtaken. *)
UuidConTitolo == [][\A p \in peers, q \in peers' :
    p.riga = q.riga /\ p.uuid # q.uuid =>
        \E r \in Richieste :
            /\ pc[r] \in {"salva", "aggiorna", "scrivi"} /\ pc'[r] # pc[r]
            /\ req[r].riga = p.riga /\ req[r].uuid = q.uuid
            /\ pc[r] # "salva" => req[r].letto \in {Nessuno, q.uuid}]_vars
=============================================================================
