-------------------------------- MODULE Rubrica --------------------------------
(***************************************************************************)
(* The address books: entries and tags, collections, rules that share a    *)
(* collection with a user or a group, and the pass of an AI agent, for a   *)
(* PC of its tecnico's address books.                                      *)
(* src/service/addressBook.go, tag.go, group.go, lasciapassare.go,         *)
(* src/http/controller/api/ab.go, admin/addressBook*.go, admin/tag.go,     *)
(* admin/my/.                                                              *)
(*                                                                         *)
(* A request is a process: what a check has read may be gone when the      *)
(* write comes.  For a client and for a pass each statement is a step; a   *)
(* form of the panel has one step that checks and one that writes, and     *)
(* what reads a row and deletes it by its id is one step.  Entries and     *)
(* tags are rows of one table, told apart by the name.  An agent calls     *)
(* none of the routes that write (module Sessioni); what may be done to a  *)
(* user is module Utenti.  Whether a PC is in peers, and whether a group   *)
(* is there when a rule is made for it, are left out: any answer is one.   *)
(***************************************************************************)
EXTENDS Integers, FiniteSets

CONSTANTS
    Client, Pannello,   \* the requests that can run at once
    Utenti,
    Gruppi,
    GruppoDi,           \* [Utenti -> Gruppi]
    Pc,                 \* the names of the entries
    Tag,                \* the names of the tags
    Nessuno,            \* a value that is not there
    Livelli,            \* the levels of the rules: 1 reads, 2 writes, 3 deletes too
    MaxRighe, MaxColl, MaxRegole,   \* bounds: rows ever created,
    MaxCambi            \* and changes to the users, or of a collection's owner

ASSUME RubricaAssumption ==
    /\ Nessuno \notin Utenti \cup Gruppi \cup Pc \cup Tag
    /\ IsFiniteSet(Pc) /\ IsFiniteSet(Tag)
    /\ Client \cap Pannello = {} /\ Utenti \cap Gruppi = {} /\ Pc \cap Tag = {}
    /\ GruppoDi \in [Utenti -> Gruppi] /\ Livelli \subseteq 1 .. 3
    /\ {MaxRighe, MaxColl, MaxRegole, MaxCambi} \subseteq Nat

Richieste == Client \cup Pannello

VARIABLES
    righe,      \* entries and tags
    collezioni,
    regole,
    stato,      \* [Utenti -> a person enabled or not, an enabled agent, nobody]
    prossima,   \* the next id of each table
    pc,         \* [Richieste -> the next step of the request]
    req,        \* [Richieste -> what it carries and has read]
    visti       \* history: [Client -> what has been true since it began]

dati  == <<righe, collezioni, regole, stato, prossima>>
vars  == <<dati, pc, req, visti>>

Nomi  == Pc \cup Tag
Verso == Utenti \cup Gruppi

(* Collection 0 is the personal address book: everyone has one. *)
Riga       == [id : 1 .. MaxRighe, nome : Nomi, di : Utenti, coll : 0 .. MaxColl]
Collezione == [id : 1 .. MaxColl, di : Utenti]
Regola     == [id : 1 .. MaxRegole, di : Utenti, coll : 1 .. MaxColl, verso : Verso, livello : Livelli]

(* The request of chi about the address book coll of di; id is a row it has read, or
   the id it is to write; confine the shared address books still to look at. *)
Vuota == [op |-> "nessuna", chi |-> Nessuno, di |-> Nessuno, coll |-> 0, nome |-> Nessuno,
          id |-> 0, livello |-> 0, verso |-> Nessuno, confine |-> {}]

Init ==
    /\ righe = {} /\ collezioni = {} /\ regole = {}
    /\ stato = [u \in Utenti |-> "attivo"]
    /\ prossima = [righe |-> 1, collezioni |-> 1, regole |-> 1, cambi |-> 1]
    /\ pc = [r \in Richieste |-> "libera"]
    /\ req = [r \in Richieste |-> Vuota]
    /\ visti = [r \in Client |-> {}]

Va(r, passo, q)    == pc' = [pc EXCEPT ![r] = passo] /\ req' = [req EXCEPT ![r] = q]
Finisce(r)         == Va(r, "libera", Vuota)
Legge(r, passo, q) == Va(r, passo, q) /\ UNCHANGED dati
Rifiuta(r)         == Legge(r, "libera", Vuota)

SoloRighe      == UNCHANGED <<collezioni, regole, stato>>
SoloCollezioni == UNCHANGED <<righe, regole, stato>>
SoloRegole     == UNCHANGED <<righe, collezioni, stato>>

(* Rows are found by columns that nothing makes unique: First takes the oldest. *)
Trova(di, nome, coll) == {v \in righe : v.di = di /\ v.nome = nome /\ v.coll = coll}
Prima(S) == {v \in S : \A w \in S : v.id <= w.id}

CheckCollectionOwner(di, coll) == coll = 0 \/ [id |-> coll, di |-> di] \in collezioni

InserisceRiga(nome, di, coll) ==
    /\ prossima.righe <= MaxRighe
    /\ righe' = righe \cup {[id |-> prossima.righe, nome |-> nome, di |-> di, coll |-> coll]}
    /\ prossima' = [prossima EXCEPT !.righe = @ + 1]

(* UpdateAll and Update of a tag write every column, if the row is still there. *)
RigheCon(q) == {IF v.id = q.id THEN [id |-> q.id, nome |-> q.nome, di |-> q.di, coll |-> q.coll] ELSE v : v \in righe}
-----------------------------------------------------------------------------
(* The client: /api/ab/peer, /api/ab/peers, /api/ab/tag, /api/ab/tags *)

Api == {"client", "legge", "aggiunge", "cambia", "toglie"}

(* The level that each operation wants. *)
Minimo(op) == IF op = "legge" THEN 1 ELSE IF op = "toglie" THEN 3 ELSE 2

permesso(q, op) == q.livello >= Minimo(op)

(* CheckGuid: the owner is there; a personal address book is one's own, another one a
   collection of the owner. *)
CheckGuid(r, chi, di, coll) ==
    /\ pc[r] = "libera" /\ stato[chi] = "attivo"
    /\ stato[di] # "assente" /\ (coll = 0 => chi = di)
    /\ Legge(r, IF coll = 0 THEN "leggi" ELSE "collezione",
             [Vuota EXCEPT !.op = "client", !.chi = chi, !.di = di, !.coll = coll,
                           !.livello = IF coll = 0 THEN 3 ELSE 0])

(* GET /api/ab, the personal address book of who asks: its entries, and its tags. *)
Ab(r, chi) ==
    /\ pc[r] = "libera" /\ stato[chi] = "attivo"
    /\ Legge(r, "scrivi", [Vuota EXCEPT !.op = "legge", !.chi = chi, !.di = chi])

(* Mutant: the owner of the collection is not compared. *)
SuaEsiste(q) == \E k \in collezioni : k.id = q.coll

Sua(q) == \E k \in collezioni : k.id = q.coll /\ k.di = q.di

CheckGuidCollezione(r) ==
    LET q == req[r] IN
    /\ pc[r] = "collezione" /\ Sua(q)
    /\ IF q.chi = q.di THEN Legge(r, "leggi", [q EXCEPT !.livello = 3]) ELSE Legge(r, "persona", q)

(* The oldest rule that shares the collection with w. *)
RuleInfoByToIdAndCid(w, coll) == Prima({x \in regole : x.verso = w /\ x.coll = coll})

(* UserMaxRule: the rule for the user and the one for the group; 0 if none. *)
LivelloPer(w, coll) ==
    LET S == RuleInfoByToIdAndCid(w, coll) IN
    IF S = {} THEN 0 ELSE (CHOOSE x \in S : TRUE).livello

UserMaxRule(r) ==
    LET l == LivelloPer(req[r].chi, req[r].coll) IN
    /\ pc[r] = "persona"
    /\ Legge(r, IF l = 3 THEN "leggi" ELSE "gruppo", [req[r] EXCEPT !.livello = l])

UserMaxRuleGruppo(r) ==
    LET q == req[r]
        l == LivelloPer(GruppoDi[q.chi], q.coll)
    IN
    /\ pc[r] = "gruppo"
    /\ Legge(r, "leggi", [q EXCEPT !.livello = IF l > @ THEN l ELSE @])

Permessa(r, op) == pc[r] = "leggi" /\ req[r].op = "client" /\ permesso(req[r], op)

Passa(r, op, id, nome) ==
    Legge(r, "scrivi", [req[r] EXCEPT !.op = op, !.id = id, !.nome = nome,
                                      !.livello = IF op = "toglie" THEN @ ELSE 0])

Trovata(r, n) == Prima(Trova(req[r].di, n, req[r].coll))

(* The list of the entries, that of the tags. *)
Peers(r) == Permessa(r, "legge") /\ Passa(r, "legge", 0, Nessuno)

PTags(r) == Permessa(r, "legge") /\ Passa(r, "legge", 0, Nessuno)

(* PeerAdd does not look for the entry; TagAdd does. *)
PeerAdd(r, n) == Permessa(r, "aggiunge") /\ Passa(r, "aggiunge", 0, n)

TagAdd(r, t) == Permessa(r, "aggiunge") /\ Trovata(r, t) = {} /\ Passa(r, "aggiunge", 0, t)

(* Of an entry, alias, password, hash and tags change: nothing that is modelled here. *)
PeerUpdate(r, n) ==
    Permessa(r, "cambia") /\ \E v \in Trovata(r, n) : Passa(r, "cambia", v.id, Nessuno)

(* A tag takes another name, that no tag there has, or another colour. *)
TagRename(r) == {t \in Tag : Trovata(r, t) = {}}

TagUpdate(r, t) ==
    /\ Permessa(r, "cambia")
    /\ \E v \in Trovata(r, t), m \in {t} \cup TagRename(r) : Passa(r, "cambia", v.id, m)

(* Of several names, one after the other; the permission is not read again. *)
PeerDel(r, n) ==
    /\ Permessa(r, "toglie") \/ (pc[r] = "leggi" /\ req[r].op = "toglie")
    /\ \E v \in Trovata(r, n) : Passa(r, "toglie", v.id, Nessuno)

TagDel(r, t) == PeerDel(r, t)

(* The answer is read. *)
ListByUserIdAndCollectionId(r) == pc[r] = "scrivi" /\ req[r].op = "legge" /\ Rifiuta(r)

AddAddressBook(r) ==
    /\ pc[r] = "scrivi" /\ req[r].op = "aggiunge"
    /\ InserisceRiga(req[r].nome, req[r].di, req[r].coll)
    /\ Finisce(r) /\ SoloRighe

Cambia(r) ==
    /\ pc[r] = "scrivi" /\ req[r].op = "cambia"
    /\ righe' = IF req[r].nome \in Tag THEN RigheCon(req[r]) ELSE righe
    /\ Finisce(r) /\ SoloRighe /\ UNCHANGED prossima

(* The row that was read is deleted by its id; then the next one, without a check. *)
Toglie(r) ==
    /\ pc[r] = "scrivi" /\ req[r].op = "toglie"
    /\ righe' = {v \in righe : v.id # req[r].id}
    /\ Finisce(r) \/ Va(r, "leggi", [req[r] EXCEPT !.id = 0])
    /\ SoloRighe /\ UNCHANGED prossima

(* Mutant: the collections of the user are synchronised too. *)
TutteLeSue(u) == {v \in righe : v.di = u}

Personali(u) == {v \in righe : v.di = u /\ v.coll = 0}

(* Of two entries with one name that is not sent, the code sees the last; ... *)
VociVia(u, S) == {v \in Personali(u) : v.nome \in Pc \ S /\
                     \A w \in Personali(u) : w.nome = v.nome => w.id <= v.id}

(* ... of the tags it keeps the first of those with a name that is sent. *)
TagVia(u, S) == {v \in Personali(u) : v.nome \in Tag /\
                     (v.nome \in S => \E w \in Personali(u) : w.nome = v.nome /\ w.id < v.id)}

Sincronizza(u, S, via) ==
    LET nomi == S \ {v.nome : v \in Personali(u)}
        n    == Cardinality(nomi)
    IN
    /\ prossima.righe + n <= MaxRighe + 1
    /\ \E f \in [nomi -> prossima.righe .. prossima.righe + n - 1] :
          /\ \A a, b \in nomi : f[a] = f[b] => a = b
          /\ righe' = (righe \ via) \cup {[id |-> f[a], nome |-> a, di |-> u, coll |-> 0] : a \in nomi}
    /\ prossima' = [prossima EXCEPT !.righe = @ + n]
    /\ SoloRighe

(* POST /api/ab: the entries in a transaction, then the tags in another. *)
UpAb(r, u, S) ==
    /\ pc[r] = "libera" /\ stato[u] = "attivo"
    /\ Sincronizza(u, S, VociVia(u, S))
    /\ Va(r, "tag", [Vuota EXCEPT !.chi = u])

UpdateTags(r, S) ==
    /\ pc[r] = "tag"
    /\ Sincronizza(req[r].chi, S, TagVia(req[r].chi, S))
    /\ Finisce(r)
-----------------------------------------------------------------------------
(* The panel of the administrators and the one of a user, my/, about what is its own *)

(* The form is checked, then the row inserted: InfoByUserIdAndIdAndCid has found none. *)
Controllata(r, n, di, coll) ==
    /\ pc[r] = "libera" /\ Trova(di, n, coll) = {}
    /\ Legge(r, "inserisci", [Vuota EXCEPT !.nome = n, !.di = di, !.coll = coll])

Create(r, n, di, coll) == CheckCollectionOwner(di, coll) /\ Controllata(r, n, di, coll)

MyCreate(r, n, u, coll) == CheckCollectionOwner(u, coll) /\ Controllata(r, n, u, coll)

(* With one user, no one looks at the collection; with several it is 0. *)
BatchCreate(r, n, di, coll) == Controllata(r, n, di, coll)

(* The collection is there, of the user or not. *)
BatchCreateFromPeers(r, n, di, coll) ==
    /\ coll = 0 \/ \E k \in collezioni : k.id = coll
    /\ Controllata(r, n, di, coll)

MyBatchCreateFromPeers(r, n, u, coll) == CheckCollectionOwner(u, coll) /\ Controllata(r, n, u, coll)

Inserisci(r) ==
    /\ pc[r] = "inserisci"
    /\ InserisceRiga(req[r].nome, req[r].di, req[r].coll)
    /\ Finisce(r) /\ SoloRighe

(* A tag is created with no check, by a user for itself. *)
CreateTag(t, di, coll) ==
    /\ InserisceRiga(t, di, coll)
    /\ SoloRighe /\ UNCHANGED <<pc, req>>

MyCreateTag(t, u, coll) == CreateTag(t, u, coll)

(* The row v is there, and the collection it goes to is of the user of the form; ... *)
Salva(r, v, di, coll) ==
    /\ pc[r] = "libera"
    /\ Legge(r, "salva", [Vuota EXCEPT !.id = v.id, !.nome = v.nome, !.di = di, !.coll = coll])

Update(r, v, di, coll) == v.nome \in Pc /\ CheckCollectionOwner(di, coll) /\ Salva(r, v, di, coll)

MyUpdate(r, v, u, coll) ==
    v.nome \in Pc /\ v.di = u /\ CheckCollectionOwner(u, coll) /\ Salva(r, v, u, coll)

(* ... an administrator's tag goes anywhere. *)
UpdateTag(r, v, di, coll) == v.nome \in Tag /\ Salva(r, v, di, coll)

MyUpdateTag(r, v, u, coll) ==
    v.nome \in Tag /\ v.di = u /\ CheckCollectionOwner(u, coll) /\ Salva(r, v, u, coll)

(* Every column is written. *)
UpdateAll(r) ==
    /\ pc[r] = "salva"
    /\ \E n \in (IF req[r].nome \in Pc THEN Pc ELSE Tag) : righe' = RigheCon([req[r] EXCEPT !.nome = n])
    /\ Finisce(r) /\ SoloRighe /\ UNCHANGED prossima

DaCancellare(r, v) == pc[r] = "libera" /\ Legge(r, "cancella", [Vuota EXCEPT !.id = v.id])

Delete(r, v) == v.nome \in Pc /\ DaCancellare(r, v)

MyDelete(r, v, u) == v.nome \in Pc /\ v.di = u /\ DaCancellare(r, v)

DeleteTag(r, v) == v.nome \in Tag /\ DaCancellare(r, v)

MyDeleteTag(r, v, u) == v.nome \in Tag /\ v.di = u /\ DaCancellare(r, v)

Cancella(r) ==
    /\ pc[r] = "cancella"
    /\ righe' = {v \in righe : v.id # req[r].id}
    /\ Finisce(r) /\ SoloRighe /\ UNCHANGED prossima

Cambiano == prossima.cambi <= MaxCambi /\ prossima' = [prossima EXCEPT !.cambi = @ + 1]

CreateCollection(u) ==
    /\ prossima.collezioni <= MaxColl
    /\ collezioni' = collezioni \cup {[id |-> prossima.collezioni, di |-> u]}
    /\ prossima' = [prossima EXCEPT !.collezioni = @ + 1]
    /\ SoloCollezioni /\ UNCHANGED <<pc, req>>

MyCreateCollection(u) == CreateCollection(u)

CollezioniCon(coll, u) == {IF k.id = coll THEN [k EXCEPT !.di = u] ELSE k : k \in collezioni}

(* An administrator may give a collection to another user: its rows and its rules keep
   the old one. *)
UpdateCollection(k, u) ==
    /\ collezioni' = CollezioniCon(k.id, u)
    /\ Cambiano /\ SoloCollezioni /\ UNCHANGED <<pc, req>>

(* The collection stays of the user, whose it was when it was read. *)
MyUpdateCollection(r, k, u) ==
    /\ pc[r] = "libera" /\ k.di = u
    /\ Legge(r, "tieni", [Vuota EXCEPT !.coll = k.id, !.di = k.di])

Tieni(r) ==
    /\ pc[r] = "tieni"
    /\ collezioni' = CollezioniCon(req[r].coll, req[r].di)
    /\ Finisce(r) /\ SoloCollezioni /\ UNCHANGED prossima

(* One transaction; the tags stay. *)
CancellaCollezione(k) ==
    /\ regole' = {x \in regole : x.coll # k.id}
    /\ righe' = {v \in righe : v.coll # k.id \/ v.nome \in Tag}
    /\ collezioni' = {c \in collezioni : c.id # k.id}

DeleteCollection(k) == CancellaCollezione(k) /\ UNCHANGED <<stato, prossima, pc, req>>

(* A user deletes its own only, and so its own rules. *)
MyDeleteCollection(k, u) == k.di = u /\ DeleteCollection(k)

(* A rule, new or to be changed (id), is for a person that is there and enabled, not the
   owner, or for a group; the collection is the owner's, and no other rule shares it
   with the same. *)
CheckForm(id, di, coll, w) ==
    /\ coll # 0 /\ CheckCollectionOwner(di, coll)
    /\ w \in Utenti => w # di /\ stato[w] = "attivo"
    /\ \A x \in RuleInfoByToIdAndCid(w, coll) : x.id = id

ControllaRegola(r, id, di, coll, w) ==
    /\ pc[r] = "libera" /\ CheckForm(id, di, coll, w)
    /\ Legge(r, "regola", [Vuota EXCEPT !.id = id, !.di = di, !.coll = coll, !.verso = w])

(* An administrator makes or changes a rule for anyone, ... *)
NuovaRegola(r, di, coll, w) == ControllaRegola(r, 0, di, coll, w)

CambiaRegola(r, id, di, coll, w) == id # 0 /\ ControllaRegola(r, id, di, coll, w)

(* ... a user on its own collections, and changes a rule of its own. *)
MyNuovaRegola(r, u, coll, w) == ControllaRegola(r, 0, u, coll, w)

MyCambiaRegola(r, x, u, coll, w) == x.di = u /\ ControllaRegola(r, x.id, u, coll, w)

(* The row is written: the collection, or the person, may be gone meanwhile, or another
   rule like it may be there. *)
CreateRule(r) ==
    LET q == req[r] IN
    /\ pc[r] = "regola" /\ q.id = 0 /\ prossima.regole <= MaxRegole
    /\ \E l \in Livelli :
          regole' = regole \cup {[id |-> prossima.regole, di |-> q.di, coll |-> q.coll, verso |-> q.verso, livello |-> l]}
    /\ prossima' = [prossima EXCEPT !.regole = @ + 1]
    /\ Finisce(r) /\ SoloRegole

UpdateRule(r) ==
    LET q == req[r] IN
    /\ pc[r] = "regola" /\ q.id # 0
    /\ \E l \in Livelli :
          regole' = {IF x.id = q.id THEN [id |-> q.id, di |-> q.di, coll |-> q.coll, verso |-> q.verso, livello |-> l]
                     ELSE x : x \in regole}
    /\ Finisce(r) /\ SoloRegole /\ UNCHANGED prossima

DeleteRule(x) ==
    /\ regole' = regole \ {x}
    /\ SoloRegole /\ UNCHANGED <<pc, req, prossima>>

MyDeleteRule(x, u) == x.di = u /\ DeleteRule(x)

(* A deleted user takes along what is its own: not its tags, nor the rules for it. *)
CancellaUtente(u) ==
    /\ stato[u] # "assente"
    /\ stato' = [stato EXCEPT ![u] = "assente"]
    /\ righe' = {v \in righe : v.di # u \/ v.nome \in Tag}
    /\ collezioni' = {k \in collezioni : k.di # u}
    /\ regole' = {x \in regole : x.di # u}
    /\ Cambiano /\ UNCHANGED <<pc, req>>

(* A user is disabled, enabled, made an agent of someone, or a person again. *)
CambiaUtente(u, s) ==
    /\ stato[u] # "assente" /\ s # stato[u]
    /\ stato' = [stato EXCEPT ![u] = s]
    /\ Cambiano /\ UNCHANGED <<righe, collezioni, regole, pc, req>>
-----------------------------------------------------------------------------
(* The passes, of an AI agent and of a tecnico *)

(* Rilascia: the tecnico of the agent is there and enabled. *)
Rilascia(r, tecnico, n) ==
    /\ pc[r] = "libera" /\ stato[tecnico] \in {"attivo", "agente"}
    /\ Legge(r, "sue", [Vuota EXCEPT !.op = "lascia", !.chi = tecnico, !.nome = n])

(* NellaRubrica: an entry of the tecnico's own, in whatever collection; or ... *)
NellaRubrica(r) ==
    LET q == req[r] IN
    /\ pc[r] = "sue"
    /\ Legge(r, IF \E v \in righe : v.di = q.chi /\ v.nome = q.nome THEN "registra" ELSE "regole", q)

Confine(w) == {<<x.di, x.coll>> : x \in {y \in regole : y.verso = w}}

(* ... one of those that the rules share with it, or with its group: ... *)
CollectionReadRules(r) ==
    /\ pc[r] = "regole"
    /\ Legge(r, "regoleGruppo", [req[r] EXCEPT !.confine = Confine(req[r].chi)])

Prosegue(r, q) == IF q.confine = {} THEN Rifiuta(r) ELSE Legge(r, "proprietario", q)

CollectionReadRulesGruppo(r) ==
    /\ pc[r] = "regoleGruppo"
    /\ Prosegue(r, [req[r] EXCEPT !.confine = @ \cup Confine(GruppoDi[req[r].chi])])

(* Mutant: the address books of an agent count. *)
CheVi(u) == stato[u] # "assente"

CheConta(u) == stato[u] \notin {"assente", "agente"}

(* ... each one's owner is there and is not an agent, ... *)
Proprietario(r) ==
    LET q == req[r] IN
    /\ pc[r] = "proprietario"
    /\ \E c \in q.confine :
          IF CheConta(c[1])
          THEN Legge(r, "conta", [q EXCEPT !.di = c[1], !.coll = c[2], !.confine = @ \ {c}])
          ELSE Prosegue(r, [q EXCEPT !.confine = @ \ {c}])

(* ... and has the PC in it. *)
Conta(r) ==
    LET q == req[r] IN
    /\ pc[r] = "conta"
    /\ IF Trova(q.di, q.nome, q.coll) # {} THEN Legge(r, "registra", q)
       ELSE Prosegue(r, [q EXCEPT !.di = Nessuno, !.coll = 0])

(* The pass is signed and its nonce saved: from here on it is module RegistroConnessioni's,
   and its event, which comes after, module Consegna's. *)
firmaERegistra(r) == pc[r] = "registra" /\ Rifiuta(r)

(* POST /api/agente/lasciapassare, for a PC. *)
Lasciapassare(r, n) == \E tecnico \in Utenti : Rilascia(r, tecnico, n)

(* The pass of a tecnico, for any PC: a person enabled and entered by OIDC, or one of
   the exceptions. *)
RilasciaTecnico(r, u, n) ==
    /\ pc[r] = "libera" /\ stato[u] = "attivo"
    /\ Legge(r, "registra", [Vuota EXCEPT !.op = "tecnico", !.chi = u, !.nome = n])

(* POST /api/lasciapassare. *)
LasciapassareTecnico(r, n) == \E u \in Utenti : RilasciaTecnico(r, u, n)

(* The request ends: what it has read refuses it, a statement fails, or the process dies
   with every request in it. *)
Muore(r) == pc[r] # "libera" /\ Rifiuta(r)
-----------------------------------------------------------------------------
CominciaClient(r) ==
    \/ \E chi, di \in Utenti, coll \in 0 .. MaxColl : CheckGuid(r, chi, di, coll)
    \/ \E u \in Utenti, S \in SUBSET Pc : UpAb(r, u, S)
    \/ \E chi \in Utenti : Ab(r, chi)
    \/ \E n \in Pc : Lasciapassare(r, n) \/ LasciapassareTecnico(r, n)

CominciaPannello(r) ==
    \/ \E n \in Pc, di \in Utenti, coll \in 0 .. MaxColl :
          \/ Create(r, n, di, coll) \/ BatchCreate(r, n, di, coll) \/ BatchCreateFromPeers(r, n, di, coll)
          \/ MyCreate(r, n, di, coll) \/ MyBatchCreateFromPeers(r, n, di, coll)
    \/ \E v \in righe, u \in Utenti, coll \in 0 .. MaxColl :
          \/ Update(r, v, u, coll) \/ UpdateTag(r, v, u, coll)
          \/ MyUpdate(r, v, u, coll) \/ MyUpdateTag(r, v, u, coll)
    \/ \E v \in righe, u \in Utenti :
          Delete(r, v) \/ DeleteTag(r, v) \/ MyDelete(r, v, u) \/ MyDeleteTag(r, v, u)
    \/ \E k \in collezioni, u \in Utenti : MyUpdateCollection(r, k, u)
    \/ \E di \in Utenti, coll \in 1 .. MaxColl, w \in Verso :
          \/ NuovaRegola(r, di, coll, w) \/ MyNuovaRegola(r, di, coll, w)
          \/ \E id \in 1 .. prossima.regole - 1 : CambiaRegola(r, id, di, coll, w)
          \/ \E x \in regole : MyCambiaRegola(r, x, di, coll, w)

Passo(r) ==
    \/ CheckGuidCollezione(r) \/ UserMaxRule(r) \/ UserMaxRuleGruppo(r)
    \/ Peers(r) \/ PTags(r)
    \/ \E n \in Pc : PeerAdd(r, n) \/ PeerUpdate(r, n) \/ PeerDel(r, n)
    \/ \E t \in Tag : TagAdd(r, t) \/ TagUpdate(r, t) \/ TagDel(r, t)
    \/ ListByUserIdAndCollectionId(r) \/ AddAddressBook(r) \/ Cambia(r) \/ Toglie(r)
    \/ \E S \in SUBSET Tag : UpdateTags(r, S)
    \/ Inserisci(r) \/ UpdateAll(r) \/ Cancella(r) \/ Tieni(r)
    \/ CreateRule(r) \/ UpdateRule(r)
    \/ NellaRubrica(r) \/ CollectionReadRules(r) \/ CollectionReadRulesGruppo(r)
    \/ Proprietario(r) \/ Conta(r) \/ firmaERegistra(r)
    \/ Muore(r)

Altro ==
    \/ \E u \in Utenti : CreateCollection(u) \/ MyCreateCollection(u) \/ CancellaUtente(u)
    \/ \E u \in Utenti, s \in {"attivo", "disattivo", "agente"} : CambiaUtente(u, s)
    \/ \E k \in collezioni, u \in Utenti : DeleteCollection(k) \/ MyDeleteCollection(k, u) \/ UpdateCollection(k, u)
    \/ \E x \in regole, u \in Utenti : DeleteRule(x) \/ MyDeleteRule(x, u)
    \/ \E t \in Tag, di \in Utenti, coll \in 0 .. MaxColl : CreateTag(t, di, coll) \/ MyCreateTag(t, di, coll)

(* What is true now, of what a request is about. *)
Fatti(r) ==
    LET q == req[r]
        Altri(p) == Utenti \ {p.chi}
        Sue(u) == {x \in regole : x.verso \in {u, GruppoDi[u]}}
    IN
    IF q.op \in Api THEN
        {<<"collezione", k.di, k.id>> : k \in {k \in collezioni : k.id = q.coll /\ k.di = q.di}}
        \cup {<<"livello", q.chi, l>> :
               l \in {l \in 1 .. 3 : q.chi # q.di /\ \E x \in Sue(q.chi) : x.coll = q.coll /\ l <= x.livello}}
    ELSE IF q.op = "lascia" THEN
        {<<"utente", u, 0>> : u \in {u \in {q.chi} : stato[u] \in {"attivo", "agente"}}}
        \cup {<<"persona", u, 0>> : u \in {u \in Altri(q) : stato[u] \in {"attivo", "disattivo"}}}
        \cup {<<"regola", x.di, x.coll>> : x \in {x \in Sue(q.chi) : x.di \in Altri(q)}}
        \cup {<<"voce", v.di, IF v.di = q.chi THEN 0 ELSE v.coll>> :
               v \in {v \in righe : v.nome = q.nome /\ (v.di = q.chi \/ v.coll # 0)}}
    ELSE {}

Next ==
    /\ \/ Altro
       \/ \E r \in Client : CominciaClient(r)
       \/ \E r \in Pannello : CominciaPannello(r)
       \/ \E r \in Richieste : Passo(r)
    /\ visti' = [r \in Client |-> IF req'[r] = Vuota THEN {} ELSE visti[r] \cup Fatti(r)']

Spec == Init /\ [][Next]_vars
-----------------------------------------------------------------------------
(* Every variable has its type, and the ids are keys. *)
TypeOK ==
    /\ righe \subseteq Riga /\ collezioni \subseteq Collezione /\ regole \subseteq Regola
    /\ \A v, w \in righe : v.id = w.id => v = w
    /\ \A v, w \in collezioni : v.id = w.id => v = w
    /\ \A v, w \in regole : v.id = w.id => v = w
    /\ stato \in [Utenti -> {"attivo", "disattivo", "agente", "assente"}]
    /\ \A r \in Richieste : pc[r] = "libera" <=> req[r] = Vuota

(* README.md:20-21, src/http/controller/api/ab.go:576-578: a client reads or writes in the
   address book of another only if, while its request ran, that collection was of that owner
   and a rule for the user or for its group let it; what was revoked before the
   request began lets nothing in.  In its own, only in a collection that was its own. *)
SoloConPermesso == \A r \in Client :
    LET q == req[r] IN
    pc[r] = "scrivi" =>
        /\ q.coll # 0 => <<"collezione", q.di, q.coll>> \in visti[r]
        /\ q.chi # q.di =>
              /\ q.coll # 0
              /\ \E l \in 1 .. 3 : /\ <<"livello", q.chi, l>> \in visti[r]
                                   /\ q.op # "legge" => l >= 2
                                   /\ q.op = "toglie" => l = 3

(* README.md:884-891: an agent gets a pass for a PC only if, while its request ran, its
   tecnico was enabled, and had the PC in an address book of its own, or in one of a
   person, never of an agent, shared with it by a rule. *)
NelConfine == \A r \in Client :
    LET q == req[r] IN
    pc[r] = "registra" /\ q.op = "lascia" =>
        /\ <<"utente", q.chi, 0>> \in visti[r]
        /\ \E u \in Utenti, coll \in 0 .. MaxColl :
              /\ <<"voce", u, coll>> \in visti[r]
              /\ (u = q.chi /\ coll = 0) \/ {<<"persona", u, 0>>, <<"regola", u, coll>>} \subseteq visti[r]

(* CHANGELOG.md:911-913: POST /api/ab changes entries of the personal address book of
   the user and nothing else. *)
SoloPersonale == [][\A r \in Client :
    pc[r] = "libera" /\ pc'[r] = "tag" =>
        \A v \in (righe \ righe') \cup (righe' \ righe) :
            v.di = req'[r].chi /\ v.coll = 0 /\ v.nome \in Pc]_vars
=============================================================================
