-------------------------------- MODULE Utenti --------------------------------
(***************************************************************************)
(* The accounts: persons, administrators and AI agents, each agent with    *)
(* the person (tecnico) who answers for it.  src/service/user.go, the      *)
(* panel's handlers, the LDAP sync and the command agente-ai.              *)
(*                                                                         *)
(* The rules are checked before the transaction that writes, one query     *)
(* after the other: a request is a process that goes through them, and     *)
(* what it has read may be stale when it writes.                           *)
(*                                                                         *)
(* attivo is Status: 1 (TRUE) and 2 (FALSE), the two values the panel      *)
(* sends.  The other columns do not enter in the rules.                    *)
(***************************************************************************)
EXTENDS Integers, FiniteSets, FiniteSetsExt

CONSTANTS
    RichiesteUtenti, \* the requests that can run at once
    Directory,       \* ids of the accounts the LDAP directory knows, with ldap.sync
    MaxUtenti        \* bound: accounts ever created

ASSUME UtentiAssumption ==
    /\ IsFiniteSet(RichiesteUtenti)
    /\ MaxUtenti \in Nat \ {0}
    /\ Directory \subseteq 1 .. MaxUtenti

Id     == 1 .. MaxUtenti
Utente == [id : Id, admin : BOOLEAN, attivo : BOOLEAN, agenteDi : Id \cup {0}]

(* The groups of the directory that count: ldap.user.admin-group, allow-group.  An
   empty memberOf is one the directory does not have: the group is searched. *)
Gruppi == {"admin", "ammessi"}

(* What a request is about to save (is_admin may be absent), or to delete. *)
Moduli == [op : {"salva", "ldap", "crea", "cancella"}, id : Id \cup {0},
           admin : {"si", "no", "assente"}, attivo : BOOLEAN, agenteDi : Id \cup {0},
           memberOf : SUBSET Gruppi]

Vuoto == [op |-> "crea", id |-> 0, admin |-> "no", attivo |-> FALSE, agenteDi |-> 0,
          memberOf |-> {}]

VARIABLES
    utenti,   \* the table of the accounts
    nuovo,    \* the next id (AUTOINCREMENT)
    query,    \* [RichiesteUtenti -> the next query of the request]
    modulo    \* [RichiesteUtenti -> what it is about to write]

varsUtenti == <<utenti, nuovo, query, modulo>>

InitUtenti ==
    /\ utenti = {[id |-> 1, admin |-> TRUE, attivo |-> TRUE, agenteDi |-> 0]}
    /\ nuovo = 2
    /\ query = [r \in RichiesteUtenti |-> "libera"]
    /\ modulo = [r \in RichiesteUtenti |-> Vuoto]

Amministratori == {u \in utenti : u.admin}

Agenti(id) == {u \in utenti : u.agenteDi = id}

SiNo(b) == IF b THEN "si" ELSE "no"

(* The panel's requests begin only for an administrator who is enabled. *)
Autorizzata == \E u \in Amministratori : u.attivo

Comincia(r, m, passo) ==
    /\ query[r] = "libera"
    /\ modulo' = [modulo EXCEPT ![r] = m]
    /\ query' = [query EXCEPT ![r] = passo]
    /\ UNCHANGED <<utenti, nuovo>>

Prosegui(r, passo) ==
    /\ query' = [query EXCEPT ![r] = passo]
    /\ UNCHANGED <<utenti, nuovo, modulo>>

TerminaUtenti(r) ==
    /\ query' = [query EXCEPT ![r] = "libera"]
    /\ modulo' = [modulo EXCEPT ![r] = Vuoto]

(* The request is refused: nothing is written. *)
Rifiuta(r) == TerminaUtenti(r) /\ UNCHANGED <<utenti, nuovo>>

-----------------------------------------------------------------------------
(* POST user/update, agenteValido: what the form leaves out comes from the row.
   An agent is never an administrator, nor its own tecnico. *)
Update(r, u, admin, attivo, agenteDi) ==
    LET ruolo == IF admin = "assente" THEN SiNo(u.admin) ELSE admin
        m     == [Vuoto EXCEPT !.op = "salva", !.id = u.id, !.admin = admin,
                               !.attivo = attivo, !.agenteDi = agenteDi]
    IN  /\ Autorizzata
        /\ agenteDi # 0 => ruolo = "no" /\ agenteDi # u.id
        /\ Comincia(r, m, IF agenteDi = 0 THEN "ultimo" ELSE "tecnico")

(* POST user/create: the row does not exist yet. *)
Create(r, admin, attivo, agenteDi) ==
    /\ Autorizzata
    /\ agenteDi # 0 => ~admin
    /\ Comincia(r, [Vuoto EXCEPT !.admin = SiNo(admin), !.attivo = attivo,
                                 !.agenteDi = agenteDi],
                IF agenteDi = 0 THEN "crea" ELSE "tecnico")

(* POST user/delete: InfoById. *)
Delete(r, u) ==
    /\ Autorizzata
    /\ Comincia(r, [Vuoto EXCEPT !.op = "cancella", !.id = u.id, !.admin = SiNo(u.admin),
                                 !.attivo = u.attivo, !.agenteDi = u.agenteDi], "agenti")

(* The command agente-ai, in a process of its own. *)
creaAgente(r, t) ==
    Comincia(r, [Vuoto EXCEPT !.attivo = TRUE, !.agenteDi = t], "tecnico")

(* A person signs up (Register), or enters for the first time from a provider. *)
Register(r, attivo) ==
    Comincia(r, [Vuoto EXCEPT !.attivo = attivo], "crea")

(* What a search of a user says of the one entry it finds: the attribute that enables
   it (or none is configured) and its groups.  The directory is outside and changes
   between two searches: each answer is free.  A search that fails, or finds none or
   many, ends the login with LDAP, and the local password is tried: nothing is
   written. *)
LdapUser == [attributo : {"nessuno", "atteso", "altro"}, memberOf : SUBSET Gruppi]

(* A userAccountControl that is no number is "altro", as one with ACCOUNTDISABLE. *)
isUserEnabled(lu) == lu.attributo # "altro"

ToUser(id, lu) == [Vuoto EXCEPT !.op = "ldap", !.id = id, !.attivo = isUserEnabled(lu),
                                !.memberOf = lu.memberOf]

(* InfoByUsernamePassword with LDAP on, the first search: id is the account of that
   name here, 0 if there is none. *)
Authenticate(r, id, lu) ==
    /\ isUserEnabled(lu)
    /\ Comincia(r, ToUser(id, lu), "gruppo")

(* An OIDC login with the email of an entry: no group and no password is asked. *)
GetUserInfoByEmailLocal(r, id, lu) == Comincia(r, ToUser(id, lu), "mappa")

(* isUserAdmin: memberOf decides, if there is one; else the search, and one that
   fails answers no. *)
isUserAdmin(m, trovato) == IF m.memberOf # {} THEN "admin" \in m.memberOf ELSE trovato

(* isUserInGroup searches also when memberOf does not list the group. *)
isUserInGroup(m, trovato) == "ammessi" \in m.memberOf \/ trovato

(* Mutant: the role of an agent is synchronised too. *)
RuoloSincronizzato(u, admin) == SiNo(admin)

(* An agent is never an administrator: the role of its row stays. *)
Sincronizzato(u, admin) == IF u.agenteDi = 0 THEN SiNo(admin) ELSE SiNo(u.admin)

-----------------------------------------------------------------------------
(* ControllaAgente reads the tecnico: a person, and enabled if the agent is. *)
TecnicoValido(m) ==
    \E t \in utenti :
        /\ t.id = m.agenteDi
        /\ t.agenteDi = 0
        /\ m.attivo => t.attivo

ControllaAgente(r) ==
    /\ query[r] = "tecnico"
    /\ \/ ~TecnicoValido(modulo[r]) /\ Rifiuta(r)
       \/ /\ TecnicoValido(modulo[r])
          /\ Prosegui(r, IF modulo[r].op = "crea" THEN "crea" ELSE "agenti")

(* Who answers for agents becomes no agent, and is not deleted. *)
contaAgenti(r) ==
    LET m == modulo[r] IN
    /\ query[r] = "agenti"
    /\ \/ Agenti(m.id) # {} /\ Rifiuta(r)
       \/ /\ Agenti(m.id) = {}
          /\ Prosegui(r, IF m.op = "salva" THEN "ultimo"
                         ELSE IF m.admin = "si" THEN "conta" ELSE "scrive")

(* The rest of Authenticate: the admins skip the allow-group (empty: all are in it);
   then the bind with the password.  Otherwise the local password is tried. *)
verifyCredentials(r, trovato, nelGruppo) ==
    /\ query[r] = "gruppo"
    /\ isUserAdmin(modulo[r], trovato) \/ isUserInGroup(modulo[r], nelGruppo)
    /\ Prosegui(r, "mappa")

(* mapToLocalUser reads the account, and asks for the role again: a new account is
   created, one that is here goes through Update. *)
mapToLocalUser(r, trovato) ==
    LET m == modulo[r]
        admin == isUserAdmin(m, trovato)
        Qui == {u \in utenti : u.id = m.id}
    IN
    /\ query[r] = "mappa"
    /\ UNCHANGED <<utenti, nuovo>>
    /\ \/ /\ Qui = {}
          /\ modulo' = [modulo EXCEPT ![r].op = "crea", ![r].id = 0, ![r].admin = SiNo(admin)]
          /\ query' = [query EXCEPT ![r] = "crea"]
       \/ \E u \in Qui :
          /\ modulo' = [modulo EXCEPT ![r].admin = Sincronizzato(u, admin),
                                      ![r].agenteDi = u.agenteDi]
          /\ query' = [query EXCEPT ![r] = "ultimo"]

(* controllaUltimoAdmin, first query: the account as it is now. *)
controllaUltimoAdmin(r) ==
    /\ query[r] = "ultimo"
    /\ \/ ~(\E u \in utenti : u.id = modulo[r].id) /\ Rifiuta(r)
       \/ \E u \in utenti :
            /\ u.id = modulo[r].id
            /\ Prosegui(r, IF u.admin THEN "conta" ELSE "scrive")

(* Mutant: a deletion does not count the administrators. *)
ToglieSalvando(m) == m.admin # "si" \/ ~m.attivo

(* What takes an administrator away. *)
Toglie(m) == m.op = "cancella" \/ m.admin # "si" \/ ~m.attivo

(* getAdminUserCount, and its check.  (With is_admin absent the code panics
   here: the request ends all the same, and nothing is written.) *)
getAdminUserCount(r) ==
    /\ query[r] = "conta"
    /\ LET ultimo == Cardinality(Amministratori) <= 1 IN
       \/ ultimo /\ Toglie(modulo[r]) /\ Rifiuta(r)
       \/ ~(ultimo /\ Toglie(modulo[r])) /\ Prosegui(r, "scrive")

(* The row as the transaction leaves it: the panel writes agente_di always, and
   is_admin if it is there; LDAP writes what is not zero. *)
Salvato(u, m) ==
    [u EXCEPT !.attivo   = m.attivo,
              !.admin    = IF m.admin = "assente" THEN @ ELSE m.admin = "si",
              !.agenteDi = IF m.op = "ldap" /\ m.agenteDi = 0 THEN @ ELSE m.agenteDi]

(* disattivaAgenti, in the same transaction: who is disabled disables its agents. *)
Disattivato(u, m) ==
    IF ~m.attivo /\ u.agenteDi = m.id THEN [u EXCEPT !.attivo = FALSE] ELSE u

Scrive(r) ==
    LET m == modulo[r] IN
    /\ query[r] = "scrive" /\ m.op \in {"salva", "ldap"}
    /\ utenti' = {Disattivato(IF u.id = m.id THEN Salvato(u, m) ELSE u, m) : u \in utenti}
    /\ TerminaUtenti(r)
    /\ UNCHANGED nuovo

Cancella(r) ==
    /\ query[r] = "scrive" /\ modulo[r].op = "cancella"
    /\ utenti' = {u \in utenti : u.id # modulo[r].id}
    /\ TerminaUtenti(r)
    /\ UNCHANGED nuovo

Crea(r) ==
    LET m == modulo[r] IN
    /\ query[r] = "crea"
    /\ nuovo <= MaxUtenti
    /\ utenti' = utenti \cup {[id |-> nuovo, admin |-> m.admin = "si", attivo |-> m.attivo,
                               agenteDi |-> m.agenteDi]}
    /\ nuovo' = nuovo + 1
    /\ TerminaUtenti(r)

(* The name is taken, or a statement fails. *)
Fallisce(r) ==
    /\ query[r] # "libera"
    /\ Rifiuta(r)

-----------------------------------------------------------------------------
ArrivaUtenti(r) ==
    \/ \E u \in utenti, admin \in {"si", "no", "assente"}, attivo \in BOOLEAN :
         \E t \in {0, u.agenteDi} \cup Id : Update(r, u, admin, attivo, t)
    \/ \E admin, attivo \in BOOLEAN, t \in {0} \cup Id : Create(r, admin, attivo, t)
    \/ \E u \in utenti : Delete(r, u)
    \/ \E t \in utenti : creaAgente(r, t.id)
    \/ \E attivo \in BOOLEAN : Register(r, attivo)
    \/ \E id \in {0} \cup Directory, lu \in LdapUser :
         /\ Directory # {}
         /\ Authenticate(r, id, lu) \/ GetUserInfoByEmailLocal(r, id, lu)

ProsegueUtenti(r) ==
    \/ \E trovato, nelGruppo \in BOOLEAN : verifyCredentials(r, trovato, nelGruppo)
    \/ \E trovato \in BOOLEAN : mapToLocalUser(r, trovato)
    \/ ControllaAgente(r)
    \/ contaAgenti(r)
    \/ controllaUltimoAdmin(r)
    \/ getAdminUserCount(r)
    \/ Scrive(r)
    \/ Cancella(r)
    \/ Crea(r)
    \/ Fallisce(r)

NextUtenti == \E r \in RichiesteUtenti : ArrivaUtenti(r) \/ ProsegueUtenti(r)

SpecUtenti == InitUtenti /\ [][NextUtenti]_varsUtenti

-----------------------------------------------------------------------------
(* Every variable has its type; id is the key of the table. *)
TypeOKUtenti ==
    /\ utenti \subseteq Utente
    /\ \A u, v \in utenti : u.id = v.id => u = v
    /\ nuovo \in 1 .. MaxUtenti + 1
    /\ \A u \in utenti : u.id < nuovo
    /\ query \in [RichiesteUtenti -> {"libera", "gruppo", "mappa", "tecnico", "agenti",
                                   "ultimo", "conta", "scrive", "crea"}]
    /\ modulo \in [RichiesteUtenti -> Moduli]

Sequenza == Cardinality(RichiesteUtenti) <= 1

(* After any sequence of requests, one at a time, logins with LDAP among them: an
   agent is never an administrator, and has its person, who is there and is no
   agent; and an enabled agent has an enabled one, except the agents the directory
   enables again (mapToLocalUser does not ask ControllaAgente). *)
RegoleAgenti ==
    Sequenza => \A a \in utenti : a.agenteDi # 0 =>
        /\ ~a.admin
        /\ \E t \in utenti :
            /\ t.id = a.agenteDi
            /\ t.agenteDi = 0
            /\ a.attivo /\ a.id \notin Directory => t.attivo

(* The comment of UserService.Update: the last administrator is not disabled and
   does not lose the role.  An administrator is always there. *)
UltimoAdmin == Amministratori # {}

(* The same, one request at a time. *)
UltimoAdminInSequenza == Sequenza => UltimoAdmin
=============================================================================
