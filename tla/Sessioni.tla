------------------------------- MODULE Sessioni -------------------------------
(***************************************************************************)
(* The sessions: who gets a token, who still enters with one, and what     *)
(* ends it.  src/service/user.go, the logins of the client and of the      *)
(* panel, the two middlewares that read a token, the change of password.   *)
(*                                                                         *)
(* A statement and a transaction of the database are atomic; a request is  *)
(* a process that goes through several, and what it has read may be stale  *)
(* when it writes.  Of a password only whether there is one, which the     *)
(* accounts a provider creates have not: whether the one sent is right is  *)
(* free.  Time only lets a token expire.  Which account an OIDC login is of is    *)
(* decided elsewhere; the device a login binds to its user belongs to the  *)
(* devices, and the limiter of the logins is module Limitatore.            *)
(***************************************************************************)
EXTENDS Integers, FiniteSets

CONSTANTS
    Richieste,          \* the requests that can run at once
    Utenti,
    Amministratori,     \* those who administer: not disabled nor made agents here
    Vuoti,              \* accounts that begin with no password
    Elenco,             \* app.pwd-login-eccezioni
    Dispositivi,        \* the uuids of the devices
    Provenienze,        \* bound: the kinds of login, with the uuid each sends
    Nessuno,            \* no uuid, no user
    DisablePwdLogin,    \* app.disable-pwd-login
    MaxToken            \* bound: tokens ever created

ASSUME SessioniAssumption ==
    /\ Amministratori \subseteq Utenti
    /\ Nessuno \notin Dispositivi \cup Utenti
    /\ Provenienze \subseteq {"client", "pannello", "oidc"} \X (Dispositivi \cup {Nessuno})
    /\ \A p \in Provenienze : p[1] = "pannello" => p[2] = Nessuno
    /\ DisablePwdLogin \in BOOLEAN
    /\ MaxToken \in Nat

VARIABLES
    utenti,            \* [Utenti -> password and status]
    tokens,            \* the table of the tokens
    nuovo,             \* the next id (AUTOINCREMENT)
    pc,                \* [Richieste -> the next statement of the request]
    richiesta          \* [Richieste -> what it carries and has read]

tabelle == <<utenti, tokens, nuovo>>
vars    == <<utenti, tokens, nuovo, pc, richiesta>>

Stati == {"persona", "agente", "disattivato", "cancellato"}
Uuid  == Dispositivi \cup {Nessuno}
Ops   == {"client", "pannello", "oidc",                        \* logins
          "esci", "rubrica",                                   \* routes of the client
          "cambia", "reimposta", "revoca"}                     \* routes of the panel

(* via, agente and vecchio are history: the login that made the token, whether it
   had read an agent, whether the password has changed since. *)
UserToken == [id : 1 .. MaxToken, utente : Utenti, uuid : Uuid, scaduto : BOOLEAN,
              via : {"client", "pannello", "oidc"}, agente : BOOLEAN, vecchio : BOOLEAN]

(* utente is who logs in, who the token is of, or whose password changes; copia is
   whether there was a password, as read; agente whether the login read an agent. *)
Richiesta == [op : Ops, utente : Utenti \cup {Nessuno}, uuid : Uuid, token : 0 .. MaxToken,
              copia : BOOLEAN, agente : BOOLEAN]

Vuota == [op |-> "rubrica", utente |-> Nessuno, uuid |-> Nessuno, token |-> 0,
          copia |-> FALSE, agente |-> FALSE]

Init ==
    /\ utenti = [u \in Utenti |-> [password |-> u \notin Vuoti, stato |-> "persona"]]
    /\ tokens = {}
    /\ nuovo = 1
    /\ pc = [r \in Richieste |-> "libera"]
    /\ richiesta = [r \in Richieste |-> Vuota]

CheckUserEnable(u) == utenti[u].stato \in {"persona", "agente"}

Va(r, passo) == pc' = [pc EXCEPT ![r] = passo]

Termina(r) == Va(r, "libera") /\ richiesta' = [richiesta EXCEPT ![r] = Vuota]

(* The request is refused: nothing is written. *)
Rifiuta(r) == Termina(r) /\ UNCHANGED tabelle

Legge(r, passo) == Va(r, passo) /\ UNCHANGED tabelle
-----------------------------------------------------------------------------
(* The logins *)

(* A password login of the client, with its device, or of the panel, with none; or
   the last poll of an OIDC login of the panel, with the uuid its page sent. *)
Comincia(r, op, u, uuid) ==
    /\ pc[r] = "libera"
    /\ richiesta' = [richiesta EXCEPT ![r] = [Vuota EXCEPT !.op = op, !.utente = u, !.uuid = uuid]]
    /\ Legge(r, CASE op = "oidc"        -> "utente"
                  [] DisablePwdLogin    -> "eccezione"
                  [] OTHER              -> "password")

(* EccezionePwdLogin: the agents are an exception on the client alone. *)
EccezionePwdLogin(op, u) == u \in Elenco \/ (op = "client" /\ utenti[u].stato = "agente")

Eccezione(r) ==
    LET q == richiesta[r] IN
    /\ pc[r] = "eccezione"
    /\ IF EccezionePwdLogin(q.op, q.utente)
       THEN Legge(r, "password") /\ UNCHANGED richiesta
       ELSE Rifiuta(r)

(* Whether the account as read may have a token: on the panel an agent may not
   (with OIDC it is refused only after Login). *)
Entra(op, u) == CheckUserEnable(u) /\ (op = "pannello" => utenti[u].stato # "agente")

(* InfoByUsernamePassword finds the account and the password is the right one: an
   empty password never is. *)
InfoByUsernamePassword(r) ==
    LET u == richiesta[r].utente IN
    /\ pc[r] = "password"
    /\ utenti[u].stato # "cancellato" /\ utenti[u].password
    /\ IF Entra(richiesta[r].op, u)
       THEN Legge(r, "token") /\ UNCHANGED richiesta
       ELSE Rifiuta(r)

(* No such account, or a wrong password. *)
PasswordSbagliata(r) == pc[r] = "password" /\ Rifiuta(r)

(* OidcAuthQueryPre: the account the login was confirmed for. *)
OidcAuthQueryPre(r) ==
    LET u == richiesta[r].utente IN
    /\ pc[r] = "utente"
    /\ richiesta[r].op = "oidc"
    /\ IF Entra("oidc", u)
       THEN /\ Legge(r, "token")
            /\ richiesta' = [richiesta EXCEPT ![r].agente = (utenti[u].stato = "agente")]
       ELSE Rifiuta(r)

(* Mutant: the panel answers the agent's OIDC login like any other. *)
DopoLoginSenzaRevoca(q) == "libera"

(* OidcAuthQuery of the panel: an agent's token is revoked before the answer. *)
DopoLogin(q) == IF q.op = "oidc" /\ q.agente THEN "logout" ELSE "libera"

(* Login: the token and the row of the accesses, in a transaction. *)
Login(r) ==
    LET q == richiesta[r] IN
    /\ pc[r] = "token"
    /\ nuovo <= MaxToken
    /\ tokens' = tokens \cup {[id |-> nuovo, utente |-> q.utente, uuid |-> q.uuid, scaduto |-> FALSE,
                               via |-> q.op, agente |-> q.agente, vecchio |-> FALSE]}
    /\ nuovo' = nuovo + 1
    /\ IF DopoLogin(q) = "libera"
       THEN Termina(r)
       ELSE Va(r, DopoLogin(q)) /\ richiesta' = [richiesta EXCEPT ![r].token = nuovo]
    /\ UNCHANGED <<utenti>>
-----------------------------------------------------------------------------
(* The requests that carry a token *)

(* InfoByAccessToken, its first query. *)
ConToken(r, op, t) ==
    /\ pc[r] = "libera"
    /\ ~t.scaduto
    /\ richiesta' = [richiesta EXCEPT ![r] = [Vuota EXCEPT !.op = op, !.utente = t.utente, !.token = t.id]]
    /\ Legge(r, "autorizza")

(* rotteAgente and the middleware of the panel: what an agent may call. *)
PerAgente(op) == op = "esci"

(* The rest of RustAuth and of BackendUserAuth, and AdminPrivilege. *)
Autorizzata(op, u) ==
    /\ CheckUserEnable(u)
    /\ utenti[u].stato = "agente" => PerAgente(op)
    /\ op \in {"reimposta", "revoca"} => u \in Amministratori

Autorizza(r) ==
    LET q == richiesta[r] IN
    /\ pc[r] = "autorizza"
    /\ IF Autorizzata(q.op, q.utente)
       THEN /\ Legge(r, "rinnova")
            /\ richiesta' = [richiesta EXCEPT ![r].copia = (q.op = "cambia" /\ utenti[q.utente].password)]
       ELSE Rifiuta(r)

Gestore(op) == CASE op = "esci"      -> "logout"
                 [] op = "cambia"    -> "vecchia"
                 [] op = "reimposta" -> "bersaglio"
                 [] op = "revoca"    -> "quale"
                 [] OTHER            -> "libera"

(* Mutant: the token read is saved whole, and so once more if it is gone. *)
RinnovatiConSave(q) ==
    {t \in tokens : t.id # q.token}
      \cup {[id |-> q.token, utente |-> q.utente, uuid |-> Nessuno, scaduto |-> FALSE,
             via |-> "client", agente |-> FALSE, vecchio |-> FALSE]}

(* RefreshAccessToken: an UPDATE by id, that touches no row if the token is gone. *)
Rinnovati(q) == {[t EXCEPT !.scaduto = @ /\ t.id # q.token] : t \in tokens}

(* AutoRefreshAccessToken, if the token has not long to go; a failure only warns.
   And to the handler. *)
AutoRefresh(r, scade) ==
    LET q == richiesta[r] IN
    /\ pc[r] = "rinnova"
    /\ tokens' = IF scade THEN Rinnovati(q) ELSE tokens
    /\ IF Gestore(q.op) = "libera" THEN Termina(r)
       ELSE /\ Va(r, Gestore(q.op))
            /\ richiesta' = [richiesta EXCEPT ![r].token = IF q.op = "esci" THEN @ ELSE 0]
    /\ UNCHANGED <<utenti, nuovo>>

(* Logout: the token of the request, if it is still there. *)
Logout(r) ==
    /\ pc[r] = "logout"
    /\ tokens' = {t \in tokens : t.id # richiesta[r].token}
    /\ Termina(r)
    /\ UNCHANGED <<utenti, nuovo>>

(* userToken.Delete: TokenInfoById, and DeleteToken. *)
TokenInfoById(r, t) ==
    /\ pc[r] = "quale"
    /\ richiesta' = [richiesta EXCEPT ![r].token = t.id]
    /\ Legge(r, "logout")

(* userToken.BatchDelete *)
BatchDeleteUserToken(r, ids) ==
    /\ pc[r] = "quale"
    /\ tokens' = {t \in tokens : t.id \notin ids}
    /\ Termina(r)
    /\ UNCHANGED <<utenti, nuovo>>

(* ChangeCurPwd: no old password is asked if the account has none now; otherwise
   it is compared with the one the middleware had read. *)
ChangeCurPwd(r) ==
    LET q == richiesta[r] IN
    /\ pc[r] = "vecchia"
    /\ \/ utenti[q.utente].stato # "cancellato" /\ ~utenti[q.utente].password
       \/ q.copia
    /\ Legge(r, "scrive")
    /\ UNCHANGED richiesta

(* UpdatePassword of an administrator: InfoById. *)
Bersaglio(r, u) ==
    /\ pc[r] = "bersaglio"
    /\ utenti[u].stato # "cancellato"
    /\ richiesta' = [richiesta EXCEPT ![r].utente = u]
    /\ Legge(r, "scrive")

(* The command reset-pwd, in a process of its own. *)
reimpostaPassword(r, u) ==
    /\ pc[r] = "libera"
    /\ utenti[u].stato # "cancellato"
    /\ richiesta' = [richiesta EXCEPT ![r] = [Vuota EXCEPT !.op = "reimposta", !.utente = u]]
    /\ Legge(r, "scrive")

(* OldPasswordError, no such account, no such token. *)
Respinta(r) == pc[r] \in {"vecchia", "bersaglio", "quale"} /\ Rifiuta(r)

(* UpdatePassword of the service, its first statement ... *)
UpdatePassword(r) ==
    LET u == richiesta[r].utente IN
    /\ pc[r] = "scrive"
    /\ utenti' = [utenti EXCEPT ![u].password = @ \/ utenti[u].stato # "cancellato"]
    /\ tokens' = {[t EXCEPT !.vecchio = @ \/ t.utente = u] : t \in tokens}
    /\ Va(r, "svuota")
    /\ richiesta' = [richiesta EXCEPT ![r] = [Vuota EXCEPT !.op = "reimposta", !.utente = u]]
    /\ UNCHANGED nuovo

(* Mutant: the tokens of the devices stay. *)
FlushTokenDelPannello(u) == {t \in tokens : t.utente # u \/ t.uuid # Nessuno}

(* ... FlushToken, its second. *)
FlushToken(u) == {t \in tokens : t.utente # u}

Svuota(r) ==
    /\ pc[r] = "svuota"
    /\ tokens' = FlushToken(richiesta[r].utente)
    /\ Termina(r)
    /\ UNCHANGED <<utenti, nuovo>>
-----------------------------------------------------------------------------
(* PeerService.Delete: the tokens of the uuid of the PC that goes away.  A PC made
   on the panel has no uuid. *)
FlushTokenByUuid(uuid) ==
    /\ tokens' = {t \in tokens : t.uuid # uuid}
    /\ UNCHANGED <<utenti, nuovo, pc, richiesta>>

(* PeerService.BatchDelete: GetUuidListByIDs leaves out the empty uuids. *)
BatchDeletePeer(uuids) ==
    /\ tokens' = {t \in tokens : t.uuid \notin uuids \ {Nessuno}}
    /\ UNCHANGED <<utenti, nuovo, pc, richiesta>>

(* What module Utenti does to an account: the tokens stay where they are. *)
CambiaStato(u, stato) ==
    /\ u \notin Amministratori
    /\ utenti[u].stato \notin {stato, "cancellato"}
    /\ utenti' = [utenti EXCEPT ![u].stato = stato]
    /\ UNCHANGED <<tokens, nuovo, pc, richiesta>>

(* expired_at goes by. *)
Scade(t) ==
    /\ tokens' = (tokens \ {t}) \cup {[t EXCEPT !.scaduto = TRUE]}
    /\ UNCHANGED <<utenti, nuovo, pc, richiesta>>

(* A statement fails, or the process dies: what the request had still to do is not
   done by anybody, and the request stays as the record of it. *)
Guasto(r) ==
    /\ pc[r] \in {"svuota", "logout"}
    /\ Legge(r, IF pc[r] = "svuota" THEN "nonSvuotato" ELSE "nonRevocato")
    /\ UNCHANGED richiesta

(* Nothing was left to do. *)
Fallisce(r) == pc[r] \in {"token", "scrive"} /\ Rifiuta(r)

Arriva(r) ==
    \/ \E p \in Provenienze, u \in Utenti : Comincia(r, p[1], u, p[2])
    \/ \E op \in {"esci", "rubrica", "cambia", "reimposta", "revoca"}, t \in tokens : ConToken(r, op, t)
    \/ \E u \in Utenti : reimpostaPassword(r, u)

Prosegue(r) ==
    \/ Eccezione(r)
    \/ InfoByUsernamePassword(r)
    \/ PasswordSbagliata(r)
    \/ OidcAuthQueryPre(r)
    \/ Login(r)
    \/ Autorizza(r)
    \/ \E scade \in BOOLEAN : AutoRefresh(r, scade)
    \/ Logout(r)
    \/ \E t \in tokens : TokenInfoById(r, t)
    \/ \E ids \in SUBSET {t.id : t \in tokens} : BatchDeleteUserToken(r, ids)
    \/ ChangeCurPwd(r)
    \/ \E u \in Utenti : Bersaglio(r, u)
    \/ Respinta(r)
    \/ UpdatePassword(r)
    \/ Svuota(r)
    \/ Guasto(r)
    \/ Fallisce(r)

Next ==
    \/ \E r \in Richieste : Arriva(r) \/ Prosegue(r)
    \/ \E uuid \in Uuid : FlushTokenByUuid(uuid)
    \/ \E uuids \in SUBSET Uuid : BatchDeletePeer(uuids)
    \/ \E u \in Utenti, stato \in Stati : CambiaStato(u, stato)
    \/ \E t \in tokens : Scade(t)

Spec == Init /\ [][Next]_vars
-----------------------------------------------------------------------------
(* Every variable has its type; id is the key of the table. *)
TypeOK ==
    /\ utenti \in [Utenti -> [password : BOOLEAN, stato : Stati]]
    /\ tokens \subseteq UserToken
    /\ \A s, t \in tokens : s.id = t.id => s = t
    /\ \A t \in tokens : t.id < nuovo
    /\ nuovo \in 1 .. MaxToken + 1
    /\ pc \in [Richieste -> {"libera", "eccezione", "password", "utente", "token", "autorizza",
                             "rinnova", "logout", "vecchia", "bersaglio", "quale", "scrive",
                             "svuota", "nonRevocato", "nonSvuotato"}]
    /\ richiesta \in [Richieste -> Richiesta]

(* CHANGELOG.md:423: a change of password takes away all the user's tokens.  A
   session begun before the change is there only while the change is half way, or
   if the second of its statements failed.  (A login that had read the old
   password gives its token after the change: that one begins later.) *)
CambioChiude == \A t \in tokens : t.vecchio =>
    \E r \in Richieste : pc[r] \in {"svuota", "nonSvuotato"} /\ richiesta[r].utente = t.utente

(* A token revoked, by whatever way and while requests that carry it are under
   way, never comes back: only a login adds a token, with an id never used. *)
RevocaDefinitiva == [][\A t \in tokens' : t.id < nuovo => \E s \in tokens : s.id = t.id]_vars

(* An agent has no token of the panel: the one that its OIDC login makes is about
   to be revoked, unless the request died or the revocation failed. *)
AgenteFuoriDalPannello == \A t \in tokens : t.agente =>
    \E r \in Richieste : pc[r] \in {"logout", "nonRevocato"} /\ richiesta[r].token = t.id
=============================================================================
