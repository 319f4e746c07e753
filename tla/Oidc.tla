--------------------------------- MODULE Oidc ---------------------------------
(***************************************************************************)
(* The logins by an identity provider: the cache of the login codes with   *)
(* its timers, the provider's callback, the polls that end a login, the    *)
(* confirmations of the panel, the bindings of the provider's accounts to  *)
(* users (user_thirds), the registration of new users and the association  *)
(* requests that wait for an administrator.  src/service/oauth.go,         *)
(* src/service/associazioni.go, api/oauth.go, admin/oauth.go,              *)
(* RegisterByOauth of src/service/user.go.                                 *)
(*                                                                         *)
(* A request is a process.  The item of a code is one object in memory     *)
(* that every request that has found it shares, in the cache or not any    *)
(* more; its fields are read and written with no lock, whole or not at all *)
(* (a torn string is one of the two).  There is one OIDC provider, and the *)
(* webauth login that the panel confirms; LDAP is off, and every account   *)
(* has an email.  What the token is and how long it lasts is Sessioni.     *)
(***************************************************************************)
EXTENDS Integers, FiniteSets, Sequences, SequencesExt

CONSTANTS
    Richieste,          \* the requests that can run at once
    Utenti,             \* bound: the ids of users
    Fissi,              \* bound: those there from the start, whom nobody disables or deletes
    Account,            \* the accounts of the provider (sub)
    Verificati,         \* those with an email the provider has verified
    Omonimi,            \* [Account -> the users that have, or will have, its email]
    Codici,             \* bound: the login codes ever begun
    Nessuno,
    WebSso,             \* app.web-sso
    DisablePwdLogin,    \* app.disable-pwd-login
    TettoRichieste

ASSUME OidcAssumption ==
    /\ Fissi \subseteq Utenti
    /\ Nessuno \notin Account \cup Utenti \cup Codici \cup Richieste
    /\ Account \cap Utenti = {}
    /\ Verificati \subseteq Account
    /\ Omonimi \in [Account -> (SUBSET Utenti) \ {{}}]
    /\ WebSso \in BOOLEAN /\ DisablePwdLogin \in BOOLEAN
    /\ TettoRichieste \in Nat \ {0}

VARIABLES
    cache,       \* the codes in OauthCache
    voci,        \* [Codici -> the item of the code]
    scaduti,     \* the codes whose timer has fired
    utenti,      \* [Utenti -> status]
    terzi,       \* user_thirds
    fornitore,   \* the row of the provider: is there, registers new users
    richieste,   \* the accounts of the association requests, the oldest first
    lock,        \* who holds the lock of RegisterByOauth
    pc,          \* [Richieste -> the next step of the request]
    req,         \* [Richieste -> what it carries and has read]
    prove,       \* history, [Codici -> who has logged in or confirmed for the code]
    tokens       \* history: the tokens given, with the code each came from

memoria == <<cache, voci, scaduti, richieste>>
base    == <<utenti, terzi, fornitore>>
vars    == <<cache, voci, scaduti, utenti, terzi, fornitore, richieste, lock, pc, req, prove, tokens>>

Stati == {"mai", "attivo", "disattivato", "cancellato"}

(* OauthCacheItem. *)
Voce == [op : {"oidc", "webauth"}, azione : {"mai", "login", "bind"},
         utente : Utenti \cup {Nessuno}, account : Account \cup {Nessuno}]

Mai == [op |-> "oidc", azione |-> "mai", utente |-> Nessuno, account |-> Nessuno]

UserThird == [utente : Utenti, account : Account]

(* What a request holds: the item, the account, the user it has found. *)
Req   == [codice : Codici \cup {Nessuno}, account : Account \cup {Nessuno}, utente : Utenti \cup {Nessuno}]
Vuota == [codice |-> Nessuno, account |-> Nessuno, utente |-> Nessuno]

Init ==
    /\ cache = {} /\ scaduti = {}
    /\ voci = [k \in Codici |-> Mai]
    /\ utenti = [u \in Utenti |-> IF u \in Fissi THEN "attivo" ELSE "mai"]
    /\ terzi = {} /\ fornitore = "spento"
    /\ richieste = <<>>
    /\ lock = Nessuno
    /\ pc = [r \in Richieste |-> "libera"]
    /\ req = [r \in Richieste |-> Vuota]
    /\ prove = [k \in Codici |-> {}] /\ tokens = {}

CheUtente(u) == utenti[u] \notin {"mai", "cancellato"}

Va(r, passo) == pc' = [pc EXCEPT ![r] = passo]
Tiene(r, passo, q) == Va(r, passo) /\ req' = [req EXCEPT ![r] = q]
Finisce(r) == Tiene(r, "libera", Vuota)

(* The steps that read, and those that end a request. *)
Legge(r, passo, q) == Tiene(r, passo, q) /\ UNCHANGED <<memoria, base, lock, tokens>>
Rifiuta(r)         == Finisce(r) /\ UNCHANGED <<memoria, base, lock, tokens>>

-----------------------------------------------------------------------------
(* The cache of the codes *)

(* BeginAuth: a webauth login is there only if it is on, an OIDC one only with its
   provider. *)
BeginAuth(op) == IF op = "webauth" THEN WebSso ELSE fornitore # "assente"

SetOauthCache(k, voce) ==
    /\ k \notin cache /\ voci[k] = Mai
    /\ cache' = cache \cup {k}
    /\ voci' = [voci EXCEPT ![k] = voce]
    /\ UNCHANGED <<scaduti, richieste, base, lock, pc, req, tokens>>

(* A login of the client begins, or one of the panel. *)
OidcAuth(k, op) ==
    /\ BeginAuth(op)
    /\ SetOauthCache(k, [Mai EXCEPT !.op = op, !.azione = "login"])

OidcAuthPannello(k, op) == OidcAuth(k, op)

(* A user of the panel with no account of the provider asks to bind one. *)
ToBind(k, u) ==
    /\ utenti[u] = "attivo"
    /\ \A t \in terzi : t.utente # u
    /\ BeginAuth("oidc")
    /\ SetOauthCache(k, [Mai EXCEPT !.azione = "bind", !.utente = u])

(* The five minutes of a code are over: its timer deletes what is in the cache. *)
Timer(k) ==
    /\ voci[k] # Mai /\ k \notin scaduti
    /\ scaduti' = scaduti \cup {k}
    /\ cache' = cache \ {k}
    /\ UNCHANGED <<voci, richieste, base, lock, pc, req, tokens>>

(* The end of a login: the user goes into the item, whoever shares it sees him, ... *)
Segna(r) ==
    /\ pc[r] = "segna"
    /\ voci' = [voci EXCEPT ![req[r].codice].utente = req[r].utente]
    /\ Va(r, "rimetti")
    /\ UNCHANGED <<cache, scaduti, richieste, base, lock, req, tokens>>

(* ... and the item goes into the cache, with no timer. *)
Rimetti(r) ==
    /\ pc[r] = "rimetti"
    /\ cache' = cache \cup {req[r].codice}
    /\ Finisce(r)
    /\ UNCHANGED <<voci, scaduti, richieste, base, lock, tokens>>

-----------------------------------------------------------------------------
(* The bindings *)

(* IndiceOpenIdUnico lets the row of the account in. *)
IndiceOpenIdUnico(a) == \A t \in terzi : t.account # a

(* associa: neither the account nor the user is bound yet, read in the transaction
   that writes. *)
Associabile(u, a) == \A t \in terzi : t.account # a /\ t.utente # u

Lega(u, a) == terzi' = terzi \cup {[utente |-> u, account |-> a]}

Slega(u) == terzi' = {t \in terzi : t.utente # u}

(* BindOauthUser, from the callback of a bind or from BindConfirm. *)
BindOauthUser(r) ==
    LET q == req[r] IN
    /\ pc[r] = "lega"
    /\ IF Associabile(q.utente, q.account) /\ fornitore # "assente"
       THEN /\ Lega(q.utente, q.account)
            /\ IF voci[q.codice].azione = "bind" THEN Finisce(r) ELSE Tiene(r, "togli", q)
            /\ UNCHANGED <<utenti, fornitore, memoria, lock, tokens>>
       ELSE Rifiuta(r)

(* Unbind, of the user himself. *)
UnBindThird(u) ==
    /\ utenti[u] = "attivo"
    /\ \E t \in terzi : t.utente = u
    /\ Slega(u)
    /\ UNCHANGED <<utenti, fornitore, memoria, lock, pc, req, tokens>>

-----------------------------------------------------------------------------
(* The association requests, each method under their mutex.  Their codes are random
   and different, so an entry stands for its code.  Whoever reads the list first takes
   away the expired ones, so that an entry expires when it leaves. *)

(* DeleteFunc with an account, which has one entry at most (UnoPerAccount). *)
Altre(a) == RemoveFirst(richieste, a)

(* Mutant: the list is full one later. *)
NelTettoUnoDopo(s) == IF Len(s) > TettoRichieste THEN Tail(s) ELSE s

(* There is room for one more: the oldest leave. *)
NelTetto(s) == IF Len(s) >= TettoRichieste THEN SubSeq(s, Len(s) - TettoRichieste + 2, Len(s)) ELSE s

Nuova(a) == richieste' = Append(NelTetto(Altre(a)), a)

(* Mutant: the one searched is still the oldest. *)
TogliPrima(a) == richieste' = IF richieste = <<>> THEN <<>> ELSE Tail(richieste)

Togli(a) == richieste' = Altre(a)

(* Its half hour is over. *)
pulisci ==
    /\ richieste # <<>>
    /\ richieste' = Tail(richieste)
    /\ UNCHANGED <<cache, voci, scaduti, base, lock, pc, req, tokens>>

cerca(a) == a \in ToSet(richieste)

(* AssociaRichiesta: the administrator gives a code and a user, ... *)
Associa(r, a, u) ==
    /\ pc[r] = "libera"
    /\ cerca(a) /\ fornitore # "assente"
    /\ Legge(r, "associa", [Vuota EXCEPT !.account = a, !.utente = u])

(* ... the transaction looks at the user too, ... *)
AssociaRichiesta(r) ==
    LET q == req[r] IN
    /\ pc[r] = "associa"
    /\ IF utenti[q.utente] = "attivo" /\ Associabile(q.utente, q.account)
       THEN /\ Lega(q.utente, q.account)
            /\ Va(r, "togli")
            /\ UNCHANGED <<utenti, fornitore, memoria, lock, req, tokens>>
       ELSE Rifiuta(r)

(* ... and the request leaves.  BindConfirm does the same with the account that is
   in the item now, and ends the login. *)
TogliRichiesta(r) ==
    LET q == req[r] IN
    /\ pc[r] = "togli"
    /\ Togli(IF q.codice = Nessuno THEN q.account ELSE voci[q.codice].account)
    /\ IF q.codice = Nessuno THEN Finisce(r) ELSE Tiene(r, "segna", q)
    /\ UNCHANGED <<cache, voci, scaduti, base, lock, tokens>>

-----------------------------------------------------------------------------
(* The callback of the provider *)

OauthCallback(r, k) ==
    /\ pc[r] = "libera"
    /\ k \in cache
    /\ Legge(r, "scambio", [Vuota EXCEPT !.codice = k])

(* The exchange with the provider, if it is still there. *)
Scambio(v) == v.op = "oidc" /\ fornitore # "assente"

(* It says whose account it is.  What follows depends on what the item says when the
   answer comes. *)
Callback(r, a) ==
    LET k == req[r].codice
        v == voci[k]
        q == [req[r] EXCEPT !.account = a]
        daLegare  == v.azione = "bind" /\ CheUtente(v.utente)
        daTrovare == v.azione = "login" /\ v.utente = Nessuno
    IN  /\ pc[r] = "scambio"
        /\ Scambio(v)
        /\ \/ daLegare /\ Tiene(r, "lega", [q EXCEPT !.utente = v.utente])
           \/ daTrovare /\ Tiene(r, "terzo", q)
           \/ ~daLegare /\ ~daTrovare /\ Finisce(r)
        /\ UNCHANGED <<memoria, base, lock, tokens>>

(* InfoByOauthId: the binding of the account, then its user. *)
UserThirdInfo(r) ==
    /\ pc[r] = "terzo"
    /\ \/ \E t \in terzi : /\ t.account = req[r].account
                            /\ Legge(r, "utente", [req[r] EXCEPT !.utente = t.utente])
       \/ /\ \A t \in terzi : t.account # req[r].account
          /\ Legge(r, "fornitore", req[r])

InfoById(r) ==
    /\ pc[r] = "utente"
    /\ Legge(r, IF CheUtente(req[r].utente) THEN "segna" ELSE "fornitore", req[r])

(* An account with no user: it is registered, or waits for an administrator with a
   code of its own and, if the panel opens with a password, for its user there. *)
InfoByOp(r) ==
    LET q == req[r] IN
    /\ pc[r] = "fornitore"
    /\ \/ fornitore = "assente" /\ Rifiuta(r)
       \/ fornitore = "acceso" /\ Legge(r, "attende", q)
       \/ /\ fornitore = "spento"
          /\ Nuova(q.account)
          /\ voci' = IF DisablePwdLogin THEN voci
                     ELSE [voci EXCEPT ![q.codice].account = q.account]
          /\ Finisce(r)
          /\ UNCHANGED <<cache, scaduti, base, lock, tokens>>

-----------------------------------------------------------------------------
(* RegisterByOauth, under its lock *)

Lock(r) ==
    /\ pc[r] = "attende" /\ lock = Nessuno
    /\ lock' = r
    /\ Va(r, "rTerzo")
    /\ UNCHANGED <<memoria, base, req, tokens>>

(* Mutant: an early return with the lock held. *)
RegistraRifiutaSenzaSbloccare(r) == Finisce(r) /\ UNCHANGED <<memoria, base, tokens, lock>>

(* Every return unlocks. *)
RegistraRifiuta(r) == Finisce(r) /\ lock' = Nessuno /\ UNCHANGED <<memoria, base, tokens>>

Registrato(r, u) == Tiene(r, "segna", [req[r] EXCEPT !.utente = u]) /\ lock' = Nessuno

RegistraTerzo(r) ==
    LET altri == {t \in terzi : t.account = req[r].account} IN
    /\ pc[r] = "rTerzo"
    /\ \/ \E t \in altri : Legge(r, "rUtente", [req[r] EXCEPT !.utente = t.utente])
       \/ altri = {} /\ Legge(r, "rPosta", req[r])

RegistraUtente(r) ==
    /\ pc[r] = "rUtente"
    /\ IF CheUtente(req[r].utente)
       THEN Registrato(r, req[r].utente) /\ UNCHANGED <<memoria, base, tokens>>
       ELSE RegistraRifiuta(r)

ConPosta(a) == {u \in Omonimi[a] : CheUtente(u)}

(* The user with the account's email: of those only a person, enabled, with an email
   the provider has verified. *)
RegistraPosta(r) ==
    LET a == req[r].account IN
    /\ pc[r] = "rPosta"
    /\ \/ /\ fornitore # "assente" /\ ConPosta(a) = {}
          /\ Legge(r, "rCrea", req[r])
       \/ \E u \in ConPosta(a) :
             /\ fornitore # "assente" /\ a \in Verificati /\ utenti[u] = "attivo"
             /\ Legge(r, "rLega", [req[r] EXCEPT !.utente = u])
       \/ /\ \/ fornitore = "assente"
             \/ \E u \in ConPosta(a) : a \notin Verificati \/ utenti[u] # "attivo"
          /\ RegistraRifiuta(r)

RegistraLega(r) ==
    LET q == req[r] IN
    /\ pc[r] = "rLega"
    /\ IF Associabile(q.utente, q.account)
       THEN /\ Lega(q.utente, q.account)
            /\ Registrato(r, q.utente)
            /\ UNCHANGED <<utenti, fornitore, memoria, tokens>>
       ELSE RegistraRifiuta(r)

(* A new user with its binding, in a transaction. *)
RegistraCrea(r) ==
    LET a == req[r].account IN
    /\ pc[r] = "rCrea"
    /\ IF IndiceOpenIdUnico(a)
       THEN \E u \in Omonimi[a] :
              /\ utenti[u] = "mai"
              /\ utenti' = [utenti EXCEPT ![u] = "attivo"]
              /\ Lega(u, a)
              /\ Registrato(r, u)
              /\ UNCHANGED <<fornitore, memoria, tokens>>
       ELSE RegistraRifiuta(r)

-----------------------------------------------------------------------------
(* The panel confirms *)

(* Mutant: whatever has a code is confirmed. *)
ConfermabileSempre(v) == v.utente = Nessuno \/ v.azione = "bind"

(* Confirm accepts a webauth login that nobody has confirmed. *)
Confermabile(v) == WebSso /\ v.op = "webauth" /\ v.azione = "login" /\ v.utente = Nessuno

Confirm(r, k, u) ==
    /\ pc[r] = "libera"
    /\ k \in cache /\ utenti[u] = "attivo"
    /\ Confermabile(voci[k])
    /\ Legge(r, "segna", [Vuota EXCEPT !.codice = k, !.utente = u])

(* BindConfirm accepts a login of an account the provider has answered for, which is
   of nobody. *)
BindConfirm(r, k, u) ==
    LET v == voci[k] IN
    /\ pc[r] = "libera"
    /\ k \in cache /\ utenti[u] = "attivo"
    /\ v.azione = "login" /\ v.account # Nessuno /\ v.utente = Nessuno
    /\ Legge(r, "lega", [codice |-> k, account |-> v.account, utente |-> u])

-----------------------------------------------------------------------------
(* OidcAuthQueryPre: the poll of who waits for the login *)

(* Mutant: the code of a bind, that has a user from the start, gives a token too. *)
DaLoginOBind(v) == v.azione # "mai"

DaLogin(v) == v.azione = "login"

OidcAuthQueryPre(r, k) ==
    /\ pc[r] = "libera"
    /\ k \in cache
    /\ DaLogin(voci[k]) /\ voci[k].utente # Nessuno
    /\ Legge(r, "cerca", [Vuota EXCEPT !.codice = k])

(* The user is read; if there is none any more the code stays. *)
QueryUtente(r) ==
    LET u == voci[req[r].codice].utente IN
    /\ pc[r] = "cerca"
    /\ IF CheUtente(u)
       THEN Legge(r, IF utenti[u] = "disattivato" THEN "scarta" ELSE "cancella",
                  [req[r] EXCEPT !.utente = u])
       ELSE Rifiuta(r)

(* The code leaves; a disabled user gets nothing. *)
DeleteOauthCache(r) ==
    /\ pc[r] \in {"cancella", "scarta"}
    /\ cache' = cache \ {req[r].codice}
    /\ IF pc[r] = "scarta" THEN Finisce(r) ELSE Tiene(r, "token", req[r])
    /\ UNCHANGED <<voci, scaduti, richieste, base, lock, tokens>>

Login(r) ==
    /\ pc[r] = "token"
    /\ tokens' = tokens \cup {[codice |-> req[r].codice, utente |-> req[r].utente]}
    /\ Finisce(r)
    /\ UNCHANGED <<memoria, base, lock>>

-----------------------------------------------------------------------------
(* What others do *)

(* The panel creates, enables or disables a user. *)
CambiaStato(u, stato) ==
    /\ u \notin Fissi /\ utenti[u] \in {"mai", "attivo", "disattivato"} \ {stato}
    /\ utenti[u] = "mai" => stato = "attivo"
    /\ utenti' = [utenti EXCEPT ![u] = stato]
    /\ UNCHANGED <<terzi, fornitore, memoria, lock, pc, req, tokens>>

(* A user is deleted with its bindings, in a transaction. *)
CancellaUtente(u) ==
    /\ u \notin Fissi /\ CheUtente(u)
    /\ utenti' = [utenti EXCEPT ![u] = "cancellato"]
    /\ Slega(u)
    /\ UNCHANGED <<fornitore, memoria, lock, pc, req, tokens>>

(* The panel creates, changes or deletes the provider. *)
Configura(prima, poi) ==
    /\ fornitore = prima /\ fornitore' = poi
    /\ UNCHANGED <<utenti, terzi, memoria, lock, pc, req, tokens>>

CreateOauth(come) == Configura("assente", come)
UpdateOauth       == Configura("spento", "acceso") \/ Configura("acceso", "spento")
DeleteOauth       == \E come \in {"spento", "acceso"} : Configura(come, "assente")

(* The provider does not answer, or says no; a statement fails. *)
Guasto(r) ==
    \/ pc[r] \in {"scambio", "terzo", "utente", "fornitore", "lega", "associa", "cerca", "token"} /\ Rifiuta(r)
    \/ pc[r] \in {"rTerzo", "rUtente", "rPosta", "rLega", "rCrea"} /\ RegistraRifiuta(r)

(* The process dies, and another begins: what is in memory is lost, and the random
   codes of the old one are free names again. *)
Riavvia ==
    /\ cache' = {} /\ scaduti' = {} /\ voci' = [k \in Codici |-> Mai]
    /\ richieste' = <<>>
    /\ lock' = Nessuno
    /\ pc' = [r \in Richieste |-> "libera"]
    /\ req' = [r \in Richieste |-> Vuota]
    /\ prove' = [k \in Codici |-> {}] /\ tokens' = {}
    /\ UNCHANGED base

Arriva(r) ==
    \/ \E k \in Codici : OauthCallback(r, k) \/ OidcAuthQueryPre(r, k)
    \/ \E k \in Codici, u \in Utenti : Confirm(r, k, u) \/ BindConfirm(r, k, u)
    \/ \E a \in Account, u \in Utenti : Associa(r, a, u)

Prosegue(r) ==
    \/ \E a \in Account : Callback(r, a)
    \/ UserThirdInfo(r) \/ InfoById(r) \/ InfoByOp(r)
    \/ Lock(r) \/ RegistraTerzo(r) \/ RegistraUtente(r)
    \/ RegistraPosta(r) \/ RegistraLega(r) \/ RegistraCrea(r)
    \/ BindOauthUser(r) \/ AssociaRichiesta(r) \/ TogliRichiesta(r)
    \/ QueryUtente(r) \/ DeleteOauthCache(r) \/ Login(r)
    \/ Segna(r) \/ Rimetti(r)
    \/ Guasto(r)

Altro ==
    \/ \E k \in Codici, op \in {"oidc", "webauth"} : OidcAuth(k, op) \/ OidcAuthPannello(k, op)
    \/ \E k \in Codici, u \in Utenti : ToBind(k, u)
    \/ \E k \in Codici : Timer(k)
    \/ \E u \in Utenti : UnBindThird(u) \/ CancellaUtente(u)
    \/ \E u \in Utenti, stato \in {"attivo", "disattivato"} : CambiaStato(u, stato)
    \/ \E come \in {"spento", "acceso"} : CreateOauth(come)
    \/ UpdateOauth \/ DeleteOauth
    \/ pulisci

(* The history of a code: the accounts the provider answers for, the users who
   confirm it on the panel, and the users these accounts are ever bound to. *)
Risposti(k)   == {req'[r].account : r \in {r \in Richieste : pc[r] = "scambio" /\ req[r].codice = k}}
Confermanti(k) == {req'[r].utente : r \in {r \in Richieste : /\ pc[r] = "libera" /\ pc'[r] = "segna"
                                                            /\ req'[r].codice = k}}

Storia ==
    prove' = [k \in Codici |->
        LET p == prove[k] \cup ((Risposti(k) \cup Confermanti(k)) \ {Nessuno})
        IN  p \cup {t.utente : t \in {t \in terzi' : t.account \in p}}]

Next ==
    \/ Altro /\ Storia
    \/ \E r \in Richieste : (Arriva(r) \/ Prosegue(r)) /\ Storia
    \/ Riavvia

Spec == Init /\ [][Next]_vars
-----------------------------------------------------------------------------
(* Every variable has its type. *)
Registrano == {"rTerzo", "rUtente", "rPosta", "rLega", "rCrea"}

TypeOK ==
    /\ cache \subseteq Codici /\ scaduti \subseteq Codici
    /\ voci \in [Codici -> Voce]
    /\ utenti \in [Utenti -> Stati]
    /\ terzi \subseteq UserThird
    /\ fornitore \in {"assente", "spento", "acceso"}
    /\ richieste \in Seq(Account)
    /\ lock \in Richieste \cup {Nessuno}
    /\ pc \in [Richieste -> {"libera", "scambio", "terzo", "utente", "fornitore", "attende", "lega",
                             "associa", "togli", "segna", "rimetti", "cerca", "cancella", "scarta",
                             "token"} \cup Registrano]
    /\ req \in [Richieste -> Req]
    /\ prove \in [Codici -> SUBSET (Account \cup Utenti)]
    /\ tokens \subseteq [codice : Codici, utente : Utenti]

(* A token comes from a login, never from a bind; it is of a user who confirmed that
   code on the panel, or whose account, while it was bound, had logged in at the
   provider for that code. *)
TokenGiusto == \A k \in tokens : voci[k.codice].azione = "login" /\ k.utente \in prove[k.codice]

(* A code past its five minutes, or that has given a token, may come back into the
   cache, if a request that had found it in time ends later; but it is then the code
   of a login already concluded: no callback, bind or confirmation starts from it. *)
ScadutoConcluso == \A k \in cache :
    k \in scaduti \/ (\E t \in tokens : t.codice = k) =>
        voci[k].azione = "login" /\ voci[k].utente # Nessuno

(* The lock of the registrations is held by who registers, and by nobody else: no
   return leaves it behind. *)
RegistraUno == \A r \in Richieste : pc[r] \in Registrano <=> lock = r

(* An account of the provider is of one user, and a user has one at most. *)
LegamiUnici == \A s, t \in terzi : s.account = t.account \/ s.utente = t.utente => s = t

(* README.md:317-322: the bindings are one to one, whatever callbacks, confirmations,
   registrations and administrators meet; and the association requests are within their
   cap, no account with two. *)
UnoPerAccount ==
    /\ LegamiUnici
    /\ Len(richieste) <= TettoRichieste /\ IsInjective(richieste)

(* A request leaves for a reason: its time is over, its account has been given a user,
   as many newer ones as fill the list have come, or the process has died.
   (BindConfirm reads the account in the item once more: it may be another's.) *)
RichiestaEsce == [][\A a \in ToSet(richieste) \ ToSet(richieste') :
    \/ pulisci
    \/ Len(richieste') = TettoRichieste /\ Last(richieste') \notin ToSet(richieste)
    \/ \E r \in Richieste : pc[r] = "togli" /\ (req[r].codice = Nessuno => req[r].account = a)
    \/ Riavvia]_vars
=============================================================================
