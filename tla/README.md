# Remotek API: specifications, model checking and proofs

Remotek API is the server of a remote assistance product: controlled PCs
register themselves and report what happens on them, technicians (persons and
AI agents) use an address book and open connections, administrators use a web
panel, and an external integration receives events. It is a Go program (Gin,
GORM) on one SQLite file. These modules model the parts of it where the order
of the steps matters, check them with TLC and prove some of the results with
TLAPS.

## How the program runs, and how it is modelled

* Every HTTP request runs in a goroutine of its own. The handlers share the
  database, a few structures in memory (each with its own lock) and nothing
  else.
* The database has **one connection** (`lib/orm/sqlite.go`). A statement is
  atomic, and so is a `DB.Transaction`; between two statements of a handler
  anything can happen.
* So a handler is a process with a program counter, the form it was sent and
  what it has read; each of its statements is an action, and a transaction is
  one action. Properties are about what the tables say whatever handlers are
  half way.
* Handlers have no timeout and no retry of their own: a database error or the
  death of the process leaves what was written so far. Clients repeat.
* A table is a set of rows. Ids come from AUTOINCREMENT and are not used twice.

The names of the modules, variables and actions are those of the source, which
is written in Italian; comments are in English. A definition whose comment
begins with *Mutant* is not part of the model: it is a variant of the
definition after it, with a plausible mistake, that must break a property.

## Inventory

| Component | State | Operations | Works with | What is hard | What makes it correct |
|---|---|---|---|---|---|
| Terminal transcript (`service/audit.go`, `api/audit.go`, `admin/audit.go`) | `audit_terminals` | save a block, verify, export, delete with the connection | registry, events | blocks at once, repeated, or while the connection is deleted; reading page by page while it grows | the chain is whole; totals exact; readings cry no wolf; one true event at the end |
| Registry of the connections (`service/audit.go`, `api/audit.go`) | `audit_conns` | new, authorisation, close, note by session, note by guid, guid of the open one, delete | passes, events, transcript | the row read is stale when written; `conn_id` comes back after a restart | notes and verification are not lost; no note on what nobody accepted; everything shown was told |
| Passes, *lasciapassare* (`service/lasciapassare.go`) | table `lasciapassare` | release to an agent or a technician, bind to a connection | accounts, devices, address book, registry | the same nonce twice; what decided the release changes | bound once, to a connection of its PC; the row names who the pass names |
| Queue and delivery (`service/eventi.go`, `service/consegna.go`) | `eventi`; the goroutine | queue, attempt, retry, cleanup, start, stop, reload | everybody queues | death after the send, lost answers, two processes during a reload | at least once, given up only after 24 hours, nothing waits for ever |
| Accounts (`service/user.go`, `admin/user.go`, `agente-ai`) | `users` | create, update, delete, register, LDAP sync | tokens, devices, address book | rules checked before the write | the last administrator; every agent has an enabled person |
| Sessions (`service/user.go`, middlewares) | `user_tokens`, `login_logs` | login, logout, refresh, flush, check | accounts, devices | change of password against logins; token made and revoked | no token survives what revokes it |
| Login limiter (`utils/login_limiter.go`) | attempts, bans, captchas in memory | check, record, captcha, cleanup | login | windows, thresholds, attempts at once | the thresholds of the configuration |
| OIDC/OAuth logins (`service/oauth.go`, `api/oauth.go`, `admin/oauth.go`) | cache of codes in memory, timers | begin, callback, poll, confirm, bind | sessions, bindings | timer against callback, two polls, shared item | a code gives one token, to its account, within its time |
| Association requests and bindings (`service/associazioni.go`) | list in memory (mutex, 30 min, 100), `user_thirds` | new, list, associate, remove | OIDC, accounts | renewed while associated; at the cap | a provider's account has one user, and a user one account of each provider |
| LDAP (`service/ldap.go`) | none | authenticate, map to a local account | accounts | an external server | the rules of the accounts hold after a sync |
| Devices (`service/peer.go`, `api/peer.go`) | `peers` | sysinfo, heartbeat, key, delete | signatures, copies, events | two first sysinfo at once, two keys at once | one PC for an id; the first key stays |
| Signatures (`service/firma.go`), copies (`service/copie.go`) | maps in memory (mutex) | accept once; count changes of address | devices | clock read before the lock, purge, restart | a signature is accepted once in its window; one warning an hour |
| Address book, collections, rules, tags (`service/addressBook.go`, `tag.go`) | five tables | legacy upload, entries, shares, rules | accounts, groups, passes | permission read, then write | nobody writes without the permission; the upload is whole |
| Groups, device groups (`service/group.go`) | two tables | create, update, delete, list | address book | little | - |
| File transfers (`service/audit.go`) | `audit_files` | insert, delete | events | little | - |
| Integration tokens and reading API (`service/tokenIntegrazione.go`) | `token_integrazione` | create, revoke, check | - | a check writes the last use after it has read the row | what is revoked stays so |
| Start and migration (`cmd/apimain.go`, `lib/orm/sqlite.go`) | `versions`, the file of the first password, the unique indexes | open, migrate, first start, commands | everybody | two processes start at once; a death between the file and the commit; double rows of an old version | an administrator is there, and its password is in the file; nothing serves before |
| Database opening, configuration, log, router, answers, languages, body limit, local lock, JWT | - | - | everybody | little | - |
| Web panel (`pannello/`), generated API docs (`docs/`), contract tests | - | a client; generated; tests | HTTP | - | - |

The hazards of each part, with the line where they bite and the properties
that would catch them, are listed in `PROJECT.json`.

## Plan

In order of importance; all of it is done.

| | Module, with its abstraction | Run | Theorems |
|---|---|---|---|
| 1 | `Trascrizione`, `DiarioTerminale` | `trascrizione_blocchi`, `trascrizione_lettura` | `TrascrizioneProofs` |
| 2 | `Consegna`, `CodaEventi` | `consegna` | `EventiProofs` |
| 3 | `RegistroConnessioni` | `registro` | `EventiProofs` |
| 4 | `Utenti` | `utenti_sequenza` | `AccountProofs` |
| 5 | `Limitatore` | `limitatore` | `AccountProofs` |
| 6 | `Sessioni` | `sessioni` | `SessioniProofs` |
| 7 | `Oidc` | `oidc` | `OidcProofs` |
| 8 | `Dispositivi` | `dispositivi` | `DatabaseProofs` |
| 9 | `Heartbeat` | `heartbeat` | `HeartbeatProofs` |
| 10 | `Rubrica` | `rubrica` | `RubricaProofs` |
| 11 | `Avvio` | `avvio` | `DatabaseProofs` |

`MC*` are the instances. The modules do not import each other: each takes what
another decides as a free choice over what it can answer, so each of them is
checked for more than the program does. Where one begins and the other ends:

* `Rubrica` decides whether a pass is given, `RegistroConnessioni` what is done
  with it; `Sessioni` keeps the agents out of the routes that write the address
  book, so `Rubrica` has no agents among who writes.
* `Oidc` decides whose account a login is, `Sessioni` what its token is worth;
  `Limitatore` whether a password is looked at, `Utenti` what LDAP writes.
* `Heartbeat` decides whether a signature is accepted, `Dispositivi` what a
  signed sysinfo may change.
* `Avvio` brings the database where every other module begins, with the unique
  indexes that `Dispositivi` and `Oidc` take as given.

Every safety property of the runs, and both refinements, are proved; what the
model checker alone answers is liveness. What could come next is more of the
code: the groups, the transfers, the statements of the panel's lists.

## Modules

### Trascrizione

| State | Code |
|---|---|
| `registro`, `prossimo` | `audit_conns`: id, `(peer_id, conn_id)` as `coppia`, type; its AUTOINCREMENT |
| `blocchi` | `audit_terminals` |
| `eventi` | the `terminale.chiuso` put in the queue |
| `pc`, `sessione`, `riga` | where each POST of `salvaBlocco` is, the id it has found, the block it will insert |
| `lettura` | the state of each `ScorriTerminale`: of a panel reading, or of the verification before `terminale.chiuso` |

`ConnTerminale`, `UltimoBlocco` / `Scarta` and `CreateBlocco` are the three
statements of `salvaBlocco` with the checks between them, `LeggiPagina` and
`VerificaBlocco` the query and the body of the loop of `ScorriTerminale`,
`AccodaTerminale` the end of `terminaleChiuso`. A content (`dir` and `data`) is
a model value with a length; a hash is the sequence of the contents it was computed from, so two
hashes are equal only for equal histories (SHA-256 has no collisions). The
limits (64 KiB, 20 MiB, 100000 blocks, 16 blocks a page) are constants.
`Vecchi` is what a version before 269 left: blocks with no total.
`UltimoBlocco` sums the blocks of such a transcript with a second statement;
here it is one action, since a block inserted in between makes the unique index
refuse the one whose total would be wrong.

`DiarioTerminale` is what a transcript promises: a journal for each connection,
that only grows, up to its end or its deletion, within the limits.

### Consegna

`inCoda` is the table, `passo`, `fermata`, `adesso`, `pulita`, `evento`,
`motivo` the local state of `gira` and `Passo` in each process (there are two
while SIGHUP reloads), `ora` the clock, `ricevute` how often the receiver took
each event. `Giro`, `Scegli`, `Manda`, `Esito` are the steps of `Passo`;
`Ferma`, `Muore`, `Ricarica`, `Guasto` what goes wrong, counted by
`incidenti`. An event queued by a request that read the clock a little earlier
is `Accoda(t)`, `t` up to `Ritardo` ago. Time is in abstract units:
`attesaPrima` 1, `attesaMax` 2, the 24 hours (`durataTentativi`) 2, the
retention of what is concluded 0: the last attempt still falls on the limit, and
the clock (`OraMax` 2) reaches it. `CodaEventi` is the promise: delivery at
least once, an outcome only for a reason, no outcome taken back to *in attesa*.

### RegistroConnessioni

`registro` is `audit_conns` (`nome` stands for from_peer, from_name and type,
which are written together), `lasciapassare` the passes, `guidNoti` the rows
whose guid a technician has learnt, `eventi` what the events have told,
`pc`, `modulo`, `ex` the handlers: where they are, the form and the row they
read. `Scrive` is the UPDATE, `Scritta` what it writes: GORM's `Updates` skips
zero values (`SeNonZero`), so a close writes back every non-zero column it read.
`Lega` is the transaction that binds a pass, with all the ways it can refuse
(`Legabile` fails, or an account or the database does). An authorisation always
brings a name and a session, as the client's recorded requests do. `ConnAttiva`
is the search the client polls for the guid of its connection, `NotaPerGuid`
the note a technician writes with it, `ConnDelete` and `BatchConnDelete` the
deletions of the panel. How a pass comes to be is in `Rubrica`.

### Utenti

An action checks or writes; the groups of the directory a login finds are free
(`memberOf`), since the search may also fail: a failed search of the
administrators' group takes the role away, as the code does. `utenti` is the table (id, role, status, tecnico), `query` and `modulo` the
requests. `ControllaAgente`, `contaAgenti`, `controllaUltimoAdmin`,
`getAdminUserCount` are the reads, one action each, and `Scrive`, `Cancella`,
`Crea` the transactions. `Directory` are the accounts LDAP synchronises. Status
has the two values the panel sends. Deleting an account also deletes its
address book and bindings in the same transaction: those tables are not here.

### Limitatore

| State | Code |
|---|---|
| `attempts`, `captchas`, `bannedIPs` | the three maps of `LoginLimiter`: ages of the failed attempts of an address, what is left of each captcha and ban (-1: expired, not yet forgotten) |
| `pc`, `richiesta` | where each request is, its route, its address, the captcha it used up |
| `oltre` | history: passwords found wrong during the last ban |

Each method of `LoginLimiter` holds its mutex and is one operator
(`CheckSecurityStatus`, `RecordFailedAttempt`, `RemoveAttempts`,
`RequireCaptcha`, `VerifyCaptcha` by `CaptchaGiusto` and `CaptchaSbagliato`);
the handlers that call them are processes: `Arriva` is the middleware
`Limiter`, then come the login of the client, the login of the panel, the
captcha route and any other. `cleanupExpired` is the ticker's. Time is
relative, `Passa` makes everything one unit older, so the model has no bound on
time. A panel login that was past the middleware when the ban fell asks
`CheckSecurityStatus` again and reads *no captcha required*: `banned` is ignored
at `admin/login.go:37`.

### Sessioni

| State | Code |
|---|---|
| `utenti` | `users`: whether there is a password, and who the account is now |
| `tokens`, `nuovo` | `user_tokens` and its AUTOINCREMENT |
| `pc`, `richiesta` | where each request is, the account, device and token it carries, what it has read |

`via`, `agente` and `vecchio` of a token are history: how it was made, whether
the login had read an agent, whether the password has changed since. A login is
`Eccezione` (the exceptions to password login), `InfoByUsernamePassword` or
`OidcAuthQueryPre`, then `Login`; an agent's OIDC login in the panel goes on to
`Logout`. `Autorizza`, `AutoRefresh` and `TokenInfoById` are what the two
middlewares and the routes behind them do with a token; `ChangeCurPwd`,
`Bersaglio`, `UpdatePassword`, `Svuota` (`FlushToken`) the changes of password;
`BatchDeleteUserToken`, `FlushTokenByUuid`, `BatchDeletePeer` the other
revocations. `Guasto` is a database error or the end of the process. Whether the
password sent is right is free; time only lets a token expire (`Scade`).

### Oidc

| State | Code |
|---|---|
| `cache`, `scaduti` | the codes in `OauthCache`; those whose five-minute timer has fired |
| `voci` | the `OauthCacheItem` of each code: one object, that every request that has found it shares, in the cache or not any more |
| `utenti`, `terzi`, `fornitore` | the status of the users, `user_thirds`, the row of the provider |
| `richieste` | the association requests, the oldest first |
| `lock`, `pc`, `req` | the lock of `RegisterByOauth`; where each request is, what it has read |
| `prove`, `tokens` | history: who has logged in or confirmed for a code, the tokens given |

`OauthCallback` to `InfoByOp` are the callback of the provider, `Lock` to
`RegistraCrea` are `RegisterByOauth`, `Confirm` and `BindConfirm` the two pages
of the panel, `OidcAuthQueryPre` to `Login` the poll, `Segna` and `Rimetti` the
end of a login: the item is filled, and put into the cache with no timer.
`Associa`, `AssociaRichiesta` and `TogliRichiesta` are the association an
administrator makes, `pulisci` the half hour of a request, `NelTetto` the cap,
`Riavvia` the death of the process. The provider is a call that answers with an
account or fails; an email is the set of the users that have it (`Omonimi`),
since nothing makes it unique.

### Dispositivi

`peers` are the rows, `prossima` the next `row_id`, `pc` and `req` the
requests. `SysInfo` reads the PC; `UltimoUtente` asks for the last user of the
device, and then `CreaPc` inserts, or `Aggiorna` updates and `RegistraChiave`
registers the key: its `WHERE` lets only the first one in. `UuidBindUserId` and
`ScriveUtente` are the two statements of a login, which writes back the whole
row it has read, `UuidUnbindUserId` and `Scollega` those of a logout; `Create`,
`Update` and `Delete` are the panel's, `EraseUserId` the deletion of a user. A
signature is who has signed: a key, nobody, or `"falsa"`. `IndiceIdUnico` is the
unique index on the IDs.

### Heartbeat

| State | Code |
|---|---|
| `scadenza`, `pulita["firme"]` | `memoriaFirme`: until when each signature is kept, the last cleaning |
| `visto`, `avvisi`, `pulita["copie"]` | `memoriaCopie`: address, last contact and changes of the PC, its last warning, the last cleaning |
| `ora`, `chiave` | the clock; whether the PC has a key |
| `pc`, `req` | the requests, each with the clock it has read before it waits for the lock |
| `accettate`, `avvisato`, `storia` | history |

`Heartbeat`, `Verifica` and `Segna` are the steps of a heartbeat, `AltroPc` what
one of another PC does to the same memories, `PossibileCopia` the panel's list,
`Scorre` the clock, which does not go back, `Riavvia` a restart. The memory of
the copies reads the clock and takes its lock in one step: two heartbeats that
change places there are nearer than a unit of time. The second process of a
reload has memories of its own, as one that has restarted.

### Rubrica

`righe` are the entries and the tags, `collezioni`, `regole` and `stato` the
other tables; `visti` is history: what has been true, of what a request of the
client is about, since it began. A request of the client goes through one
statement at a time: `CheckGuid`, `CheckGuidCollezione`, `UserMaxRule` and
`UserMaxRuleGruppo` are the checks, then come the reads and the writes; `UpAb`
and `UpdateTags` are the two transactions of the legacy upload. A pass goes
through `Lasciapassare`, `NellaRubrica`, `CollectionReadRules`,
`CollectionReadRulesGruppo`, then `Proprietario` and `Conta` for each address
book, and `firmaERegistra`; the one of a person is `LasciapassareTecnico`. A
form of the panel or of `my/` has a step that checks and one that writes. Nothing
makes the name of an entry unique: the first row found is the oldest.

### Avvio

`tabelle`, `versioni`, `admin`, `gruppi`, `vincolo`, `doppi`, `unico`, `tipi`
and `token` are the database, `file` is `data/admin-password.txt`, `scrittore`
the process whose transaction holds the lock of SQLite, `istruzione` where each
process is. `NewSqlite`, ..., `Indici` are `InitGlobal` statement by statement: the file of the first password
is made while the transaction of `Migrate` is open, and is not a part of it. Then
a process serves (`ApiInit`), or is a command: `reimpostaPassword`, `Crea`,
`Revoca`. `Fatalf` and `Muore` may end it anywhere. A password is the number of
the start that drew it; a version is older than 245, between it and the last, or
the last.

## Runs

| Run | What it shows | Instance | Distinct states |
|---|---|---|---|
| `trascrizione_blocchi` | chain whole, totals exact, journal implemented | two POSTs at once, one pair `peer_id`/`conn_id`, deaths, a row before 269, limits hit by the contents | 45,017 |
| `trascrizione_lettura` | readings and the verification behind `terminale.chiuso` | pages of one block, a panel reading, integration on, no deaths | 105,580 |
| `consegna` | no event lost, given up early, put off, or waiting for ever | two processes, two incidents, a clock that reaches the 24 hours and the retention | 356,226 |
| `registro` | verification founded, passes single use, notes only where allowed, nothing untold | two requests, one pair that comes back, two rows, deaths (a request may stop anywhere) | 1,696,743 |
| `utenti_sequenza` | the rules of agents and administrators after any sequence | one request at a time, four accounts or fewer, one of them of the directory | 535,921 |
| `limitatore` | the limiter counts from zero to its thresholds, a ban ends, a captcha opens one login, few passwords tried during a ban | two requests, one address, two captchas, captcha after 1 failure and ban after 3, windows of 2 units | 68,193 |
| `sessioni` | no session outlives a change of password, a revocation or the rule on agents | two requests, an administrator and an account, one device, two tokens ever, password login off but for one account | 1,456,683 |
| `oidc` | tokens only to who has proved to be it, one user for an account, requests that leave for a reason, one registration at a time | two requests, one code, two accounts with one email, two users, a cap of one request | 1,387,359 |
| `dispositivi` | the first key stays, an uuid changes only by who may | two requests, two IDs, two uuids, two keys, two rows ever | 209,213 |
| `heartbeat` | a signature once in its window, the copies told exactly, a warning an hour | two requests, two addresses, signatures of two times, a clock that passes every window, six heartbeats | 1,963,217 |
| `rubrica` | nothing read or written without a permission seen while the request ran, agents inside the address books of their tecnico, the upload touches the personal one | one client and one form of the panel, two users of a group, one entry, one tag, one collection, one rule, one change of a user or of an owner | 815,922 |
| `avvio` | the first password is the one in the file, nothing serves before, revoked tokens stay so, the index comes back | two processes, one death or failed statement, a new database and the old ones | 461,013 |

Why the bounds are enough. Two requests are the least that interleave, and the
hazards are about a pair: one reads, the other writes, the first writes. Two
connections with the same pair show a `conn_id` that comes back; one page
boundary with an append before and after it shows paging; one incident more
than an event needs shows the retries. One code of `Oidc` is shared by two
requests, which is the hazard; one entry more in `Rubrica` adds rows, and no
relation between a check and a write. The bounds on ids, clock and incidents
are named constants in the guards. What holds for every value of them is said
by the theorems, where there are any. `Utenti` has one request, since the code
promises nothing of two at once: see below.

### Fairness

`Trascrizione`: weak fairness of the steps of a running handler (`Gestore`), of
a reading (`Scorri`, `Rispondi`): the Go scheduler runs every goroutine that can
run and SQLite answers. Nothing obliges a client to send something.
`FinePortaEvento` needs it, and is checked with no death (`Guasti = FALSE`),
since a death after the last block does lose the event, as the code accepts.

`Consegna`: time passes, the goroutine runs, and a service that is down is
started again (the container restarts it). Incidents are finite, by their bound.

`Limitatore`: weak fairness of `Passa` (time passes) and of the steps of a
request that runs (nothing in the limiter waits: its mutex is held for one
method). `BandoFinisce` needs time alone.

`Avvio`: a start under way goes on (`InitGlobal`), since nothing in it waits for
ever: the lock of SQLite is held by another start, which goes on or dies. That
processes are started again and again is the premise of `IndiceTorna`. Deadlock
is not checked there: a process may stay off.

The other modules state safety only and assume no fairness.

### What the code does not promise

Met while modelling; the properties are stated for what it does promise.

* `salvaBlocco` reads the connection and inserts the block with two statements,
  and no foreign key ties them: a block may outlive its connection, deleted in
  between.
* A close of a connection writes back the whole row it has read: a note written
  in between is replaced by the older one.
* Two administrators who take the role from each other at once leave none: the
  count is outside the transaction. `UltimoAdminInSequenza` and `RegoleAgenti`
  are about one request at a time.
* The synchronisation with the directory enables again an account the panel has
  disabled, agents included (`service/ldap.go:242`), and a failed search of the
  administrators' group takes the role away.
* A negative threshold of the captcha, with the ban on, asks for it all the same.
* Deleting a PC without uuid ends the sessions of the panel, which have none
  either.
* A bind that ends after its user is deleted leaves a row in `user_thirds`;
  `BindConfirm` reads the account in the item twice, and a callback may come
  between.
* The first sysinfo of a PC that the panel has created without uuid takes it,
  whoever sends it; of two at once the second is overtaken. A login that writes
  back an older row puts back the uuid and the ID it had.
* A signature accepted before a restart is accepted again after it, if its time
  is still in the window.
* Entries of an address book are not unique: `PeerAdd` looks for none, and two
  rows with one ID may stay after a delete or an upload that takes one away.
  An entry, or a rule, may go into a collection deleted in the meantime; who
  gives a collection to another user leaves its entries and its rules to the old
  one; tags outlive their user.
* The version is committed before the updates of version 245
  (`cmd/apimain.go:494-499`): a death in between loses them. The error of the
  reading of the version is not looked at (`:488`).

## Proofs

Every safety invariant and every action property that a run checks is a theorem
for every value of the constants, and so are the two refinements. The modules of
proofs follow the files of the program they are about: `EventiProofs` has the
registry and the queue its events go to, `AccountProofs` the accounts and the
limiter of the logins, `DatabaseProofs` what the tables of the PCs keep and how a
start brings them there. Each theorem is about one component alone: a file
EXTENDS two modules whose variables have different names.

`TrascrizioneProofs` proves, for every value of the constants that satisfies
the two assumptions of `Trascrizione` (the limits are natural numbers; what an
old version left is a well formed transcript):

* `TypeCorrect`: `Spec => []TypeOK`.
* `TrascrizioneIntegra`: `Spec => []CatenaIntegra`.
* `LetturaSempreFedele`: `Spec => []LetturaFedele`.
* `EventoSempreVeritiero`: `Spec => []EventoVeritiero`.
* `TotaleSempreEsatto`: `Spec => []TotaleEsatto`.
* `DiarioMantenuto`: `Spec => ImplementaDiario`.

`CatenaIntegra` is not inductive: it says nothing of the block that a request
is about to insert. `CatenaInv` adds

* `IdFreschi`: no row, block, request, reading or event speaks of an id that
  AUTOINCREMENT has not given yet, so a new connection starts with no blocks;
* `RighePronte`: while its connection is in the registry, the block a request
  holds still follows a block of the table that has no fine, or is the first
  one. It can only have been overtaken: blocks leave the table only with their
  connection, and a connection that was deleted never comes back.

Then `CreateBlocco` is safe: if the block was overtaken the unique index
refuses it, otherwise nothing follows the block it continues. The lemmas
about `Catena` (it depends on a connection's own blocks, it holds of no block,
it survives one that follows) carry the argument; each action has its step.

* `LettureInv` says what a reading has seen (`Legge`): a prefix of the transcript
  that ends with the block numbered `blocchi`, whose hash it has recomputed, and
  in its page all the blocks from there to `dopo`. Blocks stay with their
  connection, so what has been read remains a prefix while the session grows.
  `TabellaInv` adds that the table is finite, without which a page shorter than
  `PaginaTerminale` would not be the last.
* `VerificheInv` says of the handlers before `AccodaTerminale` that each holds
  the block with fine of its session, which its reading has not passed over
  (`Chiude`), that two of them are of two sessions and that none of those has an
  event yet. The unique index refuses a second block with fine
  (`NessunoDopoFine`), so the event is one.
* `TotaliInv` says of the block in hand what `TotaleEsatto` says of the table:
  its total is the length of the blocks before it and its own (`Esatto`). No
  block can come in among those later (`PrimaResta`): they are all there, and the
  index gives no number twice.
* For the refinement, `PassoDiario` maps each step: a new row is `Apri`, a block
  the index accepts `Aggiungi`, a deletion `Cancella`, anything else a stutter;
  `DiarioCresce` and `PesoDiario` say that the journal read off the table gets one
  content at its end and weighs what the blocks do. The proof asks that the
  journal an older version left may be closed already, which `Vecchi` of the run
  is not: `DiarioTerminale` starts from either.

The sums are folds over sets. `MapThenSumSet` is defined by recursion on the
subsets of its argument, and the induction the lemmas on sums need (`Esiste`,
`SommaTolta`, `SommaCorrisponde`) is `InduzioneInsiemi`: a set of subsets with
each subset whose smaller ones it has has them all. It follows from the
well-foundedness of the strict subset ordering of a finite set, with no operator
as a parameter.

`EventiProofs` proves of `RegistroConnessioni`, for every value of the constants
that satisfies `RegistroAssumption` (an authorisation brings a name and a session that is not
0; the empty value is none of the others):

* `TypeCorrect`: `Spec => []TypeOK`. The inductive invariant `TipiInv` adds the
  types of what the requests bring and of the rows they keep.
* `LegameSoloUnaVolta`: `Spec => LegameUnico`. `Lega` replaces only a pass that
  is bound to nothing.
* `VerificaSempreFondata`: `Spec => []VerificaFondata`. The close writes back an
  old row, so `VerificaInv` says of the rows in memory what `VerificaFondata`
  says of the table (`Fondata`), and that a row in memory and the row of the
  table with its id are of the same pair. It holds since a bound pass stays
  bound (`FondataResta`) and ids are never used twice.
* `NoteSempreAutorizzate`: `Spec => []NoteSoloAutorizzate`. `NoteInv` adds that
  a row with a session has a name (`Sana`), and that what was authorised when a
  request read it, or when a technician learnt its guid, is so when the note is
  written (`Autorizzata`): an update skips the empty values, so no step takes a
  name away, although a close may take the session away.
* `SempreRaccontato`: `Spec => []Raccontato`. A request that writes back an old
  row, or finds there what it would write and says nothing, relies on what was
  told before: `RaccontoInv` says of the rows in memory, as of the table, that
  each text is in an event or in one some request is about to queue (`Detta`).

and of `Consegna`, for every value that satisfies `TempiAssumption` (times and
bounds are natural numbers, a wait is not 0):

* `MaiRinunciaPrima`: `SpecConsegna => []UltimoTentativo`, from `TabellaInv`.
* `DoppioniContati`: `SpecConsegna => []Doppioni`. An event is taken again by
  the receiver only after an incident, but the incident comes before the second
  delivery, so the invariant counts what is still to come: `Peso` is how often an
  event may yet be sent because of a process, and `Debito` that the deliveries
  made and the weights of any two processes are at most one more than the
  incidents. A process told to stop weighs 2 with the event in hand: it sends it,
  does not save the outcome, and the next one sends it again. `AlPiuDue` says
  that no more than two run.
* `CodaMantenuta`: `SpecConsegna => ImplementaCoda`, step by step. An outcome
  saved by a process with an old row changes nothing of what `CodaEventi` says,
  since `LavoroInv` ties the row in hand to the one of the table.

`AccountProofs` proves of `Utenti`, for every value of the constants that
satisfies `UtentiAssumption` (finitely many requests; the accounts of the
directory have ids of accounts):

* `TipiUtenti`: `SpecUtenti => []TypeOKUtenti`, with any number of requests.
* `AgentiInRegola`, `MaiSenzaAdmin`: `SpecUtenti => []RegoleAgenti` and
  `[]UltimoAdminInSequenza`. Both speak of one request at a time (`Sequenza`), so
  that what a request has checked is still so when it writes: `ModuloInv` says,
  for each query it may be at, what it has found (a tecnico that is an enabled
  person, no agents of the account, another administrator), and `SequenzaInv`
  that the table obeys the rules meanwhile.

and of `Limitatore`, for every value of the constants that satisfies
`LimitatoreAssumption` (finitely many requests, a threshold for the ban that is
not negative, durations that are natural numbers):

* `TypeCorrect`: `Spec => []TypeOK`. `UnMetodo` says that a step calls one
  method of the limiter at most; the theorems about the limiter then take the
  methods one by one, and not the handlers.
* `SempreSottoSoglia`, `BandoSempreAzzera`, `BandoSempreFermo`: the thresholds
  and the bans, inductive with the types; the first two are
  `BandoSempreEsatto`: `Spec => []BandoEsatto`.
* `CaptchaSempreDiUno`: `Spec => []CaptchaPerUno`. `CaptchaInv` adds that the
  captchas are told apart by their ids.
* `OltreIlBandoLimitato`: `Spec => []OltreIlBando`. `OltreInv` counts, with the
  requests that have found a password wrong during the ban, those past the
  middleware that still may (`InVolo`): together they are fewer than the
  requests, since the one whose attempt was the ban is not among them and the
  middleware lets none join.

`SessioniProofs` proves, for every value of the constants that satisfies
`SessioniAssumption` (the panel's logins send no uuid; the empty value is no
account and no device):

* `TypeCorrect`: `Spec => []TypeOK`. `TipiInv` adds that a running request has
  an account, and that tokens have ids AUTOINCREMENT has given.
* `RevocaSempreDefinitiva`: `Spec => RevocaDefinitiva`. A refresh updates a row
  and adds none, and an id is not given twice.
* `AgenteSempreFuori`: `Spec => []AgenteFuoriDalPannello`. `AgenteInv` adds that
  only an OIDC login has read an agent.
* `CambioSempreChiude`: `Spec => []CambioChiude`, inductive with the types: who
  marks the tokens of an account as old is about to delete them.

`OidcProofs` proves, for every value of the constants that satisfies
`OidcAssumption` (users, accounts and the empty value are told apart; an email
is of one user at least):

* `TokenSempreGiusto`, `ScadutoSempreConcluso`, `RegistraSempreUno`:
  `Spec => []TokenGiusto`, `[]ScadutoConcluso`, `[]RegistraUno`.
* `SempreUnoPerAccount`: `Spec => []UnoPerAccount`. The bindings are one to one
  by the index on them and by what `RegisterByOauth` does under its lock; of the
  list, `ListaInv` says that no account is in it twice and that it is within its
  cap.
* `RichiestaEsceConRagione`: `Spec => RichiestaEsce`, an action property: the
  list loses an account to its time, to its association, to newer ones over the
  cap or to a restart.

A token is of who was in the item when the poll read it, so the invariant
follows the user backwards: `Porta` says what a request carries at each step
(the account is one the provider has answered for with this code; the user is
bound to it, or has confirmed), `VociInv` that an item holds only such users and
accounts, `LegamiInv` that who is bound to an account that has logged in is among
the proofs of the code too. The items are shared with no lock: `Cresce` is all
that a step of anybody may do to what others carry (proofs are added; the action
of a code is chosen once; an item that has a user keeps one), and `PortaResta`
that it is enough. `ScadutoConcluso` holds since a code comes back into the cache
only from `rimetti`, after its item has a user.

`DatabaseProofs` proves of `Dispositivi`, for every value of the constants that
satisfies `DispositiviAssumption` (the empty value is no ID, uuid, key or user):

* `TypeCorrect`, `SempreUnoPerId` (an ID is of one row).
* `ChiaveSempreFerma`: `Spec => ChiaveFerma`. A login writes back an old row,
  key included: `Letto` says that if it has read a key it is the one there now.
  It holds since a key is written only where there is none, and row ids are not
  used twice (`Segue`).
* `UuidSempreConTitolo`: `Spec => UuidConTitolo`. `Porta` says what a request
  that will write had read: no uuid, or the one it writes.

and of `Avvio`, for every value that satisfies `AvvioAssumption` (there is a way
to say that no process has the lock; deaths are finitely many):

* `PasswordSempreNelFile`, `SemprePrimaDiServire`: `SpecAvvio => []PasswordNelFile`
  and `[]PrimaDiServire`. `BloccoInv` says that who holds the lock of the writer
  is between the row of the version and the commit, and nobody else; `PrimoInv`
  that the start found to be the first is so until it commits and that its file
  is the one of the last password drawn; `AdminInv` and `UltimaInv` what comes
  with a version; `PuntoInv` what each point of a start has behind it. A start
  that dies after the file and before the commit leaves a file that the next one
  cancels before it draws another.
* `RevocaRestaSempre`: `SpecAvvio => RevocaResta`.

`HeartbeatProofs` proves, for every value of the constants that satisfies
`HeartbeatAssumption` (times are integers, the windows natural numbers, and a
slow change of address is one inside the window of the copies):

* `TypeCorrect`.
* `FirmaSempreUnaVolta`: `Spec => FirmaUnaVolta`. `FirmeInv` says that an
  accepted signature is in the memory, or the clock is past its window; a
  request that cleans with an old clock forgets fewer of them.
* `AvvisoSempreRaro`: `Spec => AvvisoRaro`. `AvvisiInv` says that the memory has
  the last warning, or has forgotten it when another may be written.
* `CopiaSempreEsatta`: `Spec => []CopiaEsatta`. The property counts over the
  history, the code over a sequence that it trims at every change. `CambiInv`
  says that the changes in memory are times of changes of the history, one to
  one, and that those missing are out of the window (`Conta`); that the history
  is in order of time; and that a PC the memory has forgotten was last heard too
  long ago to matter.

`RubricaProofs` proves, for every value of the constants that satisfies
`RubricaAssumption` (finitely many names; users, groups, names and the empty
value are told apart; levels are among the three of the code):

* `PermessoSempreVisto`: `Spec => []SoloConPermesso`.
* `ConfineSempreVisto`: `Spec => []NelConfine`.
* `SincronizzaSoloPersonale`: `Spec => SoloPersonale`.

`VistiInv` says what a request that has come to a step has seen: `VistoApi`
that the level it carries is one a rule gave it and that the collection was of
the owner, `VistoLascia` that each address book still to look at was shared with
the tecnico, that its owner was a person, and, at the end, that the PC was there
(`Confinato`). What has been seen stays seen, so the steps of others, which may
take all of it back, do not matter.

Only model-checked: liveness, that is `FinePortaEvento` of `Trascrizione`,
`EventoConcluso` of `Consegna`, `BandoFinisce` of `Limitatore`, `IndiceTorna` of
`Avvio`. They need fairness and ENABLED, which are out of the prover's reach. So
is, in this library, induction with an operator as a parameter, which is why the
induction on sets is stated with a set; there are no RECURSIVE operators here.
Each inductive invariant was first checked by TLC on the instance of its run.

## Not modelled

* Groups of users and of devices, file transfers: statements of their own on a
  table nothing else depends on. The group of a user, which the rules of the
  address book read, is a constant of `Rubrica`.
* Of the parts that are modelled: `SharedProfiles` and the other lists and
  filters, the columns no rule reads (host name, system, last contact, names and
  profiles of the users), the rows of the accesses, whether a PC of an address
  book is in `peers`, the bytes of a pass, the form of a JWT, the drawing of a
  captcha, the body of the events.
* The searches in the directory and the exchange with a provider: they are calls
  that answer anything.
* HTTP routing, languages, answers, the configuration and the log: no state.
* The web panel, a client of the same routes, and the API descriptions under
  `docs/`, which are generated.
