------------------------------ MODULE Limitatore ------------------------------
(***************************************************************************)
(* The login limiter (src/utils/login_limiter.go) and the requests that    *)
(* ask it and tell it how a login went: the middleware of every request,   *)
(* the logins of the client and of the panel, the panel's captcha.         *)
(*                                                                         *)
(* Each method of LoginLimiter holds its mutex and is one step; a request  *)
(* calls several of them, and the steps of the requests interleave.  Time  *)
(* is relative: an attempt carries its age, a captcha and a ban what is    *)
(* left of them (-1: expired, still in its map), and Passa makes one unit  *)
(* of time pass for all, so that the model needs no bound on time.         *)
(***************************************************************************)
EXTENDS Integers, FiniteSets

CONSTANTS
    Richieste,           \* the requests that can run at once
    Indirizzi,           \* the client addresses
    Captcha,             \* bound: ids of the captchas that can be about at once
    Nessuno,
    CaptchaThreshold,    \* SecurityPolicy; a negative one turns the captcha off
    BanThreshold,        \* 0: no ban
    AttemptsWindow,      \* in units of time
    BanDuration,
    CaptchaExpiration

ASSUME LimitatoreAssumption ==
    /\ IsFiniteSet(Richieste)
    /\ Nessuno \notin Captcha
    /\ CaptchaThreshold \in Int /\ BanThreshold \in Nat
    /\ AttemptsWindow \in Nat \ {0} /\ BanDuration \in Nat /\ CaptchaExpiration \in Nat

VARIABLES
    attempts,    \* [Indirizzi -> the failed attempts]: only how many and how old
    captchas,    \* the captchas given and not used
    bannedIPs,   \* the bans
    pc,          \* [Richieste -> the next step of the request]
    richiesta,   \* [Richieste -> its route, its address, the captcha it used up]
    oltre        \* history: [Indirizzi -> passwords found wrong during the last ban]

limite == <<attempts, captchas, bannedIPs>>
vars   == <<attempts, captchas, bannedIPs, pc, richiesta, oltre>>

Tentativo == [n : Nat \ {0}, eta : 0 .. AttemptsWindow]
Meta      == [id : Captcha, resta : -1 .. CaptchaExpiration]
Bando     == [ip : Indirizzi, resta : -1 .. BanDuration]
Vie       == {"client", "pannello", "captcha", "altra"}
Richiesta == [via : Vie, ip : Indirizzi \cup {Nessuno}, captcha : Captcha \cup {Nessuno}]

Vuota == [via |-> "altra", ip |-> Nessuno, captcha |-> Nessuno]

Init ==
    /\ attempts = [ip \in Indirizzi |-> {}]
    /\ captchas = {}
    /\ bannedIPs = {}
    /\ pc = [r \in Richieste |-> "libera"]
    /\ richiesta = [r \in Richieste |-> Vuota]
    /\ oltre = [ip \in Indirizzi |-> 0]

-----------------------------------------------------------------------------
(* LoginLimiter *)

isDisabled == CaptchaThreshold < 0 /\ BanThreshold = 0

(* Mutant: a ban that ends never does. *)
isBannedSempre(ip) == \E b \in bannedIPs : b.ip = ip

isBanned(ip) == \E b \in bannedIPs : b.ip = ip /\ b.resta >= 0

(* What isBanned leaves: an expired ban is forgotten when it is looked at. *)
BandiLetti(ip) == {b \in bannedIPs : b.ip = ip => b.resta >= 0}

pruneAttempts(ip) == {t \in attempts[ip] : t.eta < AttemptsWindow}

(* The attempt of now, told apart from those of the same age. *)
Adesso(valid) ==
    [n |-> CHOOSE k \in 1 .. Cardinality(valid) + 1 : \A t \in valid : t.n # k, eta |-> 0]

(* Mutant: the ban leaves the attempts where they are. *)
banIPSenzaAzzerare(ip, valid) ==
    /\ bannedIPs' = {b \in bannedIPs : b.ip # ip} \cup {[ip |-> ip, resta |-> BanDuration]}
    /\ attempts' = [attempts EXCEPT ![ip] = valid]
    /\ oltre' = [oltre EXCEPT ![ip] = 0]

(* Captchas are kept by id: deleting the one of key ip deletes none. *)
banIP(ip, valid) ==
    /\ bannedIPs' = {b \in bannedIPs : b.ip # ip} \cup {[ip |-> ip, resta |-> BanDuration]}
    /\ attempts' = [attempts EXCEPT ![ip] = {}]
    /\ oltre' = [oltre EXCEPT ![ip] = 0]

(* Mutant: one attempt too many before the ban. *)
DaBandireTardi(valid) == BanThreshold > 0 /\ Cardinality(valid) > BanThreshold

DaBandire(valid) == BanThreshold > 0 /\ Cardinality(valid) >= BanThreshold

(* When a failed attempt is not recorded. *)
Tace(ip) == isDisabled \/ isBanned(ip)

RecordFailedAttempt(ip) ==
    LET valid  == pruneAttempts(ip)
        validi == valid \cup {Adesso(valid)}
    IN  /\ UNCHANGED captchas
        /\ \/ Tace(ip) /\ UNCHANGED <<attempts, bannedIPs, oltre>>
           \/ ~Tace(ip) /\ DaBandire(validi) /\ banIP(ip, validi)
           \/ /\ ~Tace(ip) /\ ~DaBandire(validi)
              /\ attempts' = [attempts EXCEPT ![ip] = validi]
              /\ bannedIPs' = BandiLetti(ip)
              /\ UNCHANGED oltre

(* CheckSecurityStatus: what it forgets, and the two values it returns. *)
CheckSecurityStatus(ip) ==
    /\ attempts' = IF isDisabled \/ isBanned(ip) THEN attempts
                   ELSE [attempts EXCEPT ![ip] = pruneAttempts(ip)]
    /\ bannedIPs' = IF isDisabled THEN bannedIPs ELSE BandiLetti(ip)
    /\ UNCHANGED <<captchas, oltre>>

banned(ip) == ~isDisabled /\ isBanned(ip)

captchaRequired(ip) ==
    /\ ~isDisabled
    /\ ~isBanned(ip)
    /\ Cardinality(pruneAttempts(ip)) >= CaptchaThreshold

(* Mutant: the captcha is compared and stays. *)
ConsumaNiente(c) == captchas

Consuma(c) == captchas \ {c}

(* RequireCaptcha: the id is random, never one that is about. *)
RequireCaptcha(id) ==
    /\ \A c \in captchas : c.id # id
    /\ \A s \in Richieste : richiesta[s].captcha # id
    /\ captchas' = captchas \cup {[id |-> id, resta |-> CaptchaExpiration]}
    /\ UNCHANGED <<attempts, bannedIPs, oltre>>

RemoveAttempts(ip) ==
    /\ attempts' = [attempts EXCEPT ![ip] = {}]
    /\ UNCHANGED <<captchas, bannedIPs, oltre>>
-----------------------------------------------------------------------------
Va(r, passo) == pc' = [pc EXCEPT ![r] = passo]

Termina(r) == Va(r, "libera") /\ richiesta' = [richiesta EXCEPT ![r] = Vuota]

(* Where a request goes once the middleware has let it in. *)
Rotta(via) == CASE via = "client"   -> "password"
                [] via = "pannello" -> "stato"
                [] via = "captcha"  -> "richiede"
                [] OTHER            -> "libera"

(* Mutant: the middleware answers that the address is banned, and goes on. *)
AmmettiSempre(ip) == TRUE

Ammetti(ip) == ~banned(ip)

(* middleware.Limiter, before every route; a banned address is refused and
   nothing changes. *)
Limiter(r, via, ip) ==
    /\ pc[r] = "libera"
    /\ Ammetti(ip)
    /\ CheckSecurityStatus(ip)
    /\ Va(r, Rotta(via))
    /\ richiesta' = [richiesta EXCEPT ![r] =
          IF via = "altra" THEN Vuota ELSE [via |-> via, ip |-> ip, captcha |-> Nessuno]]

(* Login of the panel: banned is not looked at, and a request with no user or no
   password is a failed attempt before the captcha is asked for. *)
ControllaPannello(r, malformata) ==
    LET ip == richiesta[r].ip IN
    /\ pc[r] = "stato"
    /\ CheckSecurityStatus(ip)
    /\ Va(r, IF malformata THEN "malformata"
             ELSE IF captchaRequired(ip) THEN "captcha" ELSE "password")
    /\ UNCHANGED richiesta

(* VerifyCaptcha answers yes. *)
CaptchaGiusto(r, c) ==
    /\ pc[r] = "captcha"
    /\ c.resta >= 0
    /\ captchas' = Consuma(c)
    /\ Va(r, "password")
    /\ richiesta' = [richiesta EXCEPT ![r].captcha = c.id]
    /\ UNCHANGED <<attempts, bannedIPs, oltre>>

(* VerifyCaptcha answers no: a wrong answer, or an id that is not there, or one
   that has expired, which is forgotten. *)
CaptchaSbagliato(r, scaduti) ==
    /\ pc[r] = "captcha"
    /\ captchas' = captchas \ scaduti
    /\ Termina(r)
    /\ UNCHANGED <<attempts, bannedIPs, oltre>>

(* The password is right: only the panel clears the attempts of the address. *)
PasswordGiusta(r) ==
    /\ pc[r] = "password"
    /\ IF richiesta[r].via = "pannello"
       THEN Va(r, "pulisce") /\ UNCHANGED richiesta
       ELSE Termina(r)
    /\ UNCHANGED <<limite, oltre>>

(* ErrNotFound.  A client's request with no user or no password ends here too. *)
PasswordSbagliata(r) ==
    LET ip == richiesta[r].ip IN
    /\ pc[r] = "password"
    /\ Va(r, "sbagliata")
    /\ oltre' = IF isBanned(ip) /\ oltre[ip] < Cardinality(Richieste)
                THEN [oltre EXCEPT ![ip] = @ + 1] ELSE oltre
    /\ UNCHANGED <<limite, richiesta>>

(* A database error, a disabled account, an agent on the panel: not counted. *)
NonConta(r) ==
    /\ pc[r] = "password"
    /\ Termina(r)
    /\ UNCHANGED <<limite, oltre>>

(* The panel then asks again, to tell its page whether to show the captcha. *)
RegistraFallito(r) ==
    /\ pc[r] \in {"sbagliata", "malformata"}
    /\ RecordFailedAttempt(richiesta[r].ip)
    /\ IF pc[r] = "sbagliata" /\ richiesta[r].via = "pannello"
       THEN Va(r, "risponde") /\ UNCHANGED richiesta
       ELSE Termina(r)

Risponde(r) ==
    /\ pc[r] = "risponde"
    /\ CheckSecurityStatus(richiesta[r].ip)
    /\ Termina(r)

Pulisce(r) ==
    /\ pc[r] = "pulisce"
    /\ RemoveAttempts(richiesta[r].ip)
    /\ Termina(r)

(* GET /admin/captcha: asked, and then generated. *)
ChiediCaptcha(r) ==
    LET ip == richiesta[r].ip IN
    /\ pc[r] = "richiede"
    /\ CheckSecurityStatus(ip)
    /\ IF captchaRequired(ip) THEN Va(r, "genera") /\ UNCHANGED richiesta ELSE Termina(r)

GeneraCaptcha(r, id) ==
    /\ pc[r] = "genera"
    /\ RequireCaptcha(id)
    /\ Termina(r)
(* Generate or the drawing fails; or, in the model only, no id is left. *)
CaptchaError(r) ==
    /\ pc[r] = "genera"
    /\ Termina(r)
    /\ UNCHANGED <<limite, oltre>>
-----------------------------------------------------------------------------
pruneCaptchas == {c \in captchas : c.resta >= 0}

(* Every minute. *)
cleanupExpired ==
    /\ bannedIPs' = {b \in bannedIPs : b.resta >= 0}
    /\ attempts' = [ip \in Indirizzi |-> pruneAttempts(ip)]
    /\ captchas' = pruneCaptchas
    /\ UNCHANGED <<pc, richiesta, oltre>>

Meno(x) == IF x >= 0 THEN x - 1 ELSE x

Invecchia(t) == [t EXCEPT !.eta = IF @ < AttemptsWindow THEN @ + 1 ELSE @]

(* A unit of time passes. *)
Passa ==
    /\ attempts' = [ip \in Indirizzi |-> {Invecchia(t) : t \in attempts[ip]}]
    /\ captchas' = {[c EXCEPT !.resta = Meno(@)] : c \in captchas}
    /\ bannedIPs' = {[b EXCEPT !.resta = Meno(@)] : b \in bannedIPs}
    /\ UNCHANGED <<pc, richiesta, oltre>>

Arriva(r) == \E via \in Vie, ip \in Indirizzi : Limiter(r, via, ip)

Prosegue(r) ==
    \/ \E malformata \in BOOLEAN : ControllaPannello(r, malformata)
    \/ \E c \in captchas : CaptchaGiusto(r, c)
    \/ \E scaduti \in {{}} \cup {{c} : c \in captchas \ pruneCaptchas} : CaptchaSbagliato(r, scaduti)
    \/ PasswordGiusta(r)
    \/ PasswordSbagliata(r)
    \/ NonConta(r)
    \/ RegistraFallito(r)
    \/ Risponde(r)
    \/ Pulisce(r)
    \/ ChiediCaptcha(r)
    \/ \E id \in Captcha : GeneraCaptcha(r, id)
    \/ CaptchaError(r)

Next ==
    \/ \E r \in Richieste : Arriva(r) \/ Prosegue(r)
    \/ cleanupExpired
    \/ Passa

Spec == Init /\ [][Next]_vars

(* Time passes, and a request that has begun ends. *)
FairSpec ==
    /\ Spec
    /\ WF_vars(Passa)
    /\ \A r \in Richieste : WF_vars(Prosegue(r))
-----------------------------------------------------------------------------
(* Every variable has its type; the maps have one record for each key. *)
TypeOK ==
    /\ attempts \in [Indirizzi -> SUBSET Tentativo]
    /\ \A ip \in Indirizzi : IsFiniteSet(attempts[ip])
    /\ captchas \subseteq Meta
    /\ bannedIPs \subseteq Bando
    /\ pc \in [Richieste -> {"libera", "stato", "captcha", "password", "sbagliata",
                             "malformata", "risponde", "pulisce", "richiede", "genera"}]
    /\ richiesta \in [Richieste -> Richiesta]
    /\ \A r \in Richieste : pc[r] # "libera" => richiesta[r].ip \in Indirizzi
    /\ oltre \in [Indirizzi -> 0 .. Cardinality(Richieste)]

(* A banned address has no attempts left, whatever the requests that were under
   way when the ban fell still record: once it ends, the count starts from zero. *)
BandoAzzera ==
    \A b \in bannedIPs : attempts[b.ip] = {} /\ \A d \in bannedIPs : d.ip = b.ip => d = b

(* The attempts of an address never reach the threshold of the ban: the one that
   would is the ban. *)
SottoSoglia == BanThreshold > 0 =>
    \A ip \in Indirizzi : Cardinality(attempts[ip]) < BanThreshold

(* The limiter counts a round from zero to its threshold, and the attempt that would
   reach it is the ban: an address not banned is always under the threshold, and one
   banned has nothing kept, whatever requests under way still record. *)
BandoEsatto == BandoAzzera /\ SottoSoglia

(* A captcha opens one login: once used it is not in the map and no other request
   holds it, though it is not bound to the address that asked for it. *)
CaptchaPerUno == \A r \in Richieste : richiesta[r].captcha # Nessuno =>
    /\ \A c \in captchas : c.id # richiesta[r].captcha
    /\ \A s \in Richieste \ {r} : richiesta[s].captcha # richiesta[r].captcha

(* The limiter is asked before the password and told after: during a ban only
   the other requests already under way still find a password wrong. *)
OltreIlBando == \A ip \in Indirizzi : isBanned(ip) => oltre[ip] < Cardinality(Richieste)

(* A standing ban is neither lifted nor begun anew by anything: only time takes it away. *)
BandoFermo == [][\A b \in bannedIPs : b.resta >= 0 =>
                   \E d \in bannedIPs' : d.ip = b.ip /\ d.resta \in {b.resta, b.resta - 1}]_vars

(* A ban ends, even if the cleanup never runs: no sequence of requests keeps an
   address out for ever. *)
BandoFinisce == \A ip \in Indirizzi : isBanned(ip) ~> ~isBanned(ip)
=============================================================================
