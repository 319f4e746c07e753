----------------------------- MODULE SessioniProofs -----------------------------
(***************************************************************************)
(* Theorems of module Sessioni: for any number of requests, accounts,      *)
(* devices and tokens.                                                     *)
(***************************************************************************)
EXTENDS Sessioni, TLAPS

USE SessioniAssumption

Accessi == {"client", "pannello", "oidc"}

Passi == {"libera", "eccezione", "password", "utente", "token", "autorizza", "rinnova", "logout",
          "vecchia", "bersaglio", "quale", "scrive", "svuota", "nonRevocato", "nonSvuotato"}

(* Two tokens with the same id are one. *)
Chiave(T) == \A s, t \in T : s.id = t.id => s = t

(* The types of the tables. *)
TipiTabelle ==
    /\ utenti \in [Utenti -> [password : BOOLEAN, stato : Stati]]
    /\ tokens \subseteq UserToken
    /\ Chiave(tokens)
    /\ \A t \in tokens : t.id < nuovo
    /\ nuovo \in 1 .. MaxToken + 1

(* The types of the requests: one that runs has an account, and one that logs in
   has come by a login. *)
TipiRichieste ==
    /\ pc \in [Richieste -> Passi]
    /\ richiesta \in [Richieste -> Richiesta]
    /\ \A r \in Richieste : pc[r] # "libera" => richiesta[r].utente \in Utenti
    /\ \A r \in Richieste : pc[r] \in {"eccezione", "password", "utente", "token"} =>
                              richiesta[r].op \in Accessi

TipiInv == TipiTabelle /\ TipiRichieste

(* They are stronger than the type invariant of the runs. *)
LEMMA Tipi == TipiInv => TypeOK
BY DEF TypeOK, TipiInv, TipiTabelle, TipiRichieste, Passi, Chiave

(* The same token, but for its expiry and its history. *)
Stesso(t, s) == t.id = s.id /\ t.utente = s.utente /\ t.via = s.via /\ t.agente = s.agente

(* What renews or ages a token keeps the rest of it. *)
LEMMA ScadutoTipo ==
    ASSUME NEW t \in UserToken, NEW b \in BOOLEAN, NEW f, f = [t EXCEPT !.scaduto = b]
    PROVE  f \in UserToken /\ Stesso(f, t) /\ f.vecchio = t.vecchio
BY DEF UserToken, Stesso

(* So does what marks it. *)
LEMMA VecchioTipo ==
    ASSUME NEW t \in UserToken, NEW b \in BOOLEAN, NEW f, f = [t EXCEPT !.vecchio = b]
    PROVE  f \in UserToken /\ Stesso(f, t) /\ f.vecchio = b
BY DEF UserToken, Stesso

(* The tokens of the next state are tokens of this one. *)
Conserva ==
    /\ nuovo' = nuovo
    /\ tokens' \subseteq UserToken
    /\ Chiave(tokens')
    /\ \A t \in tokens' : \E s \in tokens : Stesso(t, s)

(* Those who mark them are the changes of password. *)
Segna == \A t \in tokens' : \E s \in tokens : Stesso(t, s) /\ t.vecchio = s.vecchio

(* Deleting tokens conserves the others. *)
LEMMA ConservaMeno ==
    ASSUME TipiTabelle, tokens' \subseteq tokens, nuovo' = nuovo
    PROVE  Conserva /\ Segna
BY DEF TipiTabelle, Conserva, Segna, Stesso, Chiave

(* So does renewing one, *)
LEMMA ConservaRinnovati ==
    ASSUME TipiTabelle, NEW q, tokens' = Rinnovati(q), nuovo' = nuovo
    PROVE  Conserva /\ Segna
<1> DEFINE F(t) == [t EXCEPT !.scaduto = @ /\ t.id # q.token]
<1>1. ASSUME NEW t \in tokens
      PROVE  F(t) \in UserToken /\ Stesso(F(t), t) /\ F(t).vecchio = t.vecchio
  <2>1. t \in UserToken
    BY DEF TipiTabelle
  <2> DEFINE b == t.scaduto /\ t.id # q.token
  <2>2. b \in BOOLEAN
    OBVIOUS
  <2>3. F(t) = [t EXCEPT !.scaduto = b]
    OBVIOUS
  <2> HIDE DEF b, F
  <2> QED
    BY <2>1, <2>2, <2>3, ScadutoTipo
<1>2. tokens' = {F(t) : t \in tokens}
  BY DEF Rinnovati
<1> HIDE DEF F
<1> QED
  BY <1>1, <1>2 DEF Conserva, Segna, Chiave, Stesso, TipiTabelle

(* letting one expire, *)
LEMMA ConservaScaduto ==
    ASSUME TipiTabelle, NEW t \in tokens, Scade(t)
    PROVE  Conserva /\ Segna
<1> DEFINE f == [t EXCEPT !.scaduto = TRUE]
<1>1. f \in UserToken /\ Stesso(f, t) /\ f.vecchio = t.vecchio
  <2>1. t \in UserToken
    BY DEF TipiTabelle
  <2> QED
    BY <2>1, ScadutoTipo
<1>2. tokens' = (tokens \ {t}) \cup {f} /\ nuovo' = nuovo
  BY DEF Scade
<1> HIDE DEF f
<1> QED
  BY <1>1, <1>2 DEF Conserva, Segna, Chiave, Stesso, TipiTabelle

(* and a change of password. *)
LEMMA ConservaPassword ==
    ASSUME TipiTabelle, NEW r \in Richieste, UpdatePassword(r)
    PROVE  /\ Conserva
           /\ \A t \in tokens' : \E s \in tokens :
                Stesso(t, s) /\ (t.vecchio => s.vecchio \/ s.utente = richiesta[r].utente)
<1> DEFINE u == richiesta[r].utente
           F(t) == [t EXCEPT !.vecchio = @ \/ t.utente = u]
<1>1. ASSUME NEW t \in tokens
      PROVE  /\ F(t) \in UserToken /\ Stesso(F(t), t)
             /\ F(t).vecchio => t.vecchio \/ t.utente = u
  <2>1. t \in UserToken
    BY DEF TipiTabelle
  <2> DEFINE b == t.vecchio \/ t.utente = u
  <2>2. b \in BOOLEAN /\ (b => t.vecchio \/ t.utente = u)
    OBVIOUS
  <2>3. F(t) = [t EXCEPT !.vecchio = b]
    OBVIOUS
  <2> HIDE DEF b, F
  <2>4. F(t) \in UserToken /\ Stesso(F(t), t) /\ F(t).vecchio = b
    BY <2>1, <2>2, <2>3, VecchioTipo
  <2> QED
    BY <2>2, <2>4
<1>2. tokens' = {F(t) : t \in tokens} /\ nuovo' = nuovo
  BY DEF UpdatePassword
<1> HIDE DEF F
<1> QED
  BY <1>1, <1>2 DEF Conserva, Chiave, Stesso, TipiTabelle

(* What a step does to the tokens: a login adds one, a change of password marks
   some, any other step keeps some as they are. *)
LEMMA PassoTokens ==
    ASSUME TipiTabelle, [Next]_vars
    PROVE  \/ Conserva /\ Segna
           \/ \E r \in Richieste : Login(r)
           \/ \E r \in Richieste : UpdatePassword(r)
<1>1. ASSUME UNCHANGED <<tokens, nuovo>>
      PROVE  Conserva /\ Segna
  BY <1>1, ConservaMeno
<1>2. ASSUME NEW r \in Richieste, Arriva(r)
      PROVE  UNCHANGED <<tokens, nuovo>>
  BY <1>2 DEF Arriva, Comincia, ConToken, reimpostaPassword, Legge, tabelle
<1>3. ASSUME NEW r \in Richieste, Prosegue(r), ~Login(r), ~UpdatePassword(r)
      PROVE  Conserva /\ Segna
  <2>1. CASE Eccezione(r) \/ InfoByUsernamePassword(r) \/ PasswordSbagliata(r) \/ OidcAuthQueryPre(r)
    <3>1. UNCHANGED tabelle
      BY <2>1 DEF Eccezione, InfoByUsernamePassword, PasswordSbagliata, OidcAuthQueryPre, Legge, Rifiuta
    <3> QED
      BY <1>1, <3>1 DEF tabelle
  <2>2. CASE Autorizza(r) \/ ChangeCurPwd(r) \/ Respinta(r) \/ Guasto(r) \/ Fallisce(r)
    <3>1. UNCHANGED tabelle
      BY <2>2 DEF Autorizza, ChangeCurPwd, Respinta, Guasto, Fallisce, Legge, Rifiuta
    <3> QED
      BY <1>1, <3>1 DEF tabelle
  <2>3. CASE (\E t \in tokens : TokenInfoById(r, t)) \/ (\E u \in Utenti : Bersaglio(r, u))
    <3>1. UNCHANGED tabelle
      BY <2>3 DEF TokenInfoById, Bersaglio, Legge
    <3> QED
      BY <1>1, <3>1 DEF tabelle
  <2>4. ASSUME NEW scade \in BOOLEAN, AutoRefresh(r, scade)
        PROVE  Conserva /\ Segna
    <3>1. nuovo' = nuovo /\ (tokens' = tokens \/ tokens' = Rinnovati(richiesta[r]))
      BY <2>4 DEF AutoRefresh
    <3> QED
      BY <1>1, <3>1, ConservaRinnovati
  <2>5. CASE Logout(r) \/ Svuota(r) \/ (\E ids \in SUBSET {t.id : t \in tokens} : BatchDeleteUserToken(r, ids))
    <3>1. tokens' \subseteq tokens /\ nuovo' = nuovo
      BY <2>5 DEF Logout, Svuota, FlushToken, BatchDeleteUserToken
    <3> QED
      BY <3>1, ConservaMeno
  <2> QED
    BY <1>3, <2>1, <2>2, <2>3, <2>4, <2>5 DEF Prosegue
<1>4. CASE \/ \E uuid \in Uuid : FlushTokenByUuid(uuid)
           \/ \E uuids \in SUBSET Uuid : BatchDeletePeer(uuids)
  BY <1>4, ConservaMeno DEF FlushTokenByUuid, BatchDeletePeer
<1>5. CASE \E u \in Utenti, stato \in Stati : CambiaStato(u, stato)
  BY <1>1, <1>5 DEF CambiaStato
<1>6. CASE \E t \in tokens : Scade(t)
  BY <1>6, ConservaScaduto
<1> QED
  BY <1>1, <1>2, <1>3, <1>4, <1>5, <1>6 DEF Next, vars

(* The token a login adds. *)
LEMMA LoginTipo ==
    ASSUME TipiInv, NEW r \in Richieste, Login(r)
    PROVE  \E t \in UserToken :
             /\ tokens' = tokens \cup {t}
             /\ t.id = nuovo /\ t.utente = richiesta[r].utente /\ t.via = richiesta[r].op
             /\ t.agente = richiesta[r].agente /\ t.vecchio = FALSE
<1> DEFINE q == richiesta[r]
           t == [id |-> nuovo, utente |-> q.utente, uuid |-> q.uuid, scaduto |-> FALSE,
                 via |-> q.op, agente |-> q.agente, vecchio |-> FALSE]
<1>1. /\ q \in Richiesta /\ q.utente \in Utenti /\ q.op \in Accessi
      /\ nuovo \in 1 .. MaxToken
  BY DEF Login, TipiInv, TipiRichieste, TipiTabelle
<1>2. t \in UserToken
  BY <1>1 DEF UserToken, Richiesta, Uuid, Accessi
<1>3. tokens' = tokens \cup {t}
  BY DEF Login
<1> QED
  BY <1>2, <1>3

(* Every step keeps the types of the accounts. *)
LEMMA PassoUtenti ==
    ASSUME TipiInv, [Next]_vars
    PROVE  utenti' \in [Utenti -> [password : BOOLEAN, stato : Stati]]
<1>0. utenti \in [Utenti -> [password : BOOLEAN, stato : Stati]]
  BY DEF TipiInv, TipiTabelle
<1>1. ASSUME NEW r \in Richieste, UpdatePassword(r)
      PROVE  utenti' \in [Utenti -> [password : BOOLEAN, stato : Stati]]
  <2> DEFINE u == richiesta[r].utente
             b == utenti[u].password \/ utenti[u].stato # "cancellato"
  <2>1. u \in Utenti
    BY <1>1 DEF UpdatePassword, TipiInv, TipiRichieste
  <2>2. b \in BOOLEAN
    OBVIOUS
  <2>3. utenti' = [utenti EXCEPT ![u].password = b]
    BY <1>1 DEF UpdatePassword
  <2> HIDE DEF b, u
  <2> QED
    BY <1>0, <2>1, <2>2, <2>3
<1>2. ASSUME NEW u \in Utenti, NEW stato \in Stati, CambiaStato(u, stato)
      PROVE  utenti' \in [Utenti -> [password : BOOLEAN, stato : Stati]]
  BY <1>0, <1>2 DEF CambiaStato
<1>3. ASSUME UNCHANGED utenti
      PROVE  utenti' \in [Utenti -> [password : BOOLEAN, stato : Stati]]
  BY <1>0, <1>3
<1>4. ASSUME NEW r \in Richieste, Arriva(r)
      PROVE  UNCHANGED utenti
  BY <1>4 DEF Arriva, Comincia, ConToken, reimpostaPassword, Legge, tabelle
<1>5. ASSUME NEW r \in Richieste, Prosegue(r), ~UpdatePassword(r)
      PROVE  UNCHANGED utenti
  <2>1. CASE Eccezione(r) \/ InfoByUsernamePassword(r) \/ PasswordSbagliata(r) \/ OidcAuthQueryPre(r)
    BY <2>1 DEF Eccezione, InfoByUsernamePassword, PasswordSbagliata, OidcAuthQueryPre, Legge, Rifiuta, tabelle
  <2>2. CASE Autorizza(r) \/ ChangeCurPwd(r) \/ Respinta(r) \/ Guasto(r) \/ Fallisce(r)
    BY <2>2 DEF Autorizza, ChangeCurPwd, Respinta, Guasto, Fallisce, Legge, Rifiuta, tabelle
  <2>3. CASE (\E t \in tokens : TokenInfoById(r, t)) \/ (\E u \in Utenti : Bersaglio(r, u))
    BY <2>3 DEF TokenInfoById, Bersaglio, Legge, tabelle
  <2>4. CASE \/ Login(r) \/ Logout(r) \/ Svuota(r)
             \/ \E scade \in BOOLEAN : AutoRefresh(r, scade)
             \/ \E ids \in SUBSET {t.id : t \in tokens} : BatchDeleteUserToken(r, ids)
    BY <2>4 DEF Login, Logout, Svuota, AutoRefresh, BatchDeleteUserToken
  <2> QED
    BY <1>5, <2>1, <2>2, <2>3, <2>4 DEF Prosegue
<1>6. CASE \/ UNCHANGED vars
           \/ \E uuid \in Uuid : FlushTokenByUuid(uuid)
           \/ \E uuids \in SUBSET Uuid : BatchDeletePeer(uuids)
           \/ \E t \in tokens : Scade(t)
  BY <1>3, <1>6 DEF vars, FlushTokenByUuid, BatchDeletePeer, Scade
<1> QED
  BY <1>1, <1>2, <1>3, <1>4, <1>5, <1>6 DEF Next

(* Every step keeps the types of the tables. *)
LEMMA PassoTabelle ==
    ASSUME TipiInv, [Next]_vars
    PROVE  TipiTabelle'
<1>0. TipiTabelle
  BY DEF TipiInv
<1>1. ASSUME Conserva
      PROVE  TipiTabelle'
  BY <1>0, <1>1, PassoUtenti DEF Conserva, Stesso, TipiTabelle
<1>2. ASSUME NEW r \in Richieste, Login(r)
      PROVE  TipiTabelle'
  <2>1. PICK t \in UserToken : tokens' = tokens \cup {t} /\ t.id = nuovo
    BY <1>2, LoginTipo
  <2>2. nuovo' = nuovo + 1 /\ nuovo \in 1 .. MaxToken
    BY <1>0, <1>2 DEF Login, TipiTabelle
  <2>3. \A s \in tokens : s.id \in 1 .. MaxToken /\ s.id < nuovo
    BY <1>0 DEF TipiTabelle, UserToken
  <2>4. Chiave(tokens')
    BY <1>0, <2>1, <2>2, <2>3 DEF Chiave, TipiTabelle
  <2>5. \A s \in tokens' : s.id < nuovo'
    BY <2>1, <2>2, <2>3
  <2>6. nuovo' \in 1 .. MaxToken + 1
    BY <2>2
  <2>7. tokens' \subseteq UserToken
    BY <1>0, <2>1 DEF TipiTabelle
  <2> QED
    BY <2>4, <2>5, <2>6, <2>7, PassoUtenti DEF TipiTabelle
<1> QED
  BY <1>0, <1>1, <1>2, PassoTokens, ConservaPassword

(* A request that goes on keeps the types of what it holds. *)
LEMMA VaTipo ==
    ASSUME TipiRichieste, NEW r \in Richieste, NEW passo \in Passi, NEW q \in Richiesta,
           Va(r, passo), richiesta' = [richiesta EXCEPT ![r] = q],
           passo # "libera" => q.utente \in Utenti,
           passo \in {"eccezione", "password", "utente", "token"} => q.op \in Accessi
    PROVE  TipiRichieste'
BY DEF Va, TipiRichieste

LEMMA RestaTipo ==
    ASSUME TipiRichieste, NEW r \in Richieste, NEW passo \in Passi,
           Va(r, passo), richiesta' = richiesta, pc[r] # "libera",
           passo \in {"eccezione", "password", "utente", "token"} =>
             pc[r] \in {"eccezione", "password", "utente", "token"}
    PROVE  TipiRichieste'
BY DEF Va, TipiRichieste

(* What a request that begins holds. *)
LEMMA VuotaTipo == Vuota \in Richiesta
BY DEF Vuota, Richiesta, Ops, Uuid

(* A request that ends holds nothing. *)
LEMMA TerminaTipo ==
    ASSUME TipiRichieste, NEW r \in Richieste, Termina(r)
    PROVE  TipiRichieste'
BY VuotaTipo DEF Termina, Va, TipiRichieste, Passi

(* A request that begins has an account. *)
LEMMA ArrivaTipo ==
    ASSUME TipiInv, NEW r \in Richieste, Arriva(r)
    PROVE  TipiRichieste'
<1> USE DEF TipiInv
<1>0. \A p \in Provenienze : p[1] \in Accessi /\ p[2] \in Uuid
  BY DEF Accessi, Uuid
<1>1. ASSUME NEW op \in Accessi, NEW u \in Utenti, NEW d \in Uuid, Comincia(r, op, u, d)
      PROVE  TipiRichieste'
  <2> DEFINE q == [Vuota EXCEPT !.op = op, !.utente = u, !.uuid = d]
             passo == CASE op = "oidc"        -> "utente"
                        [] DisablePwdLogin  -> "eccezione"
                        [] OTHER            -> "password"
  <2>1. op \in Ops
    BY DEF Accessi, Ops
  <2>2. q \in Richiesta /\ q.op = op /\ q.utente = u
    BY <2>1, VuotaTipo DEF Richiesta
  <2>3. passo \in Passi
    BY DEF Passi
  <2>4. richiesta' = [richiesta EXCEPT ![r] = q] /\ Va(r, passo)
    BY <1>1 DEF Comincia, Legge
  <2> HIDE DEF q, passo
  <2> QED
    BY <2>2, <2>3, <2>4, VaTipo
<1>2. ASSUME NEW op \in {"esci", "rubrica", "cambia", "reimposta", "revoca"},
             NEW t \in tokens, ConToken(r, op, t)
      PROVE  TipiRichieste'
  <2>1. op \in Ops /\ t.utente \in Utenti /\ t.id \in 0 .. MaxToken
    BY DEF Ops, TipiTabelle, UserToken
  <2> DEFINE q == [Vuota EXCEPT !.op = op, !.utente = t.utente, !.token = t.id]
  <2>2. q \in Richiesta /\ q.utente = t.utente
    BY <2>1, VuotaTipo DEF Richiesta
  <2>3. richiesta' = [richiesta EXCEPT ![r] = q] /\ Va(r, "autorizza")
    BY <1>2 DEF ConToken, Legge
  <2> HIDE DEF q
  <2> QED
    BY <2>1, <2>2, <2>3, VaTipo DEF Passi
<1>3. ASSUME NEW u \in Utenti, reimpostaPassword(r, u)
      PROVE  TipiRichieste'
  <2> DEFINE q == [Vuota EXCEPT !.op = "reimposta", !.utente = u]
  <2>1. q \in Richiesta /\ q.utente = u
    BY VuotaTipo DEF Ops, Richiesta
  <2>2. richiesta' = [richiesta EXCEPT ![r] = q] /\ Va(r, "scrive")
    BY <1>3 DEF reimpostaPassword, Legge
  <2> HIDE DEF q
  <2> QED
    BY <2>1, <2>2, VaTipo DEF Passi
<1> QED
  BY <1>0, <1>1, <1>2, <1>3 DEF Arriva

(* A request that goes on keeps it. *)
LEMMA ProsegueTipo ==
    ASSUME TipiInv, NEW r \in Richieste, Prosegue(r)
    PROVE  TipiRichieste'
<1> USE DEF TipiInv
<1>1. richiesta[r] \in Richiesta
  BY DEF TipiRichieste
<1>2. CASE Eccezione(r)
  BY <1>2, TerminaTipo, RestaTipo DEF Eccezione, Legge, Rifiuta, Passi
<1>3. CASE InfoByUsernamePassword(r)
  BY <1>3, TerminaTipo, RestaTipo DEF InfoByUsernamePassword, Legge, Rifiuta, Passi
<1>4. CASE PasswordSbagliata(r) \/ Respinta(r) \/ Fallisce(r)
  BY <1>4, TerminaTipo DEF PasswordSbagliata, Respinta, Fallisce, Rifiuta
<1>5. CASE OidcAuthQueryPre(r)
  <2> DEFINE b == utenti[richiesta[r].utente].stato = "agente"
             q == [richiesta[r] EXCEPT !.agente = b]
  <2>1. q \in Richiesta /\ q.utente = richiesta[r].utente /\ q.op = richiesta[r].op
    BY <1>1 DEF Richiesta
  <2>2. CASE Va(r, "token") /\ richiesta' = [richiesta EXCEPT ![r] = q]
    <3>1. q.utente \in Utenti /\ q.op \in Accessi
      BY <1>5, <2>1 DEF OidcAuthQueryPre, TipiRichieste
    <3> HIDE DEF q
    <3> QED
      BY <2>1, <2>2, <3>1, VaTipo DEF Passi
  <2>3. CASE Termina(r)
    BY <2>3, TerminaTipo
  <2> QED
    BY <1>5, <2>2, <2>3 DEF OidcAuthQueryPre, Legge, Rifiuta
<1>6. CASE Login(r)
  <2> DEFINE q == [richiesta[r] EXCEPT !.token = nuovo]
  <2>1. nuovo \in 0 .. MaxToken
    BY <1>6 DEF Login, TipiTabelle
  <2>2. q \in Richiesta /\ q.utente = richiesta[r].utente
    BY <1>1, <2>1 DEF Richiesta
  <2>3. CASE Va(r, "logout") /\ richiesta' = [richiesta EXCEPT ![r] = q]
    <3>1. q.utente \in Utenti
      BY <1>6, <2>2 DEF Login, TipiRichieste
    <3> HIDE DEF q
    <3> QED
      BY <2>2, <2>3, <3>1, VaTipo DEF Passi
  <2> QED
    BY <1>6, <2>3, TerminaTipo DEF Login, DopoLogin
<1>7. CASE Autorizza(r)
  <2> DEFINE b == richiesta[r].op = "cambia" /\ utenti[richiesta[r].utente].password
             q == [richiesta[r] EXCEPT !.copia = b]
  <2>1. b \in BOOLEAN
    OBVIOUS
  <2>2. q \in Richiesta /\ q.utente = richiesta[r].utente
    <3> HIDE DEF b
    <3> QED
      BY <1>1, <2>1 DEF Richiesta
  <2>3. CASE Va(r, "rinnova") /\ richiesta' = [richiesta EXCEPT ![r] = q]
    <3>1. q.utente \in Utenti
      BY <1>7, <2>2 DEF Autorizza, TipiRichieste
    <3> HIDE DEF q
    <3> QED
      BY <2>2, <2>3, <3>1, VaTipo DEF Passi
  <2> QED
    BY <1>7, <2>3, TerminaTipo DEF Autorizza, Legge, Rifiuta
<1>8. ASSUME NEW scade \in BOOLEAN, AutoRefresh(r, scade)
      PROVE  TipiRichieste'
  <2>1. Gestore(richiesta[r].op) \in {"logout", "vecchia", "bersaglio", "quale", "libera"}
    BY DEF Gestore
  <2> DEFINE n == IF richiesta[r].op = "esci" THEN richiesta[r].token ELSE 0
             q == [richiesta[r] EXCEPT !.token = n]
             g == Gestore(richiesta[r].op)
  <2>2. n \in 0 .. MaxToken
    BY <1>1 DEF Richiesta
  <2>3. q \in Richiesta /\ q.utente = richiesta[r].utente
    <3> HIDE DEF n
    <3> QED
      BY <1>1, <2>2 DEF Richiesta
  <2>4. CASE Va(r, g) /\ richiesta' = [richiesta EXCEPT ![r] = q]
    <3>1. q.utente \in Utenti
      BY <1>8, <2>3 DEF AutoRefresh, TipiRichieste
    <3> HIDE DEF q, g
    <3>2. g \in {"logout", "vecchia", "bersaglio", "quale", "libera"}
      BY <2>1 DEF g
    <3> QED
      BY <2>3, <2>4, <3>1, <3>2, VaTipo DEF Passi
  <2> QED
    BY <1>8, <2>4, TerminaTipo DEF AutoRefresh
<1>9. CASE Logout(r) \/ Svuota(r) \/ (\E ids \in SUBSET {t.id : t \in tokens} : BatchDeleteUserToken(r, ids))
  BY <1>9, TerminaTipo DEF Logout, Svuota, BatchDeleteUserToken
<1>10. ASSUME NEW t \in tokens, TokenInfoById(r, t)
       PROVE  TipiRichieste'
  <2> DEFINE q == [richiesta[r] EXCEPT !.token = t.id]
  <2>1. t.id \in 0 .. MaxToken
    BY DEF TipiTabelle, UserToken
  <2>2. q \in Richiesta /\ q.utente = richiesta[r].utente
    BY <1>1, <2>1 DEF Richiesta
  <2>3. q.utente \in Utenti
    BY <1>10, <2>2 DEF TokenInfoById, TipiRichieste
  <2>4. Va(r, "logout") /\ richiesta' = [richiesta EXCEPT ![r] = q]
    BY <1>10 DEF TokenInfoById, Legge
  <2> HIDE DEF q
  <2> QED
    BY <2>2, <2>3, <2>4, VaTipo DEF Passi
<1>11. CASE ChangeCurPwd(r) \/ Guasto(r)
  BY <1>11, RestaTipo DEF ChangeCurPwd, Guasto, Legge, Passi
<1>12. ASSUME NEW u \in Utenti, Bersaglio(r, u)
       PROVE  TipiRichieste'
  <2> DEFINE q == [richiesta[r] EXCEPT !.utente = u]
  <2>1. q \in Richiesta /\ q.utente = u
    BY <1>1 DEF Richiesta
  <2>2. Va(r, "scrive") /\ richiesta' = [richiesta EXCEPT ![r] = q]
    BY <1>12 DEF Bersaglio, Legge
  <2> HIDE DEF q
  <2> QED
    BY <2>1, <2>2, VaTipo DEF Passi
<1>13. CASE UpdatePassword(r)
  <2> DEFINE u == richiesta[r].utente
             q == [Vuota EXCEPT !.op = "reimposta", !.utente = u]
  <2>1. u \in Utenti
    BY <1>13 DEF UpdatePassword, TipiRichieste
  <2> HIDE DEF u
  <2>2. q \in Richiesta /\ q.utente = u
    BY <2>1, VuotaTipo DEF Ops, Richiesta
  <2>3. Va(r, "svuota") /\ richiesta' = [richiesta EXCEPT ![r] = q]
    BY <1>13 DEF UpdatePassword, u
  <2> HIDE DEF q
  <2> QED
    BY <2>1, <2>2, <2>3, VaTipo DEF Passi
<1> QED
  BY <1>2, <1>3, <1>4, <1>5, <1>6, <1>7, <1>8, <1>9, <1>10, <1>11, <1>12, <1>13 DEF Prosegue

(* The types are an inductive invariant. *)
LEMMA PassoTipo ==
    ASSUME TipiInv, [Next]_vars
    PROVE  TipiInv'
<1>1. ASSUME UNCHANGED <<pc, richiesta>>
      PROVE  TipiRichieste'
  BY <1>1 DEF TipiInv, TipiRichieste
<1>2. CASE \/ UNCHANGED vars
           \/ \E uuid \in Uuid : FlushTokenByUuid(uuid)
           \/ \E uuids \in SUBSET Uuid : BatchDeletePeer(uuids)
           \/ \E u \in Utenti, stato \in Stati : CambiaStato(u, stato)
           \/ \E t \in tokens : Scade(t)
  BY <1>1, <1>2, PassoTabelle DEF vars, FlushTokenByUuid, BatchDeletePeer, CambiaStato, Scade, TipiInv
<1> QED
  BY <1>2, PassoTabelle, ArrivaTipo, ProsegueTipo DEF Next, TipiInv

(* They hold at the start. *)
LEMMA InizioTipo ==
    ASSUME Init
    PROVE  TipiInv
<1>1. TipiTabelle
  BY DEF Init, TipiTabelle, Chiave, Stati
<1>2. TipiRichieste
  BY VuotaTipo DEF Init, TipiRichieste, Passi
<1> QED
  BY <1>1, <1>2 DEF TipiInv

(* And always. *)
LEMMA TipiSempre == Spec => []TipiInv
<1>1. TipiInv /\ [Next]_vars => TipiInv'
  BY PassoTipo
<1> QED
  BY <1>1, InizioTipo, PTL DEF Spec

(* Every reachable state is well typed, and the ids of the tokens are a key, for any
   number of requests. *)
THEOREM TypeCorrect == Spec => []TypeOK
BY TipiSempre, Tipi, PTL

-----------------------------------------------------------------------------
(* A token revoked never comes back, whatever the requests that carry it: none of
   their updates adds a row, and the id of a login is not used twice. *)
THEOREM RevocaSempreDefinitiva == Spec => RevocaDefinitiva
<1>1. ASSUME TipiInv, [Next]_vars, NEW t \in tokens', t.id < nuovo
      PROVE  \E s \in tokens : s.id = t.id
  <2>1. CASE Conserva
    BY <2>1 DEF Conserva, Stesso
  <2>2. ASSUME NEW r \in Richieste, Login(r)
        PROVE  \E s \in tokens : s.id = t.id
    <3>1. PICK n \in UserToken : tokens' = tokens \cup {n} /\ n.id = nuovo
      BY <1>1, <2>2, LoginTipo
    <3>2. nuovo \in Nat
      BY <1>1 DEF TipiInv, TipiTabelle
    <3> QED
      BY <1>1, <3>1, <3>2
  <2> QED
    BY <1>1, <2>1, <2>2, PassoTokens, ConservaPassword DEF TipiInv
<1>2. TipiInv /\ [Next]_vars => [\A t \in tokens' : t.id < nuovo => \E s \in tokens : s.id = t.id]_vars
  BY <1>1
<1> QED
  BY <1>2, TipiSempre, PTL DEF Spec, RevocaDefinitiva

-----------------------------------------------------------------------------
(* A request that has an agent's login in hand is an OIDC login, whose token will be
   revoked. *)
AgenteInv ==
    /\ AgenteFuoriDalPannello
    /\ \A r \in Richieste : richiesta[r].agente => richiesta[r].op = "oidc"

(* The steps that are of no request. *)
Altro ==
    \/ UNCHANGED vars
    \/ \E uuid \in Uuid : FlushTokenByUuid(uuid)
    \/ \E uuids \in SUBSET Uuid : BatchDeletePeer(uuids)
    \/ \E u \in Utenti, stato \in Stati : CambiaStato(u, stato)
    \/ \E t \in tokens : Scade(t)

(* A step is of one request, or leaves them all where they are. *)
LEMMA PassoDiChi ==
    ASSUME [Next]_vars
    PROVE  \/ \E r \in Richieste : Arriva(r) \/ Prosegue(r)
           \/ Altro /\ UNCHANGED <<pc, richiesta>>
BY DEF Next, Altro, vars, FlushTokenByUuid, BatchDeletePeer, CambiaStato, Scade

(* A step of one request leaves the others where they are. *)
LEMMA UnaAllaVolta ==
    ASSUME TipiRichieste, NEW s \in Richieste, NEW r \in Richieste, s # r,
           Arriva(s) \/ Prosegue(s)
    PROVE  pc'[r] = pc[r] /\ richiesta'[r] = richiesta[r]
<1>0. pc \in [Richieste -> Passi] /\ richiesta \in [Richieste -> Richiesta]
  BY DEF TipiRichieste
<1>1. CASE Arriva(s)
  BY <1>0, <1>1 DEF Arriva, Comincia, ConToken, reimpostaPassword, Legge, Va
<1>2. CASE \/ Eccezione(s) \/ InfoByUsernamePassword(s) \/ PasswordSbagliata(s) \/ OidcAuthQueryPre(s)
           \/ Autorizza(s)
  BY <1>0, <1>2 DEF Eccezione, InfoByUsernamePassword, PasswordSbagliata, OidcAuthQueryPre,
       Autorizza, Legge, Rifiuta, Termina, Va
<1>3. CASE \/ ChangeCurPwd(s) \/ Respinta(s) \/ Guasto(s) \/ Fallisce(s) \/ UpdatePassword(s)
           \/ Logout(s) \/ Svuota(s)
  BY <1>0, <1>3 DEF ChangeCurPwd, Respinta, Guasto, Fallisce, UpdatePassword, Logout, Svuota,
       Legge, Rifiuta, Termina, Va
<1>4. CASE \/ \E t \in tokens : TokenInfoById(s, t)
           \/ \E u \in Utenti : Bersaglio(s, u)
           \/ \E ids \in SUBSET {t.id : t \in tokens} : BatchDeleteUserToken(s, ids)
  BY <1>0, <1>4 DEF TokenInfoById, Bersaglio, BatchDeleteUserToken, Legge, Termina, Va
<1>5. CASE Login(s)
  BY <1>0, <1>5 DEF Login, Termina, Va
<1>6. CASE \E scade \in BOOLEAN : AutoRefresh(s, scade)
  BY <1>0, <1>6 DEF AutoRefresh, Termina, Va
<1> QED
  BY <1>1, <1>2, <1>3, <1>4, <1>5, <1>6 DEF Prosegue

(* Only Logout, or a failure, ends a revocation. *)
LEMMA RevocaInCorso ==
    ASSUME TipiInv, [Next]_vars, NEW r \in Richieste, pc[r] \in {"logout", "nonRevocato"}
    PROVE  \/ Logout(r)
           \/ pc'[r] \in {"logout", "nonRevocato"} /\ richiesta'[r].token = richiesta[r].token
<1>1. CASE Altro /\ UNCHANGED <<pc, richiesta>>
  BY <1>1
<1>2. ASSUME NEW s \in Richieste, Arriva(s) \/ Prosegue(s), s # r
      PROVE  pc'[r] = pc[r] /\ richiesta'[r] = richiesta[r]
  BY <1>2, UnaAllaVolta DEF TipiInv
<1>3. ~Arriva(r)
  BY DEF Arriva, Comincia, ConToken, reimpostaPassword
<1>4. CASE Prosegue(r)
  <2>1. Logout(r) \/ Guasto(r)
    BY <1>4 DEF Prosegue, Eccezione, InfoByUsernamePassword, PasswordSbagliata, OidcAuthQueryPre,
         Login, Autorizza, AutoRefresh, TokenInfoById, BatchDeleteUserToken, ChangeCurPwd, Bersaglio,
         Respinta, UpdatePassword, Svuota, Guasto, Fallisce
  <2>2. CASE Guasto(r)
    BY <2>2 DEF Guasto, Legge, Va, TipiInv, TipiRichieste
  <2> QED
    BY <2>1, <2>2
<1> QED
  BY <1>1, <1>2, <1>3, <1>4, PassoDiChi

(* A request that has an agent's login in hand stays an OIDC login. *)
LEMMA AgenteDiOidc ==
    ASSUME TipiInv, [Next]_vars, NEW r \in Richieste, richiesta[r].agente => richiesta[r].op = "oidc"
    PROVE  richiesta'[r].agente => richiesta'[r].op = "oidc"
<1>0. richiesta \in [Richieste -> Richiesta]
  BY DEF TipiInv, TipiRichieste
<1>1. CASE Altro /\ UNCHANGED <<pc, richiesta>>
  BY <1>1
<1>2. ASSUME NEW s \in Richieste, Arriva(s) \/ Prosegue(s), s # r
      PROVE  richiesta'[r] = richiesta[r]
  BY <1>2, UnaAllaVolta DEF TipiInv
<1>3. ASSUME Termina(r)
      PROVE  richiesta'[r].agente = FALSE
  BY <1>0, <1>3 DEF Termina, Vuota
<1>4. CASE Arriva(r)
  <2>1. ASSUME NEW op, NEW u, NEW d, Comincia(r, op, u, d)
        PROVE  richiesta'[r].agente = FALSE
    BY <1>0, <2>1, VuotaTipo DEF Comincia, Vuota
  <2>2. ASSUME NEW op, NEW t, ConToken(r, op, t)
        PROVE  richiesta'[r].agente = FALSE
    BY <1>0, <2>2, VuotaTipo DEF ConToken, Vuota
  <2>3. ASSUME NEW u, reimpostaPassword(r, u)
        PROVE  richiesta'[r].agente = FALSE
    BY <1>0, <2>3, VuotaTipo DEF reimpostaPassword, Vuota
  <2> QED
    BY <1>4, <2>1, <2>2, <2>3 DEF Arriva
<1>5. CASE Prosegue(r)
  <2>0. richiesta[r] \in Richiesta
    BY <1>0
  <2>1. CASE \/ Eccezione(r) \/ InfoByUsernamePassword(r) \/ PasswordSbagliata(r) \/ ChangeCurPwd(r)
             \/ Respinta(r) \/ Guasto(r) \/ Fallisce(r) \/ Logout(r) \/ Svuota(r)
    BY <1>3, <2>1 DEF Eccezione, InfoByUsernamePassword, PasswordSbagliata, ChangeCurPwd, Respinta,
         Guasto, Fallisce, Logout, Svuota, Rifiuta
  <2>2. CASE OidcAuthQueryPre(r)
    <3>1. CASE Rifiuta(r)
      BY <1>3, <3>1 DEF Rifiuta
    <3>2. ASSUME NEW b \in BOOLEAN, richiesta' = [richiesta EXCEPT ![r].agente = b]
          PROVE  richiesta'[r].op = richiesta[r].op
      BY <1>0, <2>0, <3>2 DEF Richiesta
    <3>3. richiesta[r].op = "oidc"
      BY <2>2 DEF OidcAuthQueryPre
    <3> QED
      BY <2>2, <3>1, <3>2, <3>3 DEF OidcAuthQueryPre
  <2>3. ASSUME NEW n, richiesta' = [richiesta EXCEPT ![r].token = n]
        PROVE  richiesta'[r].op = richiesta[r].op /\ richiesta'[r].agente = richiesta[r].agente
    BY <1>0, <2>0, <2>3 DEF Richiesta
  <2>4. CASE Login(r)
    BY <1>3, <2>3, <2>4 DEF Login
  <2>5. CASE Autorizza(r)
    <3>1. CASE Rifiuta(r)
      BY <1>3, <3>1 DEF Rifiuta
    <3>2. ASSUME NEW b \in BOOLEAN, richiesta' = [richiesta EXCEPT ![r].copia = b]
          PROVE  richiesta'[r].op = richiesta[r].op /\ richiesta'[r].agente = richiesta[r].agente
      BY <1>0, <2>0, <3>2 DEF Richiesta
    <3> QED
      BY <2>5, <3>1, <3>2 DEF Autorizza
  <2>6. CASE \/ \E scade \in BOOLEAN : AutoRefresh(r, scade)
             \/ \E t \in tokens : TokenInfoById(r, t)
    <3>1. Termina(r) \/ \E n \in 0 .. MaxToken : richiesta' = [richiesta EXCEPT ![r].token = n]
      <4>1. richiesta[r].token \in 0 .. MaxToken /\ 0 \in 0 .. MaxToken
        BY <2>0 DEF Richiesta
      <4>2. \A t \in tokens : t.id \in 0 .. MaxToken
        BY DEF TipiInv, TipiTabelle, UserToken
      <4> QED
        BY <2>6, <4>1, <4>2 DEF AutoRefresh, TokenInfoById
    <3> QED
      BY <1>3, <2>3, <3>1
  <2>7. CASE \E ids \in SUBSET {t.id : t \in tokens} : BatchDeleteUserToken(r, ids)
    BY <1>3, <2>7 DEF BatchDeleteUserToken
  <2>8. ASSUME NEW u \in Utenti, Bersaglio(r, u)
        PROVE  richiesta'[r].op = richiesta[r].op /\ richiesta'[r].agente = richiesta[r].agente
    BY <1>0, <2>0, <2>8 DEF Bersaglio, Richiesta
  <2>9. CASE UpdatePassword(r)
    BY <1>0, <2>9, VuotaTipo DEF UpdatePassword, Vuota
  <2> QED
    BY <1>5, <2>1, <2>2, <2>4, <2>5, <2>6, <2>7, <2>8, <2>9 DEF Prosegue
<1> QED
  BY <1>1, <1>2, <1>4, <1>5, PassoDiChi

(* The token that an agent's OIDC login makes has a request that will revoke it. *)
LEMMA PassoAgente ==
    ASSUME TipiInv, AgenteInv, [Next]_vars
    PROVE  AgenteInv'
<1>1. ASSUME NEW t \in tokens', t.agente
      PROVE  \E r \in Richieste : pc'[r] \in {"logout", "nonRevocato"} /\ richiesta'[r].token = t.id
  <2>1. ASSUME NEW s \in tokens, s.agente, s.id = t.id
        PROVE  \E r \in Richieste : pc'[r] \in {"logout", "nonRevocato"} /\ richiesta'[r].token = t.id
    <3>1. PICK r \in Richieste : pc[r] \in {"logout", "nonRevocato"} /\ richiesta[r].token = t.id
      BY <2>1 DEF AgenteInv, AgenteFuoriDalPannello
    <3>2. ~Logout(r)
      BY <1>1, <3>1 DEF Logout
    <3> QED
      BY <3>1, <3>2, RevocaInCorso
  <2>2. CASE Conserva
    BY <1>1, <2>1, <2>2 DEF Conserva, Stesso
  <2>3. ASSUME NEW r \in Richieste, Login(r)
        PROVE  \E s \in Richieste : pc'[s] \in {"logout", "nonRevocato"} /\ richiesta'[s].token = t.id
    <3>1. PICK n \in UserToken :
            tokens' = tokens \cup {n} /\ n.id = nuovo /\ n.agente = richiesta[r].agente
      BY <2>3, LoginTipo
    <3>2. CASE t \in tokens
      BY <1>1, <2>1, <3>2
    <3>3. CASE t = n
      <4>1. richiesta[r].op = "oidc" /\ richiesta[r].agente
        BY <1>1, <3>1, <3>3 DEF AgenteInv
      <4>2. Va(r, "logout") /\ richiesta' = [richiesta EXCEPT ![r].token = nuovo]
        BY <2>3, <4>1 DEF Login, DopoLogin
      <4>3. richiesta \in [Richieste -> Richiesta] /\ richiesta[r] \in Richiesta /\ pc \in [Richieste -> Passi]
        BY DEF TipiInv, TipiRichieste
      <4>4. pc'[r] = "logout" /\ richiesta'[r].token = nuovo
        BY <4>2, <4>3 DEF Va, Richiesta
      <4> QED
        BY <3>1, <3>3, <4>4
    <3> QED
      BY <3>1, <3>2, <3>3
  <2> QED
    BY <2>2, <2>3, PassoTokens, ConservaPassword DEF TipiInv
<1>2. \A r \in Richieste : richiesta'[r].agente => richiesta'[r].op = "oidc"
  BY AgenteDiOidc DEF AgenteInv
<1> QED
  BY <1>1, <1>2 DEF AgenteInv, AgenteFuoriDalPannello

(* An agent has no token of the panel: the one that its OIDC login makes is about to
   be revoked, unless the revocation failed, for any requests at once. *)
THEOREM AgenteSempreFuori == Spec => []AgenteFuoriDalPannello
<1>1. Init => AgenteInv
  BY DEF Init, AgenteInv, AgenteFuoriDalPannello, Vuota
<1>2. TipiInv /\ AgenteInv /\ [Next]_vars => AgenteInv'
  BY PassoAgente
<1>3. AgenteInv => AgenteFuoriDalPannello
  BY DEF AgenteInv
<1> QED
  BY <1>1, <1>2, <1>3, TipiSempre, PTL DEF Spec

-----------------------------------------------------------------------------
(* A token that a change of password made old has a request that will delete it. *)
LEMMA PassoCambio ==
    ASSUME TipiInv, CambioChiude, [Next]_vars
    PROVE  CambioChiude'
<1>0. pc \in [Richieste -> Passi] /\ richiesta \in [Richieste -> Richiesta]
  BY DEF TipiInv, TipiRichieste
<1>1. ASSUME NEW t \in tokens', t.vecchio,
             NEW r \in Richieste, pc[r] \in {"svuota", "nonSvuotato"}, richiesta[r].utente = t.utente
      PROVE  pc'[r] \in {"svuota", "nonSvuotato"} /\ richiesta'[r].utente = t.utente
  <2>1. CASE Altro /\ UNCHANGED <<pc, richiesta>>
    BY <1>1, <2>1
  <2>2. ASSUME NEW s \in Richieste, Arriva(s) \/ Prosegue(s), s # r
        PROVE  pc'[r] = pc[r] /\ richiesta'[r] = richiesta[r]
    BY <2>2, UnaAllaVolta DEF TipiInv
  <2>3. ~Arriva(r)
    BY <1>1 DEF Arriva, Comincia, ConToken, reimpostaPassword
  <2>4. CASE Prosegue(r)
    <3>1. Svuota(r) \/ Guasto(r)
      BY <1>1, <2>4 DEF Prosegue, Eccezione, InfoByUsernamePassword, PasswordSbagliata, OidcAuthQueryPre,
           Login, Autorizza, AutoRefresh, TokenInfoById, BatchDeleteUserToken, ChangeCurPwd, Bersaglio,
           Respinta, UpdatePassword, Logout, Guasto, Fallisce
    <3>2. ~Svuota(r)
      BY <1>1 DEF Svuota, FlushToken
    <3>3. CASE Guasto(r)
      BY <1>0, <1>1, <3>3 DEF Guasto, Legge, Va
    <3> QED
      BY <3>1, <3>2, <3>3
  <2> QED
    BY <1>1, <2>1, <2>2, <2>3, <2>4, PassoDiChi
<1>2. ASSUME NEW t \in tokens', t.vecchio, NEW s \in tokens, s.vecchio, s.utente = t.utente
      PROVE  \E r \in Richieste : pc'[r] \in {"svuota", "nonSvuotato"} /\ richiesta'[r].utente = t.utente
  BY <1>1, <1>2 DEF CambioChiude
<1>3. ASSUME NEW t \in tokens', t.vecchio
      PROVE  \E r \in Richieste : pc'[r] \in {"svuota", "nonSvuotato"} /\ richiesta'[r].utente = t.utente
  <2>1. CASE Segna
    BY <1>2, <1>3, <2>1 DEF Segna, Stesso
  <2>2. ASSUME NEW r \in Richieste, Login(r)
        PROVE  t \in tokens
    <3>1. PICK n \in UserToken : tokens' = tokens \cup {n} /\ n.vecchio = FALSE
      BY <2>2, LoginTipo
    <3> QED
      BY <1>3, <3>1
  <2>3. ASSUME NEW r \in Richieste, UpdatePassword(r)
        PROVE  \E s \in Richieste : pc'[s] \in {"svuota", "nonSvuotato"} /\ richiesta'[s].utente = t.utente
    <3>1. PICK s \in tokens : Stesso(t, s) /\ (s.vecchio \/ s.utente = richiesta[r].utente)
      BY <1>3, <2>3, ConservaPassword DEF TipiInv
    <3>2. CASE s.vecchio
      BY <1>2, <1>3, <3>1, <3>2 DEF Stesso
    <3>3. CASE s.utente = richiesta[r].utente
      <4>1. pc'[r] = "svuota"
        BY <1>0, <2>3 DEF UpdatePassword, Va
      <4> DEFINE u == richiesta[r].utente
      <4>2. richiesta' = [richiesta EXCEPT ![r] = [Vuota EXCEPT !.op = "reimposta", !.utente = u]]
        BY <2>3 DEF UpdatePassword
      <4> HIDE DEF u
      <4>3. [Vuota EXCEPT !.op = "reimposta", !.utente = u].utente = u
        BY VuotaTipo DEF Richiesta
      <4>4. richiesta'[r].utente = u
        BY <1>0, <4>2, <4>3
      <4> QED
        BY <3>1, <3>3, <4>1, <4>4 DEF Stesso, u
    <3> QED
      BY <3>1, <3>2, <3>3
  <2> QED
    BY <1>2, <1>3, <2>1, <2>2, <2>3, PassoTokens DEF TipiInv
<1> QED
  BY <1>3 DEF CambioChiude

(* A session begun before a change of password ends with it, unless the second
   statement of the change failed, whatever logins and refreshes are under way. *)
THEOREM CambioSempreChiude == Spec => []CambioChiude
<1>1. Init => CambioChiude
  BY DEF Init, CambioChiude
<1>2. TipiInv /\ CambioChiude /\ [Next]_vars => CambioChiude'
  BY PassoCambio
<1> QED
  BY <1>1, <1>2, TipiSempre, PTL DEF Spec
=============================================================================
