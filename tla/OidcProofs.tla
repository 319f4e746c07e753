------------------------------ MODULE OidcProofs ------------------------------
(***************************************************************************)
(* Theorems of module Oidc: for any number of requests, users, accounts of *)
(* the provider and codes, any settings and any cap of the list.           *)
(***************************************************************************)
EXTENDS Oidc, SequenceTheorems, TLAPS

USE OidcAssumption

Passi == {"libera", "scambio", "terzo", "utente", "fornitore", "attende", "lega", "associa",
          "togli", "segna", "rimetti", "cerca", "cancella", "scarta", "token"} \cup Registrano

MemoriaTipi ==
    /\ cache \subseteq Codici /\ scaduti \subseteq Codici
    /\ voci \in [Codici -> Voce]
    /\ tokens \subseteq [codice : Codici, utente : Utenti]
    /\ prove \in [Codici -> SUBSET (Account \cup Utenti)]

BaseTipi ==
    /\ utenti \in [Utenti -> Stati]
    /\ terzi \subseteq UserThird

RichiesteTipi ==
    /\ pc \in [Richieste -> Passi]
    /\ req \in [Richieste -> Req]

TipiInv == MemoriaTipi /\ BaseTipi /\ RichiesteTipi

(* What is bound is of users that have been there; who was logged in with an account has
   its user among the proofs of the code. *)
LegamiInv ==
    /\ LegamiUnici
    /\ \A t \in terzi : utenti[t.utente] # "mai"
    /\ \A k \in Codici, t \in terzi : t.account \in prove[k] => t.utente \in prove[k]

(* What the item of a login says has been proved. *)
VociInv ==
    /\ \A k \in Codici : voci[k].azione = "login" =>
          /\ voci[k].utente # Nessuno => voci[k].utente \in prove[k]
          /\ voci[k].account # Nessuno => voci[k].account \in prove[k]
    /\ \A k \in Codici : voci[k].azione = "bind" => voci[k].utente \in Utenti
    /\ \A k \in scaduti : voci[k] # Mai

TokenInv == \A t \in tokens :
    /\ voci[t.codice].azione = "login" /\ voci[t.codice].utente # Nessuno
    /\ t.utente \in prove[t.codice]

DiLogin  == {"terzo", "utente", "fornitore", "attende", "segna", "rimetti", "cerca", "cancella",
             "scarta", "token"} \cup Registrano
DiConto  == {"terzo", "utente", "fornitore", "attende"} \cup Registrano
DiUtente == {"utente", "rUtente", "segna", "cancella", "scarta", "token"}
Segnati  == {"rimetti", "cerca", "cancella", "scarta", "token"}

(* What a request at a step carries, with the items v, the proofs p and the users st. *)
Porta(passo, q, v, p, st) ==
    /\ passo \in DiLogin \cup {"scambio", "lega"} => q.codice \in Codici
    /\ passo \in DiLogin => v[q.codice].azione = "login"
    /\ passo \in DiConto => q.account \in Account /\ q.account \in p[q.codice]
    /\ passo \in DiUtente => q.utente \in Utenti /\ q.utente \in p[q.codice]
    /\ passo \in Segnati => v[q.codice].utente # Nessuno
    /\ passo \in {"rLega", "lega"} => q.utente \in Utenti /\ st[q.utente] # "mai"
    /\ passo = "lega" =>
          /\ q.account \in Account
          /\ \/ v[q.codice].azione = "bind"
             \/ v[q.codice].azione = "login" /\ q.account \in p[q.codice]
    /\ passo = "associa" => q.codice = Nessuno /\ q.utente \in Utenti /\ q.account \in Account
    /\ passo = "togli" =>
          \/ q.codice = Nessuno
          \/ /\ q.codice \in Codici /\ v[q.codice].azione = "login"
             /\ q.utente \in Utenti /\ q.utente \in p[q.codice]

RichiesteInv == \A r \in Richieste : Porta(pc[r], req[r], voci, prove, utenti)

Inv == TipiInv /\ LegamiInv /\ VociInv /\ TokenInv /\ ScadutoConcluso /\ RegistraUno /\ RichiesteInv

LEMMA InizioInv == Init => Inv
<1> SUFFICES ASSUME Init PROVE Inv
  OBVIOUS
<1>1. TipiInv
  BY DEF Init, TipiInv, MemoriaTipi, BaseTipi, RichiesteTipi, Voce, Mai, Stati, Req, Vuota, Passi
<1>2. LegamiInv /\ VociInv /\ TokenInv /\ ScadutoConcluso
  BY DEF Init, LegamiInv, LegamiUnici, VociInv, TokenInv, ScadutoConcluso, Mai
<1>3. RegistraUno /\ RichiesteInv
  BY DEF Init, RegistraUno, RichiesteInv, Porta, DiLogin, DiConto, DiUtente, Segnati, Registrano
<1> QED
  BY <1>1, <1>2, <1>3 DEF Inv

LEMMA RiavviaInv ==
    ASSUME Inv, Riavvia
    PROVE  Inv'
<1>1. TipiInv'
  BY DEF Inv, Riavvia, base, TipiInv, MemoriaTipi, BaseTipi, RichiesteTipi, Voce, Mai, Stati, Req, Vuota, Passi
<1>2. LegamiInv' /\ VociInv' /\ TokenInv' /\ ScadutoConcluso'
  BY DEF Inv, Riavvia, base, LegamiInv, LegamiUnici, VociInv, TokenInv, ScadutoConcluso, Mai
<1>3. RegistraUno' /\ RichiesteInv'
  BY DEF Riavvia, RegistraUno, RichiesteInv, Porta, DiLogin, DiConto, DiUtente, Segnati, Registrano
<1> QED
  BY <1>1, <1>2, <1>3 DEF Inv

-----------------------------------------------------------------------------
(* What a step changes *)

PassoDi(r) == Arriva(r) \/ Prosegue(r)

(* A request goes to one step, with what it holds then. *)
Avanza(r) == \E passo \in Passi, q \in Req :
    /\ pc' = [pc EXCEPT ![r] = passo]
    /\ req' = [req EXCEPT ![r] = q]

LEMMA ComeAvanza ==
    ASSUME NEW r \in Richieste, TipiInv
    PROVE  /\ \A passo \in Passi, q \in Req : Tiene(r, passo, q) => Avanza(r)
           /\ \A passo \in Passi : Va(r, passo) /\ UNCHANGED req => Avanza(r)
           /\ Finisce(r) => Avanza(r)
<1>1. req = [req EXCEPT ![r] = req[r]] /\ req[r] \in Req
  BY DEF TipiInv, RichiesteTipi
<1>2. Vuota \in Req /\ "libera" \in Passi
  BY DEF Vuota, Req, Passi
<1>3. \A passo \in Passi, q \in Req : Tiene(r, passo, q) => Avanza(r)
  BY DEF Tiene, Va, Avanza
<1>4. \A passo \in Passi : Va(r, passo) /\ UNCHANGED req => Avanza(r)
  BY <1>1 DEF Va, Avanza
<1> QED
  BY <1>2, <1>3, <1>4 DEF Finisce

LEMMA UnPasso ==
    ASSUME NEW r \in Richieste, PassoDi(r), TipiInv, RichiesteInv
    PROVE  Avanza(r)
<1>0. req[r] \in Req
  BY DEF TipiInv, RichiesteTipi
<1>a. \A k \in Codici : voci[k] \in Voce
  BY DEF TipiInv, MemoriaTipi
<1>b. pc[r] \in DiConto => req[r].account \in Account
  BY DEF RichiesteInv, Porta
<1>c. pc[r] \in DiLogin \cup {"scambio"} => req[r].codice \in Codici
  BY DEF RichiesteInv, Porta
<1>1. CASE Arriva(r)
  BY <1>1, ComeAvanza DEF Arriva, OauthCallback, OidcAuthQueryPre, Confirm, BindConfirm, Associa, Legge,
     Passi, Voce, Vuota, Req, TipiInv, MemoriaTipi
<1>2. CASE \E a \in Account : Callback(r, a)
  <2> PICK a \in Account : Callback(r, a)
    BY <1>2
  <2> DEFINE k == req[r].codice
             q == [req[r] EXCEPT !.account = a]
  <2>1. q \in Req /\ [q EXCEPT !.utente = voci[k].utente] \in Req
    BY <1>0, <1>a, <1>c DEF Callback, Req, Voce
  <2> QED
    BY <2>1, ComeAvanza DEF Callback, Passi
<1>3. CASE InfoById(r) \/ InfoByOp(r) \/ DeleteOauthCache(r)
           \/ Login(r) \/ Segna(r) \/ Rimetti(r) \/ TogliRichiesta(r)
  BY <1>0, <1>3, ComeAvanza DEF InfoById, InfoByOp, DeleteOauthCache, Login, Segna,
     Rimetti, TogliRichiesta, Legge, Rifiuta, Passi
<1>4. CASE QueryUtente(r)
  <2>1. [req[r] EXCEPT !.utente = voci[req[r].codice].utente] \in Req
    BY <1>0, <1>4, <1>a, <1>c DEF QueryUtente, Req, Voce, DiLogin
  <2> QED
    BY <1>4, <2>1, ComeAvanza DEF QueryUtente, Legge, Rifiuta, Passi
<1>5. CASE UserThirdInfo(r)
  BY <1>0, <1>5, ComeAvanza DEF UserThirdInfo, Legge, Passi, UserThird, Req, TipiInv, BaseTipi
<1>6. CASE Lock(r) \/ RegistraTerzo(r)
  BY <1>0, <1>6, ComeAvanza DEF Lock, RegistraTerzo, Legge, Passi, Registrano, UserThird, Req, TipiInv, BaseTipi
<1>7. CASE RegistraUtente(r) \/ RegistraLega(r) \/ RegistraCrea(r)
  <2>1. \A u \in Utenti \cup {Nessuno} : Registrato(r, u) => Avanza(r)
    BY <1>0, ComeAvanza DEF Registrato, Passi, Req
  <2>2. RegistraRifiuta(r) => Avanza(r)
    BY ComeAvanza DEF RegistraRifiuta
  <2>3. \A a \in Account : Omonimi[a] \subseteq Utenti
    OBVIOUS
  <2>4. CASE RegistraCrea(r)
    BY <1>b, <2>1, <2>2, <2>3, <2>4 DEF RegistraCrea, DiConto, Registrano
  <2> QED
    BY <1>0, <1>7, <2>1, <2>2, <2>4 DEF RegistraUtente, RegistraLega, Req
<1>8. CASE RegistraPosta(r)
  BY <1>0, <1>b, <1>8, ComeAvanza DEF RegistraPosta, Legge, RegistraRifiuta, Passi, Registrano, DiConto, ConPosta, Req
<1>9. CASE BindOauthUser(r) \/ AssociaRichiesta(r)
  BY <1>0, <1>9, ComeAvanza DEF BindOauthUser, AssociaRichiesta, Rifiuta, Passi
<1>10. CASE Guasto(r)
  BY <1>10, ComeAvanza DEF Guasto, Rifiuta, RegistraRifiuta
<1> QED
  BY <1>1, <1>2, <1>3, <1>4, <1>5, <1>6, <1>7, <1>8, <1>9, <1>10 DEF PassoDi, Prosegue

(* The few steps of a request that write the tables, the memory, the tokens, the lock. *)
LEMMA ChiScrive ==
    ASSUME NEW r \in Richieste, PassoDi(r)
    PROVE  /\ \/ UNCHANGED <<utenti, terzi>>
              \/ BindOauthUser(r) \/ AssociaRichiesta(r) \/ RegistraLega(r) \/ RegistraCrea(r)
           /\ \/ UNCHANGED <<cache, voci, scaduti>>
              \/ InfoByOp(r) \/ DeleteOauthCache(r) \/ Segna(r) \/ Rimetti(r)
           /\ UNCHANGED tokens \/ Login(r)
<1>1. CASE Arriva(r)
  BY <1>1 DEF Arriva, OauthCallback, OidcAuthQueryPre, Confirm, BindConfirm, Associa, Legge, base, memoria
<1>2. CASE \E a \in Account : Callback(r, a)
  BY <1>2 DEF Callback, base, memoria
<1>3. CASE UserThirdInfo(r) \/ InfoById(r) \/ InfoByOp(r) \/ QueryUtente(r) \/ DeleteOauthCache(r)
           \/ Login(r) \/ Segna(r) \/ Rimetti(r) \/ TogliRichiesta(r)
  BY <1>3 DEF UserThirdInfo, InfoById, InfoByOp, QueryUtente, DeleteOauthCache, Login, Segna,
     Rimetti, TogliRichiesta, Legge, Rifiuta, base, memoria
<1>4. CASE Lock(r) \/ RegistraTerzo(r) \/ RegistraUtente(r) \/ RegistraPosta(r) \/ RegistraLega(r)
           \/ RegistraCrea(r)
  BY <1>4 DEF Lock, RegistraTerzo, RegistraUtente, RegistraPosta, RegistraLega, RegistraCrea,
     Legge, RegistraRifiuta, base, memoria
<1>5. CASE BindOauthUser(r) \/ AssociaRichiesta(r)
  BY <1>5 DEF BindOauthUser, AssociaRichiesta, Rifiuta, base, memoria
<1>6. CASE Guasto(r)
  BY <1>6 DEF Guasto, Rifiuta, RegistraRifiuta, base, memoria
<1> QED
  BY <1>1, <1>2, <1>3, <1>4, <1>5, <1>6 DEF PassoDi, Prosegue

(* What is not a step of a request touches neither requests nor tokens, and either the
   tables or the memory. *)
LEMMA AltroScrive ==
    ASSUME Altro
    PROVE  /\ UNCHANGED <<pc, req, lock, tokens>>
           /\ \/ UNCHANGED <<utenti, terzi>>
              \/ \E u \in Utenti : \/ UnBindThird(u) \/ CancellaUtente(u)
                                   \/ \E stato \in {"attivo", "disattivato"} : CambiaStato(u, stato)
           /\ \/ UNCHANGED <<cache, voci, scaduti>>
              \/ \E k \in Codici : Timer(k)
              \/ \E k \in Codici, op \in {"oidc", "webauth"} : OidcAuth(k, op)
              \/ \E k \in Codici, u \in Utenti : ToBind(k, u)
BY DEF Altro, OidcAuth, OidcAuthPannello, ToBind, Timer, SetOauthCache, UnBindThird, CancellaUtente,
   CambiaStato, CreateOauth, UpdateOauth, DeleteOauth, Configura, pulisci, base, memoria

LEMMA RichiesteTipiPasso ==
    ASSUME Inv, NEW r \in Richieste, PassoDi(r)
    PROVE  RichiesteTipi'
<1>1. Avanza(r)
  BY UnPasso DEF Inv
<1> QED
  BY <1>1 DEF Inv, TipiInv, RichiesteTipi, Avanza

-----------------------------------------------------------------------------
(* The bindings *)

BaseBene ==
    /\ BaseTipi'
    /\ LegamiUnici'
    /\ \A t \in terzi' : utenti'[t.utente] # "mai"
    /\ \A u \in Utenti : utenti[u] # "mai" => utenti'[u] # "mai"

LEMMA LegaBene ==
    ASSUME Inv, NEW u \in Utenti, NEW a \in Account, Associabile(u, a), Lega(u, a),
           utenti' \in [Utenti -> Stati], utenti'[u] # "mai",
           \A x \in Utenti : utenti[x] # "mai" => utenti'[x] # "mai"
    PROVE  BaseBene
<1>1. BaseTipi'
  BY DEF Inv, TipiInv, BaseTipi, Lega, UserThird
<1>2. LegamiUnici'
  BY DEF Inv, LegamiInv, LegamiUnici, Lega, Associabile
<1>3. \A t \in terzi' : utenti'[t.utente] # "mai"
  BY DEF Inv, LegamiInv, TipiInv, BaseTipi, UserThird, Lega
<1> QED
  BY <1>1, <1>2, <1>3 DEF BaseBene

LEMMA BasePasso ==
    ASSUME Inv, NEW r \in Richieste, PassoDi(r)
    PROVE  BaseBene
<1>0. /\ utenti \in [Utenti -> Stati] /\ terzi \subseteq UserThird
      /\ LegamiUnici /\ \A t \in terzi : utenti[t.utente] # "mai"
  BY DEF Inv, TipiInv, BaseTipi, LegamiInv
<1>1. Porta(pc[r], req[r], voci, prove, utenti)
  BY DEF Inv, RichiesteInv
<1>2. CASE UNCHANGED <<utenti, terzi>>
  BY <1>0, <1>2 DEF BaseBene, BaseTipi, LegamiUnici
<1>3. CASE BindOauthUser(r) /\ ~UNCHANGED <<utenti, terzi>>
  <2>1. req[r].utente \in Utenti /\ req[r].account \in Account /\ utenti[req[r].utente] # "mai"
    BY <1>1, <1>3 DEF Porta, BindOauthUser
  <2>2. UNCHANGED utenti /\ Associabile(req[r].utente, req[r].account) /\ Lega(req[r].utente, req[r].account)
    BY <1>3 DEF BindOauthUser, Rifiuta, base
  <2> QED
    BY <1>0, <2>1, <2>2, LegaBene
<1>4. CASE AssociaRichiesta(r) /\ ~UNCHANGED <<utenti, terzi>>
  <2>1. req[r].utente \in Utenti /\ req[r].account \in Account
    BY <1>1, <1>4 DEF Porta, AssociaRichiesta
  <2>2. /\ UNCHANGED utenti /\ utenti[req[r].utente] = "attivo"
        /\ Associabile(req[r].utente, req[r].account) /\ Lega(req[r].utente, req[r].account)
    BY <1>4 DEF AssociaRichiesta, Rifiuta, base
  <2> QED
    BY <1>0, <2>1, <2>2, LegaBene
<1>5. CASE RegistraLega(r) /\ ~UNCHANGED <<utenti, terzi>>
  <2>1. req[r].utente \in Utenti /\ req[r].account \in Account /\ utenti[req[r].utente] # "mai"
    BY <1>1, <1>5 DEF Porta, RegistraLega, DiConto, Registrano
  <2>2. UNCHANGED utenti /\ Associabile(req[r].utente, req[r].account) /\ Lega(req[r].utente, req[r].account)
    BY <1>5 DEF RegistraLega, RegistraRifiuta, base
  <2> QED
    BY <1>0, <2>1, <2>2, LegaBene
<1>6. CASE RegistraCrea(r) /\ ~UNCHANGED <<utenti, terzi>>
  <2>1. req[r].account \in Account
    BY <1>1, <1>6 DEF Porta, RegistraCrea, DiConto, Registrano
  <2>2. PICK u \in Omonimi[req[r].account] :
           /\ IndiceOpenIdUnico(req[r].account) /\ utenti[u] = "mai"
           /\ utenti' = [utenti EXCEPT ![u] = "attivo"] /\ Lega(u, req[r].account)
    BY <1>6 DEF RegistraCrea, RegistraRifiuta, base
  <2>3. u \in Utenti
    BY <2>1
  <2>4. Associabile(u, req[r].account)
    BY <1>0, <2>2 DEF Associabile, IndiceOpenIdUnico
  <2>5. /\ utenti' \in [Utenti -> Stati] /\ utenti'[u] # "mai"
        /\ \A x \in Utenti : utenti[x] # "mai" => utenti'[x] # "mai"
    BY <1>0, <2>2, <2>3 DEF Stati
  <2> QED
    BY <2>1, <2>2, <2>3, <2>4, <2>5, LegaBene
<1> QED
  BY <1>2, <1>3, <1>4, <1>5, <1>6, ChiScrive

LEMMA BaseAltro ==
    ASSUME Inv, Altro
    PROVE  BaseBene
<1>0. /\ utenti \in [Utenti -> Stati] /\ terzi \subseteq UserThird
      /\ LegamiUnici /\ \A t \in terzi : utenti[t.utente] # "mai"
  BY DEF Inv, TipiInv, BaseTipi, LegamiInv
<1>1. CASE UNCHANGED <<utenti, terzi>>
  BY <1>0, <1>1 DEF BaseBene, BaseTipi, LegamiUnici
<1>2. ASSUME NEW u \in Utenti, UnBindThird(u)
      PROVE  BaseBene
  BY <1>0, <1>2 DEF UnBindThird, Slega, BaseBene, BaseTipi, LegamiUnici
<1>3. ASSUME NEW u \in Utenti, CancellaUtente(u)
      PROVE  BaseBene
  BY <1>0, <1>3 DEF CancellaUtente, Slega, BaseBene, BaseTipi, LegamiUnici, Stati, UserThird, CheUtente
<1>4. ASSUME NEW u \in Utenti, NEW stato \in {"attivo", "disattivato"}, CambiaStato(u, stato)
      PROVE  BaseBene
  BY <1>0, <1>4 DEF CambiaStato, BaseBene, BaseTipi, LegamiUnici, Stati, UserThird
<1> QED
  BY <1>1, <1>2, <1>3, <1>4, AltroScrive

-----------------------------------------------------------------------------
(* The items *)

MemoriaBene ==
    /\ cache' \subseteq Codici /\ scaduti' \subseteq Codici
    /\ voci' \in [Codici -> Voce]
    /\ tokens' \subseteq [codice : Codici, utente : Utenti]
    /\ \A k \in Codici : voci[k].azione # "mai" => voci'[k].azione = voci[k].azione
    /\ \A k \in Codici : voci[k].utente # Nessuno => voci'[k].utente # Nessuno

LEMMA MemoriaPasso ==
    ASSUME Inv, NEW r \in Richieste, PassoDi(r)
    PROVE  MemoriaBene
<1>0. /\ cache \subseteq Codici /\ scaduti \subseteq Codici
      /\ voci \in [Codici -> Voce]
      /\ tokens \subseteq [codice : Codici, utente : Utenti]
  BY DEF Inv, TipiInv, MemoriaTipi
<1>1. Porta(pc[r], req[r], voci, prove, utenti)
  BY DEF Inv, RichiesteInv
<1>2. tokens' \subseteq [codice : Codici, utente : Utenti]
  <2>1. CASE Login(r)
    BY <1>0, <1>1, <2>1 DEF Login, Porta, DiLogin, DiUtente
  <2> QED
    BY <1>0, <2>1, ChiScrive
<1>3. CASE UNCHANGED <<cache, voci, scaduti>>
  BY <1>0, <1>2, <1>3 DEF MemoriaBene
<1>4. CASE InfoByOp(r)
  <2>1. req[r].codice \in Codici /\ req[r].account \in Account
    BY <1>1, <1>4 DEF InfoByOp, Porta, DiLogin, DiConto
  <2>2. UNCHANGED <<cache, scaduti>>
    BY <1>4 DEF InfoByOp, Rifiuta, Legge, memoria
  <2>3. voci' = voci \/ voci' = [voci EXCEPT ![req[r].codice].account = req[r].account]
    BY <1>4 DEF InfoByOp, Rifiuta, Legge, memoria
  <2> QED
    BY <1>0, <1>2, <2>1, <2>2, <2>3 DEF MemoriaBene, Voce
<1>5. CASE DeleteOauthCache(r) \/ Rimetti(r)
  <2>1. req[r].codice \in Codici
    BY <1>1, <1>5 DEF DeleteOauthCache, Rimetti, Porta, DiLogin
  <2> QED
    BY <1>0, <1>2, <1>5, <2>1 DEF DeleteOauthCache, Rimetti, MemoriaBene
<1>6. CASE Segna(r)
  <2>1. req[r].codice \in Codici /\ req[r].utente \in Utenti
    BY <1>1, <1>6 DEF Segna, Porta, DiLogin, DiUtente
  <2> QED
    BY <1>0, <1>2, <1>6, <2>1 DEF Segna, MemoriaBene, Voce
<1> QED
  BY <1>3, <1>4, <1>5, <1>6, ChiScrive

(* A code begins. *)
LEMMA NuovaVoce ==
    ASSUME Inv, NEW k \in Codici, NEW voce \in Voce, SetOauthCache(k, voce)
    PROVE  MemoriaBene
<1>0. /\ cache \subseteq Codici /\ scaduti \subseteq Codici
      /\ voci \in [Codici -> Voce]
      /\ tokens \subseteq [codice : Codici, utente : Utenti]
  BY DEF Inv, TipiInv, MemoriaTipi
<1>1. voci[k].azione = "mai" /\ voci[k].utente = Nessuno
  BY DEF SetOauthCache, Mai
<1>2. cache' \subseteq Codici /\ UNCHANGED <<scaduti, tokens>> /\ voci' = [voci EXCEPT ![k] = voce]
  BY <1>0 DEF SetOauthCache
<1> QED
  BY <1>0, <1>1, <1>2 DEF MemoriaBene

LEMMA MemoriaAltro ==
    ASSUME Inv, Altro
    PROVE  MemoriaBene
<1>0. /\ cache \subseteq Codici /\ scaduti \subseteq Codici
      /\ voci \in [Codici -> Voce]
      /\ tokens' \subseteq [codice : Codici, utente : Utenti]
  BY AltroScrive DEF Inv, TipiInv, MemoriaTipi
<1>1. CASE UNCHANGED <<cache, voci, scaduti>>
  BY <1>0, <1>1 DEF MemoriaBene
<1>2. ASSUME NEW k \in Codici, Timer(k)
      PROVE  MemoriaBene
  BY <1>0, <1>2 DEF Timer, MemoriaBene
<1>3. ASSUME NEW k \in Codici, NEW op \in {"oidc", "webauth"}, OidcAuth(k, op)
      PROVE  MemoriaBene
  <2>1. [Mai EXCEPT !.op = op, !.azione = "login"] \in Voce
    BY DEF Voce, Mai
  <2> QED
    BY <1>3, <2>1, NuovaVoce DEF OidcAuth
<1>4. ASSUME NEW k \in Codici, NEW u \in Utenti, ToBind(k, u)
      PROVE  MemoriaBene
  <2>1. [Mai EXCEPT !.azione = "bind", !.utente = u] \in Voce
    BY DEF Voce, Mai
  <2> QED
    BY <1>4, <2>1, NuovaVoce DEF ToBind
<1> QED
  BY <1>1, <1>2, <1>3, <1>4, AltroScrive

-----------------------------------------------------------------------------
(* The proofs of the codes *)

(* They only grow, and the user an account is bound to is there with it. *)
ProveBene ==
    /\ prove' \in [Codici -> SUBSET (Account \cup Utenti)]
    /\ \A k \in Codici : prove[k] \subseteq prove'[k]
    /\ \A k \in Codici, t \in terzi' : t.account \in prove'[k] => t.utente \in prove'[k]

LEMMA StoriaProve ==
    ASSUME Inv, Storia, BaseTipi', RichiesteTipi'
    PROVE  ProveBene
<1>0. prove \in [Codici -> SUBSET (Account \cup Utenti)] /\ terzi' \subseteq UserThird
  BY DEF Inv, TipiInv, MemoriaTipi, BaseTipi
<1>1. \A k \in Codici : (Risposti(k) \cup Confermanti(k)) \ {Nessuno} \subseteq Account \cup Utenti
  BY DEF Risposti, Confermanti, RichiesteTipi, Req
<1> DEFINE nuove(k) == prove[k] \cup ((Risposti(k) \cup Confermanti(k)) \ {Nessuno})
           legati(k) == {t.utente : t \in {t \in terzi' : t.account \in nuove(k)}}
<1>2. prove' = [k \in Codici |-> nuove(k) \cup legati(k)]
  BY DEF Storia
<1>3. \A k \in Codici : nuove(k) \subseteq Account \cup Utenti
  BY <1>0, <1>1
<1>4. \A k \in Codici : legati(k) \subseteq Utenti
  BY <1>0 DEF UserThird
<1>5. ASSUME NEW k \in Codici, NEW t \in terzi', t.account \in prove'[k]
      PROVE  t.utente \in prove'[k]
  <2>1. t.account \in Account
    BY <1>0 DEF UserThird
  <2>2. t.account \in nuove(k)
    <3> HIDE DEF nuove, legati
    <3> QED
      BY <1>2, <1>4, <1>5, <2>1
  <2>3. t.utente \in legati(k)
    BY <2>2
  <2> HIDE DEF nuove, legati
  <2> QED
    BY <1>2, <2>3
<1>6. \A k \in Codici : prove[k] \subseteq nuove(k)
  OBVIOUS
<1> HIDE DEF nuove, legati
<1> QED
  BY <1>2, <1>3, <1>4, <1>5, <1>6 DEF ProveBene

-----------------------------------------------------------------------------
(* What holds goes on holding *)

Cresce == MemoriaBene /\ BaseBene /\ ProveBene

LEMMA CrescePasso ==
    ASSUME Inv, NEW r \in Richieste, PassoDi(r), Storia
    PROVE  Cresce /\ RichiesteTipi'
BY BasePasso, MemoriaPasso, RichiesteTipiPasso, StoriaProve DEF Cresce, BaseBene

LEMMA CresceAltro ==
    ASSUME Inv, Altro, Storia
    PROVE  Cresce /\ RichiesteTipi'
<1>1. RichiesteTipi'
  BY AltroScrive DEF Inv, TipiInv, RichiesteTipi
<1> QED
  BY <1>1, BaseAltro, MemoriaAltro, StoriaProve DEF Cresce, BaseBene

LEMMA CresceTipi ==
    ASSUME Cresce, RichiesteTipi'
    PROVE  TipiInv' /\ LegamiInv'
BY DEF Cresce, MemoriaBene, BaseBene, ProveBene, TipiInv, MemoriaTipi, LegamiInv

(* What a request carries stays good while others go on. *)
LEMMA PortaResta ==
    ASSUME Inv, Cresce, NEW s \in Richieste
    PROVE  Porta(pc[s], req[s], voci', prove', utenti')
<1>1. Porta(pc[s], req[s], voci, prove, utenti)
  BY DEF Inv, RichiesteInv
<1>2. /\ \A k \in Codici : voci[k].azione # "mai" => voci'[k].azione = voci[k].azione
      /\ \A k \in Codici : voci[k].utente # Nessuno => voci'[k].utente # Nessuno
      /\ \A k \in Codici : prove[k] \subseteq prove'[k]
      /\ \A u \in Utenti : utenti[u] # "mai" => utenti'[u] # "mai"
  BY DEF Cresce, MemoriaBene, BaseBene, ProveBene
<1>3. DiConto \cup DiUtente \cup Segnati \subseteq DiLogin
  BY DEF DiConto, DiUtente, Segnati, DiLogin, Registrano
<1> QED
  BY <1>1, <1>2, <1>3 DEF Porta

(* The items and the tokens of the others. *)
LEMMA VociRestano ==
    ASSUME Inv, Cresce, NEW k \in Codici, voci'[k] = voci[k]
    PROVE  /\ voci'[k].azione = "login" =>
                 /\ voci'[k].utente # Nessuno => voci'[k].utente \in prove'[k]
                 /\ voci'[k].account # Nessuno => voci'[k].account \in prove'[k]
           /\ voci'[k].azione = "bind" => voci'[k].utente \in Utenti
BY DEF Inv, VociInv, Cresce, ProveBene

LEMMA TokenResta ==
    ASSUME Inv, Cresce, NEW t \in tokens
    PROVE  /\ voci'[t.codice].azione = "login" /\ voci'[t.codice].utente # Nessuno
           /\ t.utente \in prove'[t.codice]
<1>1. t.codice \in Codici
  BY DEF Inv, TipiInv, MemoriaTipi
<1> QED
  BY <1>1 DEF Inv, TokenInv, Cresce, MemoriaBene, ProveBene

LEMMA ConclusoResta ==
    ASSUME Inv, Cresce, NEW k \in cache, k \in scaduti \/ (\E t \in tokens : t.codice = k)
    PROVE  voci'[k].azione = "login" /\ voci'[k].utente # Nessuno
<1>1. k \in Codici
  BY DEF Inv, TipiInv, MemoriaTipi
<1> QED
  BY <1>1 DEF Inv, ScadutoConcluso, Cresce, MemoriaBene

-----------------------------------------------------------------------------
(* The steps of the requests, one invariant at a time *)

LEMMA VociPasso ==
    ASSUME Inv, NEW r \in Richieste, PassoDi(r), Cresce
    PROVE  VociInv'
<1>0. /\ voci \in [Codici -> Voce] /\ scaduti \subseteq Codici
      /\ \A k \in Codici : prove[k] \subseteq prove'[k]
  BY DEF Inv, TipiInv, MemoriaTipi, Cresce, ProveBene
<1>1. Porta(pc[r], req[r], voci, prove, utenti)
  BY DEF Inv, RichiesteInv
<1>2. CASE UNCHANGED voci /\ UNCHANGED scaduti
  BY <1>2, VociRestano DEF Inv, VociInv
<1>3. CASE InfoByOp(r) /\ ~UNCHANGED voci
  <2>1. /\ req[r].codice \in Codici /\ req[r].account \in Account
        /\ req[r].account \in prove[req[r].codice]
        /\ voci[req[r].codice].azione = "login"
    BY <1>1, <1>3 DEF InfoByOp, Porta, DiLogin, DiConto
  <2>2. UNCHANGED scaduti /\ voci' = [voci EXCEPT ![req[r].codice].account = req[r].account]
    BY <1>3 DEF InfoByOp, Rifiuta, Legge, memoria
  <2>3. \A k \in Codici : k # req[r].codice => voci'[k] = voci[k]
    BY <1>0, <2>2
  <2>4. /\ voci'[req[r].codice].account = req[r].account
        /\ voci'[req[r].codice].utente = voci[req[r].codice].utente
        /\ voci'[req[r].codice].azione = "login"
    BY <1>0, <2>1, <2>2 DEF Voce
  <2> QED
    BY <1>0, <2>1, <2>2, <2>3, <2>4, VociRestano DEF Inv, VociInv, Mai
<1>4. CASE Segna(r)
  <2>1. /\ req[r].codice \in Codici /\ req[r].utente \in Utenti
        /\ req[r].utente \in prove[req[r].codice]
        /\ voci[req[r].codice].azione = "login"
    BY <1>1, <1>4 DEF Segna, Porta, DiLogin, DiUtente
  <2>2. UNCHANGED scaduti /\ voci' = [voci EXCEPT ![req[r].codice].utente = req[r].utente]
    BY <1>4 DEF Segna
  <2>3. \A k \in Codici : k # req[r].codice => voci'[k] = voci[k]
    BY <1>0, <2>2
  <2>4. /\ voci'[req[r].codice].utente = req[r].utente
        /\ voci'[req[r].codice].account = voci[req[r].codice].account
        /\ voci'[req[r].codice].azione = "login"
    BY <1>0, <2>1, <2>2 DEF Voce
  <2> QED
    BY <1>0, <2>1, <2>2, <2>3, <2>4, VociRestano DEF Inv, VociInv, Mai
<1>5. CASE DeleteOauthCache(r) \/ Rimetti(r)
  BY <1>2, <1>5 DEF DeleteOauthCache, Rimetti
<1>6. InfoByOp(r) => UNCHANGED scaduti
  BY DEF InfoByOp, Rifiuta, Legge, memoria
<1> QED
  BY <1>2, <1>3, <1>4, <1>5, <1>6, ChiScrive

LEMMA TokenPasso ==
    ASSUME Inv, NEW r \in Richieste, PassoDi(r), Cresce
    PROVE  TokenInv'
<1>1. CASE UNCHANGED tokens
  BY <1>1, TokenResta DEF TokenInv
<1>2. CASE Login(r)
  <2> DEFINE t == [codice |-> req[r].codice, utente |-> req[r].utente]
  <2>1. Porta("token", req[r], voci', prove', utenti')
    BY <1>2, PortaResta DEF Login
  <2>2. /\ voci'[t.codice].azione = "login" /\ voci'[t.codice].utente # Nessuno
        /\ t.utente \in prove'[t.codice]
    BY <2>1 DEF Porta, DiLogin, DiUtente, Segnati
  <2>3. tokens' = tokens \cup {t}
    BY <1>2 DEF Login
  <2> HIDE DEF t
  <2> QED
    BY <2>2, <2>3, TokenResta DEF TokenInv
<1> QED
  BY <1>1, <1>2, ChiScrive

LEMMA ConclusoPasso ==
    ASSUME Inv, NEW r \in Richieste, PassoDi(r), Cresce
    PROVE  ScadutoConcluso'
<1> SUFFICES ASSUME NEW k \in cache', k \in scaduti' \/ (\E t \in tokens' : t.codice = k)
             PROVE  voci'[k].azione = "login" /\ voci'[k].utente # Nessuno
  BY DEF ScadutoConcluso
<1>1. scaduti' = scaduti
  BY ChiScrive DEF InfoByOp, DeleteOauthCache, Segna, Rimetti, Rifiuta, Legge, memoria
<1>2. CASE k \notin cache
  <2>1. Rimetti(r) /\ k = req[r].codice
    BY <1>2, ChiScrive DEF InfoByOp, DeleteOauthCache, Segna, Rimetti, Rifiuta, Legge, memoria
  <2>2. Porta("rimetti", req[r], voci', prove', utenti')
    BY <2>1, PortaResta DEF Rimetti
  <2> QED
    BY <2>1, <2>2 DEF Porta, DiLogin, Segnati
<1>3. CASE \E t \in tokens' : t.codice = k
  <2>1. TokenInv'
    BY TokenPasso
  <2> QED
    BY <1>3, <2>1 DEF TokenInv
<1>4. CASE k \in cache /\ k \in scaduti
  BY <1>4, ConclusoResta
<1> QED
  BY <1>1, <1>2, <1>3, <1>4

(* The lock. *)
LEMMA RegistraPasso ==
    ASSUME Inv, NEW r \in Richieste, PassoDi(r)
    PROVE  RegistraUno'
<1>0. pc \in [Richieste -> Passi] /\ RegistraUno
  BY DEF Inv, TipiInv, RichiesteTipi
<1>1. Avanza(r)
  BY UnPasso DEF Inv
<1>2. PICK passo \in Passi : pc' = [pc EXCEPT ![r] = passo]
  BY <1>1 DEF Avanza
<1>3. /\ pc'[r] = passo
      /\ \A s \in Richieste : s # r => pc'[s] = pc[s]
  BY <1>0, <1>2
<1>4. (passo \in Registrano <=> lock' = r) /\ (lock' # lock => {lock, lock'} = {r, Nessuno})
  <2>1. CASE Arriva(r)
    BY <1>0, <1>3, <2>1 DEF Arriva, OauthCallback, OidcAuthQueryPre, Confirm, BindConfirm, Associa,
       Legge, Tiene, Va, RegistraUno, Registrano
  <2>2. CASE \E a \in Account : Callback(r, a)
    BY <1>0, <1>3, <2>2 DEF Callback, Finisce, Tiene, Va, RegistraUno, Registrano
  <2>3. CASE UserThirdInfo(r) \/ InfoById(r) \/ InfoByOp(r) \/ QueryUtente(r) \/ DeleteOauthCache(r)
             \/ Login(r) \/ Segna(r) \/ Rimetti(r) \/ TogliRichiesta(r)
    BY <1>0, <1>3, <2>3 DEF UserThirdInfo, InfoById, InfoByOp, QueryUtente, DeleteOauthCache, Login,
       Segna, Rimetti, TogliRichiesta, Legge, Rifiuta, Finisce, Tiene, Va, RegistraUno, Registrano
  <2>4. CASE Lock(r) \/ RegistraTerzo(r) \/ RegistraUtente(r) \/ RegistraPosta(r) \/ RegistraLega(r)
             \/ RegistraCrea(r)
    BY <1>0, <1>3, <2>4 DEF Lock, RegistraTerzo, RegistraUtente, RegistraPosta, RegistraLega,
       RegistraCrea, Legge, RegistraRifiuta, Registrato, Finisce, Tiene, Va, RegistraUno, Registrano
  <2>5. CASE BindOauthUser(r) \/ AssociaRichiesta(r)
    BY <1>0, <1>3, <2>5 DEF BindOauthUser, AssociaRichiesta, Rifiuta, Finisce, Tiene, Va,
       RegistraUno, Registrano
  <2>6. CASE Guasto(r)
    BY <1>0, <1>3, <2>6 DEF Guasto, Rifiuta, RegistraRifiuta, Finisce, Tiene, Va, RegistraUno, Registrano
  <2> QED
    BY <2>1, <2>2, <2>3, <2>4, <2>5, <2>6 DEF PassoDi, Prosegue
<1>5. ASSUME NEW s \in Richieste, s # r
      PROVE  pc'[s] \in Registrano <=> lock' = s
  BY <1>0, <1>3, <1>4, <1>5 DEF RegistraUno
<1> QED
  BY <1>3, <1>4, <1>5 DEF RegistraUno

-----------------------------------------------------------------------------
(* What the request that makes a step carries then *)

PortaDopo(r) == Porta(pc'[r], req'[r], voci', prove', utenti')

LEMMA Dopo ==
    ASSUME Inv, NEW r \in Richieste
    PROVE  /\ \A passo, q : Tiene(r, passo, q) => pc'[r] = passo /\ req'[r] = q
           /\ \A passo : Va(r, passo) => pc'[r] = passo
           /\ Finisce(r) => PortaDopo(r)
<1>1. pc \in [Richieste -> Passi] /\ req \in [Richieste -> Req]
  BY DEF Inv, TipiInv, RichiesteTipi
<1>2. \A passo : Va(r, passo) => pc'[r] = passo
  BY <1>1 DEF Va
<1>3. \A passo, q : Tiene(r, passo, q) => pc'[r] = passo /\ req'[r] = q
  BY <1>1 DEF Va, Tiene
<1>4. pc'[r] = "libera" => PortaDopo(r)
  BY DEF PortaDopo, Porta, DiLogin, DiConto, DiUtente, Segnati, Registrano
<1> QED
  BY <1>2, <1>3, <1>4 DEF Finisce

(* The provider has answered for an account; somebody has confirmed on the panel. *)
LEMMA Provato ==
    ASSUME Storia, NEW r \in Richieste, NEW k \in Codici
    PROVE  /\ pc[r] = "scambio" /\ req[r].codice = k /\ req'[r].account \in Account =>
                 req'[r].account \in prove'[k]
           /\ pc[r] = "libera" /\ pc'[r] = "segna" /\ req'[r].codice = k /\ req'[r].utente \in Utenti =>
                 req'[r].utente \in prove'[k]
<1> DEFINE p == prove[k] \cup ((Risposti(k) \cup Confermanti(k)) \ {Nessuno})
<1>1. p \subseteq prove'[k]
  BY DEF Storia
<1>2. pc[r] = "scambio" /\ req[r].codice = k => req'[r].account \in Risposti(k)
  BY DEF Risposti
<1>3. pc[r] = "libera" /\ pc'[r] = "segna" /\ req'[r].codice = k => req'[r].utente \in Confermanti(k)
  BY DEF Confermanti
<1> QED
  BY <1>1, <1>2, <1>3

LEMMA PortaArriva ==
    ASSUME Inv, NEW r \in Richieste, Arriva(r), Storia, Cresce
    PROVE  PortaDopo(r)
<1> USE DEF DiLogin, DiConto, DiUtente, Segnati, Registrano
<1>0. /\ cache \subseteq Codici /\ voci \in [Codici -> Voce]
  BY DEF Inv, TipiInv, MemoriaTipi
<1>v. \A k \in Codici : voci'[k].azione = voci[k].azione /\ voci'[k].utente = voci[k].utente
  BY DEF Arriva, OauthCallback, OidcAuthQueryPre, Confirm, BindConfirm, Associa, Legge, memoria
<1>1. ASSUME NEW k \in Codici, OauthCallback(r, k)
      PROVE  PortaDopo(r)
  BY <1>1, Dopo DEF OauthCallback, Legge, PortaDopo, Porta, Vuota
<1>2. ASSUME NEW k \in Codici, OidcAuthQueryPre(r, k)
      PROVE  PortaDopo(r)
  BY <1>2, <1>v, Dopo DEF OidcAuthQueryPre, DaLogin, Legge, PortaDopo, Porta, Vuota
<1>3. ASSUME NEW k \in Codici, NEW u \in Utenti, Confirm(r, k, u)
      PROVE  PortaDopo(r)
  <2>1. /\ pc[r] = "libera" /\ pc'[r] = "segna"
        /\ req'[r] = [Vuota EXCEPT !.codice = k, !.utente = u] /\ voci[k].azione = "login"
    BY <1>3, Dopo DEF Confirm, Legge, Confermabile
  <2>2. req'[r].codice = k /\ req'[r].utente = u
    BY <2>1 DEF Vuota
  <2>3. u \in prove'[k]
    BY <2>1, <2>2, Provato
  <2> QED
    BY <1>v, <2>1, <2>2, <2>3 DEF PortaDopo, Porta
<1>4. ASSUME NEW k \in Codici, NEW u \in Utenti, BindConfirm(r, k, u)
      PROVE  PortaDopo(r)
  <2>1. /\ pc'[r] = "lega" /\ req'[r] = [codice |-> k, account |-> voci[k].account, utente |-> u]
        /\ utenti[u] = "attivo" /\ voci[k].azione = "login" /\ voci[k].account # Nessuno
    BY <1>4, Dopo DEF BindConfirm, Legge
  <2>2. voci[k].account \in Account /\ voci[k].account \in prove'[k]
    BY <1>0, <2>1 DEF Inv, VociInv, Voce, Cresce, ProveBene
  <2>3. utenti'[u] # "mai"
    BY <2>1 DEF Cresce, BaseBene
  <2> QED
    BY <1>v, <2>1, <2>2, <2>3 DEF PortaDopo, Porta
<1>5. ASSUME NEW a \in Account, NEW u \in Utenti, Associa(r, a, u)
      PROVE  PortaDopo(r)
  <2>1. pc'[r] = "associa" /\ req'[r] = [Vuota EXCEPT !.account = a, !.utente = u]
    BY <1>5, Dopo DEF Associa, Legge
  <2>2. req'[r].codice = Nessuno /\ req'[r].account = a /\ req'[r].utente = u
    BY <2>1 DEF Vuota
  <2> QED
    BY <2>1, <2>2 DEF PortaDopo, Porta
<1> QED
  BY <1>1, <1>2, <1>3, <1>4, <1>5 DEF Arriva

LEMMA PortaCallback ==
    ASSUME Inv, NEW r \in Richieste, NEW a \in Account, Callback(r, a), Storia, Cresce
    PROVE  PortaDopo(r)
<1> USE DEF DiLogin, DiConto, DiUtente, Segnati, Registrano
<1> DEFINE k == req[r].codice
           q == [req[r] EXCEPT !.account = a]
<1>0. voci \in [Codici -> Voce] /\ req[r] \in Req
  BY DEF Inv, TipiInv, MemoriaTipi, RichiesteTipi
<1>1. k \in Codici /\ pc[r] = "scambio" /\ voci' = voci
  BY DEF Inv, RichiesteInv, Porta, Callback, memoria
<1>2. q.account = a /\ q.codice = k
  BY <1>0 DEF Req
<1>3. CASE voci[k].azione = "bind" /\ CheUtente(voci[k].utente) /\ Tiene(r, "lega", [q EXCEPT !.utente = voci[k].utente])
  <2>1. pc'[r] = "lega" /\ req'[r] = [q EXCEPT !.utente = voci[k].utente]
    BY <1>3, Dopo
  <2>2. /\ req'[r].codice = k /\ req'[r].account = a /\ req'[r].utente = voci[k].utente
    BY <1>0, <2>1 DEF Req
  <2>3. voci[k].utente \in Utenti
    BY <1>1, <1>3 DEF Inv, VociInv
  <2> QED
    BY <1>1, <1>3, <2>1, <2>2, <2>3 DEF PortaDopo, Porta, Cresce, BaseBene, CheUtente
<1>4. CASE voci[k].azione = "login" /\ Tiene(r, "terzo", q)
  <2>1. pc'[r] = "terzo" /\ req'[r] = q
    BY <1>4, Dopo
  <2>2. req'[r].account = a
    BY <1>2, <2>1
  <2>3. a \in prove'[k]
    BY <1>1, <2>2, Provato
  <2> QED
    BY <1>1, <1>2, <1>4, <2>1, <2>3 DEF PortaDopo, Porta
<1>5. CASE Finisce(r)
  BY <1>5, Dopo
<1> QED
  BY <1>3, <1>4, <1>5 DEF Callback

(* The account that logs in is of nobody, or of a user, ... *)
LEMMA PortaCerca ==
    ASSUME Inv, NEW r \in Richieste, Cresce,
           UserThirdInfo(r) \/ InfoById(r) \/ InfoByOp(r)
    PROVE  PortaDopo(r)
<1> USE DEF DiLogin, DiConto, DiUtente, Segnati, Registrano
<1>0. terzi \subseteq UserThird /\ req[r] \in Req
  BY DEF Inv, TipiInv, BaseTipi, RichiesteTipi
<1>1. Porta(pc[r], req[r], voci', prove', utenti')
  BY PortaResta
<1>2. CASE UserThirdInfo(r)
  <2>1. pc[r] = "terzo"
    BY <1>2 DEF UserThirdInfo
  <2>2. ASSUME NEW t \in terzi, t.account = req[r].account, Legge(r, "utente", [req[r] EXCEPT !.utente = t.utente])
        PROVE  PortaDopo(r)
    <3>1. pc'[r] = "utente" /\ req'[r] = [req[r] EXCEPT !.utente = t.utente] /\ terzi' = terzi
      BY <2>2, Dopo DEF Legge, base
    <3>2. /\ req'[r].codice = req[r].codice /\ req'[r].account = req[r].account
          /\ req'[r].utente = t.utente
      BY <1>0, <3>1 DEF Req
    <3>3. t.utente \in Utenti
      BY <1>0 DEF UserThird
    <3>4. t.utente \in prove'[req[r].codice]
      BY <1>1, <2>1, <2>2, <3>1 DEF Porta, Cresce, ProveBene
    <3> QED
      BY <1>1, <2>1, <3>1, <3>2, <3>3, <3>4 DEF PortaDopo, Porta
  <2>3. CASE Legge(r, "fornitore", req[r])
    BY <1>1, <2>1, <2>3, Dopo DEF Legge, PortaDopo, Porta
  <2> QED
    BY <1>2, <2>2, <2>3 DEF UserThirdInfo
<1>3. CASE InfoById(r)
  BY <1>1, <1>3, Dopo DEF InfoById, Legge, PortaDopo, Porta
<1>4. CASE InfoByOp(r)
  BY <1>1, <1>4, Dopo DEF InfoByOp, Legge, Rifiuta, PortaDopo, Porta
<1> QED
  BY <1>2, <1>3, <1>4

(* ... and is registered. *)
LEMMA PortaRegistra ==
    ASSUME Inv, NEW r \in Richieste, Cresce,
           Lock(r) \/ RegistraTerzo(r) \/ RegistraUtente(r) \/ RegistraPosta(r)
    PROVE  PortaDopo(r)
<1> USE DEF DiLogin, DiConto, DiUtente, Segnati, Registrano
<1>0. terzi \subseteq UserThird /\ req[r] \in Req /\ utenti \in [Utenti -> Stati]
  BY DEF Inv, TipiInv, BaseTipi, RichiesteTipi
<1>1. Porta(pc[r], req[r], voci', prove', utenti')
  BY PortaResta
<1>2. CASE Lock(r)
  BY <1>1, <1>2, Dopo DEF Lock, PortaDopo, Porta
<1>3. CASE RegistraTerzo(r)
  <2>1. pc[r] = "rTerzo"
    BY <1>3 DEF RegistraTerzo
  <2>2. ASSUME NEW t \in terzi, t.account = req[r].account, Legge(r, "rUtente", [req[r] EXCEPT !.utente = t.utente])
        PROVE  PortaDopo(r)
    <3>1. pc'[r] = "rUtente" /\ req'[r] = [req[r] EXCEPT !.utente = t.utente] /\ terzi' = terzi
      BY <2>2, Dopo DEF Legge, base
    <3>2. /\ req'[r].codice = req[r].codice /\ req'[r].account = req[r].account
          /\ req'[r].utente = t.utente
      BY <1>0, <3>1 DEF Req
    <3>3. t.utente \in Utenti
      BY <1>0 DEF UserThird
    <3>4. t.utente \in prove'[req[r].codice]
      BY <1>1, <2>1, <2>2, <3>1 DEF Porta, Cresce, ProveBene
    <3> QED
      BY <1>1, <2>1, <3>1, <3>2, <3>3, <3>4 DEF PortaDopo, Porta
  <2>3. CASE Legge(r, "rPosta", req[r])
    BY <1>1, <2>1, <2>3, Dopo DEF Legge, PortaDopo, Porta
  <2> QED
    BY <1>3, <2>2, <2>3 DEF RegistraTerzo
<1>4. CASE RegistraUtente(r)
  <2>1. CASE RegistraRifiuta(r)
    BY <2>1, Dopo DEF RegistraRifiuta
  <2>2. CASE Registrato(r, req[r].utente)
    <3>1. pc[r] = "rUtente" /\ pc'[r] = "segna" /\ req'[r] = [req[r] EXCEPT !.utente = req[r].utente]
      BY <1>4, <2>2, Dopo DEF RegistraUtente, Registrato
    <3>2. req'[r] = req[r]
      BY <1>0, <3>1 DEF Req
    <3> QED
      BY <1>1, <3>1, <3>2 DEF PortaDopo, Porta
  <2> QED
    BY <1>4, <2>1, <2>2 DEF RegistraUtente
<1>5. CASE RegistraPosta(r)
  <2>1. pc[r] = "rPosta"
    BY <1>5 DEF RegistraPosta
  <2>2. req[r].account \in Account
    BY <1>1, <2>1 DEF Porta
  <2>3. ASSUME NEW u \in ConPosta(req[r].account), utenti[u] = "attivo",
               Legge(r, "rLega", [req[r] EXCEPT !.utente = u])
        PROVE  PortaDopo(r)
    <3>1. pc'[r] = "rLega" /\ req'[r] = [req[r] EXCEPT !.utente = u]
      BY <2>3, Dopo DEF Legge
    <3>2. /\ req'[r].codice = req[r].codice /\ req'[r].account = req[r].account
          /\ req'[r].utente = u
      BY <1>0, <3>1 DEF Req
    <3>3. u \in Utenti
      BY <2>2 DEF ConPosta
    <3>4. utenti'[u] # "mai"
      BY <2>3, <3>3 DEF Cresce, BaseBene
    <3> QED
      BY <1>1, <2>1, <3>1, <3>2, <3>3, <3>4 DEF PortaDopo, Porta
  <2>4. CASE Legge(r, "rCrea", req[r])
    BY <1>1, <2>1, <2>4, Dopo DEF Legge, PortaDopo, Porta
  <2>5. CASE RegistraRifiuta(r)
    BY <2>5, Dopo DEF RegistraRifiuta
  <2> QED
    BY <1>5, <2>3, <2>4, <2>5 DEF RegistraPosta
<1> QED
  BY <1>2, <1>3, <1>4, <1>5

(* A user bound to the account that has logged in is among the proofs. *)
LEMMA LegatoProvato ==
    ASSUME Cresce, NEW k \in Codici, NEW u \in Utenti, NEW a \in Account, Lega(u, a), a \in prove'[k]
    PROVE  u \in prove'[k]
<1>1. [utente |-> u, account |-> a] \in terzi'
  BY DEF Lega
<1> QED
  BY <1>1 DEF Cresce, ProveBene

LEMMA PortaLega ==
    ASSUME Inv, NEW r \in Richieste, Cresce,
           RegistraLega(r) \/ RegistraCrea(r) \/ BindOauthUser(r) \/ AssociaRichiesta(r)
    PROVE  PortaDopo(r)
<1> USE DEF DiLogin, DiConto, DiUtente, Segnati, Registrano
<1>0. req[r] \in Req
  BY DEF Inv, TipiInv, RichiesteTipi
<1>1. Porta(pc[r], req[r], voci', prove', utenti')
  BY PortaResta
<1>2. CASE RegistraRifiuta(r) \/ Rifiuta(r)
  BY <1>2, Dopo DEF RegistraRifiuta, Rifiuta
<1>3. ASSUME NEW u \in Utenti, pc[r] \in {"rLega", "rCrea"}, Lega(u, req[r].account), Registrato(r, u)
      PROVE  PortaDopo(r)
  <2>1. pc'[r] = "segna" /\ req'[r] = [req[r] EXCEPT !.utente = u]
    BY <1>3, Dopo DEF Registrato
  <2>2. req'[r].codice = req[r].codice /\ req'[r].utente = u
    BY <1>0, <2>1 DEF Req
  <2>3. u \in prove'[req[r].codice]
    BY <1>1, <1>3, LegatoProvato DEF Porta
  <2> QED
    BY <1>1, <1>3, <2>1, <2>2, <2>3 DEF PortaDopo, Porta
<1>4. CASE RegistraLega(r)
  BY <1>1, <1>2, <1>3, <1>4 DEF RegistraLega, Porta
<1>5. CASE RegistraCrea(r)
  <2>1. Omonimi[req[r].account] \subseteq Utenti
    BY <1>1, <1>5 DEF RegistraCrea, Porta
  <2> QED
    BY <1>2, <1>3, <1>5, <2>1 DEF RegistraCrea
<1>6. CASE BindOauthUser(r) /\ Tiene(r, "togli", req[r]) /\ voci[req[r].codice].azione # "bind"
           /\ Lega(req[r].utente, req[r].account)
  <2>1. pc[r] = "lega" /\ voci' = voci
    BY <1>6, Dopo DEF BindOauthUser, Rifiuta, memoria
  <2>2. pc'[r] = "togli" /\ req'[r] = req[r]
    BY <1>6, Dopo
  <2>3. req[r].utente \in prove'[req[r].codice]
    BY <1>1, <1>6, <2>1, LegatoProvato DEF Porta
  <2> QED
    BY <1>1, <1>6, <2>1, <2>2, <2>3 DEF PortaDopo, Porta
<1>7. CASE AssociaRichiesta(r) /\ Va(r, "togli") /\ UNCHANGED req
  <2>1. pc[r] = "associa" /\ pc'[r] = "togli" /\ req'[r] = req[r]
    BY <1>7, Dopo DEF AssociaRichiesta
  <2> QED
    BY <1>1, <2>1 DEF PortaDopo, Porta
<1>8. CASE Finisce(r)
  BY <1>8, Dopo
<1> QED
  BY <1>2, <1>4, <1>5, <1>6, <1>7, <1>8 DEF BindOauthUser, AssociaRichiesta

(* The end of a login, its polls, what fails. *)
LEMMA PortaConclude ==
    ASSUME Inv, NEW r \in Richieste, Cresce,
           \/ TogliRichiesta(r) \/ Segna(r) \/ Rimetti(r) \/ QueryUtente(r) \/ DeleteOauthCache(r)
           \/ Login(r) \/ Guasto(r)
    PROVE  PortaDopo(r)
<1> USE DEF DiLogin, DiConto, DiUtente, Segnati, Registrano
<1>0. req[r] \in Req /\ voci \in [Codici -> Voce]
  BY DEF Inv, TipiInv, MemoriaTipi, RichiesteTipi
<1>1. Porta(pc[r], req[r], voci', prove', utenti')
  BY PortaResta
<1>2. CASE Finisce(r)
  BY <1>2, Dopo
<1>3. CASE TogliRichiesta(r)
  <2>1. CASE req[r].codice # Nessuno /\ Tiene(r, "segna", req[r])
    BY <1>1, <1>3, <2>1, Dopo DEF TogliRichiesta, PortaDopo, Porta
  <2> QED
    BY <1>2, <1>3, <2>1 DEF TogliRichiesta
<1>4. CASE Segna(r)
  <2>1. pc[r] = "segna" /\ pc'[r] = "rimetti" /\ req'[r] = req[r]
    BY <1>4, Dopo DEF Segna
  <2>2. req[r].codice \in Codici /\ req[r].utente \in Utenti
    BY <1>1, <2>1 DEF Porta
  <2>3. voci'[req[r].codice].utente # Nessuno
    BY <1>0, <1>4, <2>2 DEF Segna, Voce
  <2> QED
    BY <1>1, <2>1, <2>3 DEF PortaDopo, Porta
<1>5. CASE QueryUtente(r) /\ ~Finisce(r)
  <2> DEFINE k == req[r].codice
  <2>1. pc[r] = "cerca" /\ voci' = voci /\ CheUtente(voci[k].utente)
    BY <1>5 DEF QueryUtente, Rifiuta, Legge, memoria
  <2>2. k \in Codici /\ voci[k].azione = "login" /\ voci[k].utente # Nessuno
    BY <1>1, <2>1 DEF Porta
  <2>3. voci[k].utente \in Utenti /\ voci[k].utente \in prove'[k]
    BY <1>0, <2>2 DEF Voce, Inv, VociInv, Cresce, ProveBene
  <2>4. pc'[r] \in {"scarta", "cancella"} /\ req'[r] = [req[r] EXCEPT !.utente = voci[k].utente]
    BY <1>5, <2>1, Dopo DEF QueryUtente, Legge
  <2>5. req'[r].codice = k /\ req'[r].utente = voci[k].utente
    BY <1>0, <2>4 DEF Req
  <2> QED
    BY <2>1, <2>2, <2>3, <2>4, <2>5 DEF PortaDopo, Porta
<1>6. CASE DeleteOauthCache(r) /\ ~Finisce(r)
  <2>1. pc[r] = "cancella" /\ pc'[r] = "token" /\ req'[r] = req[r]
    BY <1>6, Dopo DEF DeleteOauthCache
  <2> QED
    BY <1>1, <2>1 DEF PortaDopo, Porta
<1>7. CASE Rimetti(r) \/ Login(r) \/ Guasto(r)
  BY <1>2, <1>7 DEF Rimetti, Login, Guasto, Rifiuta, RegistraRifiuta
<1> QED
  BY <1>2, <1>3, <1>4, <1>5, <1>6, <1>7

LEMMA PassoInv ==
    ASSUME Inv, NEW r \in Richieste, PassoDi(r), Storia
    PROVE  Inv'
<1>1. Cresce /\ TipiInv' /\ LegamiInv'
  BY CrescePasso, CresceTipi
<1>2. VociInv' /\ TokenInv' /\ ScadutoConcluso' /\ RegistraUno'
  BY <1>1, VociPasso, TokenPasso, ConclusoPasso, RegistraPasso
<1>3. PortaDopo(r)
  BY <1>1, PortaArriva, PortaCallback, PortaCerca, PortaRegistra, PortaLega, PortaConclude
     DEF PassoDi, Prosegue
<1>4. \A s \in Richieste : s # r => pc'[s] = pc[s] /\ req'[s] = req[s]
  BY UnPasso DEF Inv, TipiInv, RichiesteTipi, Avanza
<1>5. RichiesteInv'
  BY <1>1, <1>3, <1>4, PortaResta DEF RichiesteInv, PortaDopo
<1> QED
  BY <1>1, <1>2, <1>5 DEF Inv

-----------------------------------------------------------------------------
(* The timers, the panel, the codes that begin *)

LEMMA NuovaInv ==
    ASSUME Inv, Cresce, NEW k \in Codici, NEW voce \in Voce, SetOauthCache(k, voce),
           \/ voce.azione = "login" /\ voce.utente = Nessuno /\ voce.account = Nessuno
           \/ voce.azione = "bind" /\ voce.utente \in Utenti
    PROVE  VociInv' /\ ScadutoConcluso'
<1>1. voci \in [Codici -> Voce] /\ scaduti \subseteq Codici
  BY DEF Inv, TipiInv, MemoriaTipi
<1>2. /\ voci[k] = Mai /\ cache' = cache \cup {k} /\ UNCHANGED <<scaduti, tokens>>
      /\ voci'[k] = voce /\ \A j \in Codici : j # k => voci'[j] = voci[j]
  BY <1>1 DEF SetOauthCache
<1>3. k \notin scaduti /\ \A t \in tokens : t.codice # k
  BY <1>2 DEF Inv, VociInv, TokenInv, Mai
<1>4. VociInv'
  BY <1>1, <1>2, <1>3, VociRestano DEF VociInv, Inv
<1>5. ScadutoConcluso'
  BY <1>2, <1>3, ConclusoResta DEF ScadutoConcluso
<1> QED
  BY <1>4, <1>5

LEMMA AltroInv ==
    ASSUME Inv, Altro, Storia
    PROVE  Inv'
<1>1. Cresce /\ TipiInv' /\ LegamiInv'
  BY CresceAltro, CresceTipi
<1>2. UNCHANGED <<pc, req, lock, tokens>>
  BY AltroScrive
<1>3. TokenInv' /\ RegistraUno' /\ RichiesteInv'
  BY <1>1, <1>2, TokenResta, PortaResta DEF TokenInv, RegistraUno, RichiesteInv, Inv
<1>4. VociInv' /\ ScadutoConcluso'
  <2>1. CASE UNCHANGED <<cache, voci, scaduti>>
    <3>1. VociInv'
      BY <1>1, <2>1, VociRestano DEF VociInv, Inv
    <3>2. ScadutoConcluso'
      BY <1>1, <1>2, <2>1, ConclusoResta DEF ScadutoConcluso
    <3> QED
      BY <3>1, <3>2
  <2>2. ASSUME NEW k \in Codici, Timer(k)
        PROVE  VociInv' /\ ScadutoConcluso'
    <3>1. /\ voci[k] # Mai /\ scaduti' = scaduti \cup {k} /\ cache' = cache \ {k}
          /\ voci' = voci /\ tokens' = tokens
      BY <1>2, <2>2 DEF Timer
    <3>2. VociInv'
      BY <1>1, <3>1, VociRestano DEF VociInv, Inv
    <3>3. ScadutoConcluso'
      BY <1>1, <3>1, ConclusoResta DEF ScadutoConcluso
    <3> QED
      BY <3>2, <3>3
  <2>3. ASSUME NEW k \in Codici, NEW op \in {"oidc", "webauth"}, OidcAuth(k, op)
        PROVE  VociInv' /\ ScadutoConcluso'
    <3> DEFINE voce == [Mai EXCEPT !.op = op, !.azione = "login"]
    <3>1. voce \in Voce /\ voce.azione = "login" /\ voce.utente = Nessuno /\ voce.account = Nessuno
      BY DEF Voce, Mai
    <3>2. SetOauthCache(k, voce)
      BY <2>3 DEF OidcAuth
    <3> HIDE DEF voce
    <3> QED
      BY <1>1, <3>1, <3>2, NuovaInv
  <2>4. ASSUME NEW k \in Codici, NEW u \in Utenti, ToBind(k, u)
        PROVE  VociInv' /\ ScadutoConcluso'
    <3> DEFINE voce == [Mai EXCEPT !.azione = "bind", !.utente = u]
    <3>1. voce \in Voce /\ voce.azione = "bind" /\ voce.utente \in Utenti
      BY DEF Voce, Mai
    <3>2. SetOauthCache(k, voce)
      BY <2>4 DEF ToBind
    <3> HIDE DEF voce
    <3> QED
      BY <1>1, <3>1, <3>2, NuovaInv
  <2> QED
    BY <2>1, <2>2, <2>3, <2>4, AltroScrive
<1> QED
  BY <1>1, <1>3, <1>4 DEF Inv

LEMMA Cammina ==
    ASSUME Inv, [Next]_vars
    PROVE  Inv'
<1>1. CASE UNCHANGED vars
  <2>1. TipiInv'
    BY <1>1 DEF vars, Inv, TipiInv, MemoriaTipi, BaseTipi, RichiesteTipi
  <2>2. LegamiInv' /\ VociInv' /\ TokenInv'
    BY <1>1 DEF vars, Inv, LegamiInv, LegamiUnici, VociInv, TokenInv
  <2>3. ScadutoConcluso' /\ RegistraUno' /\ RichiesteInv'
    BY <1>1 DEF vars, Inv, ScadutoConcluso, RegistraUno, RichiesteInv
  <2> QED
    BY <2>1, <2>2, <2>3 DEF Inv
<1> QED
  BY <1>1, AltroInv, PassoInv, RiavviaInv DEF Next, PassoDi

LEMMA SpecInv == Spec => []Inv
BY InizioInv, Cammina, PTL DEF Spec

-----------------------------------------------------------------------------
(* Whatever requests meet on an item, a timer or a restart among them, a token of the
   polls is of a user who has proved to be it: on the panel, or as the owner, while it
   was bound, of the account that has logged in (api/oauth.go OidcAuthQueryPre). *)
THEOREM TokenSempreGiusto == Spec => []TokenGiusto
<1>1. Inv => TokenGiusto
  BY DEF Inv, TokenInv, TokenGiusto
<1> QED
  BY <1>1, SpecInv, PTL

(* A code that comes back into the cache after its timer, or after its token, is of a
   login that has been concluded: nothing else begins from it (service/oauth.go
   SetOauthCache with no expiry). *)
THEOREM ScadutoSempreConcluso == Spec => []ScadutoConcluso
<1>1. Inv => ScadutoConcluso
  BY DEF Inv
<1> QED
  BY <1>1, SpecInv, PTL

(* The registrations are one at a time and each leaves the lock free, whichever of its
   returns it takes (service/user.go RegisterByOauth). *)
THEOREM RegistraSempreUno == Spec => []RegistraUno
<1>1. Inv => RegistraUno
  BY DEF Inv
<1> QED
  BY <1>1, SpecInv, PTL

-----------------------------------------------------------------------------
(* The list of the association requests *)

ListaInv ==
    /\ richieste \in Seq(Account)
    /\ Len(richieste) <= TettoRichieste
    /\ IsInjective(richieste)

(* What DeleteFunc leaves: the other accounts, in their order. *)
LEMMA AltreBene ==
    ASSUME ListaInv, NEW a, NEW s, s = Altre(a)
    PROVE  /\ s \in Seq(Account)
           /\ IsInjective(s)
           /\ ToSet(s) = ToSet(richieste) \ {a}
           /\ a \in ToSet(richieste) => Len(s) = Len(richieste) - 1
           /\ a \notin ToSet(richieste) => s = richieste
<1> DEFINE L == Len(richieste)
<1>0. richieste \in Seq(Account) /\ IsInjective(richieste) /\ L \in Nat /\ DOMAIN richieste = 1 .. L
  BY DEF ListaInv
<1>1. CASE ~\E n \in 1 .. L : richieste[n] = a
  <2>1. s = richieste
    BY <1>1 DEF Altre, RemoveFirst
  <2> QED
    BY <1>0, <1>1, <2>1 DEF ToSet
<1>2. CASE \E n \in 1 .. L : richieste[n] = a
  <2>1. PICK n \in 1 .. L : richieste[n] = a
    BY <1>2
  <2> DEFINE I == {i \in 1 .. L : richieste[i] = a}
  <2>2. I = {n}
    BY <1>0, <2>1 DEF IsInjective
  <2>3. Min(I) = n
    BY <2>2 DEF Min
  <2>4. s = SubSeq(richieste, 1, n - 1) \o SubSeq(richieste, n + 1, L)
    BY <1>2, <2>2, <2>3 DEF Altre, RemoveFirst, RemoveAt, SelectInSeq
  <2> DEFINE p == SubSeq(richieste, 1, n - 1)
             q == SubSeq(richieste, n + 1, L)
  <2> HIDE DEF L
  <2>12. p \in Seq(Account) /\ Len(p) = n - 1 /\ \A i \in 1 .. n - 1 : p[i] = richieste[i]
    BY <1>0, <2>1 DEF L
  <2>13. q \in Seq(Account) /\ Len(q) = L - n /\ \A i \in 1 .. L - n : q[i] = richieste[n + i]
    <3>1. n + 1 \in Int /\ L \in Int /\ \A i \in n + 1 .. L : richieste[i] \in Account
      BY <1>0, <2>1 DEF L
    <3>2. /\ q \in Seq(Account)
          /\ Len(q) = IF n + 1 <= L THEN L - (n + 1) + 1 ELSE 0
          /\ \A i \in 1 .. L - (n + 1) + 1 : q[i] = richieste[n + 1 + i - 1]
      BY <3>1, SubSeqProperties
    <3>3. L - (n + 1) + 1 = L - n /\ Len(q) = L - n /\ \A i \in 1 .. L - n : n + 1 + i - 1 = n + i
      BY <1>0, <2>1, <3>2
    <3> HIDE DEF q
    <3> QED
      BY <3>2, <3>3
  <2> HIDE DEF p, q
  <2>14. s \in Seq(Account) /\ Len(s) = L - 1 /\ s = p \o q
    <3>1. s = p \o q
      BY <2>4 DEF p, q
    <3>2. s \in Seq(Account) /\ Len(s) = Len(p) + Len(q)
      <4>1. p \in Seq(Account) /\ q \in Seq(Account)
        BY <2>12, <2>13
      <4>2. p \o q \in Seq(Account) /\ Len(p \o q) = Len(p) + Len(q)
        BY <4>1, ConcatProperties
      <4> QED
        BY <3>1, <4>2
    <3> QED
      BY <1>0, <2>1, <2>12, <2>13, <3>1, <3>2
  <2>15. ASSUME NEW i \in 1 .. L - 1
         PROVE  s[i] = IF i < n THEN richieste[i] ELSE richieste[i + 1]
    <3>1. CASE i < n
      BY <1>0, <2>1, <2>12, <2>13, <2>14, <3>1
    <3>2. CASE i >= n
      <4>1. i - (n - 1) \in 1 .. L - n /\ n + (i - (n - 1)) = i + 1
        BY <1>0, <2>1, <3>2
      <4>2. s[i] = q[i - (n - 1)]
        BY <1>0, <2>1, <2>12, <2>13, <2>14, <3>2
      <4>3. s[i] = richieste[i + 1]
        BY <2>13, <4>1, <4>2
      <4> QED
        BY <1>0, <2>1, <3>2, <4>3
    <3> QED
      BY <1>0, <2>1, <3>1, <3>2
  <2>5. /\ s \in Seq(Account) /\ Len(s) = L - 1
        /\ \A i \in 1 .. L - 1 : s[i] = IF i < n THEN richieste[i] ELSE richieste[i + 1]
    BY <2>14, <2>15
  <2>6. DOMAIN s = 1 .. L - 1
    BY <1>0, <2>5
  <2>7. IsInjective(s)
    <3> SUFFICES ASSUME NEW i \in 1 .. L - 1, NEW j \in 1 .. L - 1, s[i] = s[j]
                 PROVE  i = j
      BY <2>6 DEF IsInjective
    <3>1. \A k \in 1 .. L - 1 : k \in 1 .. L /\ k + 1 \in 1 .. L
      BY <1>0
    <3>2. \A k, l \in 1 .. L : richieste[k] = richieste[l] => k = l
      BY <1>0 DEF IsInjective
    <3> DEFINE K(k) == IF k < n THEN k ELSE k + 1
    <3>3. s[i] = richieste[K(i)] /\ s[j] = richieste[K(j)]
      BY <2>5
    <3>4. K(i) \in 1 .. L /\ K(j) \in 1 .. L
      BY <3>1
    <3>5. K(i) = K(j) => i = j
      BY <1>0, <2>1
    <3> HIDE DEF K
    <3> QED
      BY <3>2, <3>3, <3>4, <3>5
  <2>8. ASSUME NEW i \in 1 .. L, i # n
        PROVE  \E j \in 1 .. L - 1 : s[j] = richieste[i]
    <3>1. CASE i < n
      BY <1>0, <2>1, <2>5, <3>1
    <3>2. CASE i > n
      <4>1. i - 1 \in 1 .. L - 1 /\ s[i - 1] = richieste[i]
        BY <1>0, <2>1, <2>5, <3>2
      <4> QED
        BY <4>1
    <3> QED
      BY <1>0, <2>1, <2>8, <3>1, <3>2
  <2>9. \A j \in 1 .. L - 1 : \E i \in 1 .. L : i # n /\ s[j] = richieste[i]
    BY <1>0, <2>1, <2>5
  <2>16. \A i \in 1 .. L : richieste[i] = a <=> i = n
    BY <2>2
  <2>17. \A b : b \in ToSet(s) <=> \E j \in 1 .. L - 1 : b = s[j]
    BY <2>6 DEF ToSet
  <2>18. \A b : b \in ToSet(richieste) <=> \E i \in 1 .. L : b = richieste[i]
    BY <1>0 DEF ToSet
  <2>10. ToSet(s) = ToSet(richieste) \ {a}
    <3>1. \A b \in ToSet(s) : b \in ToSet(richieste) /\ b # a
      BY <2>9, <2>16, <2>17, <2>18
    <3>2. \A b \in ToSet(richieste) : b # a => b \in ToSet(s)
      BY <2>8, <2>16, <2>17, <2>18
    <3> QED
      BY <3>1, <3>2
  <2>11. a \in ToSet(richieste)
    BY <1>0, <2>1 DEF ToSet
  <2> QED
    BY <2>5, <2>7, <2>10, <2>11 DEF L
<1> QED
  BY <1>1, <1>2

(* What the cap leaves, and the new entry at the end. *)
LEMMA NuovaBene ==
    ASSUME ListaInv, NEW a \in Account, Nuova(a)
    PROVE  /\ ListaInv'
           /\ richieste' # << >> /\ Last(richieste') = a
           /\ \/ \A b \in ToSet(richieste) : b \in ToSet(richieste')
              \/ Len(richieste') = TettoRichieste /\ a \notin ToSet(richieste)
<1> DEFINE s == Altre(a)
           t == NelTetto(s)
           T == TettoRichieste
           L == Len(s)
<1>1. /\ s \in Seq(Account) /\ IsInjective(s)
      /\ ToSet(s) = ToSet(richieste) \ {a}
      /\ a \in ToSet(richieste) => L = Len(richieste) - 1
      /\ a \notin ToSet(richieste) => s = richieste
  BY AltreBene
<1>2. richieste' = Append(t, a)
  BY DEF Nuova
<1>3. L <= T /\ L \in Nat /\ T \in Nat \ {0} /\ (a \in ToSet(richieste) => L < T)
  BY <1>1 DEF ListaInv
<1> HIDE DEF s
<1>4. /\ t \in Seq(Account) /\ Len(t) < T /\ IsInjective(t)
      /\ \A n \in DOMAIN t : a # t[n]
      /\ t = s \/ (L = T /\ Len(t) = T - 1)
  <2>1. CASE L < T
    <3>1. t = s
      BY <1>3, <2>1 DEF NelTetto
    <3> QED
      BY <1>1, <1>3, <2>1, <3>1 DEF ToSet
  <2>2. CASE L = T
    <3>1. t = SubSeq(s, 2, T)
      BY <1>3, <2>2 DEF NelTetto
    <3> HIDE DEF t
    <3>2. /\ t \in Seq(Account) /\ Len(t) = T - 1 /\ DOMAIN t = 1 .. T - 1
          /\ \A n \in 1 .. T - 1 : t[n] = s[n + 1]
      BY <1>1, <1>3, <2>2, <3>1
    <3>3. \A n \in DOMAIN t : n + 1 \in DOMAIN s /\ t[n] = s[n + 1]
      BY <1>1, <1>3, <2>2, <3>2
    <3>4. IsInjective(t)
      <4> SUFFICES ASSUME NEW i \in 1 .. T - 1, NEW j \in 1 .. T - 1, t[i] = t[j]
                   PROVE  i = j
        BY <3>2 DEF IsInjective
      <4>1. i + 1 \in DOMAIN s /\ j + 1 \in DOMAIN s /\ s[i + 1] = s[j + 1]
        BY <3>2, <3>3
      <4>2. i + 1 = j + 1
        BY <1>1, <4>1 DEF IsInjective
      <4> QED
        BY <1>3, <4>2
    <3>5. \A n \in DOMAIN t : a # t[n]
      BY <1>1, <3>3 DEF ToSet
    <3> QED
      BY <1>3, <2>2, <3>2, <3>4, <3>5
  <2> QED
    BY <1>3, <2>1, <2>2
<1> HIDE DEF t
<1>5. /\ richieste' \in Seq(Account) /\ Len(richieste') = Len(t) + 1
      /\ DOMAIN richieste' = DOMAIN t \cup {Len(t) + 1} /\ Len(t) + 1 \notin DOMAIN t
      /\ richieste'[Len(t) + 1] = a
      /\ \A n \in DOMAIN t : richieste'[n] = t[n]
  BY <1>2, <1>4
<1>6. IsInjective(richieste')
  BY <1>4, <1>5 DEF IsInjective
<1>7. ListaInv'
  BY <1>3, <1>4, <1>5, <1>6 DEF ListaInv
<1>8. richieste' # << >> /\ Last(richieste') = a
  BY <1>4, <1>5 DEF Last
<1>9. CASE t = s
  <2>1. \A b \in ToSet(s) : b \in ToSet(richieste')
    BY <1>5, <1>9 DEF ToSet
  <2>2. a \in ToSet(richieste')
    BY <1>5 DEF ToSet
  <2>3. \A b \in ToSet(richieste) : b \in ToSet(richieste')
    BY <1>1, <2>1, <2>2
  <2> QED
    BY <1>7, <1>8, <2>3
<1>10. CASE L = T /\ Len(t) = T - 1
  BY <1>3, <1>5, <1>7, <1>8, <1>10
<1> QED
  BY <1>4, <1>9, <1>10

(* Who writes the list. *)
LEMMA ChiScriveLaLista ==
    ASSUME [Next]_vars
    PROVE  \/ UNCHANGED richieste
           \/ pulisci \/ Riavvia
           \/ \E r \in Richieste : InfoByOp(r) \/ TogliRichiesta(r)
<1>1. ASSUME NEW r \in Richieste, Arriva(r)
      PROVE  UNCHANGED richieste
  BY <1>1 DEF Arriva, OauthCallback, OidcAuthQueryPre, Confirm, BindConfirm, Associa, Legge, memoria
<1>2. ASSUME NEW r \in Richieste, Prosegue(r)
      PROVE  UNCHANGED richieste \/ InfoByOp(r) \/ TogliRichiesta(r)
  <2>1. CASE \E a \in Account : Callback(r, a)
    BY <2>1 DEF Callback, memoria
  <2>2. CASE UserThirdInfo(r) \/ InfoById(r) \/ QueryUtente(r) \/ DeleteOauthCache(r)
             \/ Login(r) \/ Segna(r) \/ Rimetti(r)
    BY <2>2 DEF UserThirdInfo, InfoById, QueryUtente, DeleteOauthCache, Login, Segna, Rimetti,
       Legge, Rifiuta, memoria
  <2>3. CASE Lock(r) \/ RegistraTerzo(r) \/ RegistraUtente(r) \/ RegistraPosta(r) \/ RegistraLega(r)
             \/ RegistraCrea(r)
    BY <2>3 DEF Lock, RegistraTerzo, RegistraUtente, RegistraPosta, RegistraLega, RegistraCrea,
       Legge, RegistraRifiuta, memoria
  <2>4. CASE BindOauthUser(r) \/ AssociaRichiesta(r) \/ Guasto(r)
    BY <2>4 DEF BindOauthUser, AssociaRichiesta, Guasto, Rifiuta, RegistraRifiuta, memoria
  <2> QED
    BY <1>2, <2>1, <2>2, <2>3, <2>4 DEF Prosegue
<1>3. CASE Altro
  BY <1>3 DEF Altro, OidcAuth, OidcAuthPannello, ToBind, Timer, SetOauthCache, UnBindThird,
     CancellaUtente, CambiaStato, CreateOauth, UpdateOauth, DeleteOauth, Configura, memoria
<1> QED
  BY <1>1, <1>2, <1>3 DEF Next, vars

(* Every step keeps the list without doubles and within its cap, and takes a request
   away only for one of the reasons of RichiestaEsce. *)
LEMMA ListaPasso ==
    ASSUME Inv, ListaInv, [Next]_vars
    PROVE  /\ ListaInv'
           /\ \A a \in ToSet(richieste) \ ToSet(richieste') :
                \/ pulisci
                \/ Len(richieste') = TettoRichieste /\ Last(richieste') \notin ToSet(richieste)
                \/ \E r \in Richieste : pc[r] = "togli" /\ (req[r].codice = Nessuno => req[r].account = a)
                \/ Riavvia
<1>1. CASE UNCHANGED richieste
  BY <1>1 DEF ListaInv
<1>2. CASE Riavvia
  BY <1>2 DEF Riavvia, ListaInv, IsInjective
<1>3. CASE pulisci
  <2>1. richieste' = Tail(richieste) /\ richieste # << >>
    BY <1>3 DEF pulisci
  <2>2. /\ richieste' \in Seq(Account) /\ Len(richieste') = Len(richieste) - 1
        /\ DOMAIN richieste' = 1 .. Len(richieste) - 1
        /\ DOMAIN richieste = 1 .. Len(richieste)
        /\ Len(richieste) \in Nat
        /\ \A n \in 1 .. Len(richieste) - 1 : richieste'[n] = richieste[n + 1]
    BY <2>1 DEF ListaInv
  <2>3. IsInjective(richieste')
    <3> SUFFICES ASSUME NEW i \in DOMAIN richieste', NEW j \in DOMAIN richieste',
                        richieste'[i] = richieste'[j]
                 PROVE  i = j
      BY DEF IsInjective
    <3>1. /\ i + 1 \in DOMAIN richieste /\ j + 1 \in DOMAIN richieste
          /\ richieste[i + 1] = richieste[j + 1]
      BY <2>2
    <3>2. i + 1 = j + 1
      BY <3>1 DEF ListaInv, IsInjective
    <3> QED
      BY <2>2, <3>2
  <2> QED
    BY <1>3, <2>2, <2>3 DEF ListaInv
<1>4. ASSUME NEW r \in Richieste, InfoByOp(r)
      PROVE  /\ ListaInv'
             /\ \A a \in ToSet(richieste) \ ToSet(richieste') :
                  Len(richieste') = TettoRichieste /\ Last(richieste') \notin ToSet(richieste)
  <2>1. CASE UNCHANGED richieste
    BY <2>1 DEF ListaInv
  <2>2. CASE Nuova(req[r].account)
    <3>1. req[r].account \in Account
      BY <1>4 DEF InfoByOp, Inv, RichiesteInv, Porta, DiConto
    <3> QED
      BY <2>2, <3>1, NuovaBene
  <2> QED
    BY <1>4, <2>1, <2>2 DEF InfoByOp, Legge, Rifiuta, memoria
<1>5. ASSUME NEW r \in Richieste, TogliRichiesta(r)
      PROVE  /\ ListaInv'
             /\ \A a \in ToSet(richieste) \ ToSet(richieste') :
                  pc[r] = "togli" /\ (req[r].codice = Nessuno => req[r].account = a)
  <2>1. PICK x : /\ richieste' = Altre(x) /\ pc[r] = "togli"
                 /\ req[r].codice = Nessuno => x = req[r].account
    BY <1>5 DEF TogliRichiesta, Togli
  <2>2. /\ richieste' \in Seq(Account) /\ IsInjective(richieste')
        /\ ToSet(richieste') = ToSet(richieste) \ {x}
        /\ Len(richieste') = Len(richieste) - 1 \/ richieste' = richieste
    BY <2>1, AltreBene
  <2> QED
    BY <2>1, <2>2 DEF ListaInv
<1> QED
  BY <1>1, <1>2, <1>3, <1>4, <1>5, ChiScriveLaLista

LEMMA SpecLista == Spec => []ListaInv
<1>1. Init => ListaInv
  BY DEF Init, ListaInv, IsInjective
<1>2. Inv /\ ListaInv /\ [Next]_vars => ListaInv'
  BY ListaPasso
<1> QED
  BY <1>1, <1>2, SpecInv, PTL DEF Spec

(* The bindings are one to one, whatever callbacks, confirmations, registrations and
   administrators meet; and the association requests are within their cap, no account
   with two (user_thirds, service/associazioni.go). *)
THEOREM SempreUnoPerAccount == Spec => []UnoPerAccount
<1>1. Inv /\ ListaInv => UnoPerAccount
  BY DEF Inv, LegamiInv, ListaInv, UnoPerAccount
<1> QED
  BY <1>1, SpecInv, SpecLista, PTL

(* A request never leaves the list but for its time, its user, as many newer ones as fill
   the list, or a restart: never with another's (service/associazioni.go). *)
THEOREM RichiestaEsceConRagione == Spec => RichiestaEsce
<1>1. Inv /\ ListaInv /\ [Next]_vars =>
        [\A a \in ToSet(richieste) \ ToSet(richieste') :
            \/ pulisci
            \/ Len(richieste') = TettoRichieste /\ Last(richieste') \notin ToSet(richieste)
            \/ \E r \in Richieste : pc[r] = "togli" /\ (req[r].codice = Nessuno => req[r].account = a)
            \/ Riavvia]_vars
  BY ListaPasso
<1> QED
  BY <1>1, SpecInv, SpecLista, PTL DEF Spec, RichiestaEsce
===============================================================================
