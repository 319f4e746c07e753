---------------------------- MODULE AccountProofs ----------------------------
(***************************************************************************)
(* Theorems about who may log in and as whom: modules Utenti (the          *)
(* accounts, their administrators and agents) and Limitatore (the attempts *)
(* of login), for any number of accounts, directory users, requests,       *)
(* addresses and captchas, any thresholds and any durations.               *)
(***************************************************************************)
EXTENDS Utenti, FiniteSetTheorems, Limitatore, TLAPS

-----------------------------------------------------------------------------
(***************************************************************************)
(* Module Utenti. The rules hold of requests that come one at a time,      *)
(* after any sequence of them: SequenzaInv adds to the rules what the      *)
(* request under way has checked of the table so far (ModuloInv), and so   *)
(* what its last statement may rely on. The key and the types of the table *)
(* hold of any requests at once.                                           *)
(***************************************************************************)

(***************************************************************************)
(* The rules, on a table T of accounts.                                    *)
(***************************************************************************)
Regole(T) ==
    \A a \in T : a.agenteDi # 0 =>
        /\ ~a.admin
        /\ \E t \in T :
            /\ t.id = a.agenteDi
            /\ t.agenteDi = 0
            /\ a.attivo /\ a.id \notin Directory => t.attivo

ConAdmin(T) == \E u \in T : u.admin

AltroAdmin(T, id) == \E u \in T : u.admin /\ u.id # id

(* What ControllaAgente and contaAgenti have found. *)
Risponditore(T, m) == \E t \in T : t.id = m.agenteDi /\ t.agenteDi = 0 /\ (m.attivo => t.attivo)

SenzaAgenti(T, id) == \A u \in T : u.agenteDi # id

(* The row of the form is there, and is not an administrator after it. *)
SenzaRuolo(T, m) ==
    /\ m.agenteDi # m.id
    /\ \E u \in T : u.id = m.id /\ (m.admin = "no" \/ (m.admin = "assente" /\ ~u.admin))

(* What a request in the last checks is about to do is within the rules. *)
Controllato(T, m) ==
    \E u \in T :
        /\ u.id = m.id
        /\ \/ m.op = "cancella" /\ SenzaAgenti(T, m.id)
           \/ m.op = "salva" /\ m.agenteDi = 0
           \/ /\ m.op = "salva" /\ m.agenteDi # 0
              /\ SenzaRuolo(T, m) /\ Risponditore(T, m) /\ SenzaAgenti(T, m.id)
           \/ /\ m.op = "ldap" /\ m.id \in Directory /\ m.agenteDi = u.agenteDi
              /\ m.admin \in {"si", "no"} /\ (u.agenteDi # 0 => m.admin = "no")

(* What a request that is at q with the form m has checked so far. *)
ModuloInv(T, q, m) ==
    /\ q \in {"gruppo", "mappa"} => m.op = "ldap" /\ m.id \in Directory \cup {0} /\ m.agenteDi = 0
    /\ q = "tecnico" => /\ m.agenteDi # 0
                        /\ \/ m.op = "crea" /\ m.admin = "no"
                           \/ m.op = "salva" /\ SenzaRuolo(T, m)
    /\ q = "agenti" => \/ m.op = "cancella" /\ \E u \in T : u.id = m.id /\ m.admin = SiNo(u.admin)
                       \/ m.op = "salva" /\ m.agenteDi # 0 /\ SenzaRuolo(T, m) /\ Risponditore(T, m)
    /\ q \in {"ultimo", "conta", "scrive"} => Controllato(T, m)
    /\ q = "scrive" => AltroAdmin(T, m.id) \/ (m.op # "cancella" /\ m.admin = "si")
    /\ q = "crea" /\ m.agenteDi # 0 => m.admin = "no" /\ Risponditore(T, m)

SequenzaInv ==
    /\ Regole(utenti) /\ ConAdmin(utenti)
    /\ \A r \in RichiesteUtenti : ModuloInv(utenti, query[r], modulo[r])

UtentiInv == TypeOKUtenti /\ IsFiniteSet(utenti) /\ (Sequenza => SequenzaInv)

-----------------------------------------------------------------------------
(* The types. *)

LEMMA UnaAllaVolta ==
    ASSUME Sequenza, NEW r \in RichiesteUtenti, NEW s \in RichiesteUtenti
    PROVE  r = s
<1> SUFFICES ASSUME r # s PROVE FALSE
  OBVIOUS
<1>1. IsFiniteSet(RichiesteUtenti)
  BY UtentiAssumption
<1>2. Cardinality({r}) = 1 /\ IsFiniteSet({r})
  BY FS_Singleton
<1>3. Cardinality({r} \cup {s}) = 2
  BY <1>2, FS_AddElement
<1>4. {r} \cup {s} \subseteq RichiesteUtenti
  OBVIOUS
<1>5. Cardinality({r} \cup {s}) <= Cardinality(RichiesteUtenti) /\ Cardinality(RichiesteUtenti) \in Nat
  BY <1>1, <1>4, FS_Subset, FS_CardinalityType
<1> QED
  BY <1>3, <1>5 DEF Sequenza

LEMMA CominciaTipo ==
    ASSUME TypeOKUtenti, NEW r \in RichiesteUtenti, NEW m \in Moduli,
           NEW q \in {"gruppo", "mappa", "tecnico", "agenti", "ultimo", "crea"}, Comincia(r, m, q)
    PROVE  TypeOKUtenti'
BY DEF Comincia, TypeOKUtenti

LEMMA VuotoTipo == Vuoto \in Moduli
BY DEF Vuoto, Moduli

LEMMA RigaTipo ==
    ASSUME TypeOKUtenti, NEW u \in utenti
    PROVE  u \in Utente /\ u.id \in Id /\ u.id # 0 /\ u.id < nuovo /\ u.admin \in BOOLEAN
           /\ u.attivo \in BOOLEAN /\ u.agenteDi \in Id \cup {0}
BY DEF TypeOKUtenti, Utente, Id

LEMMA ModuloTipo ==
    ASSUME NEW op \in {"salva", "ldap", "crea", "cancella"}, NEW id \in Id \cup {0},
           NEW admin \in {"si", "no", "assente"}, NEW attivo \in BOOLEAN,
           NEW agenteDi \in Id \cup {0}, NEW memberOf \in SUBSET Gruppi
    PROVE  [Vuoto EXCEPT !.op = op, !.id = id, !.admin = admin, !.attivo = attivo,
                         !.agenteDi = agenteDi, !.memberOf = memberOf] \in Moduli
BY DEF Vuoto, Moduli

LEMMA ArrivaTipo ==
    ASSUME TypeOKUtenti, NEW r \in RichiesteUtenti, ArrivaUtenti(r)
    PROVE  TypeOKUtenti'
<1>1. ASSUME NEW u \in utenti, NEW admin \in {"si", "no", "assente"}, NEW attivo \in BOOLEAN,
             NEW t \in {0, u.agenteDi} \cup Id, Update(r, u, admin, attivo, t)
      PROVE  TypeOKUtenti'
  <2> DEFINE m == [Vuoto EXCEPT !.op = "salva", !.id = u.id, !.admin = admin,
                                !.attivo = attivo, !.agenteDi = t]
  <2>1. m \in Moduli
    BY RigaTipo DEF Vuoto, Moduli
  <2>2. \E q \in {"tecnico", "ultimo"} : Comincia(r, m, q)
    BY <1>1 DEF Update
  <2> HIDE DEF m
  <2> QED
    BY <2>1, <2>2, CominciaTipo
<1>2. ASSUME NEW admin \in BOOLEAN, NEW attivo \in BOOLEAN, NEW t \in {0} \cup Id,
             Create(r, admin, attivo, t)
      PROVE  TypeOKUtenti'
  <2> DEFINE m == [Vuoto EXCEPT !.admin = SiNo(admin), !.attivo = attivo, !.agenteDi = t]
  <2>1. m \in Moduli
    BY DEF Vuoto, Moduli, SiNo
  <2>2. \E q \in {"tecnico", "crea"} : Comincia(r, m, q)
    BY <1>2 DEF Create
  <2> HIDE DEF m
  <2> QED
    BY <2>1, <2>2, CominciaTipo
<1>3. ASSUME NEW u \in utenti, Delete(r, u) PROVE TypeOKUtenti'
  <2> DEFINE m == [Vuoto EXCEPT !.op = "cancella", !.id = u.id, !.admin = SiNo(u.admin),
                                !.attivo = u.attivo, !.agenteDi = u.agenteDi]
  <2>1. m \in Moduli
    BY RigaTipo DEF Vuoto, Moduli, SiNo
  <2>2. Comincia(r, m, "agenti")
    BY <1>3 DEF Delete
  <2> HIDE DEF m
  <2> QED
    BY <2>1, <2>2, CominciaTipo
<1>4. ASSUME NEW t \in utenti, creaAgente(r, t.id) PROVE TypeOKUtenti'
  <2> DEFINE m == [Vuoto EXCEPT !.attivo = TRUE, !.agenteDi = t.id]
  <2>1. m \in Moduli
    BY RigaTipo DEF Vuoto, Moduli
  <2>2. Comincia(r, m, "tecnico")
    BY <1>4 DEF creaAgente
  <2> HIDE DEF m
  <2> QED
    BY <2>1, <2>2, CominciaTipo
<1>5. ASSUME NEW attivo \in BOOLEAN, Register(r, attivo) PROVE TypeOKUtenti'
  <2> DEFINE m == [Vuoto EXCEPT !.attivo = attivo]
  <2>1. m \in Moduli
    BY DEF Vuoto, Moduli
  <2>2. Comincia(r, m, "crea")
    BY <1>5 DEF Register
  <2> HIDE DEF m
  <2> QED
    BY <2>1, <2>2, CominciaTipo
<1>6. ASSUME NEW id \in {0} \cup Directory, NEW lu \in LdapUser,
             Authenticate(r, id, lu) \/ GetUserInfoByEmailLocal(r, id, lu)
      PROVE  TypeOKUtenti'
  <2>1. ToUser(id, lu) \in Moduli
    BY UtentiAssumption DEF ToUser, Vuoto, Moduli, LdapUser, isUserEnabled, Id
  <2>2. \E q \in {"gruppo", "mappa"} : Comincia(r, ToUser(id, lu), q)
    BY <1>6 DEF Authenticate, GetUserInfoByEmailLocal
  <2> QED
    BY <2>1, <2>2, CominciaTipo
<1> QED
  BY <1>1, <1>2, <1>3, <1>4, <1>5, <1>6 DEF ArrivaUtenti

LEMMA RifiutaTipo ==
    ASSUME TypeOKUtenti, NEW r \in RichiesteUtenti, Rifiuta(r)
    PROVE  TypeOKUtenti'
BY VuotoTipo DEF Rifiuta, TerminaUtenti, TypeOKUtenti

LEMMA ProseguiTipo ==
    ASSUME TypeOKUtenti, NEW r \in RichiesteUtenti,
           NEW q \in {"mappa", "agenti", "ultimo", "conta", "scrive", "crea"}, Prosegui(r, q)
    PROVE  TypeOKUtenti'
BY DEF Prosegui, TypeOKUtenti

(* What the transaction of an update makes of a row. *)
Nuova(u, m) == Disattivato(IF u.id = m.id THEN Salvato(u, m) ELSE u, m)

LEMMA NuovaTipo ==
    ASSUME NEW u \in Utente, NEW m \in Moduli
    PROVE  Nuova(u, m) \in Utente /\ Nuova(u, m).id = u.id
BY DEF Nuova, Disattivato, Salvato, Utente, Moduli

LEMMA ProsegueTipoUtenti ==
    ASSUME TypeOKUtenti, NEW r \in RichiesteUtenti, ProsegueUtenti(r)
    PROVE  TypeOKUtenti'
<1>1. modulo[r] \in Moduli
  BY DEF TypeOKUtenti
<1>2. ASSUME NEW trovato \in BOOLEAN, NEW nel \in BOOLEAN, verifyCredentials(r, trovato, nel)
      PROVE  TypeOKUtenti'
  BY <1>2, ProseguiTipo DEF verifyCredentials
<1>3. ASSUME NEW trovato \in BOOLEAN, mapToLocalUser(r, trovato) PROVE TypeOKUtenti'
  <2> DEFINE admin == isUserAdmin(modulo[r], trovato)
  <2>1. UNCHANGED <<utenti, nuovo>>
    BY <1>3 DEF mapToLocalUser
  <2>2. CASE /\ modulo' = [modulo EXCEPT ![r].op = "crea", ![r].id = 0, ![r].admin = SiNo(admin)]
             /\ query' = [query EXCEPT ![r] = "crea"]
    <3>1. [modulo[r] EXCEPT !.op = "crea", !.id = 0, !.admin = SiNo(admin)] \in Moduli
      BY <1>1 DEF Moduli, SiNo
    <3> QED
      BY <2>1, <2>2, <3>1 DEF TypeOKUtenti
  <2>3. ASSUME NEW u \in utenti,
               modulo' = [modulo EXCEPT ![r].admin = Sincronizzato(u, admin), ![r].agenteDi = u.agenteDi],
               query' = [query EXCEPT ![r] = "ultimo"]
        PROVE  TypeOKUtenti'
    <3>1. [modulo[r] EXCEPT !.admin = Sincronizzato(u, admin), !.agenteDi = u.agenteDi] \in Moduli
      BY <1>1, RigaTipo DEF Moduli, SiNo, Sincronizzato
    <3> QED
      BY <2>1, <2>3, <3>1 DEF TypeOKUtenti
  <2> QED
    BY <1>3, <2>2, <2>3 DEF mapToLocalUser
<1>4. ASSUME ControllaAgente(r) PROVE TypeOKUtenti'
  BY <1>4, ProseguiTipo, RifiutaTipo DEF ControllaAgente
<1>5. ASSUME contaAgenti(r) PROVE TypeOKUtenti'
  BY <1>5, ProseguiTipo, RifiutaTipo DEF contaAgenti
<1>6. ASSUME controllaUltimoAdmin(r) PROVE TypeOKUtenti'
  BY <1>6, ProseguiTipo, RifiutaTipo DEF controllaUltimoAdmin
<1>7. ASSUME getAdminUserCount(r) PROVE TypeOKUtenti'
  BY <1>7, ProseguiTipo, RifiutaTipo DEF getAdminUserCount
<1>8. ASSUME Scrive(r) PROVE TypeOKUtenti'
  <2>1. utenti' = {Nuova(u, modulo[r]) : u \in utenti} /\ TerminaUtenti(r) /\ UNCHANGED nuovo
    BY <1>8 DEF Scrive, Nuova
  <2>2. \A u \in utenti : Nuova(u, modulo[r]) \in Utente /\ Nuova(u, modulo[r]).id = u.id
    BY <1>1, NuovaTipo, RigaTipo
  <2>3. query' \in [RichiesteUtenti -> {"libera", "gruppo", "mappa", "tecnico", "agenti",
                                         "ultimo", "conta", "scrive", "crea"}]
    BY <2>1 DEF TerminaUtenti, TypeOKUtenti
  <2>4. modulo' \in [RichiesteUtenti -> Moduli]
    BY <2>1, VuotoTipo DEF TerminaUtenti, TypeOKUtenti
  <2>5. utenti' \subseteq Utente /\ nuovo' \in 1 .. MaxUtenti + 1 /\ \A u \in utenti' : u.id < nuovo'
    BY <2>1, <2>2 DEF TypeOKUtenti
  <2>6. \A u, v \in utenti' : u.id = v.id => u = v
    <3> SUFFICES ASSUME NEW u \in utenti, NEW v \in utenti, Nuova(u, modulo[r]).id = Nuova(v, modulo[r]).id
                 PROVE  Nuova(u, modulo[r]) = Nuova(v, modulo[r])
      BY <2>1
    <3>1. u = v
      BY <2>2 DEF TypeOKUtenti
    <3> QED
      BY <3>1
  <2> QED
    BY <2>3, <2>4, <2>5, <2>6 DEF TypeOKUtenti
<1>9. ASSUME Cancella(r) PROVE TypeOKUtenti'
  BY <1>9, VuotoTipo DEF Cancella, TerminaUtenti, TypeOKUtenti
<1>10. ASSUME Crea(r) PROVE TypeOKUtenti'
  <2> DEFINE u == [id |-> nuovo, admin |-> modulo[r].admin = "si", attivo |-> modulo[r].attivo,
                   agenteDi |-> modulo[r].agenteDi]
  <2>1. utenti' = utenti \cup {u} /\ nuovo' = nuovo + 1 /\ nuovo <= MaxUtenti /\ TerminaUtenti(r)
        /\ nuovo \in 1 .. MaxUtenti + 1
    BY <1>10 DEF Crea, TypeOKUtenti
  <2>2. u.id = nuovo /\ u \in Utente
    <3>1. nuovo \in Id /\ (modulo[r].admin = "si") \in BOOLEAN /\ modulo[r].attivo \in BOOLEAN
          /\ modulo[r].agenteDi \in Id \cup {0}
      BY <1>1, <2>1 DEF Id, Moduli
    <3> QED
      BY <3>1 DEF Utente
  <2> HIDE DEF u
  <2>3. query' \in [RichiesteUtenti -> {"libera", "gruppo", "mappa", "tecnico", "agenti",
                                         "ultimo", "conta", "scrive", "crea"}]
    BY <2>1 DEF TerminaUtenti, TypeOKUtenti
  <2>4. modulo' \in [RichiesteUtenti -> Moduli]
    BY <2>1, VuotoTipo DEF TerminaUtenti, TypeOKUtenti
  <2>5. \A v \in utenti : v.id < nuovo /\ v.id \in Nat
    BY RigaTipo DEF Id
  <2>6. utenti' \subseteq Utente /\ nuovo' \in 1 .. MaxUtenti + 1
    BY <2>1, <2>2, UtentiAssumption DEF TypeOKUtenti
  <2>7. \A v \in utenti' : v.id < nuovo'
    BY <2>1, <2>2, <2>5
  <2>8. \A v, w \in utenti' : v.id = w.id => v = w
    <3>1. \A v \in utenti : v.id # u.id
      BY <2>1, <2>2, <2>5
    <3> QED
      BY <2>1, <3>1 DEF TypeOKUtenti
  <2> QED
    BY <2>3, <2>4, <2>6, <2>7, <2>8 DEF TypeOKUtenti
<1>11. ASSUME Fallisce(r) PROVE TypeOKUtenti'
  BY <1>11, RifiutaTipo DEF Fallisce
<1> QED
  BY <1>2, <1>3, <1>4, <1>5, <1>6, <1>7, <1>8, <1>9, <1>10, <1>11 DEF ProsegueUtenti

LEMMA FinitaPasso ==
    ASSUME IsFiniteSet(utenti), [NextUtenti]_varsUtenti
    PROVE  IsFiniteSet(utenti')
<1>1. CASE utenti' = utenti
  BY <1>1
<1>2. ASSUME NEW r \in RichiesteUtenti, Scrive(r) PROVE IsFiniteSet(utenti')
  <2>1. utenti' = {Nuova(u, modulo[r]) : u \in utenti}
    BY <1>2 DEF Scrive, Nuova
  <2> DEFINE f == [u \in utenti |-> Nuova(u, modulo[r])]
  <2>2. f \in Surjection(utenti, utenti')
    BY <2>1 DEF Surjection
  <2> HIDE DEF f
  <2> QED
    BY <2>2, FS_Surjection
<1>3. ASSUME NEW r \in RichiesteUtenti, Cancella(r) PROVE IsFiniteSet(utenti')
  <2>1. utenti' \subseteq utenti
    BY <1>3 DEF Cancella
  <2> QED
    BY <2>1, FS_Subset
<1>4. ASSUME NEW r \in RichiesteUtenti, Crea(r) PROVE IsFiniteSet(utenti')
  <2>1. \E u : utenti' = utenti \cup {u}
    BY <1>4 DEF Crea
  <2> QED
    BY <2>1, FS_AddElement
<1>5. ASSUME NEW r \in RichiesteUtenti, ArrivaUtenti(r) PROVE utenti' = utenti
  BY <1>5 DEF ArrivaUtenti, Update, Create, Delete, creaAgente, Register, Authenticate,
              GetUserInfoByEmailLocal, Comincia
<1>6. ASSUME NEW r \in RichiesteUtenti, ProsegueUtenti(r)
      PROVE  Scrive(r) \/ Cancella(r) \/ Crea(r) \/ utenti' = utenti
  BY <1>6 DEF ProsegueUtenti, verifyCredentials, mapToLocalUser, ControllaAgente, contaAgenti,
              controllaUltimoAdmin, getAdminUserCount, Fallisce, Prosegui, Rifiuta
<1> QED
  BY <1>1, <1>2, <1>3, <1>4, <1>5, <1>6 DEF NextUtenti, varsUtenti

-----------------------------------------------------------------------------
(* What each write does to the rules. *)

Tabella(T) == T \subseteq Utente /\ \A u, v \in T : u.id = v.id => u = v

LEMMA RegoleScrive ==
    ASSUME NEW T, Tabella(T), Regole(T), NEW m \in Moduli, m.op \in {"salva", "ldap"}, Controllato(T, m)
    PROVE  Regole({Nuova(u, m) : u \in T})
<1> DEFINE N(u) == Nuova(u, m)
<1>1. PICK u \in T :
        /\ u.id = m.id
        /\ \/ m.op = "salva" /\ m.agenteDi = 0
           \/ /\ m.op = "salva" /\ m.agenteDi # 0
              /\ SenzaRuolo(T, m) /\ Risponditore(T, m) /\ SenzaAgenti(T, m.id)
           \/ /\ m.op = "ldap" /\ m.id \in Directory /\ m.agenteDi = u.agenteDi
              /\ m.admin \in {"si", "no"} /\ (u.agenteDi # 0 => m.admin = "no")
  BY DEF Controllato
<1>2. ASSUME NEW v \in T
      PROVE  /\ N(v).id = v.id /\ v \in Utente
             /\ v.id # m.id => N(v).admin = v.admin /\ N(v).agenteDi = v.agenteDi
             /\ v.id # m.id => N(v).attivo = (v.attivo /\ (m.attivo \/ v.agenteDi # m.id))
  BY DEF Nuova, Disattivato, Salvato, Utente, Tabella, Moduli
<1>3. /\ u \in Utente /\ u.id \in Id /\ u.id # 0 /\ m.id # 0 /\ \A v \in T : v.id = m.id => v = u
  BY <1>1 DEF Tabella, Utente, Id
<1>4. /\ N(u).id = m.id
      /\ N(u).admin = (IF m.admin = "assente" THEN u.admin ELSE m.admin = "si")
      /\ N(u).agenteDi = (IF m.op = "ldap" /\ m.agenteDi = 0 THEN u.agenteDi ELSE m.agenteDi)
      /\ N(u).attivo => m.attivo
      /\ N(u).agenteDi # m.id => N(u).attivo = m.attivo
  BY <1>1, <1>3 DEF Nuova, Disattivato, Salvato, Utente, Moduli
<1> HIDE DEF N
(* A person that is not the account of the form stays as it is. *)
<1>5. ASSUME NEW t \in T, t.id # m.id, t.agenteDi = 0
      PROVE  N(t).id = t.id /\ N(t).agenteDi = 0 /\ N(t).attivo = t.attivo
  BY <1>2, <1>3, <1>5 DEF Utente
<1>6. ASSUME NEW a \in T, N(a).agenteDi # 0
      PROVE  /\ ~N(a).admin
             /\ \E t \in T : /\ N(t).id = N(a).agenteDi /\ N(t).agenteDi = 0
                             /\ N(a).attivo /\ N(a).id \notin Directory => N(t).attivo
  <2>1. CASE a.id # m.id
    <3>1. a.agenteDi # 0 /\ ~a.admin /\ N(a).agenteDi = a.agenteDi /\ ~N(a).admin /\ N(a).id = a.id
      BY <1>2, <1>6, <2>1 DEF Regole
    <3>2. PICK t \in T :
            /\ t.id = a.agenteDi /\ t.agenteDi = 0
            /\ a.attivo /\ a.id \notin Directory => t.attivo
      BY <3>1 DEF Regole
    <3>3. N(a).attivo => a.attivo /\ (m.attivo \/ a.agenteDi # m.id)
      BY <1>2, <2>1
    <3>4. CASE t.id # m.id
      <4>1. N(t).id = t.id /\ N(t).agenteDi = 0 /\ N(t).attivo = t.attivo
        BY <1>5, <3>2, <3>4
      <4>2. N(a).attivo /\ N(a).id \notin Directory => N(t).attivo
        BY <3>1, <3>2, <3>3, <4>1
      <4> QED
        BY <3>1, <3>2, <4>1, <4>2
    <3>5. CASE t.id = m.id
      <4>0. t = u
        BY <1>3, <3>5
      <4>1. t = u /\ a.agenteDi = m.id /\ u.agenteDi = 0
        BY <3>2, <3>5, <4>0
      <4>2. m.agenteDi = 0
        BY <1>1, <4>1 DEF SenzaAgenti
      <4>3. N(u).agenteDi = 0 /\ N(u).attivo = m.attivo
        BY <1>3, <1>4, <4>1, <4>2
      <4> QED
        BY <1>4, <3>1, <3>3, <4>1, <4>3
    <3> QED
      BY <3>4, <3>5
  <2>2. CASE a.id = m.id
    <3>0. a = u
      BY <1>3, <2>2
    <3>1. CASE m.op = "salva"
      <4>1. N(u).agenteDi = m.agenteDi /\ m.agenteDi # 0
        BY <1>4, <1>6, <3>0, <3>1
      <4>2. SenzaRuolo(T, m) /\ Risponditore(T, m)
        BY <1>1, <3>1, <4>1
      <4>3. PICK t \in T : t.id = m.agenteDi /\ t.agenteDi = 0 /\ (m.attivo => t.attivo)
        BY <4>2 DEF Risponditore
      <4>4. t.id # m.id
        BY <4>2, <4>3 DEF SenzaRuolo
      <4>5. ~N(u).admin
        BY <1>3, <1>4, <4>2 DEF SenzaRuolo
      <4> QED
        BY <1>4, <1>5, <3>0, <4>1, <4>3, <4>4, <4>5
    <3>2. CASE m.op = "ldap"
      <4>1. m.agenteDi = u.agenteDi /\ m.id \in Directory /\ m.admin \in {"si", "no"} /\ N(u).agenteDi = u.agenteDi
            /\ u.agenteDi # 0
        BY <1>1, <1>4, <1>6, <3>0, <3>2
      <4>2. ~N(u).admin
        BY <1>1, <1>4, <3>2, <4>1
      <4>3. PICK t \in T : t.id = u.agenteDi /\ t.agenteDi = 0
        BY <4>1 DEF Regole
      <4>4. t.id # m.id
        BY <1>3, <4>1, <4>3
      <4> QED
        BY <1>4, <1>5, <3>0, <4>1, <4>2, <4>3, <4>4
    <3> QED
      BY <3>1, <3>2
  <2> QED
    BY <2>1, <2>2
<1> QED
  BY <1>6 DEF Regole, N

LEMMA AdminScrive ==
    ASSUME NEW T, Tabella(T), NEW m \in Moduli, m.op \in {"salva", "ldap"}, Controllato(T, m),
           AltroAdmin(T, m.id) \/ m.admin = "si"
    PROVE  ConAdmin({Nuova(u, m) : u \in T})
<1>1. CASE AltroAdmin(T, m.id)
  <2>1. PICK v \in T : v.admin /\ v.id # m.id
    BY <1>1 DEF AltroAdmin
  <2>2. Nuova(v, m).admin
    BY <2>1 DEF Nuova, Disattivato, Salvato, Tabella, Utente
  <2> QED
    BY <2>2 DEF ConAdmin
<1>2. CASE m.admin = "si"
  <2>1. PICK u \in T : u.id = m.id
    BY DEF Controllato
  <2>2. Nuova(u, m).admin
    BY <1>2, <2>1 DEF Nuova, Disattivato, Salvato, Tabella, Utente
  <2> QED
    BY <2>2 DEF ConAdmin
<1> QED
  BY <1>1, <1>2

LEMMA RegoleCancella ==
    ASSUME NEW T, Regole(T), NEW k, SenzaAgenti(T, k), AltroAdmin(T, k)
    PROVE  Regole({u \in T : u.id # k}) /\ ConAdmin({u \in T : u.id # k})
<1>1. ConAdmin({u \in T : u.id # k})
  BY DEF ConAdmin, AltroAdmin
<1>2. Regole({u \in T : u.id # k})
  <2> SUFFICES ASSUME NEW a \in T, a.id # k, a.agenteDi # 0
               PROVE  /\ ~a.admin
                      /\ \E t \in {u \in T : u.id # k} :
                           /\ t.id = a.agenteDi /\ t.agenteDi = 0
                           /\ a.attivo /\ a.id \notin Directory => t.attivo
    BY DEF Regole
  <2>1. PICK t \in T :
          /\ t.id = a.agenteDi /\ t.agenteDi = 0
          /\ a.attivo /\ a.id \notin Directory => t.attivo
    BY DEF Regole
  <2>2. t.id # k
    BY <2>1 DEF SenzaAgenti
  <2> QED
    BY <2>1, <2>2 DEF Regole
<1> QED
  BY <1>1, <1>2

LEMMA RegoleCrea ==
    ASSUME NEW T, Regole(T), ConAdmin(T), NEW m, NEW u,
           u.admin = (m.admin = "si"), u.attivo = m.attivo, u.agenteDi = m.agenteDi,
           m.agenteDi # 0 => m.admin = "no" /\ Risponditore(T, m)
    PROVE  Regole(T \cup {u}) /\ ConAdmin(T \cup {u})
<1>1. ConAdmin(T \cup {u})
  BY DEF ConAdmin
<1>2. Regole(T \cup {u})
  <2> SUFFICES ASSUME NEW a \in T \cup {u}, a.agenteDi # 0
               PROVE  /\ ~a.admin
                      /\ \E t \in T : /\ t.id = a.agenteDi /\ t.agenteDi = 0
                                      /\ a.attivo /\ a.id \notin Directory => t.attivo
    BY DEF Regole
  <2>1. CASE a \in T
    BY <2>1 DEF Regole
  <2>2. CASE a = u
    BY <2>2 DEF Risponditore
  <2> QED
    BY <2>1, <2>2
<1> QED
  BY <1>1, <1>2

(* With two administrators, another one is left. *)
LEMMA DueAdmin ==
    ASSUME NEW T, IsFiniteSet(T), Tabella(T), NEW k,
           ~(Cardinality({u \in T : u.admin}) <= 1)
    PROVE  AltroAdmin(T, k)
<1> DEFINE A == {u \in T : u.admin}
<1>1. IsFiniteSet(A)
  BY FS_Subset
<1> SUFFICES ASSUME \A u \in A : u.id = k PROVE FALSE
  BY DEF AltroAdmin
<1>2. \A u, v \in A : u = v
  BY DEF Tabella
<1>0. ~(Cardinality(A) <= 1)
  OBVIOUS
<1> HIDE DEF A
<1>3. CASE A = {}
  BY <1>0, <1>3, FS_EmptySet
<1>4. ASSUME NEW u \in A PROVE FALSE
  <2>1. A = {u}
    BY <1>2
  <2> QED
    <3>1. Cardinality({u}) = 1
      BY FS_Singleton
    <3> QED
      BY <1>0, <2>1, <3>1
<1> QED
  BY <1>3, <1>4

-----------------------------------------------------------------------------
(* One request at a time: nothing changes between its checks and its write. *)

LEMMA TabellaTipo == TypeOKUtenti => Tabella(utenti)
BY DEF TypeOKUtenti, Tabella

LEMMA ComeTabella ==
    ASSUME NEW m
    PROVE  /\ TecnicoValido(m) <=> Risponditore(utenti, m)
           /\ Agenti(m.id) = {} <=> SenzaAgenti(utenti, m.id)
           /\ Amministratori = {u \in utenti : u.admin}
           /\ UltimoAdmin <=> ConAdmin(utenti)
BY DEF TecnicoValido, Risponditore, Agenti, SenzaAgenti, Amministratori, UltimoAdmin, ConAdmin

LEMMA ModuloLibera ==
    ASSUME NEW T, NEW m
    PROVE  ModuloInv(T, "libera", m)
BY DEF ModuloInv

LEMMA ArrivaModulo ==
    ASSUME TypeOKUtenti, NEW r \in RichiesteUtenti, ArrivaUtenti(r)
    PROVE  utenti' = utenti /\ ModuloInv(utenti, query'[r], modulo'[r])
<1>1. ASSUME NEW m, NEW q, Comincia(r, m, q)
      PROVE  utenti' = utenti /\ query'[r] = q /\ modulo'[r] = m
  BY <1>1 DEF Comincia, TypeOKUtenti
<1>2. ASSUME NEW u \in utenti, NEW admin \in {"si", "no", "assente"}, NEW attivo \in BOOLEAN,
             NEW t \in {0, u.agenteDi} \cup Id, Update(r, u, admin, attivo, t)
      PROVE  utenti' = utenti /\ ModuloInv(utenti, query'[r], modulo'[r])
  <2> DEFINE m == [Vuoto EXCEPT !.op = "salva", !.id = u.id, !.admin = admin,
                                !.attivo = attivo, !.agenteDi = t]
  <2>1. m.op = "salva" /\ m.id = u.id /\ m.admin = admin /\ m.agenteDi = t
    BY DEF Vuoto
  <2>2. /\ Comincia(r, m, IF t = 0 THEN "ultimo" ELSE "tecnico")
        /\ t # 0 => (IF admin = "assente" THEN SiNo(u.admin) ELSE admin) = "no" /\ t # u.id
    BY <1>2 DEF Update
  <2> HIDE DEF m
  <2>3. utenti' = utenti /\ query'[r] = (IF t = 0 THEN "ultimo" ELSE "tecnico") /\ modulo'[r] = m
    BY <1>1, <2>2
  <2>4. CASE t = 0
    <3>1. Controllato(utenti, m)
      BY <2>1, <2>4 DEF Controllato
    <3>2. ModuloInv(utenti, "ultimo", m)
      BY <3>1 DEF ModuloInv
    <3> QED
      BY <2>3, <2>4, <3>2
  <2>5. CASE t # 0
    <3>1. SenzaRuolo(utenti, m)
      <4>1. admin = "no" \/ (admin = "assente" /\ ~u.admin)
        BY <2>2, <2>5 DEF SiNo
      <4> QED
        BY <2>1, <2>2, <2>5, <4>1 DEF SenzaRuolo
    <3>2. ModuloInv(utenti, "tecnico", m)
      BY <2>1, <2>5, <3>1 DEF ModuloInv
    <3> QED
      BY <2>3, <2>5, <3>2
  <2> QED
    BY <2>4, <2>5
<1>3. ASSUME NEW admin \in BOOLEAN, NEW attivo \in BOOLEAN, NEW t \in {0} \cup Id,
             Create(r, admin, attivo, t)
      PROVE  utenti' = utenti /\ ModuloInv(utenti, query'[r], modulo'[r])
  <2> DEFINE m == [Vuoto EXCEPT !.admin = SiNo(admin), !.attivo = attivo, !.agenteDi = t]
  <2>1. m.op = "crea" /\ m.admin = SiNo(admin) /\ m.agenteDi = t
    BY DEF Vuoto
  <2>2. Comincia(r, m, IF t = 0 THEN "crea" ELSE "tecnico") /\ (t # 0 => ~admin)
    BY <1>3 DEF Create
  <2> HIDE DEF m
  <2>3. utenti' = utenti /\ query'[r] = (IF t = 0 THEN "crea" ELSE "tecnico") /\ modulo'[r] = m
    BY <1>1, <2>2
  <2>4. ModuloInv(utenti, IF t = 0 THEN "crea" ELSE "tecnico", m)
    BY <2>1, <2>2 DEF ModuloInv, SiNo
  <2> QED
    BY <2>3, <2>4
<1>4. ASSUME NEW u \in utenti, Delete(r, u)
      PROVE  utenti' = utenti /\ ModuloInv(utenti, query'[r], modulo'[r])
  <2> DEFINE m == [Vuoto EXCEPT !.op = "cancella", !.id = u.id, !.admin = SiNo(u.admin),
                                !.attivo = u.attivo, !.agenteDi = u.agenteDi]
  <2>1. m.op = "cancella" /\ m.id = u.id /\ m.admin = SiNo(u.admin)
    BY DEF Vuoto
  <2>2. Comincia(r, m, "agenti")
    BY <1>4 DEF Delete
  <2> HIDE DEF m
  <2>3. ModuloInv(utenti, "agenti", m)
    BY <2>1 DEF ModuloInv
  <2> QED
    BY <1>1, <2>2, <2>3
<1>5. ASSUME NEW t \in utenti, creaAgente(r, t.id)
      PROVE  utenti' = utenti /\ ModuloInv(utenti, query'[r], modulo'[r])
  <2> DEFINE m == [Vuoto EXCEPT !.attivo = TRUE, !.agenteDi = t.id]
  <2>1. m.op = "crea" /\ m.admin = "no" /\ m.agenteDi = t.id /\ t.id # 0
    BY RigaTipo DEF Vuoto
  <2>2. Comincia(r, m, "tecnico")
    BY <1>5 DEF creaAgente
  <2> HIDE DEF m
  <2>3. ModuloInv(utenti, "tecnico", m)
    BY <2>1 DEF ModuloInv
  <2> QED
    BY <1>1, <2>2, <2>3
<1>6. ASSUME NEW attivo \in BOOLEAN, Register(r, attivo)
      PROVE  utenti' = utenti /\ ModuloInv(utenti, query'[r], modulo'[r])
  <2> DEFINE m == [Vuoto EXCEPT !.attivo = attivo]
  <2>1. m.agenteDi = 0
    BY DEF Vuoto
  <2>2. Comincia(r, m, "crea")
    BY <1>6 DEF Register
  <2> HIDE DEF m
  <2>3. ModuloInv(utenti, "crea", m)
    BY <2>1 DEF ModuloInv
  <2> QED
    BY <1>1, <2>2, <2>3
<1>7. ASSUME NEW id \in {0} \cup Directory, NEW lu \in LdapUser,
             Authenticate(r, id, lu) \/ GetUserInfoByEmailLocal(r, id, lu)
      PROVE  utenti' = utenti /\ ModuloInv(utenti, query'[r], modulo'[r])
  <2> DEFINE m == ToUser(id, lu)
  <2>1. m.op = "ldap" /\ m.id = id /\ m.agenteDi = 0
    BY DEF ToUser, Vuoto
  <2>2. PICK q \in {"gruppo", "mappa"} : Comincia(r, m, q)
    BY <1>7 DEF Authenticate, GetUserInfoByEmailLocal
  <2> HIDE DEF m
  <2>3. ModuloInv(utenti, q, m)
    BY <2>1 DEF ModuloInv
  <2> QED
    BY <1>1, <2>2, <2>3
<1> QED
  BY <1>2, <1>3, <1>4, <1>5, <1>6, <1>7 DEF ArrivaUtenti

LEMMA ProsegueModulo ==
    ASSUME TypeOKUtenti, IsFiniteSet(utenti), Regole(utenti), ConAdmin(utenti),
           NEW r \in RichiesteUtenti, ModuloInv(utenti, query[r], modulo[r]), ProsegueUtenti(r)
    PROVE  Regole(utenti') /\ ConAdmin(utenti') /\ ModuloInv(utenti', query'[r], modulo'[r])
<1> DEFINE m == modulo[r]
           Buona == Regole(utenti') /\ ConAdmin(utenti') /\ ModuloInv(utenti', query'[r], modulo'[r])
<1>1. m \in Moduli /\ Tabella(utenti)
  BY TabellaTipo DEF TypeOKUtenti
<1>2. /\ TecnicoValido(m) <=> Risponditore(utenti, m)
      /\ Agenti(m.id) = {} <=> SenzaAgenti(utenti, m.id)
      /\ Amministratori = {u \in utenti : u.admin}
  BY ComeTabella
<1>3. ASSUME NEW q, Prosegui(r, q), ModuloInv(utenti, q, m) PROVE Buona
  <2>1. utenti' = utenti /\ query'[r] = q /\ modulo'[r] = m
    BY <1>3 DEF Prosegui, TypeOKUtenti
  <2> QED
    BY <1>3, <2>1
<1>4. ASSUME TerminaUtenti(r) PROVE ModuloInv(utenti', query'[r], modulo'[r])
  <2>1. query'[r] = "libera"
    BY <1>4 DEF TerminaUtenti, TypeOKUtenti
  <2> QED
    BY <2>1, ModuloLibera
<1>5. ASSUME Rifiuta(r) PROVE Buona
  BY <1>4, <1>5 DEF Rifiuta
<1>6. ASSUME NEW trovato \in BOOLEAN, NEW nel \in BOOLEAN, verifyCredentials(r, trovato, nel)
      PROVE  Buona
  <2>1. query[r] = "gruppo" /\ Prosegui(r, "mappa")
    BY <1>6 DEF verifyCredentials
  <2>2. ModuloInv(utenti, "mappa", m)
    BY <2>1 DEF ModuloInv
  <2> QED
    BY <1>3, <2>1, <2>2
<1>7. ASSUME NEW trovato \in BOOLEAN, mapToLocalUser(r, trovato) PROVE Buona
  <2> DEFINE admin == isUserAdmin(m, trovato)
  <2>1. UNCHANGED utenti /\ m.op = "ldap" /\ m.id \in Directory \cup {0} /\ m.agenteDi = 0
    BY <1>7 DEF mapToLocalUser, ModuloInv
  <2>2. CASE /\ modulo' = [modulo EXCEPT ![r].op = "crea", ![r].id = 0, ![r].admin = SiNo(admin)]
             /\ query' = [query EXCEPT ![r] = "crea"]
    <3>1. query'[r] = "crea" /\ modulo'[r].agenteDi = 0
      BY <1>1, <2>1, <2>2 DEF TypeOKUtenti, Moduli
    <3>2. ModuloInv(utenti, query'[r], modulo'[r])
      BY <3>1 DEF ModuloInv
    <3> QED
      BY <2>1, <3>2
  <2>3. ASSUME NEW u \in utenti, u.id = m.id,
               modulo' = [modulo EXCEPT ![r].admin = Sincronizzato(u, admin), ![r].agenteDi = u.agenteDi],
               query' = [query EXCEPT ![r] = "ultimo"]
        PROVE  Buona
    <3>1. PICK n : n = modulo'[r]
      OBVIOUS
    <3>2. /\ query'[r] = "ultimo" /\ n.op = "ldap" /\ n.id = u.id /\ n.agenteDi = u.agenteDi
          /\ n.admin = Sincronizzato(u, admin)
      BY <1>1, <2>1, <2>3, <3>1 DEF TypeOKUtenti, Moduli
    <3>3. n.admin \in {"si", "no"} /\ (u.agenteDi # 0 => n.admin = "no")
      BY <3>2 DEF Sincronizzato, SiNo, Regole
    <3>4. n.id \in Directory
      BY <2>1, <2>3, <3>2, RigaTipo
    <3>5. Controllato(utenti, n)
      BY <3>2, <3>3, <3>4 DEF Controllato
    <3>6. ModuloInv(utenti, "ultimo", n)
      BY <3>5 DEF ModuloInv
    <3> QED
      BY <2>1, <3>1, <3>2, <3>6
  <2> QED
    BY <1>7, <2>2, <2>3 DEF mapToLocalUser
<1>8. ASSUME ControllaAgente(r) PROVE Buona
  <2>1. CASE TecnicoValido(m) /\ Prosegui(r, IF m.op = "crea" THEN "crea" ELSE "agenti")
    <3>1. query[r] = "tecnico"
      BY <1>8 DEF ControllaAgente
    <3>2. ModuloInv(utenti, IF m.op = "crea" THEN "crea" ELSE "agenti", m)
      BY <1>2, <2>1, <3>1 DEF ModuloInv
    <3> QED
      BY <1>3, <2>1, <3>2
  <2> QED
    BY <1>5, <1>8, <2>1 DEF ControllaAgente
<1>9. ASSUME contaAgenti(r) PROVE Buona
  <2> DEFINE q == IF m.op = "salva" THEN "ultimo" ELSE IF m.admin = "si" THEN "conta" ELSE "scrive"
  <2>1. CASE Agenti(m.id) = {} /\ Prosegui(r, q)
    <3>1. query[r] = "agenti"
      BY <1>9 DEF contaAgenti
    <3>2. Controllato(utenti, m)
      BY <1>2, <2>1, <3>1 DEF ModuloInv, Controllato, SenzaRuolo
    <3>3. q = "scrive" => AltroAdmin(utenti, m.id)
      <4> SUFFICES ASSUME m.op # "salva", m.admin # "si" PROVE AltroAdmin(utenti, m.id)
        OBVIOUS
      <4>1. PICK u \in utenti : u.id = m.id /\ m.admin = SiNo(u.admin)
        BY <3>1 DEF ModuloInv
      <4>2. ~u.admin
        BY <4>1 DEF SiNo
      <4> QED
        BY <1>1, <4>1, <4>2 DEF AltroAdmin, ConAdmin, Tabella
    <3>4. ModuloInv(utenti, q, m)
      BY <3>2, <3>3 DEF ModuloInv
    <3> QED
      BY <1>3, <2>1, <3>4
  <2> QED
    BY <1>5, <1>9, <2>1 DEF contaAgenti
<1>10. ASSUME controllaUltimoAdmin(r) PROVE Buona
  <2>1. ASSUME NEW u \in utenti, u.id = m.id, Prosegui(r, IF u.admin THEN "conta" ELSE "scrive")
        PROVE  Buona
    <3>1. Controllato(utenti, m)
      BY <1>10 DEF controllaUltimoAdmin, ModuloInv
    <3>2. ~u.admin => AltroAdmin(utenti, m.id)
      BY <1>1, <2>1 DEF AltroAdmin, ConAdmin, Tabella
    <3>3. ModuloInv(utenti, IF u.admin THEN "conta" ELSE "scrive", m)
      BY <3>1, <3>2 DEF ModuloInv
    <3> QED
      BY <1>3, <2>1, <3>3
  <2> QED
    BY <1>5, <1>10, <2>1 DEF controllaUltimoAdmin
<1>11. ASSUME getAdminUserCount(r) PROVE Buona
  <2>1. CASE ~(Cardinality(Amministratori) <= 1 /\ Toglie(m)) /\ Prosegui(r, "scrive")
    <3>1. Controllato(utenti, m)
      BY <1>11 DEF getAdminUserCount, ModuloInv
    <3>2. AltroAdmin(utenti, m.id) \/ (m.op # "cancella" /\ m.admin = "si")
      <4>1. CASE Toglie(m)
        <5>1. ~(Cardinality({u \in utenti : u.admin}) <= 1)
          BY <1>2, <2>1, <4>1
        <5> QED
          BY <1>1, <5>1, DueAdmin
      <4>2. CASE ~Toglie(m)
        BY <4>2 DEF Toglie
      <4> QED
        BY <4>1, <4>2
    <3>3. ModuloInv(utenti, "scrive", m)
      BY <3>1, <3>2 DEF ModuloInv
    <3> QED
      BY <1>3, <2>1, <3>3
  <2> QED
    BY <1>5, <1>11, <2>1 DEF getAdminUserCount
<1>12. ASSUME Scrive(r) PROVE Buona
  <2>1. /\ utenti' = {Nuova(u, m) : u \in utenti} /\ TerminaUtenti(r)
        /\ query[r] = "scrive" /\ m.op \in {"salva", "ldap"}
    BY <1>12 DEF Scrive, Nuova
  <2>2. Controllato(utenti, m) /\ (AltroAdmin(utenti, m.id) \/ m.admin = "si")
    BY <2>1 DEF ModuloInv
  <2>3. Regole(utenti') /\ ConAdmin(utenti')
    BY <1>1, <2>1, <2>2, RegoleScrive, AdminScrive
  <2> QED
    BY <1>4, <2>1, <2>3
<1>13. ASSUME Cancella(r) PROVE Buona
  <2>1. /\ utenti' = {u \in utenti : u.id # m.id} /\ TerminaUtenti(r)
        /\ query[r] = "scrive" /\ m.op = "cancella"
    BY <1>13 DEF Cancella
  <2>2. SenzaAgenti(utenti, m.id) /\ AltroAdmin(utenti, m.id)
    BY <2>1 DEF ModuloInv, Controllato
  <2>3. Regole(utenti') /\ ConAdmin(utenti')
    BY <2>1, <2>2, RegoleCancella
  <2> QED
    BY <1>4, <2>1, <2>3
<1>14. ASSUME Crea(r) PROVE Buona
  <2>1. PICK u : /\ utenti' = utenti \cup {u} /\ TerminaUtenti(r) /\ query[r] = "crea"
                 /\ u.admin = (m.admin = "si") /\ u.attivo = m.attivo /\ u.agenteDi = m.agenteDi
    <3> DEFINE u == [id |-> nuovo, admin |-> m.admin = "si", attivo |-> m.attivo, agenteDi |-> m.agenteDi]
    <3>1. utenti' = utenti \cup {u} /\ TerminaUtenti(r) /\ query[r] = "crea"
      BY <1>14 DEF Crea
    <3>2. u.admin = (m.admin = "si") /\ u.attivo = m.attivo /\ u.agenteDi = m.agenteDi
      OBVIOUS
    <3> HIDE DEF u
    <3> QED
      BY <3>1, <3>2
  <2>2. m.agenteDi # 0 => m.admin = "no" /\ Risponditore(utenti, m)
    BY <2>1 DEF ModuloInv
  <2>3. Regole(utenti') /\ ConAdmin(utenti')
    BY <2>1, <2>2, RegoleCrea
  <2> QED
    BY <1>4, <2>1, <2>3
<1>15. ASSUME Fallisce(r) PROVE Buona
  BY <1>5, <1>15 DEF Fallisce
<1> QED
  BY <1>6, <1>7, <1>8, <1>9, <1>10, <1>11, <1>12, <1>13, <1>14, <1>15 DEF ProsegueUtenti

LEMMA InizioUtenti == InitUtenti => UtentiInv
<1> SUFFICES ASSUME InitUtenti PROVE UtentiInv
  OBVIOUS
<1> DEFINE u == [id |-> 1, admin |-> TRUE, attivo |-> TRUE, agenteDi |-> 0]
<1>1. utenti = {u} /\ nuovo = 2
  BY DEF InitUtenti
<1>2. u \in Utente /\ u.id = 1 /\ u.admin = TRUE /\ u.agenteDi = 0
  BY UtentiAssumption DEF Utente, Id
<1> HIDE DEF u
<1>3. TypeOKUtenti
  BY <1>1, <1>2, VuotoTipo, UtentiAssumption DEF TypeOKUtenti, InitUtenti
<1>4. IsFiniteSet(utenti)
  BY <1>1, FS_Singleton
<1>5. Regole(utenti) /\ ConAdmin(utenti)
  BY <1>1, <1>2 DEF Regole, ConAdmin
<1>6. \A r \in RichiesteUtenti : ModuloInv(utenti, query[r], modulo[r])
  BY ModuloLibera DEF InitUtenti
<1> QED
  BY <1>3, <1>4, <1>5, <1>6 DEF UtentiInv, SequenzaInv

LEMMA UtentiPasso == UtentiInv /\ [NextUtenti]_varsUtenti => UtentiInv'
<1> SUFFICES ASSUME UtentiInv, [NextUtenti]_varsUtenti PROVE UtentiInv'
  OBVIOUS
<1>1. TypeOKUtenti /\ IsFiniteSet(utenti)
  BY DEF UtentiInv
<1>2. TypeOKUtenti'
  <2>1. CASE UNCHANGED varsUtenti
    BY <1>1, <2>1 DEF varsUtenti, TypeOKUtenti
  <2> QED
    BY <1>1, <2>1, ArrivaTipo, ProsegueTipoUtenti DEF NextUtenti
<1>3. IsFiniteSet(utenti')
  BY <1>1, FinitaPasso
<1>4. ASSUME Sequenza
      PROVE  /\ Regole(utenti') /\ ConAdmin(utenti')
             /\ \A r \in RichiesteUtenti : ModuloInv(utenti', query'[r], modulo'[r])
  <2>0. SequenzaInv
    BY <1>4 DEF UtentiInv
  <2>1. CASE UNCHANGED varsUtenti
    BY <2>0, <2>1 DEF varsUtenti, SequenzaInv
  <2>2. ASSUME NEW r \in RichiesteUtenti, ArrivaUtenti(r) \/ ProsegueUtenti(r)
        PROVE  Regole(utenti') /\ ConAdmin(utenti') /\ ModuloInv(utenti', query'[r], modulo'[r])
    <3>1. CASE ArrivaUtenti(r)
      BY <1>1, <2>0, <3>1, ArrivaModulo DEF SequenzaInv
    <3>2. CASE ProsegueUtenti(r)
      BY <1>1, <2>0, <3>2, ProsegueModulo DEF SequenzaInv
    <3> QED
      BY <2>2, <3>1, <3>2
  <2>3. ASSUME NEW r \in RichiesteUtenti, ArrivaUtenti(r) \/ ProsegueUtenti(r)
        PROVE  \A s \in RichiesteUtenti : ModuloInv(utenti', query'[s], modulo'[s])
    <3>1. \A s \in RichiesteUtenti : s = r
      BY <1>4, UnaAllaVolta
    <3> QED
      BY <2>2, <2>3, <3>1
  <2> QED
    BY <2>1, <2>2, <2>3 DEF NextUtenti
<1>5. Sequenza' = Sequenza
  BY DEF Sequenza
<1> QED
  BY <1>2, <1>3, <1>4, <1>5 DEF UtentiInv, SequenzaInv

LEMMA UtentiSempre == SpecUtenti => []UtentiInv
BY InizioUtenti, UtentiPasso, PTL DEF SpecUtenti

(* After any sequence of requests, one at a time, the agents keep to their rules:
   ControllaAgente, contaAgenti, agenteValido, disattivaAgenti, mapToLocalUser. *)
THEOREM AgentiInRegola == SpecUtenti => []RegoleAgenti
<1>1. UtentiInv => RegoleAgenti
  BY DEF UtentiInv, SequenzaInv, Regole, RegoleAgenti
<1> QED
  BY <1>1, UtentiSempre, PTL

(* And an administrator is always there: controllaUltimoAdmin, getAdminUserCount. *)
THEOREM MaiSenzaAdmin == SpecUtenti => []UltimoAdminInSequenza
<1>1. UtentiInv => UltimoAdminInSequenza
  BY DEF UtentiInv, SequenzaInv, UltimoAdminInSequenza, UltimoAdmin, ConAdmin, Amministratori
<1> QED
  BY <1>1, UtentiSempre, PTL

(* Whatever requests run at once, the table keeps its key and its types. *)
THEOREM TipiUtenti == SpecUtenti => []TypeOKUtenti
<1>1. UtentiInv => TypeOKUtenti
  BY DEF UtentiInv
<1> QED
  BY <1>1, UtentiSempre, PTL

-----------------------------------------------------------------------------
(***************************************************************************)
(* Module Limitatore. The attempts of an address stay under the threshold, *)
(* however many requests record them at once; a captcha is consumed by the *)
(* one that reads it (CaptchaInv); and only the requests that were past    *)
(* the check when a ban began go on in it (OltreInv).                      *)
(***************************************************************************)

USE LimitatoreAssumption

Passi == {"libera", "stato", "captcha", "password", "sbagliata",
          "malformata", "risponde", "pulisce", "richiede", "genera"}

(* The types of what the limiter keeps. *)
TipiLimite ==
    /\ attempts \in [Indirizzi -> SUBSET Tentativo]
    /\ \A ip \in Indirizzi : IsFiniteSet(attempts[ip])
    /\ captchas \subseteq Meta
    /\ bannedIPs \subseteq Bando

(* The types of the requests. *)
TipiRichieste ==
    /\ pc \in [Richieste -> Passi]
    /\ richiesta \in [Richieste -> Richiesta]
    /\ \A r \in Richieste : pc[r] # "libera" => richiesta[r].ip \in Indirizzi

(* The type invariant by parts: the limiter, the requests, the history. *)
LEMMA Tipi == TypeOK <=>
    TipiLimite /\ TipiRichieste /\ oltre \in [Indirizzi -> 0 .. Cardinality(Richieste)]
BY DEF TypeOK, TipiLimite, TipiRichieste, Passi

(* There is a number for the attempt of now: those in use are fewer. *)
LEMMA NumeroLibero ==
    ASSUME NEW V \in SUBSET Tentativo, IsFiniteSet(V)
    PROVE  \E k \in 1 .. Cardinality(V) + 1 : \A t \in V : t.n # k
<1> DEFINE N == {t.n : t \in V}
           f == [t \in V |-> t.n]
<1>1. Cardinality(V) \in Nat
  BY FS_CardinalityType
<1>2. f \in Surjection(V, N)
  BY DEF Surjection
<1>3. IsFiniteSet(N) /\ Cardinality(N) <= Cardinality(V)
  BY <1>2, FS_Surjection
<1>4. Cardinality(1 .. Cardinality(V) + 1) = Cardinality(V) + 1
  BY <1>1, FS_Interval
<1>5. Cardinality(N) \in Nat
  BY <1>3, FS_CardinalityType
<1>6. SUFFICES ASSUME \A k \in 1 .. Cardinality(V) + 1 : k \in N
               PROVE  FALSE
  OBVIOUS
<1>7. 1 .. Cardinality(V) + 1 \in SUBSET N
  BY <1>6
<1>8. Cardinality(1 .. Cardinality(V) + 1) <= Cardinality(N)
  BY <1>3, <1>7, FS_Subset
<1> HIDE DEF N
<1> QED
  BY <1>1, <1>3, <1>4, <1>5, <1>8

(* The attempt of now is one more. *)
LEMMA AdessoTipo ==
    ASSUME NEW V \in SUBSET Tentativo, IsFiniteSet(V)
    PROVE  /\ Adesso(V) \in Tentativo
           /\ V \cup {Adesso(V)} \in SUBSET Tentativo
           /\ IsFiniteSet(V \cup {Adesso(V)})
<1>1. Cardinality(V) \in Nat
  BY FS_CardinalityType
<1> DEFINE n == CHOOSE k \in 1 .. Cardinality(V) + 1 : \A t \in V : t.n # k
<1>2. n \in 1 .. Cardinality(V) + 1
  BY NumeroLibero
<1>3. Adesso(V) = [n |-> n, eta |-> 0]
  BY DEF Adesso
<1> HIDE DEF n
<1>4. n \in Nat \ {0}
  BY <1>1, <1>2
<1>5. Adesso(V) \in Tentativo
  BY <1>3, <1>4 DEF Tentativo
<1> QED
  BY <1>5, FS_AddElement

(* What pruneAttempts leaves was there. *)
LEMMA PuliteTipo ==
    ASSUME TipiLimite, NEW ip \in Indirizzi
    PROVE  /\ pruneAttempts(ip) \in SUBSET Tentativo
           /\ pruneAttempts(ip) \in SUBSET attempts[ip]
           /\ IsFiniteSet(pruneAttempts(ip))
           /\ Cardinality(pruneAttempts(ip)) \in Nat
           /\ Cardinality(attempts[ip]) \in Nat
           /\ Cardinality(pruneAttempts(ip)) <= Cardinality(attempts[ip])
<1>1. pruneAttempts(ip) \in SUBSET attempts[ip] /\ attempts[ip] \in SUBSET Tentativo
  BY DEF pruneAttempts, TipiLimite
<1>2. IsFiniteSet(attempts[ip])
  BY DEF TipiLimite
<1> QED
  BY <1>1, <1>2, FS_Subset, FS_CardinalityType

(* Attempts that grow older are no more than before. *)
LEMMA VecchieTipo ==
    ASSUME NEW V \in SUBSET Tentativo, IsFiniteSet(V)
    PROVE  /\ {Invecchia(t) : t \in V} \in SUBSET Tentativo
           /\ IsFiniteSet({Invecchia(t) : t \in V})
           /\ Cardinality({Invecchia(t) : t \in V}) <= Cardinality(V)
<1> DEFINE W == {Invecchia(t) : t \in V}
           f == [t \in V |-> Invecchia(t)]
<1>1. f \in Surjection(V, W)
  BY DEF Surjection
<1>2. IsFiniteSet(W) /\ Cardinality(W) <= Cardinality(V)
  BY <1>1, FS_Surjection
<1>3. ASSUME NEW t \in Tentativo
      PROVE  Invecchia(t) \in Tentativo
  BY DEF Invecchia, Tentativo
<1> QED
  BY <1>2, <1>3

(* What the methods of the limiter keep. *)
LEMMA ControlloTipo ==
    ASSUME TipiLimite, NEW ip \in Indirizzi, CheckSecurityStatus(ip)
    PROVE  /\ TipiLimite'
           /\ bannedIPs' \subseteq bannedIPs
           /\ \A jp \in Indirizzi : attempts'[jp] \in SUBSET attempts[jp]
<1>1. captchas' = captchas
  BY DEF CheckSecurityStatus
<1>2. bannedIPs' \subseteq bannedIPs
  BY DEF CheckSecurityStatus, BandiLetti
<1>3. attempts' \in [Indirizzi -> SUBSET Tentativo]
  BY PuliteTipo DEF CheckSecurityStatus, TipiLimite
<1>4. \A jp \in Indirizzi : attempts'[jp] \in SUBSET attempts[jp]
  BY PuliteTipo DEF CheckSecurityStatus, TipiLimite
<1>5. \A jp \in Indirizzi : IsFiniteSet(attempts'[jp])
  BY <1>4, FS_Subset DEF TipiLimite
<1> QED
  BY <1>1, <1>2, <1>3, <1>4, <1>5 DEF TipiLimite

(* A failed attempt, recorded or turned into a ban. *)
LEMMA FallitoTipo ==
    ASSUME TipiLimite, NEW ip \in Indirizzi, RecordFailedAttempt(ip)
    PROVE  TipiLimite'
<1> DEFINE valid == pruneAttempts(ip)
           validi == valid \cup {Adesso(valid)}
<1>1. /\ valid \in SUBSET Tentativo /\ IsFiniteSet(valid)
      /\ validi \in SUBSET Tentativo /\ IsFiniteSet(validi)
  BY PuliteTipo, AdessoTipo
<1>2. captchas' = captchas
  BY DEF RecordFailedAttempt
<1>3. CASE Tace(ip) /\ UNCHANGED <<attempts, bannedIPs, oltre>>
  BY <1>2, <1>3 DEF TipiLimite
<1>4. CASE banIP(ip, validi)
  <2>1. [ip |-> ip, resta |-> BanDuration] \in Bando
    BY DEF Bando
  <2>2. bannedIPs' \subseteq Bando
    BY <1>4, <2>1 DEF banIP, TipiLimite
  <2>3. attempts' \in [Indirizzi -> SUBSET Tentativo] /\ \A jp \in Indirizzi : IsFiniteSet(attempts'[jp])
    BY <1>4, FS_EmptySet DEF banIP, TipiLimite
  <2> QED
    BY <1>2, <2>2, <2>3 DEF TipiLimite
<1>5. CASE /\ attempts' = [attempts EXCEPT ![ip] = validi]
           /\ bannedIPs' = BandiLetti(ip)
           /\ UNCHANGED oltre
  <2>1. attempts' \in [Indirizzi -> SUBSET Tentativo] /\ \A jp \in Indirizzi : IsFiniteSet(attempts'[jp])
    BY <1>1, <1>5 DEF TipiLimite
  <2>2. bannedIPs' \subseteq Bando
    BY <1>5 DEF BandiLetti, TipiLimite
  <2> QED
    BY <1>2, <1>5, <2>1, <2>2 DEF TipiLimite
<1> QED
  BY <1>3, <1>4, <1>5 DEF RecordFailedAttempt

(* What a step may do to the limiter: call one of its methods, or none. *)
Metodo ==
    \/ UNCHANGED limite
    \/ \E ip \in Indirizzi : CheckSecurityStatus(ip)
    \/ \E ip \in Indirizzi : RecordFailedAttempt(ip)
    \/ \E ip \in Indirizzi : RemoveAttempts(ip)
    \/ captchas' \subseteq captchas /\ UNCHANGED <<attempts, bannedIPs>>
    \/ \E id \in Captcha : RequireCaptcha(id)
    \/ cleanupExpired
    \/ Passa

(* A step calls one method of the limiter at most, or is a unit of time. *)
LEMMA UnMetodo ==
    ASSUME TipiRichieste, [Next]_vars
    PROVE  Metodo
<1>1. CASE UNCHANGED vars
  BY <1>1 DEF vars, limite, Metodo
<1>2. CASE cleanupExpired \/ Passa
  BY <1>2 DEF Metodo
<1>3. ASSUME NEW r \in Richieste, Arriva(r)
      PROVE  Metodo
  BY <1>3 DEF Arriva, Limiter, Metodo
<1>4. ASSUME NEW r \in Richieste, Prosegue(r)
      PROVE  Metodo
  <2>1. pc[r] # "libera" => richiesta[r].ip \in Indirizzi
    BY DEF TipiRichieste
  <2>2. CASE \E malformata \in BOOLEAN : ControllaPannello(r, malformata)
    BY <2>1, <2>2 DEF ControllaPannello, Metodo
  <2>3. CASE \E c \in captchas : CaptchaGiusto(r, c)
    BY <2>3 DEF CaptchaGiusto, Consuma, Metodo
  <2>4. CASE \E scaduti \in {{}} \cup {{c} : c \in captchas \ pruneCaptchas} : CaptchaSbagliato(r, scaduti)
    BY <2>4 DEF CaptchaSbagliato, Metodo
  <2>5. CASE PasswordGiusta(r) \/ PasswordSbagliata(r) \/ NonConta(r) \/ CaptchaError(r)
    BY <2>5 DEF PasswordGiusta, PasswordSbagliata, NonConta, CaptchaError, Metodo, limite
  <2>6. CASE RegistraFallito(r)
    BY <2>1, <2>6 DEF RegistraFallito, Metodo
  <2>7. CASE Risponde(r) \/ ChiediCaptcha(r)
    BY <2>1, <2>7 DEF Risponde, ChiediCaptcha, Metodo
  <2>8. CASE Pulisce(r)
    BY <2>1, <2>8 DEF Pulisce, Metodo
  <2>9. CASE \E id \in Captcha : GeneraCaptcha(r, id)
    BY <2>9 DEF GeneraCaptcha, Metodo
  <2> QED
    BY <1>4, <2>2, <2>3, <2>4, <2>5, <2>6, <2>7, <2>8, <2>9 DEF Prosegue
<1> QED
  BY <1>1, <1>2, <1>3, <1>4 DEF Next

(* So every step keeps the types of the limiter. *)
LEMMA MetodoTipo ==
    ASSUME TipiLimite, Metodo
    PROVE  TipiLimite'
<1>1. CASE UNCHANGED limite
  BY <1>1 DEF TipiLimite, limite
<1>2. ASSUME NEW ip \in Indirizzi, CheckSecurityStatus(ip)
      PROVE  TipiLimite'
  BY <1>2, ControlloTipo
<1>3. ASSUME NEW ip \in Indirizzi, RecordFailedAttempt(ip)
      PROVE  TipiLimite'
  BY <1>3, FallitoTipo
<1>4. ASSUME NEW ip \in Indirizzi, RemoveAttempts(ip)
      PROVE  TipiLimite'
  BY <1>4, FS_EmptySet DEF RemoveAttempts, TipiLimite
<1>5. CASE captchas' \subseteq captchas /\ UNCHANGED <<attempts, bannedIPs>>
  BY <1>5 DEF TipiLimite
<1>6. ASSUME NEW id \in Captcha, RequireCaptcha(id)
      PROVE  TipiLimite'
  BY <1>6 DEF RequireCaptcha, TipiLimite, Meta
<1>7. CASE cleanupExpired
  <2>1. attempts' \in [Indirizzi -> SUBSET Tentativo] /\ \A ip \in Indirizzi : IsFiniteSet(attempts'[ip])
    BY <1>7, PuliteTipo DEF cleanupExpired
  <2> QED
    BY <1>7, <2>1 DEF cleanupExpired, pruneCaptchas, TipiLimite
<1>8. CASE Passa
  <2>1. attempts' \in [Indirizzi -> SUBSET Tentativo] /\ \A ip \in Indirizzi : IsFiniteSet(attempts'[ip])
    BY <1>8, VecchieTipo DEF Passa, TipiLimite
  <2>2. ASSUME NEW c \in Meta
        PROVE  [c EXCEPT !.resta = Meno(@)] \in Meta
    BY DEF Meta, Meno
  <2>3. ASSUME NEW b \in Bando
        PROVE  [b EXCEPT !.resta = Meno(@)] \in Bando
    BY DEF Bando, Meno
  <2> QED
    BY <1>8, <2>1, <2>2, <2>3 DEF Passa, TipiLimite
<1> QED
  BY <1>1, <1>2, <1>3, <1>4, <1>5, <1>6, <1>7, <1>8 DEF Metodo

(* A request that goes on, or ends, keeps the types of what it holds. *)
LEMMA VaTipo ==
    ASSUME TipiRichieste, NEW r \in Richieste, NEW passo \in Passi, Va(r, passo),
           richiesta' \in [Richieste -> Richiesta],
           \A s \in Richieste \ {r} : richiesta'[s] = richiesta[s],
           passo # "libera" => richiesta'[r].ip \in Indirizzi
    PROVE  TipiRichieste'
BY DEF Va, TipiRichieste

(* A request that ends holds nothing. *)
LEMMA TerminaTipo ==
    ASSUME TipiRichieste, NEW r \in Richieste, Termina(r)
    PROVE  TipiRichieste'
<1>1. Vuota \in Richiesta
  BY DEF Vuota, Richiesta, Vie
<1> QED
  BY <1>1 DEF Termina, Va, TipiRichieste, Passi

(* Every step keeps the types of the requests. *)
LEMMA RichiesteTipo ==
    ASSUME TypeOK, [Next]_vars
    PROVE  TipiRichieste'
<1> USE Tipi
<1>1. CASE UNCHANGED <<pc, richiesta>>
  BY <1>1 DEF TipiRichieste
<1>2. ASSUME NEW r \in Richieste, NEW via \in Vie, NEW ip \in Indirizzi, Limiter(r, via, ip)
      PROVE  TipiRichieste'
  <2>1. CASE via = "altra"
    <3>1. Termina(r)
      BY <1>2, <2>1 DEF Limiter, Rotta, Termina
    <3> QED
      BY <3>1, TerminaTipo
  <2>2. CASE via # "altra"
    <3>1. [via |-> via, ip |-> ip, captcha |-> Nessuno] \in Richiesta
      BY DEF Richiesta
    <3>2. Rotta(via) \in Passi
      BY DEF Rotta, Vie, Passi
    <3>3. richiesta' = [richiesta EXCEPT ![r] = [via |-> via, ip |-> ip, captcha |-> Nessuno]]
      BY <1>2, <2>2 DEF Limiter
    <3> QED
      BY <1>2, <3>1, <3>2, <3>3, VaTipo DEF Limiter, TipiRichieste
  <2> QED
    BY <2>1, <2>2
<1>3. ASSUME NEW r \in Richieste, Prosegue(r)
      PROVE  TipiRichieste'
  <2>1. ASSUME NEW passo \in Passi, Va(r, passo), UNCHANGED richiesta, pc[r] # "libera"
        PROVE  TipiRichieste'
    BY <2>1 DEF Va, TipiRichieste
  <2>2. CASE \E malformata \in BOOLEAN : ControllaPannello(r, malformata)
    BY <2>1, <2>2 DEF ControllaPannello, Passi
  <2>3. ASSUME NEW c \in captchas, CaptchaGiusto(r, c)
        PROVE  TipiRichieste'
    <3>1. c.id \in Captcha
      BY DEF TipiLimite, Meta
    <3>2. richiesta' \in [Richieste -> Richiesta] /\ richiesta'[r].ip = richiesta[r].ip
      BY <2>3, <3>1 DEF CaptchaGiusto, TipiRichieste, Richiesta
    <3>3. richiesta[r].ip \in Indirizzi
      BY <2>3 DEF CaptchaGiusto, TipiRichieste
    <3>4. \A s \in Richieste \ {r} : richiesta'[s] = richiesta[s]
      BY <2>3 DEF CaptchaGiusto, TipiRichieste
    <3> QED
      BY <2>3, <3>2, <3>3, <3>4, VaTipo DEF CaptchaGiusto, Passi
  <2>4. CASE \E scaduti \in {{}} \cup {{c} : c \in captchas \ pruneCaptchas} : CaptchaSbagliato(r, scaduti)
    BY <2>4, TerminaTipo DEF CaptchaSbagliato
  <2>5. CASE PasswordGiusta(r) \/ PasswordSbagliata(r)
    BY <2>1, <2>5, TerminaTipo DEF PasswordGiusta, PasswordSbagliata, Passi
  <2>6. CASE RegistraFallito(r)
    BY <2>1, <2>6, TerminaTipo DEF RegistraFallito, Passi
  <2>7. CASE ChiediCaptcha(r)
    BY <2>1, <2>7, TerminaTipo DEF ChiediCaptcha, Passi
  <2>8. CASE NonConta(r) \/ CaptchaError(r) \/ Risponde(r) \/ Pulisce(r)
    BY <2>8, TerminaTipo DEF NonConta, CaptchaError, Risponde, Pulisce
  <2>9. CASE \E id \in Captcha : GeneraCaptcha(r, id)
    BY <2>9, TerminaTipo DEF GeneraCaptcha
  <2> QED
    BY <1>3, <2>2, <2>3, <2>4, <2>5, <2>6, <2>7, <2>8, <2>9 DEF Prosegue
<1>4. CASE cleanupExpired \/ Passa
  BY <1>1, <1>4 DEF cleanupExpired, Passa
<1> QED
  BY <1>1, <1>2, <1>3, <1>4 DEF Next, Arriva, vars

(* Nobody has asked anything at the start. *)
LEMMA InizioTipo ==
    ASSUME Init
    PROVE  TypeOK
<1>1. TipiLimite
  BY FS_EmptySet DEF Init, TipiLimite
<1>2. TipiRichieste
  BY DEF Init, TipiRichieste, Passi, Vuota, Richiesta, Vie
<1>3. Cardinality(Richieste) \in Nat
  BY FS_CardinalityType
<1>4. oltre \in [Indirizzi -> 0 .. Cardinality(Richieste)]
  BY <1>3 DEF Init
<1> QED
  BY <1>1, <1>2, <1>4, Tipi

(* The type invariant is inductive. *)
LEMMA PassoTipo ==
    ASSUME TypeOK, [Next]_vars
    PROVE  TypeOK'
<1>1. TipiLimite' /\ TipiRichieste'
  BY Tipi, UnMetodo, MetodoTipo, RichiesteTipo
<1>2. Cardinality(Richieste) \in Nat
  BY FS_CardinalityType
<1>3. oltre' \in [Indirizzi -> 0 .. Cardinality(Richieste)]
  <2> USE Tipi
  <2>1. CASE UNCHANGED oltre
    BY <2>1
  <2>2. ASSUME NEW ip \in Indirizzi, RecordFailedAttempt(ip)
        PROVE  oltre' \in [Indirizzi -> 0 .. Cardinality(Richieste)]
    BY <1>2, <2>2 DEF RecordFailedAttempt, banIP
  <2>3. ASSUME NEW r \in Richieste, PasswordSbagliata(r)
        PROVE  oltre' \in [Indirizzi -> 0 .. Cardinality(Richieste)]
    <3>1. CASE oltre' = oltre
      BY <3>1
    <3>2. ASSUME NEW ip \in Indirizzi, oltre[ip] < Cardinality(Richieste),
                 oltre' = [oltre EXCEPT ![ip] = @ + 1]
          PROVE  oltre' \in [Indirizzi -> 0 .. Cardinality(Richieste)]
      <4>1. oltre[ip] + 1 \in 0 .. Cardinality(Richieste)
        BY <1>2, <3>2
      <4> QED
        BY <3>2, <4>1
    <3>3. richiesta[r].ip \in Indirizzi
      BY <2>3 DEF PasswordSbagliata, TipiRichieste
    <3> QED
      BY <2>3, <3>1, <3>2, <3>3 DEF PasswordSbagliata
  <2>4. CASE UNCHANGED vars \/ cleanupExpired \/ Passa
    BY <2>1, <2>4 DEF vars, cleanupExpired, Passa
  <2>5. ASSUME NEW r \in Richieste, Arriva(r)
        PROVE  UNCHANGED oltre
    BY <2>5 DEF Arriva, Limiter, CheckSecurityStatus
  <2>6. ASSUME NEW r \in Richieste, Prosegue(r)
        PROVE  \/ UNCHANGED oltre
               \/ \E ip \in Indirizzi : RecordFailedAttempt(ip)
               \/ PasswordSbagliata(r)
    BY <2>6 DEF Prosegue, TipiRichieste, ControllaPannello, CaptchaGiusto, CaptchaSbagliato,
                PasswordGiusta, NonConta, RegistraFallito, Risponde, Pulisce, ChiediCaptcha,
                GeneraCaptcha, CaptchaError, CheckSecurityStatus, RemoveAttempts, RequireCaptcha
  <2> QED
    BY <2>1, <2>2, <2>3, <2>4, <2>5, <2>6 DEF Next
<1> QED
  BY <1>1, <1>3 DEF TypeOK, TipiLimite, TipiRichieste, Passi

(* Every reachable state is well typed, whatever the thresholds and however many
   requests are under way. *)
THEOREM TypeCorrect == Spec => []TypeOK
<1>1. Init => TypeOK
  BY InizioTipo
<1>2. TypeOK /\ [Next]_vars => TypeOK'
  BY PassoTipo
<1> QED
  BY <1>1, <1>2, PTL DEF Spec

-----------------------------------------------------------------------------
(* The attempts of an address, under the threshold, stay so. *)
LEMMA MetodoSotto ==
    ASSUME TipiLimite, SottoSoglia, Metodo
    PROVE  SottoSoglia'
<1> SUFFICES ASSUME BanThreshold > 0, NEW jp \in Indirizzi
             PROVE  Cardinality(attempts'[jp]) < BanThreshold
  BY DEF SottoSoglia
<1>1. Cardinality(attempts[jp]) < BanThreshold /\ Cardinality(attempts[jp]) \in Nat
  BY PuliteTipo DEF SottoSoglia
<1>2. CASE attempts'[jp] = attempts[jp]
  BY <1>1, <1>2
<1>3. ASSUME attempts'[jp] \in SUBSET attempts[jp]
      PROVE  Cardinality(attempts'[jp]) < BanThreshold
  <2>1. IsFiniteSet(attempts[jp])
    BY DEF TipiLimite
  <2>2. Cardinality(attempts'[jp]) <= Cardinality(attempts[jp]) /\ Cardinality(attempts'[jp]) \in Nat
    BY <1>3, <2>1, FS_Subset, FS_CardinalityType
  <2> QED
    BY <1>1, <2>2
<1>4. ASSUME NEW ip \in Indirizzi, RecordFailedAttempt(ip)
      PROVE  Cardinality(attempts'[jp]) < BanThreshold
  <2> DEFINE valid == pruneAttempts(ip)
             validi == valid \cup {Adesso(valid)}
  <2>1. CASE UNCHANGED attempts
    BY <1>2, <2>1
  <2>2. CASE banIP(ip, validi)
    BY <1>2, <1>3, <2>2 DEF banIP, TipiLimite
  <2>3. CASE attempts' = [attempts EXCEPT ![ip] = validi] /\ ~DaBandire(validi)
    <3>1. IsFiniteSet(validi)
      BY PuliteTipo, AdessoTipo
    <3>2. Cardinality(validi) \in Nat
      BY <3>1, FS_CardinalityType
    <3> HIDE DEF validi
    <3>3. Cardinality(validi) < BanThreshold
      BY <2>3, <3>2 DEF DaBandire
    <3> QED
      BY <1>2, <2>3, <3>3 DEF TipiLimite
  <2> QED
    BY <1>4, <2>1, <2>2, <2>3 DEF RecordFailedAttempt
<1>5. ASSUME NEW ip \in Indirizzi, RemoveAttempts(ip)
      PROVE  attempts'[jp] \in SUBSET attempts[jp]
  BY <1>5 DEF RemoveAttempts, TipiLimite
<1>6. CASE cleanupExpired
  BY <1>3, <1>6, PuliteTipo DEF cleanupExpired
<1>7. CASE Passa
  <2>1. attempts[jp] \in SUBSET Tentativo /\ IsFiniteSet(attempts[jp])
    BY DEF TipiLimite
  <2>2. attempts'[jp] = {Invecchia(t) : t \in attempts[jp]}
    BY <1>7 DEF Passa
  <2>3. Cardinality(attempts'[jp]) <= Cardinality(attempts[jp]) /\ IsFiniteSet(attempts'[jp])
    BY <2>1, <2>2, VecchieTipo
  <2>4. Cardinality(attempts'[jp]) \in Nat
    BY <2>3, FS_CardinalityType
  <2> QED
    BY <1>1, <2>3, <2>4
<1>8. CASE UNCHANGED attempts
  BY <1>2, <1>8
<1> QED
  BY <1>3, <1>4, <1>5, <1>6, <1>7, <1>8, ControlloTipo DEF Metodo, limite, RequireCaptcha

(* The attempts of an address never reach the threshold of the ban, for any number
   of requests that record them at once. *)
THEOREM SempreSottoSoglia == Spec => []SottoSoglia
<1>1. Init => SottoSoglia
  BY FS_EmptySet DEF Init, SottoSoglia
<1>2. TypeOK /\ SottoSoglia /\ [Next]_vars => SottoSoglia'
  BY Tipi, UnMetodo, MetodoSotto
<1> QED
  BY <1>1, <1>2, TypeCorrect, PTL DEF Spec

-----------------------------------------------------------------------------
(* What a method does to a ban that stands: the address has no attempts, and the
   ban is the only one of the address. *)
LEMMA MetodoAzzera ==
    ASSUME TipiLimite, BandoAzzera, Metodo
    PROVE  BandoAzzera'
<1>1. ASSUME bannedIPs' \subseteq bannedIPs,
             \A jp \in Indirizzi : attempts'[jp] \in SUBSET attempts[jp]
      PROVE  BandoAzzera'
  BY <1>1 DEF BandoAzzera, TipiLimite, Bando
<1>2. CASE UNCHANGED <<attempts, bannedIPs>>
  BY <1>1, <1>2
<1>3. ASSUME NEW ip \in Indirizzi, RecordFailedAttempt(ip)
      PROVE  BandoAzzera'
  <2> DEFINE valid == pruneAttempts(ip)
             validi == valid \cup {Adesso(valid)}
  <2>1. CASE banIP(ip, validi)
    <3>1. attempts'[ip] = {} /\ \A jp \in Indirizzi \ {ip} : attempts'[jp] = attempts[jp]
      BY <2>1 DEF banIP, TipiLimite
    <3>2. ASSUME NEW b \in bannedIPs'
          PROVE  attempts'[b.ip] = {} /\ \A d \in bannedIPs' : d.ip = b.ip => d = b
      <4>1. CASE b = [ip |-> ip, resta |-> BanDuration]
        BY <2>1, <3>1, <4>1 DEF banIP
      <4>2. CASE b \in bannedIPs /\ b.ip # ip
        BY <2>1, <3>1, <4>2 DEF banIP, BandoAzzera, TipiLimite, Bando
      <4> QED
        BY <2>1, <4>1, <4>2 DEF banIP
    <3> QED
      BY <3>2 DEF BandoAzzera
  <2>2. CASE /\ ~Tace(ip)
             /\ attempts' = [attempts EXCEPT ![ip] = validi]
             /\ bannedIPs' = BandiLetti(ip)
    <3>1. \A b \in bannedIPs' : b \in bannedIPs /\ b.ip # ip
      BY <2>2 DEF BandiLetti, Tace, isBanned
    <3> HIDE DEF validi
    <3>2. \A jp \in Indirizzi \ {ip} : attempts'[jp] = attempts[jp]
      BY <2>2 DEF TipiLimite
    <3> QED
      BY <3>1, <3>2 DEF BandoAzzera, TipiLimite, Bando
  <2> QED
    BY <1>2, <1>3, <2>1, <2>2 DEF RecordFailedAttempt
<1>4. ASSUME NEW ip \in Indirizzi, RemoveAttempts(ip)
      PROVE  BandoAzzera'
  BY <1>1, <1>4 DEF RemoveAttempts, TipiLimite
<1>5. CASE cleanupExpired
  BY <1>1, <1>5, PuliteTipo DEF cleanupExpired
<1>6. CASE Passa
  <2>1. \A e \in bannedIPs' : \E b \in bannedIPs : e = [b EXCEPT !.resta = Meno(@)]
    BY <1>6 DEF Passa
  <2>2. \A b \in bannedIPs : b \in Bando
    BY DEF TipiLimite
  <2>3. ASSUME NEW b \in Bando
        PROVE  [b EXCEPT !.resta = Meno(@)].ip = b.ip
    BY DEF Bando
  <2>4. ASSUME NEW e \in bannedIPs', NEW d \in bannedIPs', d.ip = e.ip
        PROVE  d = e
    <3>1. PICK b \in bannedIPs : e = [b EXCEPT !.resta = Meno(@)]
      BY <2>1
    <3>2. PICK c \in bannedIPs : d = [c EXCEPT !.resta = Meno(@)]
      BY <2>1
    <3>3. b.ip = e.ip /\ c.ip = d.ip
      BY <2>2, <2>3, <3>1, <3>2
    <3>4. c = b
      BY <2>4, <3>3 DEF BandoAzzera
    <3> QED
      BY <3>1, <3>2, <3>4
  <2>5. ASSUME NEW e \in bannedIPs'
        PROVE  attempts'[e.ip] = {}
    <3>1. PICK b \in bannedIPs : e = [b EXCEPT !.resta = Meno(@)]
      BY <2>1
    <3>2. e.ip = b.ip /\ e.ip \in Indirizzi /\ attempts[e.ip] = {}
      BY <2>2, <2>3, <3>1 DEF BandoAzzera, Bando
    <3> QED
      BY <1>6, <3>2 DEF Passa
  <2> QED
    BY <2>4, <2>5 DEF BandoAzzera
<1> QED
  BY <1>1, <1>2, <1>3, <1>4, <1>5, <1>6, ControlloTipo DEF Metodo, limite, RequireCaptcha

(* A banned address has no attempts left, whatever the requests that were under way
   when the ban fell still record: once the ban ends the count starts from zero. *)
THEOREM BandoSempreAzzera == Spec => []BandoAzzera
<1>1. Init => BandoAzzera
  BY DEF Init, BandoAzzera
<1>2. TypeOK /\ BandoAzzera /\ [Next]_vars => BandoAzzera'
  BY Tipi, UnMetodo, MetodoAzzera
<1> QED
  BY <1>1, <1>2, TypeCorrect, PTL DEF Spec

(* The two together: the round of the attempts is exact, for any thresholds, windows
   and number of requests that record at once. *)
THEOREM BandoSempreEsatto == Spec => []BandoEsatto
<1>1. BandoAzzera /\ SottoSoglia => BandoEsatto
  BY DEF BandoEsatto
<1> QED
  BY <1>1, BandoSempreAzzera, SempreSottoSoglia, PTL

(* No step lifts a standing ban, or begins it anew: only time takes it away. *)
LEMMA MetodoFermo ==
    ASSUME TipiLimite, Metodo, NEW b \in bannedIPs, b.resta >= 0
    PROVE  \E d \in bannedIPs' : d.ip = b.ip /\ d.resta \in {b.resta, b.resta - 1}
<1>1. b \in Bando
  BY DEF TipiLimite
<1>2. CASE b \in bannedIPs'
  BY <1>2
<1>3. CASE Passa
  <2> DEFINE d == [b EXCEPT !.resta = Meno(@)]
  <2>1. d \in bannedIPs'
    BY <1>3 DEF Passa
  <2>2. d.ip = b.ip /\ d.resta = b.resta - 1
    BY <1>1 DEF Bando, Meno
  <2> QED
    BY <2>1, <2>2
<1>4. ASSUME NEW ip \in Indirizzi
      PROVE  b \in BandiLetti(ip)
  BY DEF BandiLetti
<1>5. ASSUME NEW ip \in Indirizzi, RecordFailedAttempt(ip)
      PROVE  b \in bannedIPs'
  BY <1>4, <1>5 DEF RecordFailedAttempt, banIP, Tace, isBanned
<1> QED
  BY <1>2, <1>3, <1>4, <1>5
     DEF Metodo, limite, CheckSecurityStatus, RemoveAttempts, RequireCaptcha, cleanupExpired

(* No request and no cleanup lifts a ban early or prolongs it, for any number of
   requests. *)
THEOREM BandoSempreFermo == Spec => BandoFermo
<1>1. TypeOK /\ [Next]_vars =>
        [\A b \in bannedIPs : b.resta >= 0 =>
           \E d \in bannedIPs' : d.ip = b.ip /\ d.resta \in {b.resta, b.resta - 1}]_vars
  BY Tipi, UnMetodo, MetodoFermo
<1> QED
  BY <1>1, TypeCorrect, PTL DEF Spec, BandoFermo

-----------------------------------------------------------------------------
(* The captchas given are told apart by their ids, and none of them is held. *)
CaptchaInv ==
    /\ CaptchaPerUno
    /\ \A c, d \in captchas : c.id = d.id => c = d

(* Forgetting captchas, and ending requests, does no harm. *)
LEMMA CaptchaMeno ==
    ASSUME CaptchaInv, captchas' \subseteq captchas,
           \A s \in Richieste : richiesta'[s].captcha \in {richiesta[s].captcha, Nessuno}
    PROVE  CaptchaInv'
BY DEF CaptchaInv, CaptchaPerUno

(* A captcha that a request uses up leaves the table in the same step. *)
LEMMA PassoCaptcha ==
    ASSUME TypeOK, CaptchaInv, [Next]_vars
    PROVE  CaptchaInv'
<1>0. /\ richiesta \in [Richieste -> Richiesta]
      /\ captchas \subseteq Meta
  BY Tipi DEF TipiLimite, TipiRichieste
<1>1. ASSUME NEW r \in Richieste, Termina(r)
      PROVE  \A s \in Richieste : richiesta'[s].captcha \in {richiesta[s].captcha, Nessuno}
  BY <1>0, <1>1 DEF Termina, Vuota
<1>2. CASE UNCHANGED <<captchas, richiesta>>
  BY <1>2, CaptchaMeno
<1>3. ASSUME NEW r \in Richieste, NEW via \in Vie, NEW ip \in Indirizzi, Limiter(r, via, ip)
      PROVE  CaptchaInv'
  <2>1. captchas' = captchas
    BY <1>3 DEF Limiter, CheckSecurityStatus
  <2>2. \A s \in Richieste : richiesta'[s].captcha \in {richiesta[s].captcha, Nessuno}
    BY <1>0, <1>3 DEF Limiter, Vuota
  <2> QED
    BY <2>1, <2>2, CaptchaMeno
<1>4. ASSUME NEW r \in Richieste, NEW c \in captchas, CaptchaGiusto(r, c)
      PROVE  CaptchaInv'
  <2>1. captchas' = captchas \ {c}
    BY <1>4 DEF CaptchaGiusto, Consuma
  <2>2. richiesta'[r].captcha = c.id /\ \A s \in Richieste \ {r} : richiesta'[s] = richiesta[s]
    <3>1. richiesta' = [richiesta EXCEPT ![r].captcha = c.id]
      BY <1>4 DEF CaptchaGiusto
    <3>2. richiesta[r] \in Richiesta
      BY <1>0
    <3> QED
      BY <1>0, <3>1, <3>2 DEF Richiesta
  <2>3. c.id # Nessuno
    BY <1>0 DEF Meta
  <2>4. \A d \in captchas' : d.id # c.id
    BY <2>1 DEF CaptchaInv
  <2>5. \A s \in Richieste \ {r} : richiesta'[s].captcha # c.id
    BY <2>2, <2>3 DEF CaptchaInv, CaptchaPerUno
  <2>6. CaptchaPerUno'
    BY <2>1, <2>2, <2>4, <2>5 DEF CaptchaInv, CaptchaPerUno
  <2> QED
    BY <2>1, <2>6 DEF CaptchaInv
<1>5. ASSUME NEW r \in Richieste, NEW id \in Captcha, GeneraCaptcha(r, id)
      PROVE  CaptchaInv'
  <2>1. \A s \in Richieste : richiesta'[s].captcha \in {richiesta[s].captcha, Nessuno}
    BY <1>1, <1>5 DEF GeneraCaptcha
  <2> DEFINE m == [id |-> id, resta |-> CaptchaExpiration]
  <2>2. /\ captchas' = captchas \cup {m} /\ m.id = id
        /\ \A c \in captchas : c.id # id
        /\ \A s \in Richieste : richiesta[s].captcha # id
    BY <1>5 DEF GeneraCaptcha, RequireCaptcha
  <2> HIDE DEF m
  <2>3. CaptchaPerUno'
    BY <2>1, <2>2 DEF CaptchaInv, CaptchaPerUno
  <2> QED
    BY <2>2, <2>3 DEF CaptchaInv
<1>6. CASE Passa
  <2>1. UNCHANGED richiesta
    BY <1>6 DEF Passa
  <2>2. \A e \in captchas' : \E c \in captchas : e = [c EXCEPT !.resta = Meno(@)]
    BY <1>6 DEF Passa
  <2>3. ASSUME NEW c \in Meta
        PROVE  [c EXCEPT !.resta = Meno(@)].id = c.id
    BY DEF Meta
  <2>4. \A e \in captchas' : \E c \in captchas : e.id = c.id /\ e = [c EXCEPT !.resta = Meno(@)]
    BY <1>0, <2>2, <2>3
  <2>5. CaptchaPerUno'
    BY <2>1, <2>4 DEF CaptchaInv, CaptchaPerUno
  <2>6. ASSUME NEW d \in captchas', NEW e \in captchas', d.id = e.id
        PROVE  d = e
    <3>1. PICK b \in captchas : d.id = b.id /\ d = [b EXCEPT !.resta = Meno(@)]
      BY <2>4
    <3>2. PICK c \in captchas : e.id = c.id /\ e = [c EXCEPT !.resta = Meno(@)]
      BY <2>4
    <3>3. b = c
      BY <2>6, <3>1, <3>2 DEF CaptchaInv
    <3> QED
      BY <3>1, <3>2, <3>3
  <2> QED
    BY <2>5, <2>6 DEF CaptchaInv
<1>7. CASE cleanupExpired
  BY <1>7, CaptchaMeno DEF cleanupExpired, pruneCaptchas
<1>8. ASSUME NEW r \in Richieste, Prosegue(r)
      PROVE  CaptchaInv'
  <2>1. CASE \E malformata \in BOOLEAN : ControllaPannello(r, malformata)
    BY <1>2, <2>1 DEF ControllaPannello, CheckSecurityStatus
  <2>2. CASE \E scaduti \in {{}} \cup {{c} : c \in captchas \ pruneCaptchas} : CaptchaSbagliato(r, scaduti)
    BY <1>1, <2>2, CaptchaMeno DEF CaptchaSbagliato
  <2>3. CASE PasswordGiusta(r) \/ PasswordSbagliata(r) \/ NonConta(r) \/ CaptchaError(r)
    BY <1>1, <1>2, <2>3, CaptchaMeno DEF PasswordGiusta, PasswordSbagliata, NonConta, CaptchaError, limite
  <2>4. CASE RegistraFallito(r)
    BY <1>1, <1>2, <2>4, CaptchaMeno DEF RegistraFallito, RecordFailedAttempt
  <2>5. CASE Risponde(r) \/ ChiediCaptcha(r)
    BY <1>1, <1>2, <2>5, CaptchaMeno DEF Risponde, ChiediCaptcha, CheckSecurityStatus
  <2>6. CASE Pulisce(r)
    BY <1>1, <2>6, CaptchaMeno DEF Pulisce, RemoveAttempts
  <2> QED
    BY <1>4, <1>5, <1>8, <2>1, <2>2, <2>3, <2>4, <2>5, <2>6 DEF Prosegue
<1> QED
  BY <1>2, <1>3, <1>6, <1>7, <1>8 DEF Next, Arriva, vars

(* A captcha opens one login, for any number of requests that send it at once. *)
THEOREM CaptchaSempreDiUno == Spec => []CaptchaPerUno
<1>1. Init => CaptchaInv
  BY DEF Init, CaptchaInv, CaptchaPerUno, Vuota
<1>2. TypeOK /\ CaptchaInv /\ [Next]_vars => CaptchaInv'
  BY PassoCaptcha
<1>3. CaptchaInv => CaptchaPerUno
  BY DEF CaptchaInv
<1> QED
  BY <1>1, <1>2, <1>3, TypeCorrect, PTL DEF Spec

-----------------------------------------------------------------------------
(* The requests that may still find a password wrong. *)
InVolo(ip) ==
    {r \in Richieste : richiesta[r].ip = ip /\ pc[r] \in {"stato", "captcha", "password"}}

(* Those that have found one wrong during the ban, and those that may, are not all:
   the one whose attempt was the ban is not among them. *)
OltreInv ==
    /\ BanThreshold = 0 => bannedIPs = {}
    /\ \A ip \in Indirizzi : isBanned(ip) =>
          oltre[ip] + Cardinality(InVolo(ip)) < Cardinality(Richieste)

(* The requests in flight can be counted. *)
LEMMA VoloFinito ==
    ASSUME NEW V \in SUBSET Richieste
    PROVE  IsFiniteSet(V) /\ Cardinality(V) \in Nat /\ Cardinality(Richieste) \in Nat
BY FS_Subset, FS_CardinalityType

(* An address that no step bans keeps its count while nobody joins. *)
LEMMA OltreResta ==
    ASSUME TypeOK, OltreInv, NEW ip \in Indirizzi,
           isBanned(ip)' => isBanned(ip),
           InVolo(ip)' \subseteq InVolo(ip), oltre'[ip] = oltre[ip], isBanned(ip)'
    PROVE  oltre'[ip] + Cardinality(InVolo(ip)') < Cardinality(Richieste)
<1>1. oltre[ip] \in Nat
  BY VoloFinito DEF TypeOK
<1>2. InVolo(ip) \in SUBSET Richieste
  BY DEF InVolo
<1>3. IsFiniteSet(InVolo(ip)) /\ Cardinality(InVolo(ip)) \in Nat /\ Cardinality(Richieste) \in Nat
  BY <1>2, VoloFinito
<1>4. Cardinality(InVolo(ip)') <= Cardinality(InVolo(ip)) /\ Cardinality(InVolo(ip)') \in Nat
  BY <1>3, FS_Subset, FS_CardinalityType
<1>5. oltre[ip] + Cardinality(InVolo(ip)) < Cardinality(Richieste)
  BY DEF OltreInv
<1> QED
  BY <1>1, <1>3, <1>4, <1>5

(* Time bans nobody. *)
LEMMA PassaBandi ==
    ASSUME TipiLimite, Passa, NEW jp, isBanned(jp)'
    PROVE  isBanned(jp)
<1>1. ASSUME NEW b \in Bando, [b EXCEPT !.resta = Meno(@)].resta >= 0
      PROVE  b.resta >= 0 /\ [b EXCEPT !.resta = Meno(@)].ip = b.ip
  BY <1>1 DEF Bando, Meno
<1>2. PICK e \in bannedIPs' : e.ip = jp /\ e.resta >= 0
  BY DEF isBanned
<1>3. PICK b \in bannedIPs : e = [b EXCEPT !.resta = Meno(@)]
  BY DEF Passa
<1>4. b.resta >= 0 /\ b.ip = jp
  BY <1>1, <1>2, <1>3 DEF TipiLimite
<1> QED
  BY <1>4 DEF isBanned

(* Only RecordFailedAttempt bans, and only if there is a threshold. *)
LEMMA BandoNuovo ==
    ASSUME TipiLimite, Metodo, BanThreshold = 0
    PROVE  bannedIPs' \subseteq bannedIPs \/ Passa
<1>1. ASSUME NEW ip \in Indirizzi, RecordFailedAttempt(ip)
      PROVE  bannedIPs' \subseteq bannedIPs
  BY <1>1 DEF RecordFailedAttempt, BandiLetti, DaBandire
<1> QED
  BY <1>1, ControlloTipo DEF Metodo, limite, RemoveAttempts, RequireCaptcha, cleanupExpired

(* A request that finds a password wrong during a ban leaves those in flight, and
   none joins them: the middleware refuses the address. *)
LEMMA PassoOltre ==
    ASSUME TypeOK, OltreInv, [Next]_vars
    PROVE  OltreInv'
<1>0. TipiLimite /\ TipiRichieste /\ oltre \in [Indirizzi -> 0 .. Cardinality(Richieste)] /\ Metodo
  BY Tipi, UnMetodo
<1>a. Cardinality(Richieste) \in Nat
  BY FS_CardinalityType
<1>1. (BanThreshold = 0 => bannedIPs = {})'
  <2>1. bannedIPs = {} /\ Passa => bannedIPs' = {}
    BY DEF Passa
  <2> QED
    BY <1>0, <2>1, BandoNuovo DEF OltreInv
<1>2. SUFFICES ASSUME NEW jp \in Indirizzi, isBanned(jp)'
               PROVE  oltre'[jp] + Cardinality(InVolo(jp)') < Cardinality(Richieste)
  BY <1>1 DEF OltreInv
<1>3. ASSUME NEW r \in Richieste, RegistraFallito(r)
      PROVE  oltre'[jp] + Cardinality(InVolo(jp)') < Cardinality(Richieste)
  <2> DEFINE ip == richiesta[r].ip
             validi == pruneAttempts(ip) \cup {Adesso(pruneAttempts(ip))}
  <2>1. ip \in Indirizzi
    BY <1>0, <1>3 DEF RegistraFallito, TipiRichieste
  <2>2. InVolo(jp)' \subseteq InVolo(jp) \ {r}
    BY <1>0, <1>3 DEF RegistraFallito, InVolo, Va, Termina, TipiRichieste
  <2>3. CASE banIP(ip, validi)
    <3>1. CASE jp = ip
      <4>1. oltre'[jp] = 0
        BY <1>0, <2>3, <3>1 DEF banIP
      <4>2. InVolo(jp)' \in SUBSET (Richieste \ {r})
        BY <2>2 DEF InVolo
      <4>3. IsFiniteSet(Richieste \ {r}) /\ Cardinality(Richieste \ {r}) = Cardinality(Richieste) - 1
        BY FS_RemoveElement
      <4>4. Cardinality(InVolo(jp)') <= Cardinality(Richieste \ {r}) /\ Cardinality(InVolo(jp)') \in Nat
        BY <4>2, <4>3, FS_Subset, FS_CardinalityType
      <4> QED
        BY <1>a, <4>1, <4>3, <4>4
    <3>2. CASE jp # ip
      <4>1. oltre'[jp] = oltre[jp]
        BY <1>0, <2>3, <3>2 DEF banIP
      <4>2. isBanned(jp)' => isBanned(jp)
        BY <2>3, <3>2 DEF banIP, isBanned
      <4> QED
        BY <1>2, <2>2, <4>1, <4>2, OltreResta
    <3> QED
      BY <3>1, <3>2
  <2>4. CASE UNCHANGED oltre /\ bannedIPs' \subseteq bannedIPs
    <3>1. isBanned(jp)' => isBanned(jp)
      BY <2>4 DEF isBanned
    <3> QED
      BY <1>2, <2>2, <2>4, <3>1, OltreResta
  <2> QED
    BY <1>3, <2>3, <2>4 DEF RegistraFallito, RecordFailedAttempt, BandiLetti
<1>4. ASSUME bannedIPs' \subseteq bannedIPs, oltre' = oltre, InVolo(jp)' \subseteq InVolo(jp)
      PROVE  oltre'[jp] + Cardinality(InVolo(jp)') < Cardinality(Richieste)
  BY <1>2, <1>4, OltreResta DEF isBanned
<1>5. ASSUME NEW r \in Richieste, Termina(r)
      PROVE  InVolo(jp)' \subseteq InVolo(jp)
  BY <1>0, <1>5 DEF Termina, Va, InVolo, Vuota, TipiRichieste
<1>6. ASSUME NEW r \in Richieste, pc[r] \in {"stato", "captcha", "password"},
             NEW passo, Va(r, passo), \A s \in Richieste : richiesta'[s].ip = richiesta[s].ip
      PROVE  InVolo(jp)' \subseteq InVolo(jp)
  BY <1>0, <1>6 DEF Va, InVolo, TipiRichieste
<1>7. ASSUME NEW r \in Richieste, NEW via \in Vie, NEW ip \in Indirizzi, Limiter(r, via, ip)
      PROVE  oltre'[jp] + Cardinality(InVolo(jp)') < Cardinality(Richieste)
  <2>1. bannedIPs' \subseteq bannedIPs /\ oltre' = oltre
    BY <1>7 DEF Limiter, CheckSecurityStatus, BandiLetti
  <2>2. isBanned(jp)
    BY <1>2, <2>1 DEF isBanned
  <2>3. jp # ip
    BY <1>7, <2>2 DEF Limiter, Ammetti, banned, isDisabled, isBanned, OltreInv
  <2>4. InVolo(jp)' \subseteq InVolo(jp)
    BY <1>0, <1>7, <2>3 DEF Limiter, Va, Rotta, InVolo, Vuota, TipiRichieste
  <2> QED
    BY <1>4, <2>1, <2>4
<1>8. ASSUME NEW r \in Richieste, PasswordSbagliata(r)
      PROVE  oltre'[jp] + Cardinality(InVolo(jp)') < Cardinality(Richieste)
  <2> DEFINE ip == richiesta[r].ip
  <2>1. bannedIPs' = bannedIPs /\ richiesta' = richiesta /\ Va(r, "sbagliata") /\ pc[r] = "password"
    BY <1>8 DEF PasswordSbagliata, limite
  <2>2. InVolo(jp)' \subseteq InVolo(jp)
    BY <1>6, <2>1
  <2>3. CASE oltre' = oltre \/ jp # ip
    <3>1. oltre'[jp] = oltre[jp]
      BY <1>0, <1>8, <2>3 DEF PasswordSbagliata
    <3> QED
      BY <1>2, <2>1, <2>2, <3>1, OltreResta DEF isBanned
  <2>4. CASE oltre' = [oltre EXCEPT ![ip] = @ + 1] /\ jp = ip
    <3>1. oltre'[jp] = oltre[jp] + 1 /\ oltre[jp] \in Nat
      BY <1>0, <1>a, <2>4
    <3>2. InVolo(jp)' = InVolo(jp) \ {r} /\ r \in InVolo(jp)
      BY <1>0, <2>1, <2>4 DEF Va, InVolo, TipiRichieste
    <3>3. IsFiniteSet(InVolo(jp)) /\ Cardinality(InVolo(jp)) \in Nat
      BY VoloFinito DEF InVolo
    <3>4. Cardinality(InVolo(jp)') = Cardinality(InVolo(jp)) - 1
      BY <3>2, <3>3, FS_RemoveElement
    <3>5. oltre[jp] + Cardinality(InVolo(jp)) < Cardinality(Richieste)
      BY <1>2, <2>1 DEF isBanned, OltreInv
    <3> QED
      BY <1>a, <3>1, <3>3, <3>4, <3>5
  <2> QED
    BY <1>8, <2>3, <2>4 DEF PasswordSbagliata
<1>9. CASE UNCHANGED vars \/ cleanupExpired
  BY <1>4, <1>9 DEF vars, cleanupExpired, InVolo
<1>10. CASE Passa
  <2>1. isBanned(jp)' => isBanned(jp)
    BY <1>0, <1>10, PassaBandi
  <2>2. UNCHANGED <<pc, richiesta, oltre>>
    BY <1>10 DEF Passa
  <2> QED
    BY <1>2, <2>1, <2>2, OltreResta DEF InVolo
<1>11. ASSUME NEW r \in Richieste, Prosegue(r)
       PROVE  oltre'[jp] + Cardinality(InVolo(jp)') < Cardinality(Richieste)
  <2>1. CASE \E malformata \in BOOLEAN : ControllaPannello(r, malformata)
    BY <1>4, <1>6, <2>1 DEF ControllaPannello, CheckSecurityStatus, BandiLetti
  <2>2. ASSUME NEW c \in captchas, CaptchaGiusto(r, c)
        PROVE  oltre'[jp] + Cardinality(InVolo(jp)') < Cardinality(Richieste)
    <3>1. \A s \in Richieste : richiesta'[s].ip = richiesta[s].ip
      BY <1>0, <2>2 DEF CaptchaGiusto, TipiRichieste, Richiesta
    <3> QED
      BY <1>4, <1>6, <2>2, <3>1 DEF CaptchaGiusto
  <2>3. CASE \E scaduti \in {{}} \cup {{c} : c \in captchas \ pruneCaptchas} : CaptchaSbagliato(r, scaduti)
    BY <1>4, <1>5, <2>3 DEF CaptchaSbagliato
  <2>4. CASE PasswordGiusta(r) \/ NonConta(r) \/ CaptchaError(r)
    BY <1>4, <1>5, <1>6, <2>4 DEF PasswordGiusta, NonConta, CaptchaError, limite
  <2>5. CASE Risponde(r) \/ Pulisce(r)
    BY <1>4, <1>5, <2>5 DEF Risponde, Pulisce, CheckSecurityStatus, BandiLetti, RemoveAttempts
  <2>6. CASE ChiediCaptcha(r)
    <3>1. InVolo(jp)' \subseteq InVolo(jp)
      BY <1>0, <1>5, <2>6 DEF ChiediCaptcha, Va, InVolo, TipiRichieste
    <3> QED
      BY <1>4, <2>6, <3>1 DEF ChiediCaptcha, CheckSecurityStatus, BandiLetti
  <2>7. CASE \E id \in Captcha : GeneraCaptcha(r, id)
    BY <1>4, <1>5, <2>7 DEF GeneraCaptcha, RequireCaptcha
  <2> QED
    BY <1>3, <1>8, <1>11, <2>1, <2>2, <2>3, <2>4, <2>5, <2>6, <2>7 DEF Prosegue
<1> QED
  BY <1>7, <1>9, <1>10, <1>11 DEF Next, Arriva

(* During a ban only the other requests already under way still find a password
   wrong: for N requests at once, at most N - 1 of them. *)
THEOREM OltreIlBandoLimitato == Spec => []OltreIlBando
<1>1. Init => OltreInv
  BY DEF Init, OltreInv, isBanned
<1>2. TypeOK /\ OltreInv /\ [Next]_vars => OltreInv'
  BY PassoOltre
<1>3. TypeOK /\ OltreInv => OltreIlBando
  <2> SUFFICES ASSUME TypeOK, OltreInv, NEW ip \in Indirizzi, isBanned(ip)
               PROVE  oltre[ip] < Cardinality(Richieste)
    BY DEF OltreIlBando
  <2>1. oltre[ip] \in Nat /\ Cardinality(Richieste) \in Nat /\ Cardinality(InVolo(ip)) \in Nat
    BY VoloFinito DEF TypeOK, InVolo
  <2>2. oltre[ip] + Cardinality(InVolo(ip)) < Cardinality(Richieste)
    BY DEF OltreInv
  <2> QED
    BY <2>1, <2>2
<1> QED
  BY <1>1, <1>2, <1>3, TypeCorrect, PTL DEF Spec
===============================================================================
