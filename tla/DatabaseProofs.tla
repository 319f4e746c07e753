--------------------------- MODULE DatabaseProofs ---------------------------
(***************************************************************************)
(* Theorems about what is in the database: how a start leaves it (module   *)
(* Avvio) and the rows of the PCs (module Dispositivi), for any number of  *)
(* processes, faults, requests, IDs, uuids, keys, users and rows.          *)
(***************************************************************************)
EXTENDS Avvio, SequenceTheorems, Dispositivi, TLAPS

-----------------------------------------------------------------------------
(***************************************************************************)
(* Module Avvio. AvvioInv ties each point of a start to what is committed: *)
(* who has the lock of the writer is in the transaction of Migrate         *)
(* (BloccoInv), the first start is the one that found no version           *)
(* (PrimoInv), with the first version come the administrator and the       *)
(* groups (AdminInv), and past the transaction the version is there        *)
(* (PuntoInv).                                                             *)
(***************************************************************************)

(* The statements of a start that are in its transaction, and those after it. *)
Blocco == {"cancellaFile", "scriveFile", "conferma"}
Dopo   == {"oauths245", "userThirds245", "contaPeers", "creaPeers", "contaUserThirds",
           "creaUserThirds", "pronto", "serve", "revoca", "ultimoUso"}
Istruzioni == {"spento", "apre", "vincolo", "versione", "tabelle", "riga"} \cup Blocco \cup Dopo

AvvioTipi ==
    /\ tabelle \in {"nessuna", "parte", "tutte"} /\ versioni \in Seq(Viste)
    /\ admin \in Int /\ gruppi \in Nat /\ file \in Int /\ estratte \in Nat
    /\ istruzione \in [Avvii -> Istruzioni] /\ primo \in [Avvii -> BOOLEAN]

(* Who has the lock of the writer is in its transaction, and only who has it. *)
BloccoInv == \A p \in Avvii : istruzione[p] \in Blocco <=> scrittore = p

(* In the transaction: it is the first start when no version was written, and then the
   file is made before the administrator. *)
PrimoInv ==
    \A p \in Avvii :
        /\ istruzione[p] \in Blocco => (primo[p] <=> versioni = <<>>)
        /\ istruzione[p] \in {"cancellaFile", "scriveFile"} => primo[p]
        /\ istruzione[p] = "conferma" /\ primo[p] => file = estratte /\ estratte > 0

(* With the first version come the administrator and the groups. *)
AdminInv ==
    /\ versioni = <<>> => admin = 0 /\ gruppi = 0
    /\ versioni # <<>> => admin # 0
    /\ PasswordNelFile

(* What the database is, at each point of a start. *)
PuntoInv ==
    \A p \in Avvii :
        /\ istruzione[p] \notin {"spento", "apre", "vincolo"} => ~vincolo
        /\ istruzione[p] \in {"riga"} \cup Blocco => tabelle = "tutte"
        /\ istruzione[p] \in Dopo => Contains(versioni, "ultima")

UltimaInv == Contains(versioni, "ultima") => tabelle = "tutte" /\ admin # 0

AvvioInv == AvvioTipi /\ BloccoInv /\ PrimoInv /\ AdminInv /\ PuntoInv /\ UltimaInv

-----------------------------------------------------------------------------
LEMMA InizioAvvio == InitAvvio => AvvioInv
<1> SUFFICES ASSUME InitAvvio PROVE AvvioInv
  OBVIOUS
<1>1. /\ gruppi = 0 /\ file = 0 /\ estratte = 0 /\ scrittore = NessunAvvio
      /\ istruzione = [p \in Avvii |-> "spento"] /\ primo = [p \in Avvii |-> FALSE]
  BY DEF InitAvvio
<1>2. \/ tabelle = "nessuna" /\ versioni = <<>> /\ admin = 0
      \/ tabelle = "parte" /\ admin = -1 /\ \E v \in {"vecchia", "media"} : versioni = <<v>>
  BY DEF InitAvvio, Altra
<1>3. versioni \in Seq(Viste) /\ ~Contains(versioni, "ultima") /\ (versioni = <<>> <=> admin = 0)
      /\ admin \in {0, -1} /\ tabelle \in {"nessuna", "parte"}
  <2>1. CASE tabelle = "nessuna" /\ versioni = <<>> /\ admin = 0
    BY <2>1 DEF Contains
  <2>2. ASSUME NEW v \in {"vecchia", "media"}, tabelle = "parte", admin = -1, versioni = <<v>>
        PROVE  /\ versioni \in Seq(Viste) /\ ~Contains(versioni, "ultima")
               /\ versioni # <<>> /\ admin # 0
    BY <2>2 DEF Contains, Viste
  <2> QED
    BY <1>2, <2>1, <2>2
<1>4. AvvioTipi
  BY <1>1, <1>3 DEF AvvioTipi, Istruzioni
<1>5. BloccoInv /\ PrimoInv
  BY <1>1, AvvioAssumption DEF BloccoInv, PrimoInv, Blocco
<1>6. AdminInv
  BY <1>1, <1>3 DEF AdminInv, PasswordNelFile
<1>7. PuntoInv
  BY <1>1 DEF PuntoInv, Blocco, Dopo
<1>8. UltimaInv
  BY <1>3 DEF UltimaInv
<1> QED
  BY <1>4, <1>5, <1>6, <1>7, <1>8 DEF AvvioInv

-----------------------------------------------------------------------------
(* The version a start reads is the last one written. *)
LEMMA LettaUltima ==
    ASSUME versioni \in Seq(Viste), Letta = "ultima"
    PROVE  Contains(versioni, "ultima")
<1>1. versioni # <<>> /\ Last(versioni) = "ultima"
  BY DEF Letta
<1>2. Len(versioni) \in 1 .. Len(versioni)
  BY <1>1, EmptySeq, LenProperties
<1> QED
  BY <1>1, <1>2 DEF Last, Contains

LEMMA AggiuntaUltima ==
    ASSUME versioni \in Seq(Viste)
    PROVE  LET v == Append(versioni, "ultima") IN v \in Seq(Viste) /\ v # <<>> /\ Contains(v, "ultima")
<1> DEFINE v == Append(versioni, "ultima")
<1>1. "ultima" \in Viste
  BY DEF Viste
<1>2. v \in Seq(Viste) /\ Len(v) = Len(versioni) + 1 /\ v[Len(versioni) + 1] = "ultima" /\ Len(versioni) \in Nat
  BY <1>1, AppendProperties, LenProperties
<1>3. v # <<>>
  BY <1>2, EmptySeq
<1> HIDE DEF v
<1>4. Contains(v, "ultima")
  BY <1>2 DEF Contains
<1> QED
  BY <1>2, <1>3, <1>4 DEF v

(* What a start does to pc. *)
LEMMA PassaPc ==
    ASSUME AvvioTipi, NEW p \in Avvii, NEW da, NEW a \in Istruzioni, Passa(p, da, a)
    PROVE  /\ istruzione' \in [Avvii -> Istruzioni] /\ istruzione[p] = da /\ istruzione'[p] = a
           /\ \A q \in Avvii \ {p} : istruzione'[q] = istruzione[q]
BY DEF Passa, AvvioTipi

(* The steps outside of a transaction: tables are added and never taken away, peers loses
   its foreign key, and the administrator's password may be given again. *)
Fuori(p) ==
    /\ UNCHANGED <<versioni, gruppi, file, estratte, primo, scrittore>>
    /\ istruzione' \in [Avvii -> Istruzioni] /\ \A q \in Avvii \ {p} : istruzione'[q] = istruzione[q]
    /\ istruzione[p] \notin Blocco /\ istruzione'[p] \notin Blocco
    /\ tabelle' \in {"nessuna", "parte", "tutte"} /\ (tabelle = "tutte" => tabelle' = "tutte")
    /\ vincolo' => vincolo
    /\ admin' = admin \/ (admin # 0 /\ admin' = -1)
    /\ istruzione'[p] \notin {"spento", "apre", "vincolo"} => ~vincolo' \/ istruzione[p] \notin {"spento", "apre", "vincolo"}
    /\ istruzione'[p] = "riga" => tabelle' = "tutte"
    /\ istruzione'[p] \in Dopo => istruzione[p] \in Dopo \/ Contains(versioni, "ultima")

LEMMA AperturaFuori ==
    ASSUME AvvioTipi, NEW p \in Avvii,
           rootCmd(p) \/ NewSqlite(p) \/ togliVincoloDispositivi(p) \/ AutoMigrate(p)
    PROVE  Fuori(p)
<1>1. CASE rootCmd(p)
  <2>1. Passa(p, "spento", "apre") /\ "apre" \in Istruzioni
    BY <1>1 DEF rootCmd, Istruzioni
  <2> QED
    BY <1>1, <2>1, PassaPc DEF rootCmd, disco, processo, Fuori, Blocco, Dopo, AvvioTipi
<1>2. CASE NewSqlite(p)
  <2>1. Passa(p, "apre", "vincolo") /\ "vincolo" \in Istruzioni
    BY <1>2 DEF NewSqlite, Istruzioni
  <2> QED
    BY <1>2, <2>1, PassaPc DEF NewSqlite, disco, processo, Fuori, Blocco, Dopo, AvvioTipi
<1>3. CASE togliVincoloDispositivi(p)
  <2>1. Passa(p, "vincolo", "versione") /\ "versione" \in Istruzioni
    BY <1>3 DEF togliVincoloDispositivi, Istruzioni
  <2> QED
    BY <1>3, <2>1, PassaPc DEF togliVincoloDispositivi, processo, Fuori, Blocco, Dopo, AvvioTipi
<1>4. CASE AutoMigrate(p)
  <2>1. PICK a \in {"tabelle", "riga"} :
          /\ Passa(p, "tabelle", a)
          /\ tabelle' \in {"parte", "tutte"} /\ (tabelle = "tutte" => tabelle' = "tutte")
          /\ a = "riga" => tabelle' = "tutte"
    BY <1>4 DEF AutoMigrate
  <2>2. a \in Istruzioni
    BY DEF Istruzioni
  <2>3. /\ istruzione' \in [Avvii -> Istruzioni] /\ istruzione[p] = "tabelle" /\ istruzione'[p] = a
        /\ \A q \in Avvii \ {p} : istruzione'[q] = istruzione[q]
    BY <2>1, <2>2, PassaPc
  <2>4. UNCHANGED <<versioni, gruppi, file, estratte, primo, scrittore, admin, vincolo>>
    BY <1>4 DEF AutoMigrate, processo
  <2> QED
    BY <2>1, <2>3, <2>4 DEF Fuori, Blocco, Dopo
<1> QED
  BY <1>1, <1>2, <1>3, <1>4

LEMMA VersioneFuori ==
    ASSUME AvvioTipi, NEW p \in Avvii, DatabaseAutoUpdate(p)
    PROVE  Fuori(p)
<1>1. UNCHANGED <<versioni, gruppi, file, estratte, primo, scrittore, admin, vincolo, tabelle>>
  BY DEF DatabaseAutoUpdate, disco
<1>2. PICK a \in {"contaPeers", "tabelle"} :
          /\ Passa(p, "versione", a)
          /\ a = "contaPeers" => Letta = "ultima"
  BY DEF DatabaseAutoUpdate
<1>3. a \in Istruzioni
  BY DEF Istruzioni, Dopo
<1>4. /\ istruzione' \in [Avvii -> Istruzioni] /\ istruzione[p] = "versione" /\ istruzione'[p] = a
      /\ \A q \in Avvii \ {p} : istruzione'[q] = istruzione[q]
  BY <1>2, <1>3, PassaPc
<1>5. a = "contaPeers" => Contains(versioni, "ultima")
  BY <1>2, LettaUltima DEF AvvioTipi
<1>6. tabelle \in {"nessuna", "parte", "tutte"}
  BY DEF AvvioTipi
<1> QED
  BY <1>1, <1>4, <1>5, <1>6 DEF Fuori, Blocco, Dopo

(* The steps that begin when the version is written. *)
DopoPasso(p) ==
    \/ Aggiorna245(p, "oauths", "userThirds245") \/ Aggiorna245(p, "user_thirds", "contaPeers")
    \/ Indici(p) \/ Esegue(p)

LEMMA DopoFuori ==
    ASSUME AvvioTipi, NEW p \in Avvii, DopoPasso(p)
    PROVE  Fuori(p)
<1>1. /\ UNCHANGED <<versioni, gruppi, file, estratte, primo, scrittore, vincolo, tabelle>>
      /\ admin' = admin \/ (admin # 0 /\ admin' = -1)
  <2>1. CASE reimpostaPassword(p)
    BY <2>1 DEF reimpostaPassword, processo, Altra
  <2>2. CASE UNCHANGED <<tabelle, versioni, admin, gruppi, vincolo, file, scrittore, processo, estratte>>
    BY <2>2 DEF processo
  <2> QED
    BY <2>1, <2>2 DEF DopoPasso, Aggiorna245, Indici, ContaDoppi, CreaIndice, Esegue, ApiInit, chiudiDB,
         AggiungeRiga, CancellaRiga, Crea, Revoca, SegnaRevoca, Verifica, SegnaUso, disco
<1>2. istruzione[p] \in Dopo /\ \E a \in Dopo \cup {"spento"} : istruzione' = [istruzione EXCEPT ![p] = a]
  <2>1. CASE Aggiorna245(p, "oauths", "userThirds245") \/ Aggiorna245(p, "user_thirds", "contaPeers")
    BY <2>1 DEF Aggiorna245, Passa, Dopo
  <2>2. CASE Indici(p)
    BY <2>2 DEF Indici, ContaDoppi, CreaIndice, Conta, CreaSu, Su, Passa, Dopo
  <2>3. CASE \E t \in Tabelle : AggiungeRiga(p, t) \/ CancellaRiga(p, t)
    <3>1. istruzione[p] = "serve" /\ istruzione' = istruzione
      BY <2>3 DEF AggiungeRiga, CancellaRiga
    <3>2. istruzione' = [istruzione EXCEPT ![p] = "serve"]
      BY <3>1 DEF AvvioTipi
    <3> QED
      BY <3>1, <3>2 DEF Dopo
  <2>4. CASE Esegue(p) /\ ~\E t \in Tabelle : AggiungeRiga(p, t) \/ CancellaRiga(p, t)
    BY <2>4 DEF Esegue, ApiInit, chiudiDB, reimpostaPassword, Crea, Revoca, SegnaRevoca, Verifica, SegnaUso,
         Passa, Dopo
  <2> QED
    BY <2>1, <2>2, <2>3, <2>4 DEF DopoPasso
<1>3. PICK a \in Dopo \cup {"spento"} : istruzione' = [istruzione EXCEPT ![p] = a]
  BY <1>2
<1>4. /\ istruzione' \in [Avvii -> Istruzioni] /\ istruzione'[p] = a /\ \A q \in Avvii \ {p} : istruzione'[q] = istruzione[q]
  BY <1>3 DEF AvvioTipi, Istruzioni
<1>5. tabelle \in {"nessuna", "parte", "tutte"}
  BY DEF AvvioTipi
<1> QED
  BY <1>1, <1>2, <1>4, <1>5 DEF Fuori, Blocco, Dopo

LEMMA FuoriInv ==
    ASSUME AvvioInv, NEW p \in Avvii, Fuori(p)
    PROVE  AvvioInv'
<1>1. AvvioTipi /\ BloccoInv /\ PrimoInv /\ AdminInv /\ PuntoInv /\ UltimaInv
  BY DEF AvvioInv
<1>2. AvvioTipi'
  BY <1>1 DEF Fuori, AvvioTipi
<1>3. BloccoInv'
  BY <1>1 DEF Fuori, BloccoInv
<1>4. PrimoInv'
  <2>1. istruzione'[p] \notin {"cancellaFile", "scriveFile", "conferma"}
    BY DEF Fuori, Blocco
  <2> QED
    BY <1>1, <2>1 DEF Fuori, PrimoInv, Blocco
<1>5. AdminInv'
  BY <1>1 DEF Fuori, AdminInv, PasswordNelFile, AvvioTipi
<1>6. PuntoInv'
  BY <1>1 DEF Fuori, PuntoInv
<1>7. UltimaInv'
  BY <1>1 DEF Fuori, UltimaInv
<1> QED
  BY <1>2, <1>3, <1>4, <1>5, <1>6, <1>7 DEF AvvioInv

-----------------------------------------------------------------------------
(* Only one transaction at a time has written. *)
LEMMA UnoScrive ==
    ASSUME BloccoInv, NEW p \in Avvii, istruzione[p] \in Blocco
    PROVE  scrittore = p /\ \A q \in Avvii \ {p} : istruzione[q] \notin Blocco
BY DEF BloccoInv

LEMMA NessunoScrive ==
    ASSUME BloccoInv, Libero
    PROVE  \A q \in Avvii : istruzione[q] \notin Blocco
BY AvvioAssumption DEF BloccoInv, Libero

LEMMA MigrateInv ==
    ASSUME AvvioInv, NEW p \in Avvii, Migrate(p)
    PROVE  AvvioInv'
<1>1. AvvioTipi /\ BloccoInv /\ PrimoInv /\ AdminInv /\ PuntoInv /\ UltimaInv
  BY DEF AvvioInv
<1>2. /\ UNCHANGED <<tabelle, versioni, admin, gruppi, vincolo, file, estratte>>
      /\ scrittore' = p /\ Libero /\ primo' = [primo EXCEPT ![p] = Primo(p)]
  BY DEF Migrate, disco
<1>3. PICK a \in {"cancellaFile", "conferma"} :
        Passa(p, "riga", a) /\ (a = "cancellaFile" <=> Primo(p))
  BY DEF Migrate
<1>4. a \in Istruzioni /\ a \in Blocco
  BY DEF Istruzioni, Blocco
<1>5. /\ istruzione' \in [Avvii -> Istruzioni] /\ istruzione[p] = "riga" /\ istruzione'[p] = a
      /\ \A q \in Avvii \ {p} : istruzione'[q] = istruzione[q]
  BY <1>1, <1>3, <1>4, PassaPc
<1>6. Primo(p) <=> versioni = <<>>
  BY <1>1, LenProperties, EmptySeq DEF AvvioTipi, Primo
<1>7. \A q \in Avvii \ {p} : istruzione'[q] \notin Blocco
  BY <1>1, <1>2, <1>5, NessunoScrive
<1>8. primo' \in [Avvii -> BOOLEAN] /\ (primo'[p] <=> versioni = <<>>)
  <2>1. Primo(p) \in BOOLEAN
    BY DEF Primo
  <2>2. primo' = [primo EXCEPT ![p] = Primo(p)] /\ primo \in [Avvii -> BOOLEAN]
    BY <1>1, <1>2 DEF AvvioTipi
  <2>3. primo' \in [Avvii -> BOOLEAN] /\ primo'[p] = Primo(p)
    BY <2>1, <2>2
  <2> QED
    BY <1>6, <2>3
<1>9. AvvioTipi'
  BY <1>1, <1>2, <1>5, <1>8 DEF AvvioTipi
<1>10. BloccoInv'
  BY <1>2, <1>4, <1>5, <1>7 DEF BloccoInv
<1>11. PrimoInv'
  <2> SUFFICES ASSUME NEW q \in Avvii
               PROVE  /\ istruzione'[q] \in Blocco => (primo'[q] <=> versioni' = <<>>)
                      /\ istruzione'[q] \in {"cancellaFile", "scriveFile"} => primo'[q]
                      /\ istruzione'[q] = "conferma" /\ primo'[q] => file' = estratte' /\ estratte' > 0
    BY DEF PrimoInv
  <2>1. CASE q = p
    BY <2>1, <1>2, <1>3, <1>5, <1>6, <1>8
  <2>2. CASE q # p
    BY <2>2, <1>7 DEF Blocco
  <2> QED
    BY <2>1, <2>2
<1>12. AdminInv' /\ UltimaInv'
  BY <1>1, <1>2 DEF AdminInv, UltimaInv, PasswordNelFile
<1>13. PuntoInv'
  BY <1>1, <1>2, <1>5 DEF PuntoInv, Blocco, Dopo
<1> QED
  BY <1>9, <1>10, <1>11, <1>12, <1>13 DEF AvvioInv

(* The file is touched only before the first administrator is there. *)
LEMMA FileInv ==
    ASSUME AvvioInv, NEW p \in Avvii, CancellaFile(p) \/ scriviPasswordIniziale(p)
    PROVE  AvvioInv'
<1>1. AvvioTipi /\ BloccoInv /\ PrimoInv /\ AdminInv /\ PuntoInv /\ UltimaInv
  BY DEF AvvioInv
<1>2. /\ UNCHANGED <<tabelle, versioni, admin, gruppi, vincolo, scrittore, primo>>
      /\ estratte' \in Nat /\ file' \in Int
  BY <1>1 DEF CancellaFile, scriviPasswordIniziale, disco, processo, AvvioTipi
<1>3. PICK da \in {"cancellaFile", "scriveFile"}, a \in {"scriveFile", "conferma"} :
        /\ Passa(p, da, a)
        /\ a = "conferma" => file' = estratte' /\ estratte' > 0
  BY <1>1 DEF CancellaFile, scriviPasswordIniziale, AvvioTipi
<1>4. a \in Istruzioni /\ a \in Blocco /\ da \in Blocco
  BY DEF Istruzioni, Blocco
<1>5. /\ istruzione' \in [Avvii -> Istruzioni] /\ istruzione[p] = da /\ istruzione'[p] = a
      /\ \A q \in Avvii \ {p} : istruzione'[q] = istruzione[q]
  BY <1>1, <1>3, <1>4, PassaPc
<1>6. \A q \in Avvii \ {p} : istruzione'[q] \notin Blocco
  BY <1>1, <1>4, <1>5, UnoScrive
<1>7. primo[p] /\ versioni = <<>> /\ admin = 0
  BY <1>1, <1>4, <1>5 DEF PrimoInv, AdminInv
<1>8. AvvioTipi'
  BY <1>1, <1>2, <1>5 DEF AvvioTipi
<1>9. BloccoInv'
  BY <1>1, <1>2, <1>4, <1>5 DEF BloccoInv
<1>10. PrimoInv'
  <2> SUFFICES ASSUME NEW q \in Avvii
               PROVE  /\ istruzione'[q] \in Blocco => (primo'[q] <=> versioni' = <<>>)
                      /\ istruzione'[q] \in {"cancellaFile", "scriveFile"} => primo'[q]
                      /\ istruzione'[q] = "conferma" /\ primo'[q] => file' = estratte' /\ estratte' > 0
    BY DEF PrimoInv
  <2>1. CASE q = p
    BY <2>1, <1>2, <1>3, <1>5, <1>7
  <2>2. CASE q # p
    BY <2>2, <1>6 DEF Blocco
  <2> QED
    BY <2>1, <2>2
<1>11. AdminInv' /\ UltimaInv'
  BY <1>1, <1>2, <1>7 DEF AdminInv, UltimaInv, PasswordNelFile
<1>12. PuntoInv'
  BY <1>1, <1>2, <1>4, <1>5 DEF PuntoInv, Blocco, Dopo
<1> QED
  BY <1>8, <1>9, <1>10, <1>11, <1>12 DEF AvvioInv

(* The commit writes the version, and on the first start the administrator whose password
   is the one in the file. *)
LEMMA ConfermaInv ==
    ASSUME AvvioInv, NEW p \in Avvii, primoAvvio(p)
    PROVE  AvvioInv'
<1>1. AvvioTipi /\ BloccoInv /\ PrimoInv /\ AdminInv /\ PuntoInv /\ UltimaInv
  BY DEF AvvioInv
<1>2. /\ UNCHANGED <<tabelle, vincolo, file, estratte>>
      /\ primo' = [primo EXCEPT ![p] = FALSE] /\ scrittore' = NessunAvvio
      /\ versioni' = Append(versioni, "ultima")
      /\ admin' = IF primo[p] THEN estratte ELSE admin
      /\ gruppi' = IF primo[p] THEN gruppi + 1 ELSE gruppi
  BY DEF primoAvvio, Scorda
<1>3. PICK a \in {"oauths245", "contaPeers"} : Passa(p, "conferma", a)
  BY DEF primoAvvio
<1>4. a \in Istruzioni /\ a \in Dopo /\ a \notin Blocco /\ "conferma" \in Blocco
  BY DEF Istruzioni, Blocco, Dopo
<1>5. /\ istruzione' \in [Avvii -> Istruzioni] /\ istruzione[p] = "conferma" /\ istruzione'[p] = a
      /\ \A q \in Avvii \ {p} : istruzione'[q] = istruzione[q]
  BY <1>1, <1>3, <1>4, PassaPc
<1>6. \A q \in Avvii : istruzione'[q] \notin Blocco
  BY <1>1, <1>4, <1>5, UnoScrive
<1>7. versioni' \in Seq(Viste) /\ versioni' # <<>> /\ Contains(versioni', "ultima")
  BY <1>1, <1>2, AggiuntaUltima DEF AvvioTipi
<1>8. tabelle = "tutte" /\ ~vincolo
  BY <1>1, <1>4, <1>5 DEF PuntoInv
<1>9. admin' # 0 /\ (admin' > 0 => file' = admin' /\ gruppi' = 1)
  <2>1. CASE primo[p]
    <3>1. versioni = <<>> /\ file = estratte /\ estratte > 0
      BY <1>1, <1>4, <1>5, <2>1 DEF PrimoInv
    <3>2. admin' = estratte /\ gruppi' = 1
      BY <1>1, <1>2, <2>1, <3>1 DEF AdminInv
    <3> QED
      BY <1>1, <1>2, <3>1, <3>2 DEF AvvioTipi
  <2>2. CASE ~primo[p]
    <3>1. versioni # <<>>
      BY <1>1, <1>4, <1>5, <2>2 DEF PrimoInv
    <3> QED
      BY <1>1, <1>2, <2>2, <3>1 DEF AdminInv, PasswordNelFile
  <2> QED
    BY <2>1, <2>2
<1>10. AvvioTipi'
  <2>1. admin' \in Int /\ gruppi' \in Nat /\ primo' \in [Avvii -> BOOLEAN]
    <3>1. CASE primo[p]
      BY <1>1, <1>2, <3>1 DEF AvvioTipi
    <3>2. CASE ~primo[p]
      BY <1>1, <1>2, <3>2 DEF AvvioTipi
    <3> QED
      BY <3>1, <3>2
  <2> QED
    BY <1>1, <1>2, <1>5, <1>7, <2>1 DEF AvvioTipi
<1>11. BloccoInv' /\ PrimoInv'
  BY <1>2, <1>6, AvvioAssumption DEF BloccoInv, PrimoInv, Blocco
<1>12. AdminInv' /\ UltimaInv'
  BY <1>2, <1>7, <1>8, <1>9 DEF AdminInv, UltimaInv, PasswordNelFile
<1>13. PuntoInv'
  BY <1>1, <1>2, <1>5, <1>7, <1>8 DEF PuntoInv, Blocco, Dopo
<1> QED
  BY <1>10, <1>11, <1>12, <1>13 DEF AvvioInv

(* A start that fails, or a process that dies, gives its transaction back and leaves the
   file as it is. *)
LEMMA FineInv ==
    ASSUME AvvioInv, NEW p \in Avvii, Fatalf(p) \/ Cade(p)
    PROVE  AvvioInv'
<1>1. AvvioTipi /\ BloccoInv /\ PrimoInv /\ AdminInv /\ PuntoInv /\ UltimaInv
  BY DEF AvvioInv
<1>2. /\ UNCHANGED <<tabelle, versioni, admin, gruppi, vincolo, file, estratte>>
      /\ istruzione' = [istruzione EXCEPT ![p] = "spento"]
      /\ scrittore' = IF scrittore = p THEN NessunAvvio ELSE scrittore
      /\ primo' = [primo EXCEPT ![p] = FALSE]
  BY DEF Fatalf, Cade, disco, Scorda
<1>3. istruzione' \in [Avvii -> Istruzioni] /\ istruzione'[p] = "spento" /\ \A q \in Avvii \ {p} : istruzione'[q] = istruzione[q]
  BY <1>1, <1>2 DEF AvvioTipi, Istruzioni
<1>4. /\ primo' \in [Avvii -> BOOLEAN] /\ \A q \in Avvii \ {p} : primo'[q] = primo[q]
  BY <1>1, <1>2 DEF AvvioTipi
<1>5. AvvioTipi'
  BY <1>1, <1>2, <1>3, <1>4 DEF AvvioTipi
<1>6. BloccoInv'
  BY <1>1, <1>2, <1>3, AvvioAssumption DEF BloccoInv, Blocco
<1>7. PrimoInv'
  <2> SUFFICES ASSUME NEW q \in Avvii
               PROVE  /\ istruzione'[q] \in Blocco => (primo'[q] <=> versioni' = <<>>)
                      /\ istruzione'[q] \in {"cancellaFile", "scriveFile"} => primo'[q]
                      /\ istruzione'[q] = "conferma" /\ primo'[q] => file' = estratte' /\ estratte' > 0
    BY DEF PrimoInv
  <2>1. CASE q = p
    BY <2>1, <1>3 DEF Blocco
  <2>2. CASE q # p
    BY <2>2, <1>1, <1>2, <1>3, <1>4 DEF PrimoInv
  <2> QED
    BY <2>1, <2>2
<1>8. AdminInv' /\ UltimaInv'
  BY <1>1, <1>2 DEF AdminInv, UltimaInv, PasswordNelFile
<1>9. PuntoInv'
  BY <1>1, <1>2, <1>3 DEF PuntoInv, Blocco, Dopo
<1> QED
  BY <1>5, <1>6, <1>7, <1>8, <1>9 DEF AvvioInv

LEMMA FermoInv ==
    ASSUME AvvioInv, Scade \/ UNCHANGED varsAvvio
    PROVE  AvvioInv'
<1>1. UNCHANGED <<tabelle, versioni, admin, gruppi, vincolo, file, estratte, primo, scrittore, istruzione>>
  BY DEF Scade, varsAvvio, disco, processo
<1> QED
  BY <1>1 DEF AvvioInv, AvvioTipi, BloccoInv, PrimoInv, AdminInv, PuntoInv, UltimaInv, PasswordNelFile

LEMMA AvvioPasso == AvvioInv /\ [NextAvvio]_varsAvvio => AvvioInv'
<1> SUFFICES ASSUME AvvioInv, [NextAvvio]_varsAvvio PROVE AvvioInv'
  OBVIOUS
<1> AvvioTipi
  BY DEF AvvioInv
<1>1. CASE Scade \/ UNCHANGED varsAvvio
  BY <1>1, FermoInv
<1>2. ASSUME NEW p \in Avvii, rootCmd(p) \/ InitGlobal(p) \/ Esegue(p) \/ Fatalf(p) \/ Cade(p)
      PROVE  AvvioInv'
  <2>1. CASE rootCmd(p) \/ NewSqlite(p) \/ togliVincoloDispositivi(p) \/ AutoMigrate(p)
    BY <2>1, AperturaFuori, FuoriInv
  <2>2. CASE DatabaseAutoUpdate(p)
    BY <2>2, VersioneFuori, FuoriInv
  <2>3. CASE DopoPasso(p)
    BY <2>3, DopoFuori, FuoriInv
  <2>4. CASE Migrate(p)
    BY <2>4, MigrateInv
  <2>5. CASE CancellaFile(p) \/ scriviPasswordIniziale(p)
    BY <2>5, FileInv
  <2>6. CASE primoAvvio(p)
    BY <2>6, ConfermaInv
  <2>7. CASE Fatalf(p) \/ Cade(p)
    BY <2>7, FineInv
  <2> QED
    BY <1>2, <2>1, <2>2, <2>3, <2>4, <2>5, <2>6, <2>7 DEF InitGlobal, DopoPasso
<1> QED
  BY <1>1, <1>2 DEF NextAvvio

LEMMA AvvioSempre == SpecAvvio => []AvvioInv
BY InizioAvvio, AvvioPasso, PTL DEF SpecAvvio

(* The password of the first administrator, as long as nobody changed it, is the one in
   data/admin-password.txt, and the default groups were made once: starts that run at once
   are ordered by the lock of the transaction that Migrate opens, and the file is made in it. *)
THEOREM PasswordSempreNelFile == SpecAvvio => []PasswordNelFile
<1>1. AvvioInv => PasswordNelFile
  BY DEF AvvioInv, AdminInv
<1> QED
  BY <1>1, AvvioSempre, PTL

(* Whatever starts died half way, no process serves or works on a database that is not
   complete: the version is the last thing the transaction commits, and what is read of it
   decides whether a start may go on. *)
THEOREM SemprePrimaDiServire == SpecAvvio => []PrimaDiServire
<1>1. ASSUME AvvioInv PROVE PrimaDiServire
  <2> SUFFICES ASSUME NEW p \in Avvii, istruzione[p] \in {"pronto", "serve"}
               PROVE  tabelle = "tutte" /\ Contains(versioni, "ultima") /\ admin # 0 /\ ~vincolo
    BY DEF PrimaDiServire
  <2>1. istruzione[p] \in Dopo /\ istruzione[p] \notin {"spento", "apre", "vincolo"}
    BY DEF Dopo
  <2>2. Contains(versioni, "ultima") /\ ~vincolo
    BY <1>1, <2>1 DEF AvvioInv, PuntoInv
  <2> QED
    BY <1>1, <2>2 DEF AvvioInv, UltimaInv
<1> QED
  BY <1>1, AvvioSempre, PTL

(* A token of integration that is revoked stays so: the API, which read the row before, writes
   the column of the last use and nothing else. *)
THEOREM RevocaRestaSempre == SpecAvvio => RevocaResta
<1>1. ASSUME [NextAvvio]_varsAvvio, token = "revocato"
      PROVE  token' = "revocato"
  <2>1. CASE UNCHANGED token
    BY <1>1, <2>1
  <2>2. CASE Scade
    BY <1>1, <2>2 DEF Scade
  <2>3. ASSUME NEW p \in Avvii, rootCmd(p) \/ InitGlobal(p) \/ Fatalf(p) \/ Cade(p)
        PROVE  UNCHANGED token
    BY <2>3 DEF rootCmd, InitGlobal, NewSqlite, togliVincoloDispositivi, DatabaseAutoUpdate, AutoMigrate,
         Migrate, CancellaFile, scriviPasswordIniziale, primoAvvio, Aggiorna245, Indici, ContaDoppi,
         CreaIndice, Fatalf, Cade
  <2>4. ASSUME NEW p \in Avvii, Esegue(p)
        PROVE  token' = "revocato"
    BY <1>1, <2>4 DEF Esegue, ApiInit, chiudiDB, AggiungeRiga, CancellaRiga, reimpostaPassword, Crea, Revoca,
         SegnaRevoca, Verifica, SegnaUso, Uso
  <2> QED
    BY <1>1, <2>1, <2>2, <2>3, <2>4 DEF NextAvvio, varsAvvio
<1> QED
  BY <1>1, PTL DEF SpecAvvio, RevocaResta

-----------------------------------------------------------------------------
(***************************************************************************)
(* Module Dispositivi. The table keeps one row for each ID and a key once  *)
(* it is there; a login writes back only what it has read (Letto).         *)
(***************************************************************************)

USE DispositiviAssumption

Passi == {"libera", "ultimo", "crea", "aggiorna", "registra", "scrivi", "scollega", "inserisci", "salva"}

(* The tables, and what makes a row the one of an ID. *)
Tabella ==
    /\ peers \subseteq Peer
    /\ \A p, q \in peers : p.riga = q.riga => p = q
    /\ prossima \in 1 .. MaxRighe + 1
    /\ \A p \in peers : p.riga < prossima
    /\ UnoPerId

(* What a request that has come to passo must carry. *)
Porta(passo, q) ==
    /\ passo \in {"ultimo", "crea", "inserisci"} => q.id \in Id
    /\ passo = "salva" => q.chiave = Nessuno
    /\ passo \in {"ultimo", "aggiorna", "scrivi"} => q.letto \in {Nessuno, q.uuid}

(* What a login has read of a row still says its key: the key it will write back. *)
Letto(q, righe, nuova) ==
    /\ q.riga < nuova
    /\ \A p \in righe : p.riga = q.riga /\ q.chiave # Nessuno => p.chiave = q.chiave

RichiesteInv ==
    /\ pc \in [Richieste -> Passi]
    /\ req \in [Richieste -> Req]
    /\ \A r \in Richieste : Porta(pc[r], req[r]) /\ (pc[r] = "scrivi" => Letto(req[r], peers, prossima))

Inv == Tabella /\ RichiesteInv

(* What a step may do to the tables: every row is new, or one that was there, and the key
   of one that was there stays. *)
Segue ==
    /\ Tabella' /\ prossima <= prossima'
    /\ \A q \in peers' :
          \/ prossima <= q.riga
          \/ \E p \in peers : p.riga = q.riga /\ (p.chiave # Nessuno => q.chiave = p.chiave)

(* A step of r: what it carries is what its next step wants. *)
Cammina(r) ==
    \E passo \in Passi, q \in Req :
        /\ Va(r, passo, q) /\ Porta(passo, q)
        /\ passo = "scrivi" => Letto(q, peers, prossima) /\ UNCHANGED <<peers, prossima>>
-----------------------------------------------------------------------------
LEMMA VuotaBene == Vuota \in Req /\ Porta("libera", Vuota) /\ "libera" \in Passi
BY DEF Vuota, Req, O, Porta, Passi

LEMMA InizioInv == Init => Inv
BY VuotaBene DEF Init, Inv, Tabella, UnoPerId, RichiesteInv

LEMMA InvTypeOK == Inv => TypeOK /\ UnoPerId
BY DEF Inv, Tabella, RichiesteInv, TypeOK, Passi

(* The rows of a login that has read one are the same, or have kept their key. *)
LEMMA LettoResta ==
    ASSUME Tabella, NEW q, Letto(q, peers, prossima), q.riga \in Nat, Segue
    PROVE  Letto(q, peers', prossima')
<1>1. prossima \in Nat /\ prossima' \in Nat
  BY DEF Tabella, Segue
<1>2. ASSUME NEW p \in peers', p.riga = q.riga, q.chiave # Nessuno
      PROVE  p.chiave = q.chiave
  BY <1>1, <1>2 DEF Segue, Letto
<1> QED
  BY <1>1, <1>2 DEF Letto, Segue

LEMMA CamminaInv ==
    ASSUME Inv, NEW r \in Richieste, Segue, Cammina(r)
    PROVE  Inv'
<1>1. PICK passo \in Passi, q \in Req :
        /\ Va(r, passo, q) /\ Porta(passo, q)
        /\ passo = "scrivi" => Letto(q, peers, prossima) /\ UNCHANGED <<peers, prossima>>
  BY DEF Cammina
<1>2. pc' \in [Richieste -> Passi] /\ req' \in [Richieste -> Req]
  BY <1>1 DEF Va, Inv, RichiesteInv
<1>3. ASSUME NEW s \in Richieste
      PROVE  Porta(pc'[s], req'[s]) /\ (pc'[s] = "scrivi" => Letto(req'[s], peers', prossima'))
  <2>1. CASE s = r
    <3>1. pc'[s] = passo /\ req'[s] = q
      BY <1>1, <2>1 DEF Va, Inv, RichiesteInv
    <3>2. passo = "scrivi" => Letto(req'[s], peers', prossima')
      BY <1>1, <3>1
    <3> QED
      BY <1>1, <3>1, <3>2
  <2>2. CASE s # r
    <3>1. pc'[s] = pc[s] /\ req'[s] = req[s]
      BY <1>1, <2>2 DEF Va, Inv, RichiesteInv
    <3>2. Porta(pc[s], req[s]) /\ (pc[s] = "scrivi" => Letto(req[s], peers, prossima)) /\ req[s].riga \in Nat
      BY DEF Inv, RichiesteInv, Req
    <3>3. pc[s] = "scrivi" => Letto(req[s], peers', prossima')
      BY <3>2, LettoResta DEF Inv
    <3> QED
      BY <3>1, <3>2, <3>3
  <2> QED
    BY <2>1, <2>2
<1> QED
  BY <1>2, <1>3 DEF Inv, RichiesteInv, Segue

LEMMA FermaSegue ==
    ASSUME Tabella, UNCHANGED <<peers, prossima>>
    PROVE  Segue
BY DEF Segue, Tabella, UnoPerId

LEMMA SegueInv ==
    ASSUME Inv, Segue, UNCHANGED <<pc, req>>
    PROVE  Inv'
<1>1. ASSUME NEW s \in Richieste, pc[s] = "scrivi"
      PROVE  Letto(req[s], peers', prossima')
  BY <1>1, LettoResta DEF Inv, RichiesteInv, Req
<1> QED
  BY <1>1 DEF Inv, RichiesteInv, Segue
-----------------------------------------------------------------------------
(* Writes that keep the row_ids. *)
LEMMA RigheSegue ==
    ASSUME Tabella, UNCHANGED prossima, NEW g,
           peers' = {g[p] : p \in peers},
           \A p \in peers : /\ g[p] \in Peer /\ g[p].riga = p.riga
                            /\ p.chiave # Nessuno => g[p].chiave = p.chiave,
           \A p, q \in peers : g[p].id = g[q].id => p = q
    PROVE  Segue
<1>1. peers' \subseteq Peer
  OBVIOUS
<1>2. \A p, q \in peers' : p.riga = q.riga => p = q
  BY DEF Tabella
<1>3. \A p \in peers' : p.riga < prossima'
  BY DEF Tabella
<1>4. \A p, q \in peers' : p.id = q.id => p = q
  OBVIOUS
<1>5. prossima' \in 1 .. MaxRighe + 1 /\ prossima <= prossima'
  BY DEF Tabella
<1> QED
  BY <1>1, <1>2, <1>3, <1>4, <1>5 DEF Segue, Tabella, UnoPerId

(* What an UPDATE makes of a row. *)
LEMMA RigaAggiornata ==
    ASSUME NEW p \in Peer, NEW q \in Req,
           NEW v, v = [c \in DOMAIN p |-> IF c # "riga" /\ q[c] # Nessuno THEN q[c] ELSE p[c]]
    PROVE  /\ v \in Peer
           /\ v.riga = p.riga
           /\ v.id = IF q.id # Nessuno THEN q.id ELSE p.id
           /\ v.uuid = IF q.uuid # Nessuno THEN q.uuid ELSE p.uuid
           /\ v.chiave = IF q.chiave # Nessuno THEN q.chiave ELSE p.chiave
<1>1. DOMAIN p = {"riga", "id", "uuid", "chiave", "utente"}
  BY DEF Peer
<1>2. /\ v.riga = p.riga
      /\ v.id = IF q.id # Nessuno THEN q.id ELSE p.id
      /\ v.uuid = IF q.uuid # Nessuno THEN q.uuid ELSE p.uuid
      /\ v.chiave = IF q.chiave # Nessuno THEN q.chiave ELSE p.chiave
      /\ v.utente = IF q.utente # Nessuno THEN q.utente ELSE p.utente
  BY <1>1
<1>3. /\ v.riga \in 1 .. MaxRighe /\ v.id \in Id /\ v.uuid \in O(Uuid) /\ v.chiave \in O(Chiavi)
      /\ v.utente \in O(Utenti)
  BY <1>2 DEF Peer, Req, O
<1>4. v = [riga |-> v.riga, id |-> v.id, uuid |-> v.uuid, chiave |-> v.chiave, utente |-> v.utente]
  BY <1>1
<1> QED
  BY <1>2, <1>3, <1>4 DEF Peer

LEMMA AggiornatiSegue ==
    ASSUME Tabella, NEW riga, NEW q \in Req, IndiceIdUnico(q.id, riga),
           \A p \in peers : p.riga = riga /\ p.chiave # Nessuno => q.chiave \in {Nessuno, p.chiave},
           peers' = Aggiornati(riga, q), UNCHANGED prossima
    PROVE  Segue
<1> DEFINE u(p) == [c \in DOMAIN p |-> IF c # "riga" /\ q[c] # Nessuno THEN q[c] ELSE p[c]]
           g == [p \in peers |-> IF p.riga # riga THEN p ELSE u(p)]
<1>1. peers' = {g[p] : p \in peers}
  BY DEF Aggiornati
<1>2. ASSUME NEW p \in peers
      PROVE  /\ g[p] \in Peer /\ g[p].riga = p.riga
             /\ p.chiave # Nessuno => g[p].chiave = p.chiave
             /\ g[p].id = IF p.riga = riga /\ q.id # Nessuno THEN q.id ELSE p.id
  <2>1. p \in Peer
    BY DEF Tabella
  <2>2. CASE p.riga # riga
    BY <2>1, <2>2
  <2>3. CASE p.riga = riga
    <3>1. g[p] = u(p)
      BY <2>3
    <3>2. /\ u(p) \in Peer /\ u(p).riga = p.riga
          /\ u(p).id = IF q.id # Nessuno THEN q.id ELSE p.id
          /\ u(p).chiave = IF q.chiave # Nessuno THEN q.chiave ELSE p.chiave
      BY <2>1, RigaAggiornata
    <3> HIDE DEF u, g
    <3> QED
      BY <2>3, <3>1, <3>2
  <2> QED
    BY <2>2, <2>3
<1> HIDE DEF u, g
<1>3. ASSUME NEW p \in peers, NEW s \in peers, g[p].id = g[s].id
      PROVE  p = s
  <2>1. p.riga = s.riga => p = s
    BY DEF Tabella
  <2>2. p.id = s.id => p = s
    BY DEF Tabella, UnoPerId
  <2> QED
    BY <1>2, <1>3, <2>1, <2>2 DEF IndiceIdUnico
<1> QED
  BY <1>1, <1>2, <1>3, RigheSegue

LEMMA InserisceSegue ==
    ASSUME Tabella, NEW id \in Id, NEW uuid \in O(Uuid), NEW chiave \in O(Chiavi),
           NEW utente \in O(Utenti), Inserisce(id, uuid, chiave, utente)
    PROVE  Segue
<1> DEFINE n == [riga |-> prossima, id |-> id, uuid |-> uuid, chiave |-> chiave, utente |-> utente]
<1>1. CASE ~IndiceIdUnico(id, 0)
  BY <1>1, FermaSegue DEF Inserisce
<1>2. CASE IndiceIdUnico(id, 0)
  <2>1. /\ prossima <= MaxRighe /\ peers' = peers \cup {n} /\ prossima' = prossima + 1
        /\ prossima \in Nat \ {0}
    BY <1>2 DEF Inserisce, Tabella
  <2>2. n \in Peer /\ n.riga = prossima /\ n.id = id
    BY <2>1 DEF Peer
  <2>3. \A p \in peers : p.id # id /\ p.riga < prossima /\ p.riga \in Nat \ {0}
    BY <1>2 DEF IndiceIdUnico, Tabella, Peer
  <2> HIDE DEF n
  <2>4. Tabella'
    BY <2>1, <2>2, <2>3 DEF Tabella, UnoPerId
  <2> QED
    BY <2>1, <2>2, <2>4 DEF Segue
<1> QED
  BY <1>1, <1>2

LEMMA MenoSegue ==
    ASSUME Tabella, UNCHANGED prossima, peers' \subseteq peers
    PROVE  Segue
BY DEF Segue, Tabella, UnoPerId

(* The user of some rows, or their key if they have none. *)
LEMMA ColonnaSegue ==
    ASSUME Tabella, UNCHANGED prossima, NEW S,
           \/ peers' = {IF p \in S THEN [p EXCEPT !.utente = Nessuno] ELSE p : p \in peers}
           \/ \E k \in O(Chiavi) :
                /\ peers' = {IF p \in S THEN [p EXCEPT !.chiave = k] ELSE p : p \in peers}
                /\ \A p \in S : p.chiave = Nessuno
    PROVE  Segue
<1>1. CASE peers' = {IF p \in S THEN [p EXCEPT !.utente = Nessuno] ELSE p : p \in peers}
  <2> DEFINE g == [p \in peers |-> IF p \in S THEN [p EXCEPT !.utente = Nessuno] ELSE p]
  <2>1. peers' = {g[p] : p \in peers}
    BY <1>1
  <2>2. \A p \in peers : g[p] \in Peer /\ g[p].riga = p.riga /\ g[p].chiave = p.chiave /\ g[p].id = p.id
    BY DEF Tabella, Peer, O
  <2> HIDE DEF g
  <2> QED
    BY <2>1, <2>2, RigheSegue DEF Tabella, UnoPerId
<1>2. ASSUME NEW k \in O(Chiavi),
             peers' = {IF p \in S THEN [p EXCEPT !.chiave = k] ELSE p : p \in peers},
             \A p \in S : p.chiave = Nessuno
      PROVE  Segue
  <2> DEFINE g == [p \in peers |-> IF p \in S THEN [p EXCEPT !.chiave = k] ELSE p]
  <2>1. peers' = {g[p] : p \in peers}
    BY <1>2
  <2>2. \A p \in peers : /\ g[p] \in Peer /\ g[p].riga = p.riga /\ g[p].id = p.id
                         /\ p.chiave # Nessuno => g[p].chiave = p.chiave
    BY <1>2 DEF Tabella, Peer
  <2> HIDE DEF g
  <2> QED
    BY <2>1, <2>2, RigheSegue DEF Tabella, UnoPerId
<1> QED
  BY <1>1, <1>2
-----------------------------------------------------------------------------
(* What the invariant says of a request. *)
LEMMA DiUna ==
    ASSUME Inv, NEW r \in Richieste
    PROVE  /\ Tabella /\ req[r] \in Req /\ pc[r] \in Passi /\ Porta(pc[r], req[r])
           /\ pc[r] = "scrivi" => Letto(req[r], peers, prossima)
BY DEF Inv, RichiesteInv

LEMMA FinisceCammina ==
    ASSUME NEW r \in Richieste, Finisce(r)
    PROVE  Cammina(r)
BY VuotaBene DEF Finisce, Cammina

LEMMA LeggeCammina ==
    ASSUME Inv, NEW r \in Richieste, NEW passo \in Passi, NEW q \in Req, Porta(passo, q),
           passo = "scrivi" => Letto(q, peers, prossima), Legge(r, passo, q)
    PROVE  Segue /\ Cammina(r)
BY FermaSegue DEF Inv, Legge, Cammina

LEMMA SysInfoCammina ==
    ASSUME Inv, NEW r \in Richieste, NEW m \in Moduli, SysInfo(r, m)
    PROVE  Segue /\ Cammina(r)
<1> DEFINE q == [Vuota EXCEPT !.id = m.id, !.uuid = m.uuid, !.chiave = Chiave(m)]
<1>1. Chiave(m) \in O(Chiavi) /\ m.id \in Id /\ m.uuid \in Uuid
  BY DEF Chiave, Moduli, O
<1>2. /\ q \in Req /\ q.id = m.id /\ q.uuid = m.uuid /\ q.letto = Nessuno
  BY <1>1, VuotaBene DEF Req, O, Vuota
<1>3. CASE Legge(r, "ultimo", q)
  <2>1. Porta("ultimo", q) /\ "ultimo" \in Passi
    BY <1>1, <1>2 DEF Porta, Passi
  <2> HIDE DEF q
  <2> QED
    BY <1>2, <1>3, <2>1, LeggeCammina
<1>4. ASSUME NEW p \in FindById(m.id), Riconosce(p, m),
             Legge(r, IF p.utente = Nessuno THEN "ultimo" ELSE "aggiorna",
                   [q EXCEPT !.riga = p.riga, !.utente = p.utente, !.letto = p.uuid])
      PROVE  Segue /\ Cammina(r)
  <2> DEFINE n == [q EXCEPT !.riga = p.riga, !.utente = p.utente, !.letto = p.uuid]
             passo == IF p.utente = Nessuno THEN "ultimo" ELSE "aggiorna"
  <2>1. p \in Peer
    BY DEF FindById, Inv, Tabella
  <2>2. p.riga \in 0 .. MaxRighe /\ p.utente \in O(Utenti) /\ p.uuid \in O(Uuid)
    BY <2>1 DEF Peer
  <2>3. n \in Req /\ n.id = m.id /\ n.uuid = m.uuid /\ n.letto = p.uuid
    <3> HIDE DEF q
    <3> QED
      BY <1>2, <2>2 DEF Req
  <2>4. p.uuid \in {Nessuno, m.uuid}
    BY <1>4 DEF Riconosce, StessoDispositivo
  <2>5. passo \in {"ultimo", "aggiorna"}
    OBVIOUS
  <2>6. Legge(r, passo, n)
    BY <1>4
  <2> HIDE DEF n, passo, q
  <2>7. Porta(passo, n) /\ passo \in Passi
    BY <1>1, <2>3, <2>4, <2>5 DEF Porta, Passi
  <2> QED
    BY <2>3, <2>5, <2>6, <2>7, LeggeCammina
<1> QED
  BY <1>3, <1>4 DEF SysInfo

LEMMA UltimoCammina ==
    ASSUME Inv, NEW r \in Richieste, UltimoUtente(r)
    PROVE  Segue /\ Cammina(r)
<1>1. PICK u \in O(Utenti) :
        Legge(r, IF req[r].riga = 0 THEN "crea" ELSE "aggiorna", [req[r] EXCEPT !.utente = u])
  BY DEF UltimoUtente
<1> DEFINE q == [req[r] EXCEPT !.utente = u]
           passo == IF req[r].riga = 0 THEN "crea" ELSE "aggiorna"
<1>2. req[r] \in Req /\ Porta("ultimo", req[r])
  BY DiUna DEF UltimoUtente
<1>3. q \in Req /\ q.id = req[r].id /\ q.letto = req[r].letto /\ q.uuid = req[r].uuid
  BY <1>2 DEF Req
<1>4. Legge(r, passo, q) /\ passo \in {"crea", "aggiorna"}
  BY <1>1
<1> HIDE DEF q, passo
<1>5. Porta(passo, q) /\ passo \in Passi
  BY <1>2, <1>3, <1>4 DEF Porta, Passi
<1> QED
  BY <1>3, <1>4, <1>5, LeggeCammina

LEMMA CreaCammina ==
    ASSUME Inv, NEW r \in Richieste, CreaPc(r) \/ Inserisci(r)
    PROVE  Segue /\ Cammina(r)
<1>1. /\ req[r].id \in Id /\ req[r].uuid \in O(Uuid) /\ req[r].chiave \in O(Chiavi)
      /\ req[r].utente \in O(Utenti) /\ Nessuno \in O(Chiavi) /\ Nessuno \in O(Utenti)
  BY DiUna DEF CreaPc, Inserisci, Porta, Req, O
<1> QED
  BY <1>1, DiUna, InserisceSegue, FinisceCammina DEF CreaPc, Inserisci

LEMMA AggiornaCammina ==
    ASSUME Inv, NEW r \in Richieste, Aggiorna(r)
    PROVE  Segue /\ Cammina(r)
<1> DEFINE q == req[r]
           n == [q EXCEPT !.chiave = Nessuno]
<1>1. q \in Req /\ Tabella /\ UNCHANGED prossima
  BY DiUna DEF Aggiorna
<1>2. n \in Req /\ n.id = q.id /\ n.chiave = Nessuno
  BY <1>1 DEF Req, O
<1>3. CASE IndiceIdUnico(q.id, q.riga)
  <2>1. peers' = Aggiornati(q.riga, n) /\ (Finisce(r) \/ Va(r, "registra", q))
    BY <1>3 DEF Aggiorna
  <2> HIDE DEF q, n
  <2>2. Segue
    BY <1>1, <1>2, <1>3, <2>1, AggiornatiSegue
  <2>3. Porta("registra", q) /\ "registra" \in Passi
    BY DEF Porta, Passi
  <2> QED
    BY <1>1, <2>1, <2>2, <2>3, FinisceCammina DEF Cammina
<1>4. CASE ~IndiceIdUnico(q.id, q.riga)
  BY <1>1, <1>4, FermaSegue, FinisceCammina DEF Aggiorna
<1> QED
  BY <1>3, <1>4

LEMMA RegistraCammina ==
    ASSUME Inv, NEW r \in Richieste, RegistraChiave(r)
    PROVE  Segue /\ Cammina(r)
<1>1. req[r].chiave \in O(Chiavi) /\ Tabella /\ UNCHANGED prossima /\ Finisce(r)
  BY DiUna DEF RegistraChiave, Req
<1>2. \A p \in DaRegistrare(req[r].riga) : p.chiave = Nessuno
  BY DEF DaRegistrare
<1>3. peers' = {IF p \in DaRegistrare(req[r].riga) THEN [p EXCEPT !.chiave = req[r].chiave] ELSE p : p \in peers}
  BY DEF RegistraChiave
<1> QED
  BY <1>1, <1>2, <1>3, ColonnaSegue, FinisceCammina

(* The write-back of a login, and the form of the panel. *)
LEMMA ScriveCammina ==
    ASSUME Inv, NEW r \in Richieste, ScriveUtente(r) \/ UpdateDalPannello(r)
    PROVE  Segue /\ Cammina(r)
<1> DEFINE q == req[r]
<1>1. q \in Req /\ Tabella /\ UNCHANGED prossima /\ Finisce(r)
  BY DiUna DEF ScriveUtente, UpdateDalPannello
<1>2. \A p \in peers : p.riga = q.riga /\ p.chiave # Nessuno => q.chiave \in {Nessuno, p.chiave}
  BY DiUna DEF ScriveUtente, UpdateDalPannello, Porta, Letto
<1>3. peers' = IF IndiceIdUnico(q.id, q.riga) THEN Aggiornati(q.riga, q) ELSE peers
  BY DEF ScriveUtente, UpdateDalPannello
<1> HIDE DEF q
<1> QED
  BY <1>1, <1>2, <1>3, AggiornatiSegue, FermaSegue, FinisceCammina

LEMMA BindCammina ==
    ASSUME Inv, NEW r \in Richieste, NEW u \in Utenti, NEW uuid \in Uuid,
           UuidBindUserId(r, u, uuid)
    PROVE  Segue /\ Cammina(r)
<1>1. PICK p \in peers :
        Legge(r, "scrivi", [riga |-> p.riga, id |-> p.id, uuid |-> p.uuid, chiave |-> p.chiave,
                            utente |-> u, letto |-> p.uuid])
  BY DEF UuidBindUserId, Prima
<1> DEFINE q == [riga |-> p.riga, id |-> p.id, uuid |-> p.uuid, chiave |-> p.chiave,
                 utente |-> u, letto |-> p.uuid]
<1>2. Tabella /\ p \in Peer
  BY DEF Inv, Tabella
<1>3. q \in Req
  BY <1>2 DEF Peer, Req, O
<1>4. Porta("scrivi", q) /\ "scrivi" \in Passi
  BY DEF Porta, Passi
<1>5. Letto(q, peers, prossima)
  BY <1>2 DEF Letto, Tabella
<1> HIDE DEF q
<1> QED
  BY <1>1, <1>3, <1>4, <1>5, LeggeCammina DEF q

LEMMA UnbindCammina ==
    ASSUME Inv, NEW r \in Richieste, NEW u \in Utenti, NEW uuid \in Uuid,
           UuidUnbindUserId(r, u, uuid)
    PROVE  Segue /\ Cammina(r)
<1>1. PICK p \in peers : Legge(r, "scollega", [Vuota EXCEPT !.riga = p.riga])
  BY DEF UuidUnbindUserId, Prima
<1>2. p.riga \in 0 .. MaxRighe
  BY DEF Inv, Tabella, Peer
<1>3. [Vuota EXCEPT !.riga = p.riga] \in Req
  BY <1>2, VuotaBene DEF Req
<1>4. Porta("scollega", [Vuota EXCEPT !.riga = p.riga]) /\ "scollega" \in Passi
  BY DEF Porta, Passi
<1> QED
  BY <1>1, <1>3, <1>4, LeggeCammina

LEMMA ScollegaCammina ==
    ASSUME Inv, NEW r \in Richieste, Scollega(r)
    PROVE  Segue /\ Cammina(r)
<1> DEFINE S == {p \in peers : p.riga = req[r].riga}
<1>1. peers' = {IF p \in S THEN [p EXCEPT !.utente = Nessuno] ELSE p : p \in peers}
  BY DEF Scollega
<1> HIDE DEF S
<1> QED
  BY <1>1, DiUna, ColonnaSegue, FinisceCammina DEF Scollega

LEMMA CreateCammina ==
    ASSUME Inv, NEW r \in Richieste, NEW id \in Id, NEW uuid \in O(Uuid), Create(r, id, uuid)
    PROVE  Segue /\ Cammina(r)
<1> DEFINE q == [Vuota EXCEPT !.id = id, !.uuid = uuid]
<1>1. Legge(r, "inserisci", q)
  BY DEF Create
<1>2. id \in O(Id) /\ Vuota \in Req
  BY VuotaBene DEF O
<1>3. q \in Req /\ q.id = id
  BY <1>2 DEF Req
<1> HIDE DEF q
<1>4. Porta("inserisci", q) /\ "inserisci" \in Passi
  BY <1>3 DEF Porta, Passi
<1> QED
  BY <1>1, <1>3, <1>4, LeggeCammina

LEMMA UpdateCammina ==
    ASSUME Inv, NEW r \in Richieste, NEW p \in peers, NEW id \in Id, NEW uuid \in O(Uuid),
           Update(r, p.riga, id, uuid)
    PROVE  Segue /\ Cammina(r)
<1> DEFINE q == [Vuota EXCEPT !.riga = p.riga, !.id = id, !.uuid = uuid]
<1>1. Legge(r, "salva", q)
  BY DEF Update
<1>2. p.riga \in 0 .. MaxRighe /\ id \in O(Id) /\ Vuota \in Req /\ Vuota.chiave = Nessuno
  BY VuotaBene DEF Inv, Tabella, Peer, O, Vuota
<1>3. q \in Req /\ q.chiave = Nessuno
  BY <1>2 DEF Req
<1> HIDE DEF q
<1>4. Porta("salva", q) /\ "salva" \in Passi
  BY <1>3 DEF Porta, Passi
<1> QED
  BY <1>1, <1>3, <1>4, LeggeCammina

LEMMA MuoreCammina ==
    ASSUME Inv, NEW r \in Richieste, Muore(r)
    PROVE  Segue /\ Cammina(r)
BY VuotaBene, LeggeCammina DEF Muore

LEMMA PassoCammina ==
    ASSUME Inv, NEW r \in Richieste, Passo(r)
    PROVE  Segue /\ Cammina(r)
BY SysInfoCammina, UltimoCammina, CreaCammina, AggiornaCammina, RegistraCammina, UnbindCammina,
   BindCammina, ScriveCammina, ScollegaCammina, CreateCammina,
   UpdateCammina, MuoreCammina DEF Passo

LEMMA SenzaRichiesta ==
    ASSUME Inv,
           \/ \E S \in SUBSET peers : Delete(S)
           \/ \E u \in Utenti : EraseUserId(u)
    PROVE  Segue /\ UNCHANGED <<pc, req>>
<1>1. ASSUME NEW S \in SUBSET peers, Delete(S)
      PROVE  Segue /\ UNCHANGED <<pc, req>>
  BY <1>1, MenoSegue DEF Delete, Inv
<1>2. ASSUME NEW u \in Utenti, EraseUserId(u)
      PROVE  Segue /\ UNCHANGED <<pc, req>>
  <2> DEFINE S == {p \in peers : p.utente = u}
  <2>1. peers' = {IF p \in S THEN [p EXCEPT !.utente = Nessuno] ELSE p : p \in peers}
    BY <1>2 DEF EraseUserId
  <2> HIDE DEF S
  <2> QED
    BY <1>2, <2>1, ColonnaSegue DEF EraseUserId, Inv
<1> QED
  BY <1>1, <1>2

LEMMA NextInv == Inv /\ [Next]_vars => Inv' /\ Segue
<1> SUFFICES ASSUME Inv, [Next]_vars PROVE Inv' /\ Segue
  OBVIOUS
<1>1. CASE UNCHANGED vars
  BY <1>1, FermaSegue, SegueInv DEF vars, Inv
<1>2. CASE \E r \in Richieste : Passo(r)
  BY <1>2, PassoCammina, CamminaInv
<1>3. CASE \/ \E S \in SUBSET peers : Delete(S)
           \/ \E u \in Utenti : EraseUserId(u)
  BY <1>3, SenzaRichiesta, SegueInv
<1> QED
  BY <1>1, <1>2, <1>3 DEF Next

LEMMA SempreInv == Spec => []Inv
BY InizioInv, NextInv, PTL DEF Spec
-----------------------------------------------------------------------------
(* Every variable keeps its type, and the row_ids are a key. *)
THEOREM TypeCorrect == Spec => []TypeOK
BY SempreInv, InvTypeOK, PTL

(* An ID is of one PC: the index, and updates that all ask for it, whatever sysinfo, panel
   and login have read before. *)
THEOREM SempreUnoPerId == Spec => []UnoPerId
BY SempreInv, InvTypeOK, PTL

(* The first key of a PC stays until the PC is deleted: no sysinfo, login, logout or panel
   changes it, though each writes what it has read some steps before. *)
THEOREM ChiaveSempreFerma == Spec => ChiaveFerma
<1> DEFINE Passetto == \A p \in peers, q \in peers' :
               p.riga = q.riga /\ p.chiave # Nessuno => q.chiave = p.chiave
<1>1. Inv /\ Segue => Passetto
  BY DEF Inv, Segue, Tabella, Peer
<1>2. Inv /\ [Next]_vars => [Passetto]_vars
  BY <1>1, NextInv
<1> QED
  BY <1>2, SempreInv, PTL DEF Spec, ChiaveFerma
-----------------------------------------------------------------------------
(* The rows keep their uuid. *)
StessoUuid == \A p \in peers, s \in peers' : p.riga = s.riga => p.uuid = s.uuid

LEMMA FermaUuid ==
    ASSUME Tabella, peers' \subseteq peers
    PROVE  StessoUuid
BY DEF Tabella, StessoUuid

LEMMA InserisceUuid ==
    ASSUME Tabella, NEW id, NEW uuid, NEW chiave, NEW utente, Inserisce(id, uuid, chiave, utente)
    PROVE  StessoUuid
<1>1. CASE ~IndiceIdUnico(id, 0)
  BY <1>1, FermaUuid DEF Inserisce
<1>2. CASE IndiceIdUnico(id, 0)
  BY <1>2 DEF Inserisce, Tabella, Peer, StessoUuid
<1> QED
  BY <1>1, <1>2

LEMMA UtenteUuid ==
    ASSUME Tabella, NEW S,
           peers' = {IF p \in S THEN [p EXCEPT !.utente = Nessuno] ELSE p : p \in peers}
    PROVE  StessoUuid
<1> SUFFICES ASSUME NEW p \in peers, NEW s \in peers', p.riga = s.riga
             PROVE  p.uuid = s.uuid
  BY DEF StessoUuid
<1>1. PICK o \in peers : s \in {o, [o EXCEPT !.utente = Nessuno]}
  OBVIOUS
<1>2. o \in Peer
  BY DEF Tabella
<1>3. o.riga = s.riga /\ o.uuid = s.uuid
  BY <1>1, <1>2 DEF Peer
<1> QED
  BY <1>3 DEF Tabella

LEMMA ChiaveUuid ==
    ASSUME Tabella, NEW S, NEW k,
           peers' = {IF p \in S THEN [p EXCEPT !.chiave = k] ELSE p : p \in peers}
    PROVE  StessoUuid
<1> SUFFICES ASSUME NEW p \in peers, NEW s \in peers', p.riga = s.riga
             PROVE  p.uuid = s.uuid
  BY DEF StessoUuid
<1>1. PICK o \in peers : s \in {o, [o EXCEPT !.chiave = k]}
  OBVIOUS
<1>2. o \in Peer
  BY DEF Tabella
<1>3. o.riga = s.riga /\ o.uuid = s.uuid
  BY <1>1, <1>2 DEF Peer
<1> QED
  BY <1>3 DEF Tabella

LEMMA AggiornatiUuid ==
    ASSUME Tabella, NEW riga, NEW q \in Req, NEW p \in peers, NEW s \in Aggiornati(riga, q),
           p.riga = s.riga, p.uuid # s.uuid
    PROVE  riga = p.riga /\ q.uuid = s.uuid
<1> DEFINE u(o) == [c \in DOMAIN o |-> IF c # "riga" /\ q[c] # Nessuno THEN q[c] ELSE o[c]]
<1>1. PICK o \in peers : s = IF o.riga # riga THEN o ELSE u(o)
  BY DEF Aggiornati
<1>2. o \in Peer
  BY DEF Tabella
<1>3. CASE o.riga # riga
  BY <1>1, <1>3 DEF Tabella
<1>4. CASE o.riga = riga
  <2>1. s.riga = o.riga /\ s.uuid = IF q.uuid # Nessuno THEN q.uuid ELSE o.uuid
    BY <1>1, <1>2, <1>4, RigaAggiornata
  <2> HIDE DEF u
  <2> QED
    BY <1>4, <2>1 DEF Tabella
<1> QED
  BY <1>3, <1>4

(* A step of r that changes the uuid of a row. *)
LEMMA PassoUuid ==
    ASSUME Inv, NEW r \in Richieste, Passo(r), NEW p \in peers, NEW s \in peers',
           p.riga = s.riga, p.uuid # s.uuid
    PROVE  /\ pc[r] \in {"salva", "aggiorna", "scrivi"} /\ pc'[r] # pc[r]
           /\ req[r].riga = p.riga /\ req[r].uuid = s.uuid
           /\ pc[r] # "salva" => req[r].letto \in {Nessuno, s.uuid}
<1>1. ~StessoUuid
  BY DEF StessoUuid
<1>2. Tabella /\ req[r] \in Req /\ Porta(pc[r], req[r]) /\ pc \in [Richieste -> Passi]
  BY DEF Inv, RichiesteInv
<1>3. peers' # peers
  BY <1>1, <1>2, FermaUuid
<1>4. ~(CreaPc(r) \/ Inserisci(r))
  BY <1>1, <1>2, InserisceUuid DEF CreaPc, Inserisci
<1>5. ~RegistraChiave(r)
  <2> DEFINE k == req[r].chiave
             S == DaRegistrare(req[r].riga)
  <2> SUFFICES ASSUME RegistraChiave(r) PROVE FALSE
    OBVIOUS
  <2>1. peers' = {IF o \in S THEN [o EXCEPT !.chiave = k] ELSE o : o \in peers}
    BY DEF RegistraChiave
  <2> HIDE DEF S, k
  <2>2. Tabella /\ ~StessoUuid
    BY <1>1, <1>2
  <2> QED
    BY <2>1, <2>2, ChiaveUuid
<1>6. ~Scollega(r)
  <2> DEFINE S == {o \in peers : o.riga = req[r].riga}
  <2> SUFFICES ASSUME Scollega(r) PROVE FALSE
    OBVIOUS
  <2>1. peers' = {IF o \in S THEN [o EXCEPT !.utente = Nessuno] ELSE o : o \in peers}
    BY DEF Scollega
  <2> HIDE DEF S
  <2>2. Tabella /\ ~StessoUuid
    BY <1>1, <1>2
  <2> QED
    BY <2>1, <2>2, UtenteUuid
<1>7. ASSUME ScriveUtente(r) \/ UpdateDalPannello(r)
      PROVE  /\ pc[r] \in {"salva", "scrivi"} /\ pc'[r] # pc[r]
             /\ req[r].riga = p.riga /\ req[r].uuid = s.uuid
  <2>1. peers' = Aggiornati(req[r].riga, req[r])
    BY <1>3, <1>7 DEF ScriveUtente, UpdateDalPannello
  <2>2. pc[r] \in {"salva", "scrivi"} /\ pc'[r] = "libera"
    BY <1>2, <1>7 DEF ScriveUtente, UpdateDalPannello, Finisce, Va
  <2> QED
    BY <1>2, <2>1, <2>2, AggiornatiUuid
<1>8. ASSUME Aggiorna(r)
      PROVE  /\ pc[r] = "aggiorna" /\ pc'[r] # pc[r]
             /\ req[r].riga = p.riga /\ req[r].uuid = s.uuid
  <2> DEFINE n == [req[r] EXCEPT !.chiave = Nessuno]
  <2>1. peers' = Aggiornati(req[r].riga, n)
    BY <1>3, <1>8 DEF Aggiorna
  <2>2. n \in Req /\ n.uuid = req[r].uuid
    BY <1>2 DEF Req, O
  <2>3. pc[r] = "aggiorna" /\ pc'[r] \in {"libera", "registra"}
    BY <1>2, <1>3, <1>8 DEF Aggiorna, Finisce, Va
  <2> HIDE DEF n
  <2> QED
    BY <1>2, <2>1, <2>2, <2>3, AggiornatiUuid
<1>9. ScriveUtente(r) \/ UpdateDalPannello(r) \/ Aggiorna(r)
  BY <1>3, <1>4, <1>5, <1>6
     DEF Passo, SysInfo, UltimoUtente, UuidUnbindUserId, UuidBindUserId, Create, Update, Muore, Legge
<1> QED
  BY <1>2, <1>7, <1>8, <1>9 DEF Porta

(* Who changes the uuid of a PC has its title to: the panel, or a request that had read the
   PC with no uuid or with the one it writes. *)
THEOREM UuidSempreConTitolo == Spec => UuidConTitolo
<1> DEFINE Passetto == \A p \in peers, q \in peers' :
               p.riga = q.riga /\ p.uuid # q.uuid =>
                   \E r \in Richieste :
                       /\ pc[r] \in {"salva", "aggiorna", "scrivi"} /\ pc'[r] # pc[r]
                       /\ req[r].riga = p.riga /\ req[r].uuid = q.uuid
                       /\ pc[r] # "salva" => req[r].letto \in {Nessuno, q.uuid}
<1>1. Inv /\ [Next]_vars => [Passetto]_vars
  <2> SUFFICES ASSUME Inv, Next PROVE Passetto
    OBVIOUS
  <2>1. Tabella
    BY DEF Inv
  <2>2. CASE \E r \in Richieste : Passo(r)
    BY <2>2, PassoUuid
  <2>3. CASE \E S \in SUBSET peers : Delete(S)
    <3>1. StessoUuid
      BY <2>1, <2>3, FermaUuid DEF Delete
    <3> QED
      BY <3>1 DEF StessoUuid
  <2>4. ASSUME NEW u \in Utenti, EraseUserId(u)
        PROVE  Passetto
    <3> DEFINE S == {o \in peers : o.utente = u}
    <3>1. peers' = {IF o \in S THEN [o EXCEPT !.utente = Nessuno] ELSE o : o \in peers}
      BY <2>4 DEF EraseUserId
    <3> HIDE DEF S
    <3>2. StessoUuid
      BY <2>1, <3>1, UtenteUuid
    <3> QED
      BY <3>2 DEF StessoUuid
  <2> QED
    BY <2>2, <2>3, <2>4 DEF Next
<1> QED
  BY <1>1, SempreInv, PTL DEF Spec, UuidConTitolo
===============================================================================
