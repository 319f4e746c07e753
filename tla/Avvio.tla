-------------------------------- MODULE Avvio --------------------------------
(***************************************************************************)
(* The start of the process: opening of the database, migration, first     *)
(* administrator, unique indexes; then the API serves, or a command runs   *)
(* and ends.  src/cmd/apimain.go, src/lib/orm/sqlite.go and the tokens of  *)
(* integration, which a command makes and revokes while the API checks     *)
(* them.                                                                   *)
(*                                                                         *)
(* Every command starts as the API does (PersistentPreRun), and on a       *)
(* reload two processes are there at once: two starts interleave on one    *)
(* database, statement by statement.  A transaction that has written keeps *)
(* the lock of the writer (BEGIN is deferred, the first statement takes    *)
(* it); the file of the first password is outside of any transaction.      *)
(* A process may die at any step: what is committed and the file stay.     *)
(***************************************************************************)
EXTENDS Integers, Sequences, SequencesExt

CONSTANTS
    Avvii,        \* the API and the commands that can be up at once
    NessunAvvio,  \* no process
    MaxGuasti     \* bound: errors of the database and deaths

ASSUME AvvioAssumption == NessunAvvio \notin Avvii /\ MaxGuasti \in Nat

(* The tables with a unique index made at the start, in order; peers.id and
   user_thirds(open_id, op). *)
Tabelle == {"peers", "user_thirds"}

(* Version: "vecchia" is before 245, "media" between it and DatabaseVersion.  What a
   start can read: also no table ("senza"), or a table with no row ("nessuna"). *)
Viste == {"senza", "nessuna", "vecchia", "media", "ultima"}

(* The password of admin: the number of the start that drew it, 0 with no admin, and
   Altra when the panel or reset-admin-pwd gave another one. *)
Altra == -1

VARIABLES
    tabelle,    \* "nessuna", "parte" (at least versions), "tutte"
    versioni,   \* rows of versions, in order
    admin,      \* the password of the user admin
    gruppi,     \* how many times the two default groups were made
    file,       \* data/admin-password.txt: 0 absent or empty
    vincolo,    \* peers has the foreign key fk_peers_user
    doppi,      \* [Tabelle -> rows with one and the same key, 2: some double]
    unico,      \* [Tabelle -> whether the unique index is there]
    tipi,       \* the tables the 245 step has updated
    token,      \* the row of a token of integration
    scrittore,  \* the process whose transaction has written, or NessunAvvio
    istruzione, \* [Avvii -> next statement]
    vista,      \* [Avvii -> the version DatabaseAutoUpdate read]
    primo,      \* [Avvii -> whether Migrate found it is the first start]
    estratte,   \* how many first passwords were drawn
    guasti      \* errors and deaths so far

disco     == <<tabelle, versioni, admin, gruppi, vincolo, tipi>>
indici     == <<doppi, unico>>
processo  == <<vista, primo>>
varsAvvio == <<disco, file, indici, token, scrittore, istruzione, processo, estratte, guasti>>

(* A new disk, or the database of an older version: with double rows and the foreign
   key, as upstream left them, and without the tables that came later. *)
InitAvvio ==
    /\ \/ /\ tabelle = "nessuna" /\ versioni = <<>> /\ admin = 0
          /\ vincolo = FALSE /\ doppi = [t \in Tabelle |-> 0]
       \/ /\ tabelle = "parte" /\ admin = Altra
          /\ \E v \in {"vecchia", "media"} : versioni = <<v>>
          /\ vincolo \in BOOLEAN /\ doppi \in [Tabelle -> {0, 2}]
    /\ gruppi = 0 /\ file = 0 /\ tipi = {} /\ token = "assente"
    /\ unico = [t \in Tabelle |-> FALSE]
    /\ scrittore = NessunAvvio
    /\ istruzione = [p \in Avvii |-> "spento"]
    /\ vista = [p \in Avvii |-> "senza"]
    /\ primo = [p \in Avvii |-> FALSE]
    /\ estratte = 0 /\ guasti = 0

Passa(p, da, a) == istruzione[p] = da /\ istruzione' = [istruzione EXCEPT ![p] = a]

(* What the process knew of the migration is of no more use. *)
Scorda(p) == vista' = [vista EXCEPT ![p] = "senza"] /\ primo' = [primo EXCEPT ![p] = FALSE]

(* A statement that writes waits for the lock (busy_timeout). *)
Libero == scrittore = NessunAvvio

Errore == guasti < MaxGuasti /\ guasti' = guasti + 1

-----------------------------------------------------------------------------
(* main: a process starts. *)
rootCmd(p) ==
    /\ Passa(p, "spento", "apre")
    /\ UNCHANGED <<disco, file, indici, token, scrittore, processo, estratte, guasti>>

(* NewSqlite: the file is opened, and controlla writes in a transaction it rolls back;
   if it cannot, the start ends (Fatalf). *)
NewSqlite(p) ==
    /\ Libero
    /\ Passa(p, "apre", "vincolo")
    /\ UNCHANGED <<disco, file, indici, token, scrittore, processo, estratte, guasti>>

(* peers is made again without its foreign key, and with the indexes of the model
   only: one transaction. *)
togliVincoloDispositivi(p) ==
    /\ Passa(p, "vincolo", "versione")
    /\ vincolo => Libero
    /\ vincolo' = FALSE
    /\ unico' = [unico EXCEPT !["peers"] = @ /\ ~vincolo]
    /\ UNCHANGED <<tabelle, versioni, admin, gruppi, tipi, file, doppi, token, scrittore,
                   processo, estratte, guasti>>

(* HasTable and db.Last, whose error is not looked at: the version is then 0. *)
Letta == IF tabelle = "nessuna" THEN "senza"
         ELSE IF versioni = <<>> THEN "nessuna" ELSE Last(versioni)

DatabaseAutoUpdate(p) ==
    /\ \/ Letta = "ultima" /\ Passa(p, "versione", "contaPeers")
          /\ UNCHANGED <<vista, guasti>>
       \/ Letta # "ultima" /\ Passa(p, "versione", "tabelle")
          /\ vista' = [vista EXCEPT ![p] = Letta] /\ UNCHANGED guasti
       \/ tabelle # "nessuna" /\ Errore /\ Passa(p, "versione", "tabelle")
          /\ vista' = [vista EXCEPT ![p] = "nessuna"]
    /\ UNCHANGED <<disco, file, indici, token, scrittore, primo, estratte>>

(* AutoMigrate: statements of their own, versions first. *)
AutoMigrate(p) ==
    /\ Libero
    /\ \/ tabelle = "nessuna" /\ tabelle' = "parte" /\ Passa(p, "tabelle", "tabelle")
       \/ tabelle # "nessuna" /\ tabelle' = "tutte" /\ Passa(p, "tabelle", "riga")
    /\ UNCHANGED <<versioni, admin, gruppi, vincolo, tipi, file, indici, token, scrittore,
                   processo, estratte, guasti>>

(* Mutant: whether it is the first start was decided before the transaction. *)
PrimoLetto(p) == vista[p] \in {"senza", "nessuna"}

(* vc == 1: counted in the transaction, after its own row. *)
Primo(p) == Len(versioni) + 1 = 1

(* Mutant: the row of versions is saved before the transaction. *)
RigaSubito(p) ==
    /\ Libero
    /\ Passa(p, "riga", IF Primo(p) THEN "cancellaFile" ELSE "conferma")
    /\ primo' = [primo EXCEPT ![p] = Primo(p)]
    /\ versioni' = Append(versioni, "ultima")
    /\ scrittore' = p
    /\ UNCHANGED <<tabelle, admin, gruppi, vincolo, tipi, file, indici, token, vista,
                   estratte, guasti>>

(* Migrate: the transaction opens with the row of versions, and has the lock. *)
Migrate(p) ==
    /\ Libero
    /\ Passa(p, "riga", IF Primo(p) THEN "cancellaFile" ELSE "conferma")
    /\ primo' = [primo EXCEPT ![p] = Primo(p)]
    /\ scrittore' = p
    /\ UNCHANGED <<disco, file, indici, token, vista, estratte, guasti>>

(* scriviPasswordIniziale, inside the transaction: the old file goes, a new one is made
   and written with the password drawn by primoAvvio. *)
CancellaFile(p) ==
    /\ Passa(p, "cancellaFile", "scriveFile")
    /\ file' = 0
    /\ UNCHANGED <<disco, indici, token, scrittore, processo, estratte, guasti>>

scriviPasswordIniziale(p) ==
    /\ Passa(p, "scriveFile", "conferma")
    /\ estratte' = estratte + 1
    /\ file' = estratte'
    /\ UNCHANGED <<disco, indici, token, scrittore, processo, guasti>>

(* primoAvvio's groups and admin, and the commit; then the step of 245, if the version
   read was older (a database with no table has nothing to update). *)
primoAvvio(p) ==
    /\ Passa(p, "conferma", IF vista[p] \in {"nessuna", "vecchia"} THEN "oauths245"
                            ELSE "contaPeers")
    /\ Scorda(p)
    /\ versioni' = Append(versioni, "ultima")
    /\ admin' = IF primo[p] THEN estratte ELSE admin
    /\ gruppi' = IF primo[p] THEN gruppi + 1 ELSE gruppi
    /\ scrittore' = NessunAvvio
    /\ UNCHANGED <<tabelle, vincolo, tipi, file, indici, token, estratte, guasti>>

(* The step of the start on a table. *)
Su(t, peers, userThirds) == IF t = "peers" THEN peers ELSE userThirds

Conta(t) == Su(t, "contaPeers", "contaUserThirds")
CreaSu(t) == Su(t, "creaPeers", "creaUserThirds")

(* Two statements whose errors nobody looks at. *)
Aggiorna245(p, t, dopo) ==
    /\ \/ Libero /\ tipi' = tipi \cup {t} /\ UNCHANGED guasti
       \/ Errore /\ UNCHANGED tipi
    /\ Passa(p, IF t = "oauths" THEN "oauths245" ELSE "userThirds245", dopo)
    /\ UNCHANGED <<tabelle, versioni, admin, gruppi, vincolo, file, indici, token, scrittore,
                   processo, estratte>>

(* Mutant: any row counts. *)
QualcheRiga(t) == doppi[t] > 0

(* GROUP BY ... HAVING count( * ) > 1. *)
RigheDoppie(t) == doppi[t] > 1

(* CreaIndiceIdUnico, CreaIndiceOpenIdUnico: the double keys are counted, and the index
   is made with another statement, which fails if one came in between.  Without the
   index the start goes on all the same. *)
ContaDoppi(p, t, dopo) ==
    /\ Passa(p, Conta(t), IF unico[t] \/ RigheDoppie(t) THEN dopo ELSE CreaSu(t))
    /\ UNCHANGED <<disco, file, indici, token, scrittore, processo, estratte, guasti>>

CreaIndice(p, t, dopo) ==
    /\ Passa(p, CreaSu(t), dopo)
    /\ \/ /\ Libero /\ unico' = [unico EXCEPT ![t] = doppi[t] <= 1] /\ UNCHANGED guasti
       \/ Errore /\ UNCHANGED unico
    /\ UNCHANGED <<disco, file, doppi, token, scrittore, processo, estratte>>

(* Fatalf: a statement of the start fails, or waits too long for the lock, and the
   process ends; the transaction is rolled back. *)
Fatalf(p) ==
    /\ istruzione[p] \in {"apre", "vincolo", "tabelle", "riga", "cancellaFile", "scriveFile",
                  "conferma"}
    /\ Errore
    /\ istruzione' = [istruzione EXCEPT ![p] = "spento"]
    /\ scrittore' = IF scrittore = p THEN NessunAvvio ELSE scrittore
    /\ Scorda(p)
    /\ UNCHANGED <<disco, file, indici, token, estratte>>

Cade(p) ==
    /\ istruzione[p] # "spento"
    /\ Errore
    /\ istruzione' = [istruzione EXCEPT ![p] = "spento"]
    /\ scrittore' = IF scrittore = p THEN NessunAvvio ELSE scrittore
    /\ Scorda(p)
    /\ UNCHANGED <<disco, file, indici, token, estratte>>

-----------------------------------------------------------------------------
ApiInit(p) ==
    /\ Passa(p, "pronto", "serve")
    /\ UNCHANGED <<disco, file, indici, token, scrittore, processo, estratte, guasti>>

(* The API stops, or a command has ended: chiudiDB. *)
chiudiDB(p) ==
    /\ istruzione[p] \in {"serve", "pronto"}
    /\ istruzione' = [istruzione EXCEPT ![p] = "spento"]
    /\ UNCHANGED <<disco, file, indici, token, scrittore, processo, estratte, guasti>>

(* A request adds a row with a key that may be there: the index refuses it, if there
   is one. *)
AggiungeRiga(p, t) ==
    /\ istruzione[p] = "serve" /\ Libero
    /\ doppi[t] < 2 /\ (unico[t] => doppi[t] = 0)
    /\ doppi' = [doppi EXCEPT ![t] = @ + 1]
    /\ UNCHANGED <<disco, file, unico, token, scrittore, istruzione, processo, estratte, guasti>>

(* The panel deletes one. *)
CancellaRiga(p, t) ==
    /\ istruzione[p] = "serve" /\ Libero
    /\ doppi[t] > 0
    /\ doppi' = [doppi EXCEPT ![t] = @ - 1]
    /\ UNCHANGED <<disco, file, unico, token, scrittore, istruzione, processo, estratte, guasti>>

(* reset-admin-pwd; the panel changes the password in the same way. *)
reimpostaPassword(p) ==
    /\ Passa(p, "pronto", "spento")
    /\ Libero /\ admin # 0
    /\ admin' = Altra
    /\ UNCHANGED <<tabelle, versioni, gruppi, vincolo, tipi, file, indici, token, scrittore,
                   processo, estratte, guasti>>

(* token-integrazione crea: the name is free, and is given with a unique index. *)
Crea(p) ==
    /\ Passa(p, "pronto", "spento")
    /\ Libero /\ token = "assente"
    /\ token' = "valido"
    /\ UNCHANGED <<disco, file, indici, scrittore, processo, estratte, guasti>>

(* A year passes. *)
Scade ==
    /\ token = "valido"
    /\ token' = "scaduto"
    /\ UNCHANGED <<disco, file, indici, scrittore, istruzione, processo, estratte, guasti>>

(* token-integrazione revoca reads the row, and revokes it if it is not yet. *)
Revoca(p) ==
    /\ token # "assente"
    /\ Passa(p, "pronto", IF token = "revocato" THEN "spento" ELSE "revoca")
    /\ UNCHANGED <<disco, file, indici, token, scrittore, processo, estratte, guasti>>

SegnaRevoca(p) ==
    /\ Passa(p, "revoca", "spento")
    /\ Libero
    /\ token' = "revocato"
    /\ UNCHANGED <<disco, file, indici, scrittore, processo, estratte, guasti>>

(* IntegrazioneAuth, Verifica: the row is read, and its last use written. *)
Verifica(p) ==
    /\ token = "valido"
    /\ Passa(p, "serve", "ultimoUso")
    /\ UNCHANGED <<disco, file, indici, token, scrittore, processo, estratte, guasti>>

(* Mutant: the whole row is saved as it was read. *)
UsoConSave == "valido"

(* Only the column ultimo_uso is written. *)
Uso == token

SegnaUso(p) ==
    /\ Passa(p, "ultimoUso", "serve")
    /\ Libero
    /\ token' = Uso
    /\ UNCHANGED <<disco, file, indici, scrittore, processo, estratte, guasti>>

-----------------------------------------------------------------------------
(* indiceUnicoDispositivi and indiceUnicoAssociazioni, at every start. *)
Indici(p) ==
    \/ ContaDoppi(p, "peers", "contaUserThirds")
    \/ CreaIndice(p, "peers", "contaUserThirds")
    \/ ContaDoppi(p, "user_thirds", "pronto")
    \/ CreaIndice(p, "user_thirds", "pronto")

(* InitGlobal. *)
InitGlobal(p) ==
    \/ NewSqlite(p)
    \/ togliVincoloDispositivi(p)
    \/ DatabaseAutoUpdate(p)
    \/ AutoMigrate(p)
    \/ Migrate(p)
    \/ CancellaFile(p)
    \/ scriviPasswordIniziale(p)
    \/ primoAvvio(p)
    \/ Aggiorna245(p, "oauths", "userThirds245")
    \/ Aggiorna245(p, "user_thirds", "contaPeers")
    \/ Indici(p)

Esegue(p) ==
    \/ ApiInit(p)
    \/ chiudiDB(p)
    \/ \E t \in Tabelle : AggiungeRiga(p, t) \/ CancellaRiga(p, t)
    \/ reimpostaPassword(p)
    \/ Crea(p)
    \/ Revoca(p)
    \/ SegnaRevoca(p)
    \/ Verifica(p)
    \/ SegnaUso(p)

NextAvvio ==
    \/ \E p \in Avvii : rootCmd(p) \/ InitGlobal(p) \/ Esegue(p) \/ Fatalf(p) \/ Cade(p)
    \/ Scade

(* A start under way goes on. *)
Fairness == \A p \in Avvii : WF_varsAvvio(InitGlobal(p))

SpecAvvio == InitAvvio /\ [][NextAvvio]_varsAvvio /\ Fairness

-----------------------------------------------------------------------------
(* ADR-0008: as long as nobody changes it, the password of the admin that the first
   start made is the one in the file, whatever starts died half way or ran at once;
   and the default groups were made once. *)
PasswordNelFile == admin > 0 => file = admin /\ gruppi = 1

(* The API serves, and a command works, only on a database whose tables are all there,
   whose version is written, which has an administrator and whose devices may have no
   user: also after starts that died at any point. *)
PrimaDiServire ==
    \A p \in Avvii : istruzione[p] \in {"pronto", "serve"} =>
        /\ tabelle = "tutte"
        /\ Contains(versioni, "ultima")
        /\ admin # 0
        /\ ~vincolo

(* "Il passo si ripete a ogni avvio finche' l'indice non c'e'": once no key is double
   any more, a process that keeps being started has the unique index. *)
IndiceTorna ==
    \A t \in Tabelle :
        (<>[](doppi[t] <= 1) /\ \E p \in Avvii : []<>(istruzione[p] = "spento")
                                                    /\ []<>(istruzione[p] = "serve"))
            => <>[](unico[t])

(* A token of integration that is revoked stays so, although the API writes its last
   use after it has read it. *)
RevocaResta == [][token = "revocato" => token' = "revocato"]_varsAvvio
=============================================================================
