----------------------------- MODULE BankImport -----------------------------
(***************************************************************************)
(* Bank exports become rows of the accounting ledger                       *)
(* (transactions/discovery.py, tree_import.py, workflows.py).              *)
(*                                                                         *)
(* Downloads lie in an inbox, one folder per account, and are replaced     *)
(* there at any time.  A scan handles the files one by one in a single     *)
(* database transaction, with a savepoint around each file, and retains    *)
(* the original of what it imports under its hash.  A tree import checks   *)
(* all files and then imports them in one transaction.  A single file can  *)
(* be imported into any account by hand.                                   *)
(*                                                                         *)
(* Exports carry no transaction ids: a row is identified by what it says   *)
(* and by which of the identical rows of its export it is.                 *)
(*                                                                         *)
(* The first import of a transaction runs ensure_schema, whose ALTER TABLE *)
(* keeps every other reader and writer of the ledger out until it commits; *)
(* two transactions that have both read before cannot both get that lock,  *)
(* and PostgreSQL fails the import of one of them.                         *)
(***************************************************************************)
EXTENDS Integers, FiniteSets

CONSTANTS
    Files,        \* download paths
    Account(_),   \* the account a folder belongs to
    Accounts,     \* account references
    Registered,   \* accounts configured for automatic import
    Keys,         \* what a row says: date, description, amount, ending
    Contents,     \* contents of downloads: a function Keys -> Nat of rows, or Bad
    Bad,          \* contents no parser accepts, a download cut short among them
    Absent,       \* no file
    MaxChanges,   \* bound: how often downloads are replaced
    MaxFaults     \* bound: crashes and database errors

ASSUME AccountAssumption ==
    /\ \A f \in Files : Account(f) \in Accounts
    /\ Registered \subseteq Accounts
ASSUME ContentsAssumption ==
    /\ Contents \subseteq [Keys -> Nat] \cup {Bad}
    /\ Bad \notin [Keys -> Nat] /\ Absent \notin Contents \cup {Bad}
    /\ IsFiniteSet(Files)
ASSUME BoundsAssumption == MaxChanges \in Nat /\ MaxFaults \in Nat

VARIABLES
    inbox,     \* inbox[f]: contents of the download, or Absent
    retained,  \* retained[c]: original of contents c: none, partial or whole
    ledger,    \* fingerprints of financial_transactions: <<account, key, nth>>
    imports,   \* transaction_imports: <<contents, account>>
    artifacts, \* source_artifacts: <<file, contents>>
    profile,   \* rows of accounts
    found,     \* found[f]: transaction_discovery row: status and contents
    job,       \* job[a]: the transaction of actor a
    held,      \* which actor's transaction holds the schema lock
    steady,    \* history: files not replaced since the scan began
    failures,  \* history: files whose import the database failed in the scan
    changes,   \* number of replaced downloads (bound)
    faults     \* number of faults (bound)

ledgerVars == <<ledger, imports, artifacts, profile>>
importVars == <<inbox, retained, ledgerVars, found, job, held, steady, failures,
          changes, faults>>

Actors == {"scan", "tree"}
Parses(c) == c # Bad /\ c # Absent /\ \E k \in Keys : c[k] > 0

\* parse_cibc, parse_acu, parse_cibcus: the nth identical row of an export is
\* the nth identical row of any other, whatever their order and file names.
FingerprintsOnce(c, a) == {<<a, k, 1>> : k \in {x \in Keys : c[x] > 0}}
Fingerprints(c, a) == UNION {{<<a, k, n>> : n \in 1 .. c[k]} : k \in Keys}

NotFound == [status |-> "none", of |-> Absent]

\* What a transaction has written and not yet committed.
NoWrites == [ledger |-> {}, imports |-> {}, artifacts |-> {}, profile |-> {}]
NoReport == [f \in {} |-> NotFound]
NoJob == [open |-> FALSE, todo |-> {}, write |-> NoWrites, found |-> NoReport]
Begun(files) == [open |-> TRUE, todo |-> files, write |-> NoWrites, found |-> NoReport]

ImportInit ==
    /\ inbox = [f \in Files |-> Absent]
    /\ retained = [c \in Contents |-> "none"]
    /\ ledger = {}
    /\ imports = {}
    /\ artifacts = {}
    /\ profile = Registered
    /\ found = [f \in Files |-> NotFound]
    /\ job = [a \in Actors |-> NoJob]
    /\ held = "nobody"
    /\ steady = {}
    /\ failures = {}
    /\ changes = 0
    /\ faults = 0

-----------------------------------------------------------------------------
(* The inbox.                                                              *)

Download(f, c) ==
    /\ changes < MaxChanges
    /\ inbox[f] # c
    /\ inbox' = [inbox EXCEPT ![f] = c]
    /\ steady' = steady \ {f}
    /\ changes' = changes + 1
    /\ UNCHANGED <<retained, ledgerVars, found, job, held, failures, faults>>

-----------------------------------------------------------------------------
(* import_bank_csv.                                                        *)

\* What a transaction sees: the committed rows and its own.
Seen(a) == [ledger    |-> ledger \cup job[a].write.ledger,
            imports   |-> imports \cup job[a].write.imports,
            artifacts |-> artifacts \cup job[a].write.artifacts,
            profile   |-> profile \cup job[a].write.profile]

\* The rows written for contents c of file f in account r.  Fingerprints that
\* are in the ledger stay as they are (ON CONFLICT DO NOTHING).
Booked(w, f, c, r) ==
    [ledger    |-> w.ledger \cup Fingerprints(c, r),
     imports   |-> w.imports \cup {<<c, r>>},
     artifacts |-> w.artifacts \cup {<<f, c>>},
     profile   |-> w.profile \cup {r}]

\* The first import of a transaction takes the schema lock.
MayImport(a) == held \in {"nobody", a}

-----------------------------------------------------------------------------
(* discovery.scan.                                                         *)

\* A second scan finds the advisory lock taken and returns "busy".
StartScan ==
    /\ ~job["scan"].open
    /\ job' = [job EXCEPT !["scan"] = Begun({f \in Files : inbox[f] # Absent})]
    /\ steady' = Files
    /\ failures' = {}
    /\ UNCHANGED <<inbox, retained, ledgerVars, found, held, changes, faults>>

\* retain: the original is created, or the one that is there must be the same.
RetainTrusted(c) == TRUE
Retainable(c) == retained[c] # "partial"

KeepOriginal(c) == retained' = [retained EXCEPT ![c] = IF @ = "none" THEN "whole" ELSE @]

\* The discovery row of f, as the transaction sees it.
Row(f) == IF f \in DOMAIN job["scan"].found THEN job["scan"].found[f] ELSE found[f]

\* The hash of this path was imported before, by a scan or by hand.
Known(f, c) ==
    \/ <<f, c>> \in Seen("scan").artifacts
    \/ Row(f) = [status |-> "imported", of |-> c]

\* The next file is done, with status s for the contents c read from it.
Done(f, s, c, w) ==
    LET scan == job["scan"]
    IN job' = [job EXCEPT !["scan"] =
                 [open |-> scan.open, todo |-> scan.todo \ {f}, write |-> w,
                  found |-> [g \in DOMAIN scan.found \cup {f} |->
                      IF g = f THEN [status |-> s, of |-> c] ELSE scan.found[g]]]]

\* A file already imported: its original is retained if it is not yet.
SkipKnown(f) ==
    LET c == inbox[f]
    IN /\ f \in job["scan"].todo /\ c # Absent
       /\ Known(f, c) /\ Retainable(c)
       /\ KeepOriginal(c)
       /\ Done(f, "imported", c, job["scan"].write)
       /\ UNCHANGED <<inbox, ledgerVars, found, held, steady, failures, changes,
                      faults>>

\* The account of the folder is configured and the export parses.
ImportableOnce(f, c) ==
    /\ Parses(c) /\ Account(f) \in Seen("scan").profile
    /\ <<c, Account(f)>> \notin Seen("scan").imports
Importable(f, c) == Parses(c) /\ Account(f) \in Seen("scan").profile

\* A new or changed file, retained and imported from the bytes that were read.
ImportFile(f) ==
    LET c == inbox[f]
    IN /\ f \in job["scan"].todo /\ c # Absent
       /\ ~Known(f, c) /\ Retainable(c) /\ Importable(f, c)
       /\ MayImport("scan")
       /\ KeepOriginal(c)
       /\ held' = "scan"
       /\ Done(f, "imported", c, Booked(job["scan"].write, f, c, Account(f)))
       /\ UNCHANGED <<inbox, ledgerVars, found, steady, failures, changes, faults>>

\* The savepoint of a file is rolled back and its row says failed: the original
\* differs, the account is not configured, no parser accepts the file.
RejectFile(f) ==
    LET c == inbox[f]
    IN /\ f \in job["scan"].todo /\ c # Absent
       /\ IF Retainable(c) THEN ~Known(f, c) /\ ~Importable(f, c) /\ KeepOriginal(c)
          ELSE UNCHANGED retained
       /\ Done(f, "failed", c, job["scan"].write)
       /\ UNCHANGED <<inbox, ledgerVars, found, held, steady, failures, changes, faults>>

\* The database fails the import: a deadlock over the schema lock, say.
FailFile(f) ==
    LET c == inbox[f]
    IN /\ f \in job["scan"].todo /\ c # Absent
       /\ ~Known(f, c) /\ Retainable(c) /\ Importable(f, c)
       /\ faults < MaxFaults
       /\ KeepOriginal(c)
       /\ failures' = failures \cup {f}
       /\ faults' = faults + 1
       /\ Done(f, "failed", c, job["scan"].write)
       /\ UNCHANGED <<inbox, ledgerVars, found, held, steady, changes>>

\* The file has gone since the scan listed it: its row keeps the last hash.
MissFile(f) ==
    /\ f \in job["scan"].todo /\ inbox[f] = Absent
    /\ Done(f, "failed", Row(f).of, job["scan"].write)
    /\ UNCHANGED <<inbox, retained, ledgerVars, found, held, steady, failures,
                   changes, faults>>

\* The file changes while it is read: the next scan looks at it again.
PassFile(f) ==
    /\ f \in job["scan"].todo \ steady
    /\ job' = [job EXCEPT !["scan"].todo = @ \ {f}]
    /\ UNCHANGED <<inbox, retained, ledgerVars, found, held, steady, failures,
                   changes, faults>>

Commit(a) ==
    /\ ledger' = Seen(a).ledger
    /\ imports' = Seen(a).imports
    /\ artifacts' = Seen(a).artifacts
    /\ profile' = Seen(a).profile
    /\ job' = [job EXCEPT ![a] = NoJob]
    /\ held' = IF held = a THEN "nobody" ELSE held

EndScan ==
    /\ job["scan"].open /\ job["scan"].todo = {}
    /\ Commit("scan")
    /\ found' = [f \in Files |-> Row(f)]
    /\ UNCHANGED <<inbox, retained, steady, failures, changes, faults>>

RollBack(a) ==
    /\ job' = [job EXCEPT ![a] = NoJob]
    /\ held' = IF held = a THEN "nobody" ELSE held
    /\ UNCHANGED <<inbox, ledgerVars, found, steady, failures, changes>>

\* The process dies or loses the database.  What it retained stays; the
\* original it was writing stays cut short.
CrashScan ==
    /\ job["scan"].open
    /\ faults < MaxFaults
    /\ faults' = faults + 1
    /\ \/ UNCHANGED retained
       \/ \E f \in job["scan"].todo :
            /\ inbox[f] # Absent /\ retained[inbox[f]] = "none"
            /\ retained' = [retained EXCEPT ![inbox[f]] = "partial"]
    /\ RollBack("scan")

-----------------------------------------------------------------------------
(* tree_import.import_tree and import-cibc.                                *)

\* plans: every file must parse before any is imported.
PlanTree ==
    LET files == {f \in Files : inbox[f] # Absent}
    IN /\ ~job["tree"].open
       /\ files # {}
       /\ \A f \in files : Parses(inbox[f])
       /\ held = "nobody"
       /\ job' = [job EXCEPT !["tree"] = Begun(files)]
       /\ UNCHANGED <<inbox, retained, ledgerVars, found, held, steady, failures,
                      changes, faults>>

\* The file is read again when its turn comes.
ImportPlanned(f) ==
    LET c == inbox[f]
        tree == job["tree"]
    IN /\ f \in tree.todo
       /\ Parses(c)
       /\ MayImport("tree")
       /\ held' = "tree"
       /\ job' = [job EXCEPT !["tree"] =
                     [open |-> tree.open, todo |-> tree.todo \ {f},
                      write |-> Booked(tree.write, f, c, Account(f)),
                      found |-> tree.found]]
       /\ UNCHANGED <<inbox, retained, ledgerVars, found, steady, failures, changes,
                      faults>>

EndTree ==
    /\ job["tree"].open /\ job["tree"].todo = {}
    /\ Commit("tree")
    /\ UNCHANGED <<inbox, retained, found, steady, failures, changes, faults>>

\* A file that no longer parses, or the loser of a deadlock, ends the import.
FailTree ==
    /\ job["tree"].open
    /\ \/ /\ \E f \in job["tree"].todo : ~Parses(inbox[f]) \/ ~MayImport("tree")
          /\ UNCHANGED faults
       \/ faults < MaxFaults /\ faults' = faults + 1
    /\ RollBack("tree")
    /\ UNCHANGED retained

\* import-cibc: one file into the account the operator names.  It waits for
\* the schema lock, so its transaction is one step.
ImportByHand(f, r) ==
    LET c == inbox[f]
        w == Booked(NoWrites, f, c, r)
    IN /\ Parses(c)
       /\ held = "nobody" /\ ~job["tree"].open
       /\ ledger' = ledger \cup w.ledger
       /\ imports' = imports \cup w.imports
       /\ artifacts' = artifacts \cup w.artifacts
       /\ profile' = profile \cup w.profile
       /\ UNCHANGED <<inbox, retained, found, job, held, steady, failures, changes,
                      faults>>

-----------------------------------------------------------------------------
ImportNext ==
    \/ \E f \in Files :
        \/ \E c \in Contents \cup {Absent} : Download(f, c)
        \/ SkipKnown(f) \/ ImportFile(f) \/ RejectFile(f) \/ FailFile(f)
        \/ MissFile(f) \/ PassFile(f)
        \/ ImportPlanned(f)
        \/ \E r \in Accounts : ImportByHand(f, r)
    \/ StartScan \/ EndScan \/ CrashScan
    \/ PlanTree \/ EndTree \/ FailTree

ImportSpec == ImportInit /\ [][ImportNext]_importVars

-----------------------------------------------------------------------------
(* Properties.                                                             *)

Exports == Contents \ {Bad}
Rows == Accounts \X Keys \X (Nat \ {0})
FoundRows == [status : {"none", "imported", "failed"}, of : Contents \cup {Absent}]
Reports == UNION {[d -> FoundRows] : d \in SUBSET Files}
Writes == [ledger : SUBSET Rows, imports : SUBSET (Exports \X Accounts),
           artifacts : SUBSET (Files \X Exports), profile : SUBSET Accounts]
Jobs == [open : BOOLEAN, todo : SUBSET Files, write : Writes, found : Reports]

ImportTypeOK ==
    /\ inbox \in [Files -> Contents \cup {Absent}]
    /\ retained \in [Contents -> {"none", "partial", "whole"}]
    /\ ledger \subseteq Rows
    /\ imports \subseteq Exports \X Accounts
    /\ artifacts \subseteq Files \X Exports
    /\ Registered \subseteq profile /\ profile \subseteq Accounts
    /\ found \in [Files -> FoundRows]
    /\ job \in [Actors -> Jobs]
    /\ \A a \in Actors : ~job[a].open => job[a] = NoJob
    /\ held \in Actors \cup {"nobody"}
    /\ held # "nobody" => job[held].open
    /\ steady \cup failures \subseteq Files
    /\ changes \in 0 .. MaxChanges
    /\ faults \in 0 .. MaxFaults

\* A download shown as imported has all its rows in the ledger and its original
\* retained, whatever was rolled back, replaced or cut short meanwhile.
ImportedWhole ==
    \A f \in Files :
        found[f].status = "imported" =>
            /\ retained[found[f].of] = "whole"
            /\ \E a \in Accounts :
                /\ <<found[f].of, a>> \in imports
                /\ Fingerprints(found[f].of, a) \subseteq ledger

\* docs/bank-transactions.md: "Reordering a file or changing its filename does
\* not create duplicates, and two identical purchases in one export remain two
\* records": an account has as many identical rows as the export that shows
\* the most of them, and no import is booked in part.
BookedOnce ==
    \A a \in Accounts, k \in Keys :
        {r \in ledger : r[1] = a /\ r[2] = k}
            = {<<a, k, n>> : n \in UNION {1 .. i[1][k] : i \in {x \in imports : x[2] = a}}}

\* A scan leaves no download behind: a file that was not replaced meanwhile,
\* parses, belongs to a configured account and was not failed by the database
\* is imported when the scan commits.  Excepted is a file whose retained
\* original a crash cut short: no scan imports that one any more.
ScanSettles ==
    [][job["scan"].open /\ ~job'["scan"].open /\ faults' = faults =>
          \A f \in steady \ failures :
              /\ Parses(inbox[f]) /\ Account(f) \in Registered
              /\ retained[inbox[f]] # "partial"
              => found'[f] = [status |-> "imported", of |-> inbox[f]]]_importVars
=============================================================================
