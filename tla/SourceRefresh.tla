---------------------------- MODULE SourceRefresh ----------------------------
(***************************************************************************)
(* `receipts refresh` on one source folder (receipts/source_refresh.py and *)
(* receipts/source_reconciliation.py): evidence of receipts whose files    *)
(* are gone is archived, evidence of files that moved or came back follows *)
(* them, and OCR caches of other contents leave the active cache, after    *)
(* their bytes were retained and the database had committed. Files, imports *)
(* and an OCR worker go on meanwhile; the command may stop anywhere.       *)
(***************************************************************************)
EXTENDS Integers, FiniteSetsExt

CONSTANTS References,  \* places in the folder, in the order of their names
          Digests,     \* SHA-256 of receipt files
          Nowhere,     \* no file, no artifact, no row, no OCR
          MaxChanges,  \* bound on changes of the folder
          MaxOcr,      \* bound on OCR runs
          MaxImports   \* bound on imports

ASSUME RefreshAssumption ==
    References \subseteq Nat /\ MaxChanges \in Nat /\ MaxOcr \in Nat /\ MaxImports \in Nat

\* An OCR cache: the file it was read from, and the run that read it.
Artifacts == [of : Digests, run : Nat]

ASSUME NowhereAssumption == Nowhere \notin Digests \cup Artifacts

VARIABLES folder,      \* the file under each reference
          artifacts,   \* the OCR cache under each reference: its file and its run
          known,       \* the row of each file: evidence, or a discovery without it
          command,     \* the refresh command
          retained,    \* artifacts in the private archive
          ocr,         \* the receipt a worker reads, under the cache lock of its file
          ocrs, imports, changes

refreshVars == <<folder, artifacts, known, command, retained, ocr, ocrs, imports, changes>>

NoCommand == [at |-> "idle"]

RefreshInit ==
    /\ \E d \in Digests, r \in References, kind \in {"evidence", "registry"} :
          /\ folder = [f \in References |-> IF f = r THEN d ELSE Nowhere]
          /\ artifacts = [f \in References |-> IF f = r THEN [of |-> d, run |-> 1] ELSE Nowhere]
          /\ known = [x \in Digests |->
                        IF x = d THEN [kind |-> kind, reference |-> r, archived |-> FALSE] ELSE Nowhere]
    /\ command = NoCommand
    /\ retained = {} /\ ocr = Nowhere
    /\ ocrs = 1 /\ imports = 0 /\ changes = 0

-----------------------------------------------------------------------------
(* What happens beside the command *)

ChangeFile(r, d) ==
    /\ changes < MaxChanges /\ folder[r] # d
    /\ folder' = [folder EXCEPT ![r] = d]
    /\ changes' = changes + 1
    /\ UNCHANGED <<artifacts, known, command, retained, ocr, ocrs, imports>>

\* upsert_evidence: the row keeps its reference, and its payload is written
\* anew, without the mark of an archived source.
ImportReceipt(d, r) ==
    /\ imports < MaxImports
    /\ known' = [known EXCEPT ![d] =
                    [kind |-> "evidence", archived |-> FALSE,
                     reference |-> IF @ # Nowhere /\ @.kind = "evidence" THEN @.reference ELSE r]]
    /\ imports' = imports + 1
    /\ UNCHANGED <<folder, artifacts, command, retained, ocr, ocrs, changes>>

\* A cache artifact is named after the reference, its lock after the file.
StaleDigests == IF command.at \in {"copying", "retiring", "unlinking"}
                THEN {e.artifact.of : e \in command.stale} ELSE {}

StartOcr(r) ==
    /\ ocr = Nowhere /\ ocrs < MaxOcr
    /\ folder[r] # Nowhere /\ folder[r] \notin StaleDigests
    /\ ocr' = [reference |-> r, of |-> folder[r]]
    /\ UNCHANGED <<folder, artifacts, known, command, retained, ocrs, imports, changes>>

EndOcr ==
    /\ ocr # Nowhere
    /\ ocr' = Nowhere /\ ocrs' = ocrs + 1
    /\ \/ artifacts' = [artifacts EXCEPT ![ocr.reference] = [of |-> ocr.of, run |-> ocrs + 1]]
       \/ UNCHANGED artifacts                                      \* it failed or died
    /\ UNCHANGED <<folder, known, command, retained, imports, changes>>

-----------------------------------------------------------------------------
(* The command *)

\* stale_caches: artifacts that were read from other contents than the file
\* now under their reference.
Stale(files) ==
    {[reference |-> r, artifact |-> artifacts[r]] :
        r \in {x \in References : artifacts[x] # Nowhere /\ files[x] # artifacts[x].of}}

\* plan: where the file of a row is now, its own reference preferred.
PlanOf(d, row, files) ==
    LET places == {r \in References : files[r] = d}
    IN IF places = {} THEN [row EXCEPT !.archived = TRUE]
       ELSE [row EXCEPT !.archived = FALSE,
                        !.reference = IF @ \in places THEN @ ELSE Min(places)]

Preview ==
    /\ command = NoCommand
    /\ command' = [at |-> "previewed",
                   version |-> [files |-> folder, rows |-> known, stale |-> Stale(folder)]]
    /\ UNCHANGED <<folder, artifacts, known, retained, ocr, ocrs, imports, changes>>

\* --apply takes an inventory of its own ...
Inspect ==
    /\ command.at = "previewed"
    /\ command' = [at |-> "inspected", version |-> command.version, files |-> folder]
    /\ UNCHANGED <<folder, artifacts, known, retained, ocr, ocrs, imports, changes>>

\* ... and another one with the rows, and must come to the version previewed.
Compare ==
    /\ command.at = "inspected"
    /\ command' = IF command.version = [files |-> folder, rows |-> known, stale |-> Stale(command.files)]
                  THEN [at |-> "waiting", version |-> command.version, files |-> command.files,
                        stale |-> command.version.stale]
                  ELSE NoCommand
    /\ UNCHANGED <<folder, artifacts, known, retained, ocr, ocrs, imports, changes>>

\* The locks of all stale caches, and the caches once more.
TakeLocks ==
    /\ command.at = "waiting"
    /\ ocr # Nowhere => ocr.of \notin {e.artifact.of : e \in command.stale}
    /\ command' = IF Stale(command.files) = command.stale
                  THEN [at |-> "copying", version |-> command.version, stale |-> command.stale,
                        left |-> command.stale]
                  ELSE NoCommand
    /\ UNCHANGED <<folder, artifacts, known, retained, ocr, ocrs, imports, changes>>

\* Bytes that are not the previewed ones end the command.
Retain(e) ==
    /\ command.at = "copying" /\ e \in command.left
    /\ IF artifacts[e.reference] = e.artifact
       THEN retained' = retained \cup {e.artifact} /\ command' = [command EXCEPT !.left = @ \ {e}]
       ELSE UNCHANGED retained /\ command' = NoCommand
    /\ UNCHANGED <<folder, artifacts, known, ocr, ocrs, imports, changes>>

\* reconcile: one transaction, refused when files or rows are not the ones of
\* the version.
Reconcile ==
    /\ command.at = "copying" /\ command.left = {}
    /\ IF folder = command.version.files /\ known = command.version.rows
       THEN /\ known' = [d \in Digests |-> IF known[d] = Nowhere THEN Nowhere ELSE PlanOf(d, known[d], folder)]
            /\ command' = [command EXCEPT !.at = "retiring", !.left = command.stale]
       ELSE UNCHANGED known /\ command' = NoCommand
    /\ UNCHANGED <<folder, artifacts, retained, ocr, ocrs, imports, changes>>

\* The artifact is hashed and the folder inventoried again before it goes.
\* Mutants: without the inventory, and without the hash.
KeepsItsHash(e) == artifacts[e.reference] = e.artifact
StillRetired(e) == artifacts[e.reference] = e.artifact /\ folder[e.reference] # e.artifact.of

Check(e) ==
    /\ command.at = "retiring" /\ e \in command.left
    /\ command' = IF StillRetired(e)
                  THEN [at |-> "unlinking", stale |-> command.stale, left |-> command.left \ {e},
                        entry |-> e, seen |-> [artifact |-> artifacts[e.reference],
                                               file |-> folder[e.reference]]]
                  ELSE [command EXCEPT !.left = @ \ {e}]
    /\ UNCHANGED <<folder, artifacts, known, retained, ocr, ocrs, imports, changes>>

Unlink ==
    /\ command.at = "unlinking"
    /\ artifacts' = [artifacts EXCEPT ![command.entry.reference] = Nowhere]
    /\ command' = [at |-> "retiring", stale |-> command.stale, left |-> command.left]
    /\ UNCHANGED <<folder, known, retained, ocr, ocrs, imports, changes>>

\* The end of the command, an error or the death of its process.
Stop ==
    /\ command # NoCommand
    /\ command' = NoCommand
    /\ UNCHANGED <<folder, artifacts, known, retained, ocr, ocrs, imports, changes>>

RefreshNext ==
    \/ \E r \in References, d \in Digests \cup {Nowhere} : ChangeFile(r, d)
    \/ \E d \in Digests, r \in References : ImportReceipt(d, r)
    \/ \E r \in References : StartOcr(r)
    \/ EndOcr
    \/ Preview \/ Inspect \/ Compare \/ TakeLocks \/ Reconcile \/ Unlink \/ Stop
    \/ command.at = "copying" /\ \E e \in command.left : Retain(e)
    \/ command.at = "retiring" /\ \E e \in command.left : Check(e)

RefreshSpec == RefreshInit /\ [][RefreshNext]_refreshVars
-----------------------------------------------------------------------------
(* Properties *)

\* A cache leaves the active directory only if its bytes are retained and its
\* file was not under the reference any more when the command looked last
\* (docs/receipt-processing.md "Cache bytes are retained outside the active
\* cache"), whatever workers and operators did to caches and files before.
\* What they do between that look and the removal it does not notice.
RetiredIsRetained ==
    [][\A r \in References : artifacts[r] # Nowhere /\ artifacts'[r] = Nowhere =>
          LET look == command.seen
          IN look = [artifact |-> artifacts[r], file |-> folder[r]] =>
                /\ look.artifact \in retained
                /\ look.file # look.artifact.of]_refreshVars
=============================================================================
