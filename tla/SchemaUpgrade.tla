---------------------------- MODULE SchemaUpgrade ----------------------------
(***************************************************************************)
(* The blue and green copies of the disposable ingest tables               *)
(* (receipts/schema_blue_green.py). Every deployment runs home-budget-db-  *)
(* setup, which rebuilds the idle colour from the template when the        *)
(* version changed and points the views at it, in three commits under one  *)
(* session lock. A set-up may die between any two of them, and may still   *)
(* wait for the lock when a newer release is already deployed.             *)
(*                                                                         *)
(* A copy of the tables is [of, rows]: the template it was built from, and *)
(* how many status rows importers have written to it since.                *)
(***************************************************************************)
EXTENDS Integers

CONSTANTS Setup,       \* runs of home-budget-db-setup
          Legacy,      \* the template of tables made before there were colours
          Missing,     \* no such tables, no such row
          MaxVersion,  \* bound on SCHEMA_VERSION
          MaxRows,     \* bound on the rows of one copy
          MaxDeaths    \* bound on set-ups that die

ASSUME SchemaAssumption == MaxVersion \in Nat \ {0} /\ MaxRows \in Nat /\ MaxDeaths \in Nat

VARIABLES release,     \* deployed code: its SCHEMA_VERSION, and whether its template was
                       \* edited without raising it
          ingest,      \* tables in the schema "ingest" itself, Missing once it holds views
          copies,      \* the tables of each colour, or Missing
          views,       \* colour that ingest.receipts selects from, or Missing
          tracked,     \* row of ops.schema_state, or Missing
          setups,      \* what each set-up is doing
          replaced,    \* history: what importers saw just before the last cut-over
          deaths

schemaVars == <<release, ingest, copies, views, tracked, setups, replaced, deaths>>

Colors == {"blue", "green"}
Other(color) == CHOOSE c \in Colors : c # color

Releases == [version : 1 .. MaxVersion, edited : BOOLEAN]
Copies   == [of : Releases \cup {Legacy}, rows : 0 .. MaxRows]
States   == [version : 0 .. MaxVersion, active : Colors \cup {Missing},
             previous : 0 .. MaxVersion \cup {Missing}, hash : Releases, dirty : BOOLEAN]

ASSUME MissingAssumption == Missing \notin Colors \cup Copies \cup States

Empty(template) == [of |-> template, rows |-> 0]

Idle == [at |-> "idle"]
Holder == {u \in Setup : setups[u].at \in {"marked", "built"}}

\* What the importers read and write.
Visible == IF views # Missing THEN copies[views] ELSE ingest

SchemaInit ==
    /\ release = [version |-> 1, edited |-> FALSE]
    /\ ingest \in {Missing, Empty(Legacy)}
    /\ copies = [c \in Colors |-> Missing]
    /\ views = Missing /\ tracked = Missing
    /\ setups = [u \in Setup |-> Idle]
    /\ replaced = Missing
    /\ deaths = 0

\* A release with a new version, or one that changed the template alone.
Deploy(version, edited) ==
    /\ version \in {release.version, release.version + 1} /\ version <= MaxVersion
    /\ release' = [version |-> version, edited |-> edited]
    /\ release' # release
    /\ UNCHANGED <<ingest, copies, views, tracked, setups, replaced, deaths>>

\* Another status row is written, through the views or to the old tables.
ImportRow ==
    /\ Visible # Missing /\ Visible.rows < MaxRows
    /\ IF views # Missing
       THEN copies' = [copies EXCEPT ![views].rows = @ + 1] /\ UNCHANGED ingest
       ELSE ingest' = [ingest EXCEPT !.rows = @ + 1] /\ UNCHANGED copies
    /\ UNCHANGED <<release, views, tracked, setups, replaced, deaths>>

-----------------------------------------------------------------------------
(* ensure_receipt_schema *)

\* The template is read before the lock is awaited.
ReadTemplate(u) ==
    /\ setups[u] = Idle
    /\ setups' = [setups EXCEPT ![u] = [at |-> "waiting", code |-> release]]
    /\ UNCHANGED <<release, ingest, copies, views, tracked, replaced, deaths>>

\* A template that differs from the one built under the same version is
\* refused, also when that build was never finished.
Current(code)  == tracked # Missing /\ tracked.version = code.version
UpToDate(code) == Current(code) /\ (tracked.hash # code \/ ~tracked.dirty)

\* The colour in use. There is none in the row that _mark_dirty inserts.
ActiveColor == IF tracked # Missing THEN tracked.active
               ELSE IF ingest # Missing THEN "blue" ELSE Missing

\* Mutant: the colour in use is built again.
ActiveTarget == IF ActiveColor = "green" THEN "green" ELSE "blue"
TargetColor == IF ActiveColor = "blue" THEN "green" ELSE "blue"

\* The version that is replaced, 0 for the tables without one.
PreviousVersion == IF tracked = Missing THEN IF ingest # Missing THEN 0 ELSE Missing
                   ELSE IF tracked.version = 0 THEN Missing ELSE tracked.version

\* The lock is taken and the state read: nothing to do, an edited template, or
\* a build, which begins by marking the state (_mark_dirty).
MarkDirty(u) ==
    /\ setups[u].at = "waiting" /\ Holder = {}
    /\ ~UpToDate(setups[u].code)
    /\ setups' = [setups EXCEPT ![u] = [at |-> "marked", code |-> @.code,
                                        target |-> TargetColor, previous |-> PreviousVersion]]
    /\ tracked' = IF tracked = Missing
                  THEN [version |-> 0, active |-> Missing, previous |-> Missing,
                        hash |-> setups[u].code, dirty |-> TRUE]
                  ELSE [tracked EXCEPT !.hash = setups[u].code, !.dirty = TRUE]
    /\ UNCHANGED <<release, ingest, copies, views, replaced, deaths>>

LeaveAlone(u) ==
    /\ setups[u].at = "waiting" /\ Holder = {}
    /\ UpToDate(setups[u].code)
    /\ setups' = [setups EXCEPT ![u] = Idle]
    /\ UNCHANGED <<release, ingest, copies, views, tracked, replaced, deaths>>

\* _build_schema
BuildSchema(u) ==
    /\ setups[u].at = "marked"
    /\ copies' = [copies EXCEPT ![setups[u].target] = Empty(setups[u].code)]
    /\ setups' = [setups EXCEPT ![u].at = "built"]
    /\ UNCHANGED <<release, ingest, views, tracked, replaced, deaths>>

\* _cut_over, with _preserve_legacy_ingest: old tables become the blue copy,
\* whatever the blue copy was.
CutOver(u) ==
    LET job == setups[u]
    IN /\ job.at = "built"
       /\ copies' = IF ingest = Missing THEN copies ELSE [copies EXCEPT !["blue"] = ingest]
       /\ ingest' = Missing
       /\ views' = job.target
       /\ tracked' = [version |-> job.code.version, active |-> job.target,
                      previous |-> job.previous, hash |-> job.code, dirty |-> FALSE]
       /\ setups' = [setups EXCEPT ![u] = Idle]
       /\ replaced' = Visible
       /\ UNCHANGED <<release, deaths>>

\* The set-up dies; the session's lock goes with it.
Die(u) ==
    /\ setups[u] # Idle /\ deaths < MaxDeaths
    /\ deaths' = deaths + 1
    /\ setups' = [setups EXCEPT ![u] = Idle]
    /\ UNCHANGED <<release, ingest, copies, views, tracked, replaced>>

SetupStep(u) == ReadTemplate(u) \/ MarkDirty(u) \/ LeaveAlone(u) \/ BuildSchema(u) \/ CutOver(u)

SchemaNext ==
    \/ \E version \in 1..MaxVersion, edited \in BOOLEAN : Deploy(version, edited)
    \/ ImportRow
    \/ \E u \in Setup : SetupStep(u) \/ Die(u)

SchemaSpec == SchemaInit /\ [][SchemaNext]_schemaVars
-----------------------------------------------------------------------------
(* Properties *)

\* Whatever set-ups died on the way, importers never meet a missing or
\* half-built copy, and a clean state row tells the truth: the copy of the
\* previous version is kept under the other colour as importers left it
\* ("Green remains the rollback copy while blue is active",
\* tests/test_postgres_receipt_schema_blue_green.py), and the active one was
\* built from the template it names or is the old tables (see the README for
\* how the old tables come to stand under the name of a new template).
RollbackCopyKept ==
    /\ views # Missing => copies[views] # Missing
    /\ tracked # Missing /\ ~tracked.dirty =>
          /\ tracked.active = views /\ copies[views].of \in {tracked.hash, Legacy}
          /\ tracked.previous # Missing => copies[Other(views)] = replaced
=============================================================================
