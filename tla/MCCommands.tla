----------------------------- MODULE MCCommands -----------------------------
(***************************************************************************)
(* What runs beside the deployed pipeline: an operator's cached            *)
(* re-extraction, the set-up of the ingest schema, `receipts refresh`,     *)
(* ingest inside one process, the matching of bank transactions and the    *)
(* discovery of a product. One of them runs while the others rest in an    *)
(* initial state.                                                          *)
(***************************************************************************)
EXTENDS MCReceiptPipeline, SchemaUpgrade, SourceRefresh, DirectIngest, BankMatching,
        ItemDiscovery

CONSTANTS u1, u2, c1, c2, q, paid1, paid2

MCSetups == {u1, u2}
MCDigests == {c1, c2}
MCCallers == {k1, w1}

Ordered(kind, request) == [path |-> p1, digest |-> c1, kind |-> kind, request |-> request]
MCOrders == {Ordered("import", NoOrder), Ordered("reprocess", newer), Ordered("cache", again)}

\* Purchases that share either the amount or the order number with the transaction.
MCComparisons ==
    {c \in [amount : BOOLEAN, days : {0, 1}, merchant : {80},
            card : BOOLEAN, account : BOOLEAN, identifier : BOOLEAN] : c.amount # c.identifier}

\* One product told by an observed glyph, one by its item code, and a page
\* that explains most words of the item.
Hit(tokens, code, glyph, told) == [page |-> TRUE, tokens |-> tokens, code |-> code,
                                   glyph |-> glyph, support |-> TRUE, told |-> told]
Named == Hit(<<"exact", "unmatched">>, "none", TRUE, "in full words")
Coded == Hit(<<"exact", "prefix">>, "same", FALSE, "not")
Alike == Hit(<<"exact", "exact", "exact", "exact", "unmatched">>, "none", FALSE, "literally")
MCHits    == {Named, Coded, Alike}
MCAnswers == {{}, {Named}, {Coded, Alike}}

Item(readings, arithmetic, images) == [readings |-> readings, arithmetic |-> arithmetic,
                                       images |-> images, whole |-> TRUE]
MCSought == {Item(2, "pass", "shown"), Item(2, "unknown", "shown"), Item(3, "pass", "none")}

MCTeams == {<<q>>, <<q, paid1>>, <<paid1, paid2>>}
MCProviderOf(p) == CASE p = q -> "qwen" [] p = paid1 -> "first" [] p = paid2 -> "second"
MCVision(p) == p = q
MCGrows(p) == TRUE

VARIABLE running  \* the part that runs

commandVars == <<pipeVars, schemaVars, refreshVars, directVars, matchingVars, discoveryVars, running>>

CommandsInit ==
    /\ PipeInit /\ SchemaInit /\ RefreshInit /\ DirectInit /\ MatchingInit
    /\ DiscoveryInit
    /\ running \in {"pipeline", "schema", "refresh", "direct", "matching", "discovery"}
    /\ running = "schema" \/ ingest = Missing
    /\ running = "refresh" \/ (folder[1] = c1 /\ known[c1].kind = "evidence")
    /\ running = "direct" \/ disk[p1] = c1
    /\ running = "discovery" \/ (team = <<q>> /\ sought = Item(2, "pass", "shown"))

CommandsNext ==
    /\ UNCHANGED running
    /\ \/ running = "pipeline" /\ PipeNext
          /\ UNCHANGED <<schemaVars, refreshVars, directVars, matchingVars, discoveryVars>>
       \/ running = "schema" /\ SchemaNext
          /\ UNCHANGED <<pipeVars, refreshVars, directVars, matchingVars, discoveryVars>>
       \/ running = "refresh" /\ RefreshNext
          /\ UNCHANGED <<pipeVars, schemaVars, directVars, matchingVars, discoveryVars>>
       \/ running = "direct" /\ DirectNext
          /\ UNCHANGED <<pipeVars, schemaVars, refreshVars, matchingVars, discoveryVars>>
       \/ running = "matching" /\ MatchingNext
          /\ UNCHANGED <<pipeVars, schemaVars, refreshVars, directVars, discoveryVars>>
       \/ running = "discovery" /\ DiscoveryNext
          /\ UNCHANGED <<pipeVars, schemaVars, refreshVars, directVars, matchingVars>>

CommandsSpec == CommandsInit /\ [][CommandsNext]_commandVars
=============================================================================
