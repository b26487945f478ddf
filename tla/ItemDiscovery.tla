---------------------------- MODULE ItemDiscovery ----------------------------
(***************************************************************************)
(* Finding the product behind one receipt item with search and language    *)
(* models (receipt_collaboration.py, collaborate_item): the run inside one *)
(* process, and, with a team of one, the task of a queued worker           *)
(* (ModelTasks). Literal searches come first; models expand readings only  *)
(* until a search has found a product that the receipt supports, and then  *)
(* review what was found. Searches and models fail at any point.           *)
(*                                                                         *)
(* A hit is [page, tokens, code, glyph, support, told]: whether it is a    *)
(* product page; how title and address explain each word of the item;      *)
(* its item code against the receipt's; whether an OCR observation         *)
(* explains the one word left; whether some observation alone scores; and  *)
(* how title and snippet tell the words after the brand.                   *)
(***************************************************************************)
EXTENDS Integers, Sequences, FiniteSetsExt

CONSTANTS Sought,        \* items with their evidence: [readings, arithmetic, images, whole]
          Hits,          \* what searches can find
          Answers,       \* sets of hits that one search may return
          Teams,         \* sequences of profiles, Qwen first
          ProviderOf(_), \* provider of a profile
          Vision(_),     \* it is shown the images of the receipt
          Grows(_),      \* its output budget can be raised for a retry
          NoHit,         \* a review that abstains
          Threshold,     \* least confidence in per cent
          ReadingBudget, \* readings searched (8)
          MaxSuffixes,   \* suffixes expanded (3)
          MaxCandidates  \* MAX_REVIEW_CANDIDATES

ASSUME DiscoveryAssumption ==
    /\ Threshold \in 0..100
    /\ {ReadingBudget, MaxSuffixes, MaxCandidates} \subseteq Nat
    /\ Answers \subseteq SUBSET Hits

VARIABLES sought,   \* the item: how many readings OCR gave it, both arithmetic checks, whether
                    \* its receipt's images can be shown, whether all evidence fits
          team,     \* participating profiles
          doing,    \* stage of the run
          pool,     \* hits of all searches
          matched,  \* a search found a verified product before the reviews
          turn,     \* profile, reading and attempt in the stage, and the partial answer kept
          failures, \* [stage, profile, type]
          reviews,  \* [profile, ok, choice] in the order of the team
          verdict

discoveryVars == <<sought, team, doing, pool, matched, turn, failures, reviews, verdict>>

Qwen(p)    == ProviderOf(p) = "qwen"
Members    == {team[k] : k \in DOMAIN team}
SearchedReadings == Min({sought.readings, ReadingBudget})
FirstTurn  == [who |-> 1, reading |-> 1, attempt |-> 1, saved |-> "none", readings |-> 0]
NoProfile  == "no profile"
Failed(where, p, type) == [stage |-> where, profile |-> p, type |-> type]
Unless(failed, e) == IF failed THEN {e} ELSE {}
NoSearch(hits, failed) == hits = {} /\ ~failed

-----------------------------------------------------------------------------
(* Evidence of a hit: candidate_evidence, candidate_receipt_evidence *)

Weight(kind) == CASE kind = "exact" -> 100 [] kind = "prefix" -> 90 [] kind = "glyph" -> 85 [] OTHER -> 0
Mean(tokens) == IF Len(tokens) < 2 THEN 0
                ELSE FoldSet(LAMBDA k, sum : sum + Weight(tokens[k]), 0, DOMAIN tokens) \div Len(tokens)
Unmatched(tokens) == {k \in DOMAIN tokens : tokens[k] = "unmatched"}

\* An observation of OCR settles the last word that is left, and no other code.
Resolved(hit) == IF hit.page /\ hit.code # "other" /\ hit.glyph /\ Cardinality(Unmatched(hit.tokens)) = 1
                 THEN [k \in DOMAIN hit.tokens |-> IF hit.tokens[k] = "unmatched" THEN "glyph" ELSE hit.tokens[k]]
                 ELSE hit.tokens
Confidence(hit) ==
    LET tokens == Resolved(hit)
    IN CASE ~hit.page \/ hit.code = "other" -> 0
         [] hit.page /\ hit.code # "other" /\ Unmatched(tokens) # {} -> Min({Mean(tokens), 84})
         [] hit.page /\ hit.code = "same" /\ tokens = hit.tokens
               /\ Unmatched(tokens) = {} /\ tokens # <<>> -> Max({Mean(tokens), 95})
         [] OTHER -> Mean(tokens)

StrongHits     == {h \in Hits : Confidence(h) >= Threshold}
\* verified_product, and what a review may select.
VerifiedHits   == {h \in StrongHits : h.page /\ h.support}
SelectableHits == {h \in VerifiedHits : Unmatched(Resolved(h)) = {}}

-----------------------------------------------------------------------------
(* Searches without models *)

DiscoveryInit ==
    /\ sought \in Sought
    /\ team \in Teams
    /\ doing = "baseline"
    /\ pool = {} /\ matched = FALSE /\ failures = {}
    /\ turn = FirstTurn
    /\ reviews = <<>>
    /\ verdict = "none"

\* The hit tells all words after the brand, by its title and snippet.
TellsWhole(h) == h.told # "not"

\* Single words are searched only when no hit tells all words after the brand;
\* full words of hits only when some hit told them by other words.
AfterSearch(hits) ==
    CASE doing = "baseline" -> "alternatives"
      [] doing = "alternatives" -> "descriptive"
      [] doing = "descriptive" /\ ~(\E h \in hits : TellsWhole(h)) -> "relaxed"
      [] doing \in {"descriptive", "relaxed"} /\ (\E h \in hits : h.told = "in full words") -> "grounded"
      [] OTHER -> "suffixes"

\* A failed search is recorded and the others go on. More readings than the
\* budget are an error by themselves.
Search(hits, failed) ==
    /\ doing \in {"baseline", "alternatives", "descriptive", "relaxed", "grounded"}
    /\ pool' = pool \cup hits
    /\ failures' = failures \cup Unless(failed, Failed("search", NoProfile, "other"))
                     \cup Unless(doing = "alternatives" /\ sought.readings > ReadingBudget,
                                 Failed("search", NoProfile, "budget"))
    /\ doing' = AfterSearch(pool')
    /\ UNCHANGED <<sought, team, matched, turn, reviews, verdict>>

-----------------------------------------------------------------------------
(* Expansions *)

\* expand_descriptive_prefixes: for Qwen, unless a literal search has already
\* found the product, a few suffixes are expanded and searched.
ExpandedSuffixes == IF Qwen(team[1]) /\ (turn.reading > 1 \/ pool \cap VerifiedHits = {})
            THEN Min({MaxSuffixes, SearchedReadings}) ELSE 0

ExpandSuffix(answered, hits, failed) ==
    /\ doing = "suffixes" /\ turn.reading <= ExpandedSuffixes
    /\ answered \/ NoSearch(hits, failed)
    /\ pool' = pool \cup hits
    /\ failures' = failures \cup Unless(~answered, Failed("suffixes", team[1], "other"))
                     \cup Unless(failed, Failed("search", NoProfile, "other"))
    /\ turn' = [turn EXCEPT !.reading = @ + 1]
    /\ UNCHANGED <<sought, team, doing, matched, reviews, verdict>>

\* Not every reading has a suffix to expand. Readings that no search of theirs
\* has explained are expanded next.
EndSuffixes(unresolved) ==
    /\ doing = "suffixes"
    /\ matched' = (Qwen(team[1]) /\ pool \cap VerifiedHits # {})
    /\ matched' => unresolved = 0
    /\ doing' = IF matched' THEN "review" ELSE IF unresolved = 0 THEN "proposal" ELSE "expansion"
    /\ turn' = [FirstTurn EXCEPT !.readings = unresolved]
    /\ UNCHANGED <<sought, team, pool, failures, reviews, verdict>>

Truncated(kind) == kind \in {"thinking", "truncated"}

\* Qwen's remaining readings are skipped once one was cut off.
CircuitOpen(p, type) == Qwen(p) /\ type = "truncated"

\* verify_expansion: the searches of an answer found a verified product.
VerifiedBy(hits) == hits \cap VerifiedHits # {}

\* One reading of one profile is done: with a verified product all are.
EndReading(p, type, verified, failed) ==
    LET skip == CircuitOpen(p, type) \/ turn.reading = turn.readings
    IN /\ matched' = verified
       /\ failures' = failures \cup Unless(type # "none", Failed("expansion", p, type))
                        \cup Unless(failed, Failed("search", NoProfile, "other"))
       /\ doing' = CASE verified -> "review"
                     [] ~verified /\ skip /\ turn.who = Len(team) -> "proposal"
                     [] OTHER -> "expansion"
       /\ turn' = CASE doing' # "expansion" -> FirstTurn
                    [] doing' = "expansion" /\ skip -> [turn EXCEPT !.who = @ + 1, !.reading = 1,
                                                                    !.attempt = 1, !.saved = "none"]
                    [] OTHER -> [turn EXCEPT !.reading = @ + 1, !.attempt = 1, !.saved = "none"]

\* A call that fails. A profile is asked again only if its answer was cut off,
\* Qwen only with a larger budget and not for endless thinking; a partial
\* answer of the first call stands when its correction fails, and those of its
\* searches that failed are repeated.
ExpansionFails(kind, hits, failed) ==
    LET p       == team[turn.who]
        stands  == turn.saved # "none" /\ ~(Qwen(p) /\ kind = "thinking")
        retried == ~stands /\ turn.attempt = 1 /\ Truncated(kind) /\ (Qwen(p) => kind = "truncated" /\ Grows(p))
    IN /\ doing = "expansion"
       /\ (stands /\ turn.saved = "search again") \/ NoSearch(hits, failed)
       /\ pool' = pool \cup hits
       /\ \/ /\ retried
             /\ turn' = [turn EXCEPT !.attempt = 2]
             /\ UNCHANGED <<doing, matched, failures>>
          \/ /\ ~retried
             /\ EndReading(p, CASE stands -> IF turn.saved = "uncited" THEN "citation" ELSE "none"
                                [] ~stands /\ Truncated(kind) -> "truncated"
                                [] OTHER -> "other",
                           VerifiedBy(hits), failed)
       /\ UNCHANGED <<sought, team, reviews, verdict>>

\* An answer: no queries, queries that keep the short words of the receipt, or
\* full ones; with or without a citation. Cited queries are searched, and a
\* hit that the receipt supports ends the expansions. Kept short words are
\* asked for once more, of Qwen not even that.
ExpansionAnswers(queries, cited, hits, failed) ==
    LET p        == team[turn.who]
        verified == VerifiedBy(hits)
        retried  == queries = "partial" /\ ~verified /\ ~Qwen(p) /\ turn.attempt = 1
    IN /\ doing = "expansion"
       /\ (cited /\ queries # "none") \/ NoSearch(hits, failed)
       /\ pool' = pool \cup hits
       /\ \/ /\ retried
             /\ turn' = [turn EXCEPT !.attempt = 2, !.saved = CASE ~cited -> "uncited"
                                                         [] cited /\ failed -> "search again"
                                                         [] OTHER -> "searched"]
             /\ failures' = failures \cup Unless(failed, Failed("search", NoProfile, "other"))
             /\ UNCHANGED <<doing, matched>>
          \/ /\ ~retried
             /\ EndReading(p, IF cited THEN "none" ELSE "citation", verified, failed)
       /\ UNCHANGED <<sought, team, reviews, verdict>>

-----------------------------------------------------------------------------
(* Proposals, of Qwen alone if it takes part *)

Propose(answered, hits, failed) ==
    LET p == team[turn.who]
    IN /\ doing = "proposal"
       /\ answered \/ NoSearch(hits, failed)
       /\ pool' = pool \cup hits
       /\ failures' = failures \cup Unless(~answered, Failed("proposal", p, "other"))
                        \cup Unless(failed, Failed("search", NoProfile, "other"))
       /\ IF turn.who < Len(team) /\ (Qwen(p) => Qwen(team[turn.who + 1]))
          THEN turn' = [turn EXCEPT !.who = @ + 1] /\ doing' = doing
          ELSE turn' = FirstTurn /\ doing' = "review"
       /\ UNCHANGED <<sought, team, matched, reviews, verdict>>

-----------------------------------------------------------------------------
(* Reviews and the decision *)

Candidates == pool \cap SelectableHits
CompleteContext == /\ sought.whole /\ Cardinality(Candidates) <= MaxCandidates
                   /\ pool \cap StrongHits \subseteq Candidates

\* reconcile
Recommends(errors, given, families) ==
    LET chosen == {given[k].choice : k \in DOMAIN given}
    IN /\ errors = {} /\ \A k \in DOMAIN given : given[k].ok
       /\ CompleteContext
       /\ Cardinality(chosen) = 1 /\ chosen \subseteq Candidates
       /\ Cardinality({ProviderOf(given[k].profile) : k \in DOMAIN given}) >= families
       /\ sought.arithmetic # "fail"

ShownTo(p) == Vision(p) => sought.images = "shown"
ImagesRead == sought.images = "faulty" => \A p \in Members : ~Vision(p)

\* Wrong: whoever was cut off, a valid review makes up for it.
RecoverableByAny(given) == {e \in failures : e.stage = "expansion" /\ e.type = "truncated"}
Recoverable(given) == {e \in failures : e.stage = "expansion" /\ e.type = "truncated"
                                          /\ \E k \in DOMAIN given : given[k].ok /\ given[k].profile = e.profile}

\* classify_discovery_errors
Blocking(errors, given) ==
    LET left == errors \ Recoverable(given)
    IN IF /\ matched /\ ImagesRead /\ \A k \in DOMAIN given : ShownTo(given[k].profile)
          /\ sought.arithmetic = "pass" /\ Recommends(left, given, 1)
       THEN left ELSE errors

\* Qwen alone decides when nothing is in doubt; otherwise all are asked.
EndReview(p, ok, choice) ==
    LET given    == Append(reviews, [profile |-> p, ok |-> ok, choice |-> choice])
        alone    == /\ turn.who = 1 /\ Qwen(p)
                    /\ Recommends(Blocking(failures, given), given, 1)
                    /\ sought.arithmetic = "pass" /\ ShownTo(p)
        errors   == failures \cup {Failed("review", given[k].profile, "other") : k \in {j \in DOMAIN given : ~given[j].ok}}
    IN /\ reviews' = given
       /\ IF alone \/ turn.who = Len(team)
          THEN /\ doing' = "decided"
               /\ verdict' = IF Recommends(Blocking(errors, given), given, IF alone THEN 1 ELSE 2)
                             THEN "recommended" ELSE "review"
               /\ failures' = errors
               /\ turn' = FirstTurn
          ELSE /\ turn' = [FirstTurn EXCEPT !.who = turn.who + 1]
               /\ UNCHANGED <<doing, verdict, failures>>

\* A choice without a citation is asked for again once, and so is Qwen's
\* answer that was cut off, unless it was all thinking.
AskedAgain(p, outcome) ==
    /\ turn.attempt = 1
    /\ outcome = "uncited" \/ (outcome = "truncated" /\ Qwen(p) /\ Grows(p))

Review(outcome, choice) ==
    LET p == team[turn.who]
    IN /\ doing = "review"
       /\ choice \in Candidates \cup {NoHit}
       /\ outcome \in {"thinking", "truncated", "other"} => choice = NoHit
       /\ outcome = "uncited" => choice # NoHit
       /\ IF AskedAgain(p, outcome)
          THEN turn' = [turn EXCEPT !.attempt = 2] /\ UNCHANGED <<doing, failures, reviews, verdict>>
          ELSE EndReview(p, outcome = "answered", IF outcome = "answered" THEN choice ELSE NoHit)
       /\ UNCHANGED <<sought, team, pool, matched>>

DiscoveryNext ==
    \/ \E hits \in Answers, failed \in BOOLEAN :
          \/ Search(hits, failed)
          \/ \E answered \in BOOLEAN : ExpandSuffix(answered, hits, failed) \/ Propose(answered, hits, failed)
          \/ \E kind \in {"thinking", "truncated", "other"} : ExpansionFails(kind, hits, failed)
          \/ \E queries \in {"none", "partial", "full"}, cited \in BOOLEAN :
                ExpansionAnswers(queries, cited, hits, failed)
    \/ \E unresolved \in 0..SearchedReadings : EndSuffixes(unresolved)
    \/ \E outcome \in {"answered", "uncited", "thinking", "truncated", "other"}, choice \in Hits \cup {NoHit} :
          Review(outcome, choice)

DiscoverySpec == DiscoveryInit /\ [][DiscoveryNext]_discoveryVars

-----------------------------------------------------------------------------
(* A product is recommended only on evidence of this receipt, by everyone   *)
(* who was asked, and on a discovery without gaps: one provider suffices    *)
(* only if it is Qwen, with both arithmetic checks passed and the images    *)
(* seen; the only failures passed over are calls that were cut off before   *)
(* a search verified the product, of a profile that then reviewed it        *)
(* (reconcile, "Require evidence plus agreement across provider families,   *)
(* never vote inflation", and classify_discovery_errors).                   *)
RecommendedOnEvidence ==
    verdict = "recommended" =>
        /\ \E h \in Candidates : \A k \in DOMAIN reviews : reviews[k].ok /\ reviews[k].choice = h
        /\ \A h \in pool : Confidence(h) >= Threshold => h.support /\ Unmatched(Resolved(h)) = {}
        /\ Cardinality({ProviderOf(reviews[k].profile) : k \in DOMAIN reviews}) = 1 =>
              /\ Len(reviews) = 1 /\ ProviderOf(team[1]) = "qwen" /\ sought.arithmetic = "pass"
              /\ Vision(team[1]) => sought.images = "shown"
        /\ \A e \in failures :
              /\ e.stage = "expansion" /\ e.type = "truncated" /\ matched
              /\ \E k \in DOMAIN reviews : reviews[k].profile = e.profile
              /\ sought.arithmetic = "pass"
=============================================================================
