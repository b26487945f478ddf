-------------------------- MODULE MCResultCollector --------------------------
(* Two collectors and a closed set of producers.  Each announcement is a   *)
(* run published for a request, event by event in the workers' order;      *)
(* duplicates come from lost collector connections and shared runs.        *)
EXTENDS ResultCollector, TLC

CONSTANTS k1, k2, s1, p1, plain, rebuild,
          Announcements  \* pairs of a run and the request it answers

VARIABLE next

mcVars == <<resultVars, next>>

MCCollector == {k1, k2}
MCSource == {s1}
MCPath == {p1}
MCPathOf == [s \in MCSource |-> p1]
MCRequest == {plain, rebuild}
MCSourceOf == [r \in MCRequest |-> s1]
MCKind == [r \in MCRequest |-> IF r = plain THEN "normal" ELSE "cache_only"]
MCSymmetry == Permutations(MCCollector)

(* A cache rebuild whose run a normal import then reuses.                  *)
SharedRun == {<<1, rebuild>>, <<1, plain>>}

MCInit ==
  /\ ResultInit
  /\ next = [a \in Announcements |-> 0]

Announce(a) ==
  /\ next[a] <= NPasses
  /\ Enqueue(EventOf(a[1], next[a], a[2]))
  /\ next' = [next EXCEPT ![a] = @ + 1]

MCNext ==
  \/ \E a \in Announcements : Announce(a)
  \/ \E k \in Collector : CollectorStep(k) /\ UNCHANGED next
  \/ \E k \in Collector : CollectorCrash(k) /\ UNCHANGED next
  \/ \E k \in Collector : CollectorCut(k) /\ UNCHANGED next
  \/ \E d \in DOMAIN delayed : DelayExpires(d) /\ UNCHANGED next

MCSpec == MCInit /\ [][MCNext]_mcVars
=============================================================================
