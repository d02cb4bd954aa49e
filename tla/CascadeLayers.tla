---------------------------- MODULE CascadeLayers ----------------------------
(* How one prompt is classified: the rules, the similarity vote, the escalation,  *)
(* the fallback (src/cascade-router) and the classifier that stands in for them   *)
(* (src/classifier).  A prompt is what these functions read of it: the rules that *)
(* match it, its score against each utterance, the capabilities, the bump and the *)
(* length the built-in patterns see, the caller's tier (0: none) and capabilities.*)
EXTENDS Integers, Sequences, FiniteSets, FiniteSetsExt

CONSTANTS Rule,     \* Rule[x]: tier, priority, caps and whether safe() accepts it
          Utterance \* Utterance[u]: its tier

Layers == <<"deterministic", "semantic", "escalation", "fallback">>
Tier   == 1..4

\* An entry of the trace and the answer of a layer.
Attempt(i, status) == [layer |-> Layers[i], status |-> status]
Skipped(i) == Attempt(i, "skipped")
Answer(tier, layer, trust, caps, trace) ==
  [tier |-> tier, layer |-> layer, trust |-> trust, caps |-> caps, trace |-> trace]

\* matchRules and the capabilities of the caller.
OwnCaps(p) == p.detected \cup p.asked

------------------------------------------------------------------------------
(* The classifier without a database.                                             *)
Clamp(n) == IF n < 1 THEN 1 ELSE IF n > 4 THEN 4 ELSE n
ComputeTier(p) ==
  Clamp(1 + (IF p.long THEN 1 ELSE 0) + p.bump + (IF Cardinality(OwnCaps(p)) >= 3 THEN 1 ELSE 0))
Legacy(p) ==
  Answer(IF p.tier # 0 THEN p.tier ELSE ComputeTier(p), "deterministic", "full", OwnCaps(p),
         <<Attempt(1, "matched"), Skipped(2), Skipped(3), Skipped(4)>>)

------------------------------------------------------------------------------
(* Layer 0: of the loaded rules those that match; the lowest priority decides the *)
(* tier, all of them give capabilities.  A pattern safe() rejects is not tried.   *)
Unsafe(on) == {x \in on : ~Rule[x].safe}
Matching(on, p) == (on \cap p.hits) \ Unsafe(on)
Override(p) ==
  Answer(p.tier, "deterministic", "full", OwnCaps(p),
         <<Attempt(1, "matched"), Skipped(2), Skipped(3), Skipped(4)>>)
Deterministic(on, p) ==
  {Answer(Rule[x].tier, "deterministic", "full",
          OwnCaps(p) \cup UNION {Rule[y].caps : y \in Matching(on, p)},
          <<Attempt(1, "matched"), Skipped(2), Skipped(3), Skipped(4)>>)
     : x \in {y \in Matching(on, p) : \A z \in Matching(on, p) : Rule[y].priority <= Rule[z].priority}}

------------------------------------------------------------------------------
(* Layer 1: the topK most similar utterances vote with their scores.              *)
\* rankBySimilarity: which of equal ones stay does not matter to the vote's rule.
Ranked(known, p, topK) ==
  {S \in SUBSET known :
     /\ Cardinality(S) = (IF Cardinality(known) < topK THEN Cardinality(known) ELSE topK)
     /\ \A u \in S, v \in known \ S : p.score[u] >= p.score[v]}
Weight(S, tier, p) == MapThenSumSet(LAMBDA u : p.score[u], {u \in S : Utterance[u] = tier})
Total(S, p) == MapThenSumSet(LAMBDA u : p.score[u], S)
Leaders(S, p) ==
  {t \in {Utterance[u] : u \in S} :
     Weight(S, t, p) > 0 /\ \A v \in S : Weight(S, t, p) >= Weight(S, Utterance[v], p)}
Best(S, p) == IF Leaders(S, p) = {} THEN {3} ELSE Leaders(S, p)
\* weightedTierVote against similarity_threshold (in percent): the share of the winner.
Accepted(S, p, threshold) ==
  {t \in Best(S, p) : \/ Total(S, p) > 0 /\ 100 * Weight(S, t, p) >= threshold * Total(S, p)
                      \/ Total(S, p) <= 0 /\ threshold = 0}
Semantic(tier, p) ==
  Answer(tier, "semantic", "vote", OwnCaps(p),
         <<Attempt(1, "missed"), Attempt(2, "matched"), Skipped(3), Skipped(4)>>)

------------------------------------------------------------------------------
(* Layer 2 and the fallback; second says what became of the semantic layer.       *)
\* Mutant: the skipped fallback is not traced.
EscalatedShort(tier, trust, extra, second, p) ==
  Answer(tier, "escalation", trust, OwnCaps(p) \cup extra,
         <<Attempt(1, "missed"), Attempt(2, second), Attempt(3, "matched")>>)
Escalated(tier, trust, extra, second, p) ==
  Answer(tier, "escalation", trust, OwnCaps(p) \cup extra,
         <<Attempt(1, "missed"), Attempt(2, second), Attempt(3, "matched"), Skipped(4)>>)
FellBack(default, second, p) ==
  Answer(default, "fallback", "none", OwnCaps(p),
         <<Attempt(1, "missed"), Attempt(2, second), Skipped(3), Attempt(4, "matched")>>)

\* A trace names the four layers in order and only the resolving one as matched; what
\* follows it was skipped.
WellTraced(a) ==
  /\ Len(a.trace) = 4
  /\ \A i \in 1..4 : a.trace[i].layer = Layers[i]
  /\ \A i \in 1..4 : a.trace[i].status = "matched" <=> a.layer = Layers[i]
  /\ \A i, j \in 1..4 : i < j /\ a.trace[i].status = "matched" => a.trace[j].status = "skipped"
==============================================================================
