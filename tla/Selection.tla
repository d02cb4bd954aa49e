------------------------------ MODULE Selection ------------------------------
(* select() of src/services/agent-selection.ts: filter the agents that can do a     *)
(* task, score them against each other, order them, and filter again under a        *)
(* relaxed query when none was left, while agents are registered, changed and       *)
(* disabled between its queries.                                                    *)
(* The code's estimates and scores are floating-point numbers, and differ where the *)
(* numbers they stand for do not: an estimate here is its own value (Estimate), not *)
(* that of the prices, and a score is rounded down to 1/Precision, which like the   *)
(* code's rounding keeps an order and may lose a difference.                        *)
EXTENDS Integers, Sequences, FiniteSets, FiniteSetsExt

CONSTANTS Agent,    \* agent_id: a set of numbers, whose order is that of localeCompare
          Version,  \* what an agent's row may say
          Policy,   \* routing_policy rows
          Task,     \* classifications: tier and required capabilities
          Estimate, \* estimateCost of a row, in units so small that it is a whole number
          Unit,     \* how many of them are half of a thousandth of a dollar
          Precision, Outcomes,      \* of scores, and the shares of good outcomes in it
          MaxChanges                \* bound on changes of the registry

None == [tier |-> 0, caps |-> {}]
Strategies == {"NEXT_BEST", "TIER_UP", "ABORT"}
Fallbacks == {"NONE", "NEXT_BEST", "TIER_UP"}
Row == [active : BOOLEAN, tier_ceiling : 1..4, capabilities : SUBSET STRING,
        input : Nat, output : Nat, latency : Nat]

\* Weights are hundredths (DECIMAL(3,2)), and the column would take a negative one.
ASSUME SelectionAssumption ==
  /\ Agent \subseteq Nat /\ IsFiniteSet(Agent) /\ MaxChanges \in Nat
  /\ Version \subseteq Row /\ \A v \in Version : IsFiniteSet(v.capabilities)
  /\ \A p \in Policy :
       /\ p.fallback_strategy \in Strategies
       /\ {p.weight_capability, p.weight_cost, p.weight_latency, p.weight_outcome} \subseteq Int
  /\ \A t \in Task : t.tier \in 1..4
  /\ None \notin Task
  /\ Precision \in Nat \ {0} /\ Precision % 2 = 0 /\ Outcomes \subseteq 0..Precision
  /\ Unit \in Nat \ {0} /\ Estimate \in [Version -> Nat]
  /\ \A v \in Version :   \* off by at most one unit, and 0 for a free agent
       LET exact == Unit * (2 * v.input + v.output)
       IN  Estimate[v] \in (exact - 1)..(exact + 1) /\ (exact = 0 => Estimate[v] = 0)

VARIABLES registry,   \* agent_registry; an agent not yet created is one that is not active
          changes,
          pc, task, policy,
          candidates, \* the rows the last query returned and the filter kept, by agent
          outcome,    \* share of good outcomes, by agent
          fallback, ranked,
          everFit,    \* history: who passed each query at some moment since select began
          dearth      \* history: at some such moment nobody passed the first one

selectVars == <<pc, task, policy, candidates, outcome, fallback, ranked>>
vars == <<registry, changes, selectVars, everFit, dearth>>

------------------------------------------------------------------------------
(* filterCandidates.                                                                *)
costCeiling == <<10, 50, 500, 5000>>  \* COST_CEILINGS
\* estimateCost, for 1000 tokens in and 500 out.
Cost(row) == Estimate[row]
\* The tier each query asks for, and its ceiling, in twentieths of a thousandth.  What the
\* code's ceiling is off by counts in Estimate, which it is compared with.
TierOf(t, f) == IF f = "TIER_UP" THEN Min({t.tier + 1, 4}) ELSE t.tier
CeilingOf(t, f) == IF f = "NEXT_BEST" THEN 24 * costCeiling[t.tier]
                                      ELSE 20 * costCeiling[TierOf(t, f)]
Fits(row, t, f) ==
  /\ row.active /\ row.tier_ceiling >= TierOf(t, f)
  /\ t.caps \subseteq row.capabilities
  /\ 10 * Cost(row) <= Unit * CeilingOf(t, f)
Filtered(reg, t, f) == {a \in Agent : Fits(reg[a], t, f)}

------------------------------------------------------------------------------
(* scoreCandidates and sortCandidates, on the candidates c.                         *)
Bonus(row) == Cardinality(row.capabilities \ task.caps)
Bonuses(c) == {Bonus(c[a]) : a \in DOMAIN c}
Costs(c) == {Cost(c[a]) : a \in DOMAIN c}
Latencies(c) == {c[a].latency : a \in DOMAIN c}
\* What a difference is divided by, 1 where the code has its own branch for a range of 0.
AtLeast1(n) == IF n = 0 THEN 1 ELSE n
Spread(S) == AtLeast1(Max(S) - Min(S))
BonusUnit(c) == AtLeast1(Max(Bonuses(c)))
\* The quotient as a score, rounded.
Share(n, d) == (n * Precision) \div d
CapabilityScore(c, a) ==   \* in 1/(10 * Precision)
  IF task.caps # {} THEN 6 * Precision + 4 * Share(Bonus(c[a]), BonusUnit(c))
  ELSE IF Max(Bonuses(c)) = 0 THEN 10 * Precision ELSE 10 * Share(Bonus(c[a]), BonusUnit(c))
\* In 1/Precision; mutant: the dearest comes out best.
CostScoreInverted(c, a) == Precision - Share(Max(Costs(c)) - Cost(c[a]), Spread(Costs(c)))
CostScore(c, a) == Precision - Share(Cost(c[a]) - Min(Costs(c)), Spread(Costs(c)))
LatencyScore(c, a) == Precision - Share(c[a].latency - Min(Latencies(c)), Spread(Latencies(c)))
TotalScore(c, a) ==
  CapabilityScore(c, a) * policy.weight_capability
    + 10 * (CostScore(c, a) * policy.weight_cost
            + LatencyScore(c, a) * policy.weight_latency
            + outcome[a] * policy.weight_outcome)
Before(c, a, b) == \/ TotalScore(c, a) > TotalScore(c, b)
                   \/ TotalScore(c, a) = TotalScore(c, b) /\ a < b
\* The i-th place is the one of the candidate that i - 1 others come before.
Sorted(c) ==
  [i \in 1..Cardinality(DOMAIN c) |->
     CHOOSE a \in DOMAIN c : Cardinality({b \in DOMAIN c : Before(c, b, a)}) = i - 1]

------------------------------------------------------------------------------
(* The registry, changed through src/services/agent-registry.ts.                    *)
NoteFits(reg) ==
  /\ everFit' = [f \in Fallbacks |-> everFit[f] \cup Filtered(reg, task, f)]
  /\ dearth' = (dearth \/ Filtered(reg, task, "NONE") = {})
\* create, update, and remove, which sets status to 'disabled': one statement each.
Change(a) ==
  /\ changes < MaxChanges /\ changes' = changes + 1
  /\ \E v \in Version : registry' = [registry EXCEPT ![a] = v]
  /\ pc # "idle" /\ NoteFits(registry')
  /\ UNCHANGED selectVars

(* select, one action for each await.                                               *)
Begin(t) ==
  /\ pc = "idle" /\ pc' = "policy" /\ task' = t
  /\ everFit' = [f \in Fallbacks |-> Filtered(registry, t, f)]
  /\ dearth' = (Filtered(registry, t, "NONE") = {})
  /\ UNCHANGED <<registry, changes, policy, candidates, outcome, fallback, ranked>>

\* getActivePolicy, or none, which is an error; its query may fail, like each one below
\* that is not made at best effort, and select throws what it throws.
LoadPolicy ==
  /\ pc = "policy"
  /\ \/ \E p \in Policy : policy' = p /\ pc' = "filter"
     \/ pc' \in {"error", "failed"} /\ UNCHANGED policy
  /\ UNCHANGED <<registry, changes, task, candidates, outcome, fallback, ranked, everFit, dearth>>

\* filterCandidates under query f.
Query(f) ==
  /\ candidates' = [a \in Filtered(registry, task, f) |-> registry[a]]
  /\ UNCHANGED <<registry, changes, task, policy, outcome, ranked, everFit, dearth>>
\* It throws.
Failed ==
  /\ pc' = "failed"
  /\ UNCHANGED <<registry, changes, task, policy, candidates, outcome, fallback, ranked, everFit, dearth>>
Filter ==
  /\ pc = "filter"
  /\ \/ /\ Query("NONE") /\ UNCHANGED fallback
        /\ pc' = IF policy.weight_outcome > 0 THEN "outcome" ELSE "rank"
     \/ Failed

\* getAgentOutcomeScores, best effort: an agent without a history, or every agent if the
\* query fails, counts as half good.
Neutral == Precision \div 2
OutcomeScores == [Agent -> Outcomes]
LoadOutcomes ==
  /\ pc = "outcome" /\ pc' = "rank"
  /\ \/ outcome' \in OutcomeScores
     \/ outcome' = [a \in Agent |-> Neutral]
  /\ UNCHANGED <<registry, changes, task, policy, candidates, fallback, ranked, everFit, dearth>>

\* scoreCandidates and sortCandidates; then the result, the fallback of the policy, or
\* the error.  Mutant: the relaxed query is made although somebody is left.
WantsFallbackAlways == fallback = "NONE" /\ policy.fallback_strategy # "ABORT"
WantsFallback ==
  DOMAIN candidates = {} /\ fallback = "NONE" /\ policy.fallback_strategy # "ABORT"
Rank ==
  /\ pc = "rank"
  /\ ranked' = Sorted(candidates)
  /\ pc' = CASE WantsFallback -> "again"
             [] ~WantsFallback /\ DOMAIN candidates = {} -> "error"
             [] OTHER -> "done"
  /\ UNCHANGED <<registry, changes, task, policy, candidates, outcome, fallback, everFit, dearth>>
FilterAgain ==
  /\ pc = "again"
  /\ \/ /\ pc' = "rank" /\ fallback' = policy.fallback_strategy
        /\ Query(policy.fallback_strategy)
     \/ Failed

Init ==
  /\ registry \in [Agent -> Version] /\ changes = 0
  /\ pc = "idle" /\ task = None /\ policy = [fallback_strategy |-> "ABORT"]
  /\ candidates = <<>> /\ outcome = [a \in Agent |-> Neutral]
  /\ fallback = "NONE" /\ ranked = <<>>
  /\ everFit = [f \in Fallbacks |-> {}] /\ dearth = FALSE

Next == \/ \E a \in Agent : Change(a)
        \/ \E t \in Task : Begin(t)
        \/ LoadPolicy \/ Filter \/ LoadOutcomes \/ Rank \/ FilterAgain

Spec == Init /\ [][Next]_vars

------------------------------------------------------------------------------
\* Nobody is ranked above an agent that is no dearer, no slower, has as many further
\* capabilities and as good a record, as the code computes them, except by the order of
\* their ids where neither is better by more than the scores can tell: the scores are
\* relative to the field, and every way the field can degenerate (one candidate, equal
\* estimates, no further capabilities) has its own branch in the code.  Equal prices are
\* no promise: their estimates may differ in the last bit, and if these are all that the
\* field has, one of them has the whole cost score and the other none.
\* A policy with a negative weight asks for the opposite, and is left out.
WellMeant ==
  /\ policy.weight_capability >= 0 /\ policy.weight_cost >= 0
  /\ policy.weight_latency >= 0 /\ policy.weight_outcome >= 0
NoWorse(a, b) ==
  LET x == candidates[a]
      y == candidates[b]
  IN /\ Bonus(x) >= Bonus(y) /\ Cost(x) <= Cost(y)
     /\ x.latency <= y.latency /\ outcome[a] >= outcome[b]
\* Better in something that has a weight, by at least a unit of its score.
ClearlyBetter(a, b) ==
  LET x == candidates[a]
      y == candidates[b]
      Tells(difference, range) == difference * Precision >= range
  IN \/ Tells(Bonus(x) - Bonus(y), BonusUnit(candidates)) /\ policy.weight_capability > 0
     \/ Tells(Cost(y) - Cost(x), Spread(Costs(candidates))) /\ policy.weight_cost > 0
     \/ Tells(y.latency - x.latency, Spread(Latencies(candidates))) /\ policy.weight_latency > 0
     \/ outcome[a] > outcome[b] /\ policy.weight_outcome > 0
NobodyIsOvertaken ==
  pc = "done" /\ WellMeant =>
    \A i, j \in 1..Len(ranked) :
       i < j /\ NoWorse(ranked[j], ranked[i]) =>
         ranked[i] < ranked[j] /\ ~ClearlyBetter(ranked[j], ranked[i])

\* Whatever happens to the registry meanwhile: everybody ranked could take the task at
\* some moment since select began, under the query that the result names; a relaxed
\* query, or the refusal of a task that had a policy, means that there was a moment when
\* nobody could take it as it stood.
SelectionIsJustified ==
  /\ pc = "done" => \A i \in 1..Len(ranked) : ranked[i] \in everFit[fallback]
  /\ pc = "done" => ranked # <<>>
  /\ fallback # "NONE" => dearth
  /\ pc = "error" /\ policy.fallback_strategy # "ABORT" => dearth
==============================================================================
