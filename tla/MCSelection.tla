----------------------------- MODULE MCSelection -----------------------------
(* An instance of Selection for TLC: three agents whose rows differ in status, tier, *)
(* price and capabilities, tasks on both sides of each limit, and policies with each *)
(* fallback and with weights that make different criteria count.  Two rows have the   *)
(* same price in different parts, and estimates a unit apart, as 0.1 + 0.5 * 0.4 and  *)
(* 0.3 + 0.5 * 0 are in the code.                                                     *)
EXTENDS Selection

Base == [active |-> TRUE, tier_ceiling |-> 4, capabilities |-> {"code"},
         input |-> 3, output |-> 4, latency |-> 1]
MCVersion == {Base,
              [Base EXCEPT !.active = FALSE],
              [Base EXCEPT !.output = 18],           \* above 10, within 10 * 1.2
              [Base EXCEPT !.input = 5, !.output = 0, !.latency = 2],
              [Base EXCEPT !.output = 40, !.capabilities = {"code", "math"}, !.latency = 0],
              [Base EXCEPT !.tier_ceiling = 1, !.input = 0, !.output = 0, !.latency = 3]}
MCUnit == 20
MCEstimate == [v \in MCVersion |-> MCUnit * (2 * v.input + v.output)
                                     + (IF v.input = 3 /\ v.output = 4 THEN 1 ELSE 0)]
MCTask == {[tier |-> 1, caps |-> {"code"}], [tier |-> 1, caps |-> {"math"}],
           [tier |-> 4, caps |-> {}]}
Weights == [fallback_strategy |-> "NEXT_BEST", weight_capability |-> 5, weight_cost |-> 3,
            weight_latency |-> 2, weight_outcome |-> 0]
MCPolicy == {Weights,
             [Weights EXCEPT !.fallback_strategy = "TIER_UP", !.weight_outcome = 1],
             [Weights EXCEPT !.fallback_strategy = "ABORT", !.weight_capability = 0]}
==============================================================================
