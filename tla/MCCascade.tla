------------------------------ MODULE MCCascade ------------------------------
(* An instance of Cascade for TLC: two rules and an unsafe one, two utterances of  *)
(* different tiers, prompts for each layer, and configurations with another        *)
(* threshold and with other dimensions than the script uses.                       *)
EXTENDS Cascade, TLC
CONSTANTS q1, q2

MCRule == "simple" :> [tier |-> 1, priority |-> 10, caps |-> {"summarization"}, safe |-> TRUE]
       @@ "code"   :> [tier |-> 3, priority |-> 20, caps |-> {"code_generation"}, safe |-> TRUE]
       @@ "nested" :> [tier |-> 4, priority |-> 5, caps |-> {}, safe |-> FALSE]
MCUtterance == "capital" :> 1 @@ "debug" :> 3
Text(tier, hits, capital, debug) ==
  [tier |-> tier, asked |-> {}, detected |-> {"reasoning"}, bump |-> 1, long |-> FALSE, hits |-> hits,
   score |-> "capital" :> capital @@ "debug" :> debug]
MCPrompt == {Text(2, {}, 0, 0), Text(0, {"simple", "code", "nested"}, 1, 1),
             Text(0, {}, 9, 1), Text(0, {}, 5, 4)}
Symmetry == Permutations(Req)
Standard == [threshold |-> 72, topK |-> 2, default |-> 3, escalate |-> TRUE, dims |-> 512]
MCConfig == {Standard, [Standard EXCEPT !.dims = 256], [Standard EXCEPT !.escalate = FALSE]}
==============================================================================
