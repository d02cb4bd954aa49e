------------------------------ MODULE MCTuner ------------------------------
(* An instance of Tuner for TLC: two prompts escalated to one tier that share a   *)
(* word, and two fallbacks with one text, the second of them late.                *)
EXTENDS Tuner, TLC
CONSTANTS r1, r2, o1, e1, e2, f1, f2

Row(layer, words, text) == [layer |-> layer, tier |-> 3, sure |-> TRUE, positive |-> TRUE,
                            words |-> words, text |-> text, long |-> TRUE]
MCLogged == (e1 :> Row("escalation", {"deploy", "cluster"}, "x")) @@ (e2 :> Row("escalation", {"deploy"}, "y"))
              @@ (f1 :> Row("fallback", {}, "z")) @@ (f2 :> Row("fallback", {}, "z"))
=============================================================================
