------------------------------ MODULE TaskBoard ------------------------------
(* What the asynchronous pipeline promises about a task, with no queue, no      *)
(* reaper and no processes: a posted task is begun at most once, a begun or     *)
(* withdrawn task is never opened again, and its verdict becomes final.         *)
CONSTANT Task
VARIABLES phase,
          verdict,  \* what a poller reads: nothing yet, or how the task ended
          held      \* tasks that somebody has in hand and may still fail

board == <<phase, verdict, held>>
Phase == {"none", "open", "running", "closed"}
Init  == /\ phase = [t \in Task |-> "none"]
         /\ verdict = [t \in Task |-> "open"] /\ held = {}

Move(t, from, to) == phase[t] = from /\ phase' = [phase EXCEPT ![t] = to]

Post(t)     == Move(t, "none", "open")
Begin(t)    == Move(t, "open", "running")
Withdraw(t) == Move(t, "open", "closed")
\* One task ends, or a crash ends every task then running.
End(S) ==
  /\ S # {} /\ S \subseteq {t \in Task : phase[t] = "running"}
  /\ phase' = [t \in Task |-> IF t \in S THEN "closed" ELSE phase[t]]
Turn == \/ \E t \in Task : Post(t) \/ Begin(t) \/ Withdraw(t)
        \/ \E S \in SUBSET Task : End(S)

\* There is no verdict before the task is begun or withdrawn.  Success can only turn
\* into failure.  Of a closed task only a failure can still be reported, by one who has
\* it in hand; and nobody takes a task in hand that is closed and has a verdict.
Judged(t) ==
  /\ phase'[t] \in {"none", "open"} => verdict'[t] = "open"
  /\ verdict[t] = "COMPLETED" => verdict'[t] \in {"COMPLETED", "FAILED"}
  /\ phase[t] = "closed" /\ verdict'[t] # verdict[t] => verdict'[t] = "FAILED" /\ t \in held
  /\ phase[t] = "closed" /\ verdict[t] # "open" /\ t \in held' => t \in held

Next == (Turn \/ UNCHANGED phase) /\ \A t \in Task : Judged(t)
Spec == Init /\ [][Next]_board
==============================================================================
