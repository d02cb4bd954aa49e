------------------------------- MODULE Dispatch -------------------------------
(* routeTask from the selection of an agent to the Dolt commit, for one task     *)
(* (src/router/router.ts), with the calls of execute                             *)
(* (src/services/execution.ts), the outcome signals and the sampled evaluation   *)
(* that nobody awaits (src/services/outcome-collector.ts).  Any awaited call may *)
(* throw, its statement applied or not.  Other tasks share the working set.      *)
EXTENDS Naturals, Sequences, FiniteSets

CONSTANTS Agent, MaxRetries  \* the largest max_retries of a policy

ASSUME DispatchAssumption == IsFiniteSet(Agent) /\ Agent # {} /\ MaxRetries \in Nat

VARIABLES step,       \* where routeTask is
          selection,  \* the ranking select() returned and the active policy
          exec,       \* the local variables of execute
          records,    \* allExecRecords
          row,        \* the row of task_log
          log,        \* the rows of execution_log
          signals,    \* the tier-0 rows of task_outcome, by type
          evaluation, \* where evaluateRoutingDecision is
          verdict,    \* the tier-2 row of task_outcome
          dirty,      \* tables with rows of this task that are not in HEAD
          calls,      \* history: the provider calls that returned
          thrown      \* history: the try block of routeTask threw

dispatchVars == <<step, selection, exec, records>>
tables  == <<row, log, signals, verdict>>
history == <<calls, thrown>>
vars == <<dispatchVars, tables, dirty, evaluation, history>>

Failure  == {"ERROR", "TIMEOUT"}
Outcome  == Failure \cup {"SUCCESS", "FALLBACK"}
Strategy == {"NEXT_BEST", "TIER_UP", "ABORT"}
Table    == {"task_log", "execution_log", "task_outcome"}
Step     == {"select", "find", "invoke", "record", "recordFailure", "fallback", "synthetic",
             "terminal", "signals", "commit", "catch", "catchCommit", "end", "gaveUp", "dead"}

\* scored_candidates: some of the agents, best first.
Ranking == UNION {{r \in [1..n -> Agent] : \A i, j \in 1..n : r[i] = r[j] => i = j}
                  : n \in 1..Cardinality(Agent)}
\* The places of the other agents, and the agent at the first of some places.
Others(ranking, agent) == {i \in DOMAIN ranking : ranking[i] # agent}
Best(ranking, places) == ranking[CHOOSE i \in places : \A j \in places : i <= j]

Goto(s)   == step' = s /\ UNCHANGED thrown
Throw     == step' = "catch" /\ thrown' = TRUE
\* A statement: it runs, or it throws although it ran.
Touch(table) == dirty' = dirty \cup {table}

------------------------------------------------------------------------------
(* Selection and execution.                                                      *)
ExecFrame == UNCHANGED <<signals, verdict, evaluation>>

\* execute starts: its locals.  On the fallback it does not retry.
StartExecute(agent, fallback) ==
  exec' = [agent |-> agent, attempt |-> 1, fallback |-> fallback, outcome |-> "SUCCESS"]
\* updateSelection; the rationale of a fallback holds fallback_from.
\* Mutant: the row keeps the agent that failed.
UpdateSelectionKept(agent, fallback) ==
  row' = [status |-> "DISPATCHED", agent |-> IF fallback THEN row.agent ELSE agent, fallback |-> fallback]
UpdateSelection(agent, fallback) ==
  row' = [status |-> "DISPATCHED", agent |-> agent, fallback |-> fallback]
DispatchTo(agent, fallback) ==
  /\ UpdateSelection(agent, fallback) /\ Touch("task_log")
  /\ \/ Goto("find") /\ StartExecute(agent, fallback)
     \/ Throw /\ UNCHANGED exec

\* tryFallbackAgent: TIER_UP ranks again one tier up and takes the first other agent
\* there; without one, at the top tier or if select throws, the first ranking decides.
\* Mutant: the agent that failed may come again.
FallbackCandidatesAll(ranking) == DOMAIN ranking
FallbackCandidates(ranking) == Others(ranking, Head(selection.rank))
Considered ==
  {selection.rank} \cup
    (IF selection.strategy = "TIER_UP" THEN {r \in Ranking : FallbackCandidates(r) # {}} ELSE {})

\* getActivePolicy, select() and updateSelection.
Select ==
  /\ step = "select"
  /\ \E r \in Ranking, s \in Strategy, n \in 0..MaxRetries :
       /\ selection' = [rank |-> r, strategy |-> s, retries |-> n]
       /\ DispatchTo(Head(r), FALSE)
  /\ UNCHANGED <<records, log, calls>> /\ ExecFrame

\* getActivePolicy, select() or updateSelection throws and the row is as it was.
SelectFails ==
  /\ \/ step = "select"
     \/ step = "fallback" /\ \E r \in Considered : FallbackCandidates(r) # {}
  /\ Throw
  /\ UNCHANGED <<selection, exec, records, row, log, dirty, calls>> /\ ExecFrame

\* execute throws: out of routeTask's try block, except on the fallback.
ExecuteThrows == IF exec.fallback THEN Goto("synthetic") ELSE Throw

\* findById and getProvider.
FindAgent ==
  /\ step = "find"
  /\ Goto("invoke") \/ ExecuteThrows
  /\ UNCHANGED <<selection, exec, records, row, log, dirty, calls>> /\ ExecFrame

Invoke ==
  /\ step = "invoke"
  /\ \E o \in Failure \cup {"SUCCESS"} :
       /\ calls' = Append(calls, [agent |-> exec.agent, outcome |-> o])
       /\ exec' = [exec EXCEPT !.outcome = o]
       /\ Goto(IF o = "SUCCESS" THEN "record" ELSE "recordFailure")
  /\ UNCHANGED <<selection, records, row, log, dirty>> /\ ExecFrame

LastAttempt == exec.fallback \/ exec.attempt = selection.retries + 1
\* A row of execution_log; its execution_id is drawn once per attempt.
\* Mutant: the row of the failure has an id of its own.
ExecutionIdFresh(o) == IF o = "SUCCESS" THEN Len(calls) ELSE Len(calls) + 100
ExecutionId(o) == Len(calls)
ExecRow(o) == [id |-> ExecutionId(o), agent |-> exec.agent, attempt |-> exec.attempt, outcome |-> o]

\* execute returns a record to routeTask.
Returned(o) ==
  /\ records' = Append(records, o)
  /\ Goto(IF o = "SUCCESS" \/ exec.fallback \/ selection.strategy = "ABORT"
          THEN "terminal" ELSE "fallback")

\* insertExecution.
NoInsert  == UNCHANGED <<log, dirty>>
Insert(r) == log' = log \cup {r} /\ Touch("execution_log")

\* insertExecution inside the try block of the attempt: if it throws, the attempt
\* counts as failed.
RecordSuccess ==
  /\ step = "record"
  /\ \/ Insert(ExecRow("SUCCESS")) /\ Returned("SUCCESS") /\ UNCHANGED exec
     \/ /\ Insert(ExecRow("SUCCESS")) \/ NoInsert
        /\ Goto("recordFailure") /\ exec' = [exec EXCEPT !.outcome = "ERROR"]
        /\ UNCHANGED records
  /\ UNCHANGED <<selection, row, calls>> /\ ExecFrame

\* The catch block of the attempt; the row of a duplicate id is refused.
RecordFailure ==
  LET o == IF LastAttempt THEN exec.outcome ELSE "FALLBACK"
      r == ExecRow(o)
  IN
  /\ step = "recordFailure"
  /\ \/ /\ \A other \in log : other.id # r.id
        /\ Insert(r)
        /\ IF LastAttempt THEN Returned(o) /\ UNCHANGED exec
           ELSE /\ exec' = [exec EXCEPT !.attempt = @ + 1]    \* after the back-off
                /\ Goto("invoke") /\ UNCHANGED records
     \/ /\ \/ (\A other \in log : other.id # r.id) /\ Insert(r)
           \/ NoInsert
        /\ ExecuteThrows /\ UNCHANGED <<exec, records>>
  /\ UNCHANGED <<selection, row, calls>> /\ ExecFrame

\* tryFallbackAgent and updateSelection.
TryFallback ==
  /\ step = "fallback"
  /\ \E r \in Considered :
       IF FallbackCandidates(r) = {}
       THEN Goto("terminal") /\ UNCHANGED <<exec, row, dirty>>
       ELSE DispatchTo(Best(r, FallbackCandidates(r)), TRUE)
  /\ UNCHANGED <<selection, records, log, calls>> /\ ExecFrame

\* The fallback's execute threw: a synthetic record, with an id of its own.
SyntheticRow == [id |-> 0, agent |-> exec.agent, attempt |-> 2, outcome |-> "ERROR"]
InsertSynthetic ==
  /\ step = "synthetic"
  /\ \/ /\ Insert(SyntheticRow)
        /\ records' = Append(records, "ERROR")
        /\ Goto("terminal")
     \/ (Insert(SyntheticRow) \/ NoInsert) /\ Throw /\ UNCHANGED records
  /\ UNCHANGED <<selection, exec, row, calls>> /\ ExecFrame

------------------------------------------------------------------------------
(* The terminal row, the signals and the commit.                                *)
TailFrame == UNCHANGED <<selection, exec, records, log, calls>>
Won == records[Len(records)] = "SUCCESS"

\* markCompleted or markFailed.  Mutant: the row of a failure is left as it was.
FinalStatusKept == IF Won THEN "COMPLETED" ELSE row.status
FinalStatus == IF Won THEN "COMPLETED" ELSE "FAILED"
WriteTerminal ==
  LET final == [row EXCEPT !.status = FinalStatus] IN
  /\ step = "terminal"
  /\ \/ row' = final /\ Touch("task_log") /\ (Goto("signals") \/ Throw)
     \/ UNCHANGED <<row, dirty>> /\ Throw
  /\ UNCHANGED <<signals, verdict, evaluation>> /\ TailFrame

\* The detectors of collectStructuralSignals, which read the row again; those of
\* tokens, cost and latency depend on measured values.
Detected(limits) ==
  (IF row.fallback THEN {"fallback_activated"} ELSE {})
    \cup (IF \E i \in DOMAIN records : records[i] = "ERROR" THEN {"error_occurred"} ELSE {})
    \cup (IF \E i \in DOMAIN records : records[i] = "TIMEOUT" THEN {"timeout_occurred"} ELSE {})
    \cup limits
\* Mutant: the clean signal looks at the last record only.
SignalsOfLast(limits) == IF Won THEN {"clean_execution"} \cup limits ELSE Detected(limits)
Signals(limits) == IF Detected(limits) = {} THEN {"clean_execution"} ELSE Detected(limits)

\* findById, the detectors, insertBatch, runFormatVerification and the sampling, all
\* inside a try block that swallows what they throw.
CollectSignals ==
  /\ step = "signals" /\ Goto("commit")
  /\ \/ /\ \E limits \in SUBSET {"limit_exceeded"} : signals' = Signals(limits)
        /\ Touch("task_outcome")
        /\ evaluation' \in {"off", "start"}
     \/ UNCHANGED <<signals, dirty, evaluation>>
  /\ UNCHANGED <<row, verdict>> /\ TailFrame

\* DOLT_COMMIT -A takes every table; without changes it is an error that
\* commitSafely swallows.  Mutant: only one table is staged.
CommitAllPartly == dirty' = dirty \ {"task_log"}
CommitAll == dirty' = {}

RouterCommit ==
  /\ \/ step \in {"commit", "catchCommit"} /\ Goto("end") /\ CommitAll
     \/ step = "commit" /\ Throw /\ (CommitAll \/ UNCHANGED dirty)
  /\ UNCHANGED <<tables, evaluation, selection, exec, records, calls>>

\* The catch block: markFailed and the commit, each best-effort.
Catch ==
  /\ step = "catch" /\ Goto("catchCommit")
  /\ \/ row' = [row EXCEPT !.status = "FAILED"] /\ Touch("task_log")
     \/ UNCHANGED <<row, dirty>>
  /\ UNCHANGED <<signals, verdict, evaluation>> /\ TailFrame

CatchCommitFails ==
  /\ step = "catchCommit" /\ Goto("gaveUp")
  /\ UNCHANGED <<tables, dirty, evaluation, selection, exec, records, calls>>

------------------------------------------------------------------------------
(* evaluateRoutingDecision runs beside and after routeTask.                     *)
EvalFrame == UNCHANGED <<dispatchVars, row, log, signals, history>>
Evaluating(stage) == evaluation' = stage

\* findById, the check of the API key and the INSERT of the pending row.
StartEvaluation ==
  /\ evaluation = "start"
  /\ \/ verdict' = "pending" /\ Touch("task_outcome") /\ evaluation' \in {"ask", "off"}
     \/ UNCHANGED <<verdict, dirty>> /\ Evaluating("off")
  /\ EvalFrame

\* The UPDATE changes a pending row only.  Mutant: any row.
FinalizeAny(v) == verdict' = IF verdict = "deleted" THEN verdict ELSE v
Finalize(v) == verdict' = IF verdict = "pending" THEN v ELSE verdict

\* The LLM's answer is recorded; whatever throws here leads to the catch block.
FinishEvaluation ==
  /\ evaluation = "ask"
  /\ \/ Finalize("complete") /\ Touch("task_outcome") /\ evaluation' \in {"commit", "failed"}
     \/ UNCHANGED <<verdict, dirty>> /\ Evaluating("failed")
  /\ EvalFrame

FailEvaluation ==
  /\ evaluation = "failed" /\ Evaluating("commit")
  /\ \/ Finalize("failed") /\ Touch("task_outcome")
     \/ UNCHANGED <<verdict, dirty>>
  /\ EvalFrame

CommitEvaluation ==
  /\ evaluation = "commit" /\ Evaluating("off")
  /\ CommitAll \/ UNCHANGED dirty
  /\ UNCHANGED <<dispatchVars, tables, calls, thrown>>

\* cleanupOrphanedPendingRecords, called by an operator with any age.  A task has one
\* tier-2 row, so that no other row of it can be final.
Cleanup ==
  /\ verdict = "pending" /\ verdict' = "deleted" /\ Touch("task_outcome")
  /\ UNCHANGED evaluation /\ EvalFrame

------------------------------------------------------------------------------
\* Another task's commit takes the rows of this one.
OtherCommit ==
  /\ CommitAll
  /\ UNCHANGED <<dispatchVars, tables, evaluation, calls, thrown>>

Crash ==
  /\ step' = "dead" /\ evaluation' = "off"
  /\ UNCHANGED <<selection, exec, records, tables, dirty, history>>

Init ==
  /\ step = "select" /\ records = <<>> /\ log = {} /\ signals = {}
  /\ selection = [rank |-> <<>>, strategy |-> "ABORT", retries |-> 0]
  /\ exec = [agent |-> "none", attempt |-> 0, fallback |-> FALSE, outcome |-> "SUCCESS"]
  /\ row = [status |-> "CLASSIFIED", agent |-> "none", fallback |-> FALSE]
  /\ evaluation = "off" /\ verdict = "none"
  /\ dirty \in SUBSET {"task_log"}
  /\ calls = <<>> /\ thrown = FALSE

Execute  == FindAgent \/ Invoke \/ RecordSuccess \/ RecordFailure
Route    == \/ Select \/ SelectFails \/ Execute \/ TryFallback \/ InsertSynthetic
            \/ WriteTerminal \/ CollectSignals \/ RouterCommit \/ Catch \/ CatchCommitFails
Evaluate == StartEvaluation \/ FinishEvaluation \/ FailEvaluation \/ CommitEvaluation
Next == Route \/ Evaluate \/ Cleanup \/ OtherCommit \/ Crash
Spec == Init /\ [][Next]_vars

------------------------------------------------------------------------------
\* The types of the locals and of the rows.
TypeOK ==
  /\ step \in Step /\ evaluation \in {"off", "start", "ask", "failed", "commit"}
  /\ selection \in [rank : Ranking \cup {<<>>}, strategy : Strategy, retries : 0..MaxRetries]
  /\ exec \in [agent : Agent \cup {"none"}, attempt : 0..(selection.retries + 1), fallback : BOOLEAN,
               outcome : Failure \cup {"SUCCESS"}]
  /\ records \in Seq(Failure \cup {"SUCCESS"}) /\ Len(records) <= 2
  /\ row \in [status : {"CLASSIFIED", "DISPATCHED", "COMPLETED", "FAILED"},
              agent : Agent \cup {"none"}, fallback : BOOLEAN]
  /\ log \subseteq [id : Nat, agent : Agent, attempt : Nat, outcome : Outcome]
  /\ signals \subseteq {"fallback_activated", "error_occurred", "timeout_occurred",
                        "limit_exceeded", "clean_execution"}
  /\ verdict \in {"none", "pending", "complete", "failed", "deleted"}
  /\ dirty \subseteq Table
  /\ calls \in Seq([agent : Agent, outcome : Failure \cup {"SUCCESS"}])
  /\ thrown \in BOOLEAN

\* A task read as COMPLETED was answered by the agent its row names, and that call is
\* in execution_log, whatever was retried or fell back before (router.ts:293-346).
CompletedIsBacked ==
  row.status = "COMPLETED" =>
    \E r \in log : r.outcome = "SUCCESS" /\ r.agent = row.agent /\ r.id \in DOMAIN calls
                   /\ calls[r.id] = [agent |-> row.agent, outcome |-> "SUCCESS"]

\* The agents are called in the order and as often as the policy allows: the first
\* up to retries + 1 times, then one other agent once, unless the strategy is ABORT;
\* and never again after a call whose success is in execution_log.
CallsFollowPolicy ==
  /\ \A i \in DOMAIN calls :
       IF calls[i].agent = Head(selection.rank) THEN i <= selection.retries + 1
       ELSE i = Len(calls) /\ i > 1 /\ selection.strategy # "ABORT"
  /\ \A r \in log : r.outcome = "SUCCESS" => r.id = Len(calls)

\* execution_log has one row per call at most, by the right agent and with its retry
\* count, and a row says SUCCESS only of a call that succeeded; if routeTask returns
\* without an exception there is a row for every call, the synthetic one standing for
\* a call whose record could not be written.
LogIsTruthful ==
  /\ \A r \in log : r.id # 0 =>
       /\ r.id \in DOMAIN calls /\ calls[r.id].agent = r.agent
       /\ r.attempt = Cardinality({i \in 1..r.id : calls[i].agent = r.agent})
       /\ r.outcome = "SUCCESS" => calls[r.id].outcome = "SUCCESS"
       /\ \A other \in log : other.id = r.id => other = r
  /\ step = "end" /\ ~thrown => Cardinality(log) >= Len(calls)

\* The signals agree with the log: the clean one only without a final failure and
\* without a fallback, an error or timeout only with such a row.
SignalsMatchLog ==
  /\ "clean_execution" \in signals =>
       /\ \A r \in log : r.outcome \notin Failure
       /\ row.agent = Head(selection.rank)
  /\ "error_occurred" \in signals => \E r \in log : r.outcome = "ERROR"
  /\ "timeout_occurred" \in signals => \E r \in log : r.outcome = "TIMEOUT"

\* When routeTask returns, its task's rows in task_log and execution_log are in HEAD,
\* under its own commit or one of a concurrent task, unless the commit of the catch
\* block failed as well.
RowsAreCommitted == step = "end" => dirty \subseteq {"task_outcome"}

\* A final evaluation is never rewritten, although the UPDATE that made it final may
\* have been reported as failed (task-outcome.ts:89-96).
VerdictIsFinal ==
  [][verdict' # verdict => verdict \in {"none", "pending"}]_vars

\* Seen from task_log this is the job that TaskWorker runs: the order of the statements
\* on the row, what each of them writes, and what a throw can leave behind.
JobAt == CASE step = "select" -> "classified"
           [] step \in {"find", "invoke", "record", "recordFailure", "fallback", "synthetic",
                        "terminal"} -> IF exec.fallback THEN "again" ELSE "dispatched"
           [] step \in {"signals", "commit"} ->
                IF row.status = "COMPLETED" THEN "completed" ELSE "failed"
           [] step = "catch" -> "catch"
           [] OTHER -> "done"
Job == INSTANCE RouteJob WITH at <- JobAt, status <- row.status, JobsMayOutliveAge <- FALSE
ImplementsJob == Job!Spec

==============================================================================
