------------------------------ MODULE TaskWorker ------------------------------
(* The in-process worker (src/services/task-worker.ts): a FIFO queue, the set   *)
(* of ids it is responsible for, a pump that starts jobs, and the jobs, whose   *)
(* routeTask (src/router/router.ts) is reduced to its task_log statements.      *)
(*                                                                              *)
(* JavaScript runs to completion between awaits.  turn names the synchronous    *)
(* loop that holds the thread; every other continuation waits for "idle".       *)
EXTENDS TaskLog, RouteSteps, Integers, Sequences, Functions

CONSTANTS Slot,               \* places a running job can occupy
          Concurrency,        \* workerConcurrency()
          MaxDepth,           \* maxQueueDepth()
          SerializableClaim,  \* FALSE: two claims of a row may both see QUEUED
          MaxFaults           \* bound: database or git-commit errors

ASSUME WorkerAssumption ==
  /\ Concurrency \in Nat \ {0}
  /\ MaxDepth \in Nat \ {0}
  /\ MaxFaults \in Nat
  /\ SerializableClaim \in BOOLEAN

VARIABLES queue,      \* Job[]: the tasks waiting for a slot
          tracked,    \* Set<taskId>: queued or in flight in this process
          inflight,   \* counter of jobs in flight
          slot,       \* slot[s]: the job whose promise is pending there
          stopping,   \* stop() was called
          drain,      \* stop()'s promise: "none", "waiting", "resolved", "expired"
          pumpDue,    \* a setImmediate(pump) is pending
          turn,       \* holder of the JavaScript thread
          runs,       \* history: routeTask invocations per task
          faults      \* errors met so far

jobVars    == <<row, slot, runs, faults>>
queueVars  == <<queue, tracked, inflight, pumpDue, drain>>
workerVars == <<queue, tracked, inflight, slot, stopping, drain, pumpDue, turn, runs, faults>>

NoTask == 0
\* LiveStage: a job that won its claim and has not returned from routeTask.
Stage      == LiveStage \cup {"claim", "claimWrite", "workerError", "done"}
Idle == [task |-> NoTask, at |-> "idle"]
Job  == [task : Task, at : Stage]

Busy      == {s \in Slot : slot[s] # Idle}
Routed(t) == \E s \in Slot : slot[s].task = t /\ slot[s].at \in LiveStage

Fault   == faults < MaxFaults /\ faults' = faults + 1
NoFault == UNCHANGED faults

------------------------------------------------------------------------------
CanAccept == ~stopping /\ Len(queue) < MaxDepth

EnqueueResult(t) ==
  CASE stopping                   -> "stopping"
    [] ~stopping /\ t \in tracked -> "duplicate"
    [] ~stopping /\ t \notin tracked /\ Len(queue) >= MaxDepth -> "queue_full"
    [] OTHER                      -> "ok"

Enqueue(t) ==
  IF EnqueueResult(t) = "ok"
  THEN /\ tracked' = tracked \cup {t}
       /\ queue' = Append(queue, t)
       /\ pumpDue' = TRUE
  ELSE UNCHANGED <<tracked, queue, pumpDue>>

\* maybeResolveDrain, called with inflight = n and the queue as it stands.
MaybeResolveDrain(n) ==
  drain' = IF stopping /\ n = 0 /\ queue = <<>> /\ drain = "waiting"
           THEN "resolved" ELSE drain

\* The condition of pump's while loop.
HasRoom == inflight < Concurrency /\ queue # <<>>

\* pump(): bail out while stopping, else enter the while loop.
Pump ==
  /\ turn = "idle" /\ pumpDue
  /\ pumpDue' = FALSE
  /\ IF stopping THEN MaybeResolveDrain(inflight) /\ UNCHANGED turn
                 ELSE turn' = "pump" /\ UNCHANGED drain
  /\ UNCHANGED <<row, queue, tracked, inflight, slot, stopping, runs, faults>>

\* One iteration of pump's loop; runJob runs up to its first await, the claim.
StartJob(s) ==
  /\ turn = "pump" /\ HasRoom
  /\ slot[s] = Idle
  /\ slot' = [slot EXCEPT ![s] = [task |-> Head(queue), at |-> "claim"]]
  /\ queue' = Tail(queue)
  /\ inflight' = inflight + 1
  /\ UNCHANGED <<row, tracked, stopping, drain, pumpDue, turn, runs, faults>>

PumpReturn ==
  /\ turn = "pump" /\ ~HasRoom
  /\ turn' = "idle"
  /\ UNCHANGED <<row, queue, tracked, inflight, slot, stopping, drain, pumpDue, runs, faults>>

\* tracked.delete.  Mutant: the id stays behind.
UntrackNothing(t) == UNCHANGED tracked
Untrack(t) == tracked' = tracked \ {t}

\* What a finished job triggers, n jobs being left in flight: the pump while jobs
\* are queued, else the end of a drain.  Mutant: only the drain is looked at.
AfterJobNoPump(n) == MaybeResolveDrain(n) /\ UNCHANGED pumpDue
AfterJob(n) ==
  IF queue # <<>> THEN pumpDue' = TRUE /\ UNCHANGED drain
                  ELSE MaybeResolveDrain(n) /\ UNCHANGED pumpDue

\* The finally() of a job.
Finish(s) ==
  /\ turn = "idle" /\ slot[s].at = "done"
  /\ slot' = [slot EXCEPT ![s] = Idle]
  /\ inflight' = inflight - 1
  /\ Untrack(slot[s].task)
  /\ AfterJob(inflight - 1)
  /\ UNCHANGED <<row, queue, stopping, turn, runs, faults>>

------------------------------------------------------------------------------
(* The statements of a job.  Each step is one awaited call: its effect on the   *)
(* row, and the next call the continuation issues.                              *)
At(s, stage) == turn = "idle" /\ slot[s].at = stage
Goto(s, stage) == slot' = [slot EXCEPT ![s].at = stage]
JobFrame == UNCHANGED <<queueVars, stopping, turn>>
BeginRoute(s) == Goto(s, "begin") /\ runs' = [runs EXCEPT ![slot[s].task] = @ + 1]

\* claimQueued: UPDATE ... WHERE status = 'QUEUED'.  When the database does not
\* serialize claims, the condition is read here and the row written later.
Claim(s) ==
  LET t == slot[s].task IN
  /\ At(s, "claim")
  /\ \/ ~Claimable(t) /\ Goto(s, "done") /\ UNCHANGED <<row, runs>>
     \/ Claimable(t) /\ SerializableClaim /\ PickUp(t) /\ BeginRoute(s)
     \/ Claimable(t) /\ ~SerializableClaim /\ Goto(s, "claimWrite") /\ UNCHANGED <<row, runs>>
  /\ NoFault /\ JobFrame

ClaimWrite(s) ==
  /\ At(s, "claimWrite")
  /\ PickUp(slot[s].task) /\ BeginRoute(s)
  /\ NoFault /\ JobFrame

\* The claim's call fails; the statement may have been applied all the same.
ClaimError(s) ==
  /\ At(s, "claim") /\ Fault
  /\ UNCHANGED row \/ (Claimable(slot[s].task) /\ PickUp(slot[s].task))
  /\ Goto(s, "workerError")
  /\ UNCHANGED runs /\ JobFrame

\* routeTask parses its input before its try block: that throw leaves routeTask.
RouteThrows(s) ==
  /\ At(s, "begin") /\ Fault
  /\ Goto(s, "workerError")
  /\ UNCHANGED <<row, runs>> /\ JobFrame

\* runJobInner's best-effort recordWorkerError, after either exception.
WorkerError(s) ==
  /\ At(s, "workerError")
  /\ \/ NoFault /\ RecordWorkerError(slot[s].task)
     \/ Fault /\ UNCHANGED row
  /\ Goto(s, "done")
  /\ UNCHANGED runs /\ JobFrame

\* updateClassification, updateSelection, markCompleted or markFailed.
RouteWrite(next, t) == SetStatus(t, Written(next, row[t].status))

\* routeTask's next statement, or its return.
Route(s) ==
  /\ turn = "idle" /\ slot[s].at \in RouteStage
  /\ \E next \in RouteNext(slot[s].at) : RouteWrite(next, slot[s].task) /\ Goto(s, next)
  /\ UNCHANGED runs /\ NoFault /\ JobFrame

\* select() throws when no agent qualifies: an exception that is no fault.
NoAgent(s) ==
  /\ At(s, "classified")
  /\ Goto(s, "catch")
  /\ UNCHANGED <<row, runs>> /\ NoFault /\ JobFrame

\* Any awaited call of routeTask may throw, its statement applied or not.  The
\* last one, routerCommit, comes after the terminal status was written.
RouteError(s) ==
  /\ turn = "idle" /\ slot[s].at \in RouteStage /\ Fault
  /\ UNCHANGED row \/ \E next \in RouteNext(slot[s].at) : RouteWrite(next, slot[s].task)
  /\ Goto(s, "catch")
  /\ UNCHANGED runs /\ JobFrame

\* routeTask's catch block: best-effort markFailed, then it returns.
RouteCatch(s) ==
  /\ At(s, "catch")
  /\ \/ NoFault /\ MarkFailed(slot[s].task)
     \/ Fault /\ UNCHANGED row
  /\ Goto(s, "done")
  /\ UNCHANGED runs /\ JobFrame

JobStep(s) ==
  \/ Claim(s) \/ ClaimWrite(s) \/ ClaimError(s) \/ RouteThrows(s) \/ WorkerError(s)
  \/ Route(s) \/ NoAgent(s) \/ RouteError(s) \/ RouteCatch(s) \/ Finish(s)

\* stop(): refuse new work; nothing to wait for when the worker is empty.
Stop ==
  /\ stopping' = TRUE
  /\ drain' = IF inflight = 0 /\ queue = <<>> THEN "resolved" ELSE "waiting"
  /\ UNCHANGED <<row, queue, tracked, inflight, slot, pumpDue, turn, runs, faults>>

\* The grace period ends first: stop() gives up on the jobs still in flight.
\* Mutant: no timer.
GraceNever == FALSE
GraceExpires ==
  /\ turn = "idle" /\ drain = "waiting"
  /\ drain' = "expired"
  /\ UNCHANGED <<row, queue, tracked, inflight, slot, stopping, pumpDue, turn, runs, faults>>

WorkerNext == Pump \/ PumpReturn \/ \E s \in Slot : StartJob(s) \/ JobStep(s)

------------------------------------------------------------------------------
\* The module variables of a fresh process.
WorkerReset ==
  /\ queue' = <<>> /\ tracked' = {} /\ inflight' = 0
  /\ slot' = [s \in Slot |-> Idle]
  /\ stopping' = FALSE /\ drain' = "none" /\ pumpDue' = FALSE /\ turn' = "idle"

WorkerTypeOK ==
  /\ queue \in Seq(Task) /\ tracked \subseteq Task /\ inflight \in Int
  /\ slot \in [Slot -> Job \cup {Idle}]
  /\ stopping \in BOOLEAN /\ pumpDue \in BOOLEAN
  /\ drain \in {"none", "waiting", "resolved", "expired"}
  /\ runs \in [Task -> Nat] /\ faults \in Nat

WorkerInit ==
  /\ queue = <<>> /\ tracked = {} /\ inflight = 0
  /\ slot = [s \in Slot |-> Idle]
  /\ stopping = FALSE /\ drain = "none" /\ pumpDue = FALSE /\ turn = "idle"
  /\ runs = [t \in Task |-> 0]
  /\ faults = 0
==============================================================================
