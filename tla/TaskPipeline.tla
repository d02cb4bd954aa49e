----------------------------- MODULE TaskPipeline -----------------------------
(* The asynchronous task pipeline: intake, worker and reaper sharing one worker  *)
(* queue and one task_log, in a process that boots, serves, shuts down or dies   *)
(* (src/index.ts).  task_log survives the process; everything else does not.     *)
EXTENDS TaskIntake, TaskReaper

CONSTANTS MaxRestarts,       \* bound: crashes and shutdowns together
          JobsMayOutliveAge  \* may a live job run longer than the recovery age?

ASSUME PipelineAssumption ==
  /\ MaxRestarts \in Nat
  /\ JobsMayOutliveAge \in BOOLEAN
  /\ Retention \in BOOLEAN
  /\ Sweep \cap {"idle", "pump"} = {}

VARIABLES proc,      \* "down", "boot", "up", "closing" (server), "stopping" (worker)
          restarts   \* crashes and shutdowns so far

vars == <<row, queue, tracked, inflight, slot, stopping, drain, pumpDue, turn,
          runs, faults, client, sweep, proc, restarts>>
lifeVars == <<proc, restarts>>

Init ==
  /\ LogInit /\ WorkerInit /\ IntakeInit /\ ReaperInit
  /\ proc = "down" /\ restarts = 0

------------------------------------------------------------------------------
\* main(): start the worker and run the boot sweep before serving.
Boot ==
  /\ proc = "down" /\ proc' = "boot"
  /\ \E w \in Sweep : SweepStart(w)
  /\ UNCHANGED <<client, restarts>>

\* The boot sweep returned: startReaper() and serve().
Serve ==
  /\ proc = "boot" /\ SweepsOff
  /\ proc' = "up"
  /\ UNCHANGED <<row, client, sweep, restarts, workerVars>>

\* A tick of the reaper's interval.
Tick(w) == proc = "up" /\ SweepStart(w) /\ UNCHANGED <<client, lifeVars>>

Request(t) == proc = "up" /\ Post(t) /\ UNCHANGED <<sweep, lifeVars>>

\* SIGTERM: stopReaper() and server.close(); handlers and sweeps go on.
Shutdown ==
  /\ proc = "up" /\ turn = "idle" /\ restarts < MaxRestarts
  /\ proc' = "closing" /\ restarts' = restarts + 1
  /\ UNCHANGED <<row, client, sweep, workerVars>>

\* server.close() resolves once no request is being handled; then worker.stop().
ServerClosed ==
  /\ proc = "closing" /\ turn = "idle" /\ NoHandler
  /\ proc' = "stopping"
  /\ Stop
  /\ UNCHANGED <<client, sweep, restarts>>

ProcessEnds ==
  /\ proc' = "down"
  /\ WorkerReset /\ IntakeReset /\ ReaperReset
  /\ UNCHANGED <<row, runs, faults>>

\* stop() returned: process.exit(0), whatever is still in flight.
Exit ==
  /\ proc = "stopping" /\ turn = "idle" /\ drain \in {"resolved", "expired"}
  /\ ProcessEnds /\ UNCHANGED restarts

Crash ==
  /\ proc # "down" /\ restarts < MaxRestarts
  /\ restarts' = restarts + 1
  /\ ProcessEnds

\* The recovery age passes since worker_started_at.  Unless jobs may outlive it,
\* only a row without a live job grows that old.
Age(t) ==
  /\ Running(t) /\ ~row[t].stale
  /\ JobsMayOutliveAge \/ ~Routed(t)
  /\ row' = [row EXCEPT ![t].stale = TRUE]
  /\ UNCHANGED <<client, sweep, lifeVars, workerVars>>

Work    == (WorkerNext \/ GraceExpires) /\ UNCHANGED <<client, sweep, lifeVars>>
Handle  == (\E t \in Task : HandlerStep(t)) /\ UNCHANGED <<sweep, lifeVars>>
Reap    == (\E w \in Sweep : SweepStep(w)) /\ UNCHANGED <<client, lifeVars>>

Next ==
  \/ Boot \/ Serve \/ Shutdown \/ ServerClosed \/ Exit \/ Crash
  \/ \E w \in Sweep : Tick(w)
  \/ \E t \in Task : Request(t) \/ Age(t)
  \/ Work \/ Handle \/ Reap

Spec == Init /\ [][Next]_vars

\* Awaited calls return, timers fire and a supervisor restarts the process.  The
\* event loop is first in, first out, so a continuation that is ready is not passed
\* over for ever by turns of others: strong fairness.  Nothing obliges a client, a
\* fault or a crash.
Fairness ==
  /\ WF_vars(Boot) /\ WF_vars(Serve) /\ WF_vars(ServerClosed) /\ WF_vars(Exit)
  /\ WF_vars(GraceExpires /\ UNCHANGED <<client, sweep, lifeVars>>)
  /\ SF_vars((Pump \/ PumpReturn \/ \E s \in Slot : StartJob(s))
             /\ UNCHANGED <<client, sweep, lifeVars>>)
  /\ \A s \in Slot : SF_vars(JobStep(s) /\ UNCHANGED <<client, sweep, lifeVars>>)
  /\ \A t \in Task : /\ SF_vars(HandlerStep(t) /\ UNCHANGED <<sweep, lifeVars>>)
                     /\ WF_vars(Age(t))
  /\ \A w \in Sweep : SF_vars(Tick(w) \/ (SweepStep(w) /\ UNCHANGED <<client, lifeVars>>))

FairSpec == Spec /\ Fairness

------------------------------------------------------------------------------
Proc == {"down", "boot", "up", "closing", "stopping"}
Turn == {"idle", "pump"} \cup Sweep

\* The types of the table, the worker's variables, the handlers and the sweeps.
TypeOK ==
  /\ LogTypeOK /\ WorkerTypeOK /\ IntakeTypeOK /\ ReaperTypeOK
  /\ turn \in Turn
  /\ proc \in Proc /\ restarts \in Nat

\* routeTask is invoked at most once per task: not again after a crash, nor when
\* the reaper, an overlapping sweep and the handler all enqueue the same row, and
\* even when the database does not serialize two claims (task-worker.ts:33-37).
AtMostOneRun == \A t \in Task : runs[t] <= 1

\* tracked is exactly the queued and the running tasks, and no task is there
\* twice: what enqueue()'s duplicate check and finally()'s delete maintain.
OneJobPerTask ==
  /\ \A i, j \in DOMAIN queue : i # j => queue[i] # queue[j]
  /\ \A s \in Busy : slot[s].task \notin Range(queue)
  /\ \A r, s \in Busy : r # s => slot[r].task # slot[s].task
TrackedIsExact ==
  OneJobPerTask /\ tracked = Range(queue) \cup {slot[s].task : s \in Busy}

\* A job never waits beside a free place with no pump on its way: every enqueue
\* and every finished job schedules the pump that the other one may have missed.
NoLostWakeup == HasRoom /\ ~stopping => pumpDue \/ turn = "pump"

\* While the first process lives and nothing fails, every row has an owner: a QUEUED
\* one is in the worker's hands or in its handler's, and is not left for a later
\* sweep; one in flight has its job, and is not stranded.
RowsAreOwned ==
  restarts = 0 /\ faults = 0 =>
    \A t \in Task :
      /\ Queued(t) => t \in tracked \/ client[t] \in {"enqueue", "refuse"}
      /\ Running(t) => Routed(t)

\* After a restart, the boot sweep has handed every QUEUED row to the worker by
\* the time it leaves its first phase, unless the worker had no room.
BootRecoversQueued ==
  \A w \in Sweep :
    /\ proc = "boot" /\ faults = 0
    /\ sweep[w].at \in {"findStale", "markStale"} /\ sweep[w].draining
    => \A t \in Task : Queued(t) => t \in tracked

\* The ids a sweep is about to fail as worker_crashed have no live job, although
\* they were read some turns ago, as long as no job outlives the recovery age.
ReapsOnlyOrphans ==
  ~JobsMayOutliveAge => \A w \in Sweep : \A t \in sweep[w].stale : ~Routed(t)

\* Every row that exists becomes terminal, and then stays terminal: the worker
\* finishes it, or the reaper fails what a crash or an error has stranded.
Settles == \A t \in Task : Exists(t) ~> [](Done(t))

\* A shutdown ends: stop() is resolved by the drain or by the grace period.
ShutdownEnds == proc = "closing" ~> proc = "down"

\* A request answered with status FAILED has not run and will not run
\* (src/api/routes/tasks.ts:50-52).
RefusedNeverRuns == \A t \in Task : client[t] = "refused" => runs[t] = 0

\* The pipeline implements the board: a task is running while a job is routing it; the
\* worker holds what it tracks, a handler its row, a sweep the ids it has read.
BoardPhase == [t \in Task |-> IF ~Exists(t) THEN "none"
                              ELSE IF Queued(t) THEN "open"
                              ELSE IF Routed(t) THEN "running" ELSE "closed"]
BoardVerdict == [t \in Task |-> IF Done(t) THEN row[t].status ELSE "open"]
Held(t) == \/ t \in tracked \/ client[t] \in {"enqueue", "refuse"}
           \/ \E w \in Sweep : t \in sweep[w].rows \cup sweep[w].stale
BoardHeld == {t \in Task : Held(t)}
Board == INSTANCE TaskBoard WITH phase <- BoardPhase, verdict <- BoardVerdict, held <- BoardHeld
ImplementsBoard == Board!Spec
==============================================================================
