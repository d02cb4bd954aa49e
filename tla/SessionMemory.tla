---------------------------- MODULE SessionMemory ----------------------------
(* The memory of a task: a Dolt branch per task, opened, written and merged by   *)
(* best-effort steps of routeTask (bestEffortMemory in src/router/router.ts,     *)
(* src/memory/session-manager.ts), and pruned by the reaper                      *)
(* (src/memory/branch-cleanup.ts).  A step that timed out goes on by itself.     *)
EXTENDS Naturals, FiniteSets

CONSTANTS Task, Op,    \* Op: names for memory operations in flight
          MaxInflight, \* memoryMaxConcurrent()
          JobsMayOutliveAge, \* may a live job run longer than the recovery age?
          Budgeted,    \* bound: the writeContext calls the budget may leave time for
          MaxCrashes   \* bound: crashes of the process

ASSUME MemoryAssumption ==
  /\ MaxInflight \in Nat \ {0} /\ MaxCrashes \in Nat /\ JobsMayOutliveAge \in BOOLEAN
  /\ Budgeted \subseteq {"classification", "selection", "execution"}
  /\ IsFiniteSet(Op) /\ IsFiniteSet(Task) /\ "unlocked" \notin Op

VARIABLES step,      \* step[t]: where routeTask is for t
          status,    \* status[t]: the row of t in task_log
          won,       \* tasks whose execution succeeded
          session,   \* tasks whose routeTask holds a session handle
          op,        \* op[o]: a running fn() of bestEffortMemory
          inflight,  \* memoryInflight
          branches,  \* tasks whose branch session/<task> exists
          content,   \* content[t]: keys committed on the branch of t
          main,      \* main[t]: keys of t on main
          lock,      \* the operation whose connection holds haol_merge_main
          prune,     \* the local variables of pruneSessionBranches
          acked,     \* history: acked[t], keys whose writeContext was reported done
          crashes

routeVars  == <<step, status, won, session>>
branchVars == <<branches, content, main>>
opVars     == <<op, inflight, lock>>
vars == <<routeVars, branchVars, opVars, prune, acked, crashes>>

Key     == {"classification", "selection", "execution"}
MemStep == {"create", "finalize", "discard"} \cup Key
Step    == MemStep \cup {"begin", "select", "terminal", "commit", "catch", "end"}
Status  == {"RECEIVED", "CLASSIFIED", "DISPATCHED", "COMPLETED", "FAILED"}
Following == [create |-> "classification", classification |-> "select", selection |-> "terminal",
              execution |-> "finalize", finalize |-> "commit", discard |-> "end"]

NoOp   == [task |-> "none", kind |-> "none", at |-> "free", awaited |-> FALSE]
NoLock == "unlocked"
Running(o)  == op[o].at # "free"
Awaiting(t) == \E o \in Op : op[o].task = t /\ op[o].awaited
Critical    == {"flush", "merge", "delete"}
PruneOff    == [at |-> "off", found |-> {}]

------------------------------------------------------------------------------
(* routeTask outside the memory steps.                                          *)
AtStep(t, s) == step[t] = s
GoOn(t, s)   == step' = [step EXCEPT ![t] = s]
RouteFrame   == UNCHANGED <<branchVars, opVars, prune, acked, crashes>>
WriteStatus(t, s) == status' = [status EXCEPT ![t] = s]

\* updateClassification and, before it, the row of the task.
Classify(t) ==
  /\ AtStep(t, "begin") /\ GoOn(t, "create")
  /\ WriteStatus(t, "CLASSIFIED") /\ UNCHANGED <<won, session>> /\ RouteFrame

\* updateSelection.
Dispatch(t) ==
  /\ AtStep(t, "select") /\ GoOn(t, "selection")
  /\ WriteStatus(t, "DISPATCHED") /\ UNCHANGED <<won, session>> /\ RouteFrame

\* The execution's outcome, then markCompleted or markFailed.
Terminate(t) ==
  /\ AtStep(t, "terminal") /\ GoOn(t, "execution")
  /\ \/ WriteStatus(t, "COMPLETED") /\ won' = won \cup {t}
     \/ WriteStatus(t, "FAILED") /\ UNCHANGED won
  /\ UNCHANGED session /\ RouteFrame

\* Outcome rows and the commit of main's working set (module Dispatch).
CommitTask(t) ==
  /\ AtStep(t, "commit") /\ GoOn(t, "end")
  /\ UNCHANGED <<status, won, session>> /\ RouteFrame

\* A call of routeTask throws, its statement applied or not.
Statement == [begin |-> {"CLASSIFIED"}, select |-> {"DISPATCHED"},
              terminal |-> {"COMPLETED", "FAILED"}, commit |-> {}]
Throw(t) ==
  /\ step[t] \in DOMAIN Statement /\ GoOn(t, "catch")
  /\ UNCHANGED status \/ \E s \in Statement[step[t]] : WriteStatus(t, s)
  /\ UNCHANGED <<won, session>> /\ RouteFrame

\* The catch block: markFailed, best-effort, then the branch is kept.
FailedRow(t) == [status EXCEPT ![t] = "FAILED"]
Catch(t) ==
  /\ AtStep(t, "catch") /\ GoOn(t, IF t \in session THEN "discard" ELSE "end")
  /\ status' \in {status, FailedRow(t)}
  /\ UNCHANGED <<won, session>> /\ RouteFrame

------------------------------------------------------------------------------
(* bestEffortMemory.                                                            *)

\* routeTask goes on from a memory step; got: the step's result is not null.
Resume(t, got) ==
  /\ GoOn(t, Following[step[t]])
  /\ session' = CASE step[t] = "create" /\ got -> session \cup {t}
                  [] step[t] \in {"finalize", "discard"} -> session \ {t}
                  [] OTHER -> session
  /\ acked' = IF got /\ step[t] \in Key THEN [acked EXCEPT ![t] = @ \cup {step[t]}] ELSE acked
  /\ UNCHANGED <<status, won>>

\* Mutant: the cap is compared after the increment.
HasSlotOffByOne == inflight <= MaxInflight
HasSlot == inflight < MaxInflight

\* What fn() does first.  Mutant: the session is merged whatever the outcome.
FirstStageAnyOutcome(t) ==
  CASE step[t] \in Key      -> "checkout"
    [] step[t] = "finalize" -> "lock"
    [] step[t] = "create"   -> "branch"
    [] OTHER                -> "nothing"
FirstStage(t) ==
  CASE step[t] \in Key      -> "checkout"
    [] step[t] = "finalize" /\ t \in won -> "lock"
    [] step[t] = "create"   -> "branch"
    [] OTHER                -> "nothing"    \* discardSession

StartMemory(t, o) ==
  /\ step[t] \in MemStep /\ ~Awaiting(t)
  /\ step[t] = "create" \/ (t \in session /\ step[t] \in Budgeted \cup {"finalize", "discard"})
  /\ HasSlot /\ ~Running(o)
  /\ inflight' = inflight + 1
  /\ op' = [op EXCEPT ![o] = [task |-> t, kind |-> step[t], at |-> FirstStage(t), awaited |-> TRUE]]
  /\ UNCHANGED <<routeVars, branchVars, lock, prune, acked, crashes>>

\* No handle, no slot, or no budget left: null, and fn() is not called.
SkipMemory(t) ==
  /\ step[t] \in MemStep /\ ~Awaiting(t)
  /\ Resume(t, FALSE)
  /\ UNCHANGED <<branchVars, opVars, prune, crashes>>

\* The race is lost to the timer; fn() runs on and keeps its slot.
\* Mutant: the slot is given back.
SlotsAfterTimeoutReleased == inflight - 1
SlotsAfterTimeout == inflight
\* Mutant: no timer.
StepTimesOutNever(o) == FALSE
StepTimesOut(o) == Running(o) /\ op[o].awaited
Timeout(o) ==
  /\ StepTimesOut(o)
  /\ Resume(op[o].task, FALSE)
  /\ op' = [op EXCEPT ![o].awaited = FALSE]
  /\ inflight' = SlotsAfterTimeout
  /\ UNCHANGED <<branchVars, lock, prune, crashes>>

\* fn() settles: the slot is free, and routeTask goes on if it still waits.
Settle(o, got) ==
  /\ op' = [op EXCEPT ![o] = NoOp]
  /\ inflight' = inflight - 1
  /\ IF op[o].awaited THEN Resume(op[o].task, got) ELSE UNCHANGED <<routeVars, acked>>

------------------------------------------------------------------------------
(* The operations; each step is one call to Dolt.                               *)
OpAt(o, stage)   == op[o].at = stage
OpNext(o, stage) == op' = [op EXCEPT ![o].at = stage] /\ UNCHANGED <<inflight, routeVars, acked>>
OpFrame == UNCHANGED <<prune, crashes>>

\* createSession: DOLT_BRANCH.
CreateBranch(o) ==
  /\ OpAt(o, "branch")
  /\ \/ branches' = branches \cup {op[o].task} /\ Settle(o, TRUE)
     \/ branches' \in {branches, branches \cup {op[o].task}} /\ Settle(o, FALSE)
  /\ UNCHANGED <<content, main, lock>> /\ OpFrame

\* writeContext: DOLT_CHECKOUT, then upsert, DOLT_COMMIT and COMMIT as one unit.
CheckoutBranch(o) ==
  /\ OpAt(o, "checkout")
  /\ \/ op[o].task \in branches /\ OpNext(o, "write")
     \/ Settle(o, FALSE)
  /\ UNCHANGED <<branchVars, lock>> /\ OpFrame

WriteContext(o) ==
  LET t == op[o].task
      written == [content EXCEPT ![t] = @ \cup {op[o].kind}]
  IN
  /\ OpAt(o, "write")
  /\ \/ t \in branches /\ content' = written /\ Settle(o, TRUE)
     \/ t \in branches /\ content' = written /\ Settle(o, FALSE)
     \/ UNCHANGED content /\ Settle(o, FALSE)
  /\ UNCHANGED <<branches, main, lock>> /\ OpFrame

\* commitSession: GET_LOCK, flush of the memory tables, merge, delete, RELEASE_LOCK.
\* Mutant: the result of GET_LOCK is not looked at.
LockFreeIgnored == TRUE
LockFree == lock = NoLock
AcquireLock(o) ==
  /\ OpAt(o, "lock")
  /\ \/ LockFree /\ lock' = o /\ OpNext(o, "flush")
     \/ Settle(o, FALSE) /\ UNCHANGED lock
  /\ UNCHANGED branchVars /\ OpFrame

\* The finally block of withMainMergeLock.  Mutant: only on success.
ReleaseLockForgotten(got) == lock' = IF got THEN NoLock ELSE lock
ReleaseLock(got) == lock' = NoLock
LeaveLocked(o, got) == ReleaseLock(got) /\ Settle(o, got)

\* Nothing writes the memory tables on main, so that the staged set is empty.
Flush(o) ==
  /\ OpAt(o, "flush")
  /\ \/ OpNext(o, "merge") /\ UNCHANGED lock
     \/ LeaveLocked(o, FALSE)
  /\ UNCHANGED branchVars /\ OpFrame

\* A session writes only rows with its own task_id, so that no merge meets a conflict
\* and the commit that would resolve one is never made.
Merge(o) ==
  LET t == op[o].task
      merged == [main EXCEPT ![t] = @ \cup content[t]]
  IN
  /\ OpAt(o, "merge")
  /\ \/ t \in branches /\ main' = merged /\ OpNext(o, "delete") /\ UNCHANGED lock
     \/ t \in branches /\ main' = merged /\ LeaveLocked(o, FALSE)
     \/ UNCHANGED main /\ LeaveLocked(o, FALSE)
  /\ UNCHANGED <<branches, content>> /\ OpFrame

\* DOLT_BRANCH('-d'), which refuses a branch with commits that main does not have
\* (the tests clean up with '-D').  Mutant: '-D'.
RemovableForced(t) == TRUE
Removable(t) == content[t] \subseteq main[t]
DeleteBranch(t) ==
  /\ t \in branches /\ Removable(t)
  /\ branches' = branches \ {t} /\ content' = [content EXCEPT ![t] = {}]

DeleteMerged(o) ==
  /\ OpAt(o, "delete")
  /\ \/ DeleteBranch(op[o].task) /\ \E got \in BOOLEAN : LeaveLocked(o, got)
     \/ UNCHANGED <<branches, content>> /\ LeaveLocked(o, FALSE)
  /\ UNCHANGED main /\ OpFrame

DiscardSession(o) ==
  /\ OpAt(o, "nothing") /\ Settle(o, TRUE)
  /\ UNCHANGED <<branchVars, lock>> /\ OpFrame

OpStep(o) == \/ CreateBranch(o) \/ CheckoutBranch(o) \/ WriteContext(o) \/ AcquireLock(o)
             \/ Flush(o) \/ Merge(o) \/ DeleteMerged(o) \/ DiscardSession(o)

------------------------------------------------------------------------------
(* pruneSessionBranches.                                                        *)
Ended(t)    == step[t] = "end" /\ \A o \in Op : op[o].task # t
Terminal(t) == status[t] \in {"COMPLETED", "FAILED"}

\* latest_commit_date lies behind the cutoff.  A branch without a commit of its own
\* has the date of the commit it was created from, which may be old.
Old(t) == content[t] = {} \/ Ended(t)
PruneFrame == UNCHANGED <<routeVars, opVars, main, acked, crashes>>

ListBranches ==
  /\ prune.at = "off"
  /\ \E young \in SUBSET branches :
       /\ \A t \in branches \ young : Old(t)
       /\ prune' = [at |-> "guard", found |-> branches \ young]
  /\ UNCHANGED <<branches, content>> /\ PruneFrame

\* findActiveTaskIds; a failing query counts every candidate as active.
\* Mutant: it counts none.
ActiveOnErrorNone == {}
ActiveOnError == prune.found
ActiveGuard ==
  /\ prune.at = "guard"
  /\ \E active \in {{t \in prune.found : ~Terminal(t)}, ActiveOnError} :
       prune' = [at |-> "delete", found |-> prune.found \ active]
  /\ UNCHANGED <<branches, content>> /\ PruneFrame

PruneOne(t) ==
  /\ prune.at = "delete" /\ t \in prune.found
  /\ prune' = [prune EXCEPT !.found = @ \ {t}]
  /\ DeleteBranch(t) \/ UNCHANGED <<branches, content>>
  /\ PruneFrame

PruneDone ==
  /\ prune.at = "delete" /\ prune.found = {}
  /\ prune' = PruneOff
  /\ UNCHANGED <<branches, content>> /\ PruneFrame

Prune == ListBranches \/ ActiveGuard \/ PruneDone \/ \E t \in Task : PruneOne(t)

\* The reaper fails a row that a crash has left in flight; of a task that outlives the
\* recovery age it fails the row too, whatever has become of it since it was listed.
FailStranded(t) ==
  /\ JobsMayOutliveAge \/ (step[t] = "end" /\ ~Terminal(t))
  /\ WriteStatus(t, "FAILED")
  /\ UNCHANGED <<step, won, session>> /\ RouteFrame

\* The process dies; its connections close, which frees the lock.
Crash ==
  /\ crashes < MaxCrashes /\ crashes' = crashes + 1
  /\ step' = [t \in Task |-> IF step[t] = "begin" THEN "begin" ELSE "end"]
  /\ session' = {} /\ op' = [o \in Op |-> NoOp] /\ inflight' = 0
  /\ lock' = NoLock /\ prune' = PruneOff
  /\ UNCHANGED <<status, won, branchVars, acked>>

------------------------------------------------------------------------------
Init ==
  /\ step = [t \in Task |-> "begin"] /\ status = [t \in Task |-> "RECEIVED"]
  /\ won = {} /\ session = {}
  /\ op = [o \in Op |-> NoOp] /\ inflight = 0 /\ lock = NoLock
  /\ branches = {} /\ content = [t \in Task |-> {}] /\ main = [t \in Task |-> {}]
  /\ prune = PruneOff /\ acked = [t \in Task |-> {}] /\ crashes = 0

RouteStep(t) ==
  Classify(t) \/ Dispatch(t) \/ Terminate(t) \/ CommitTask(t) \/ Throw(t) \/ Catch(t)
MemoryStep(t) == SkipMemory(t) \/ \E o \in Op : StartMemory(t, o)

Next == \/ \E t \in Task : RouteStep(t) \/ MemoryStep(t) \/ FailStranded(t)
        \/ \E o \in Op : OpStep(o) \/ Timeout(o)
        \/ Prune \/ Crash

Spec == Init /\ [][Next]_vars
\* The calls of routeTask outside the memory steps return, and timers fire.
\* Nothing obliges Dolt to answer a memory operation.
FairSpec ==
  /\ Spec
  /\ \A t \in Task : WF_vars(RouteStep(t)) /\ WF_vars(MemoryStep(t))
  /\ \A o \in Op : WF_vars(Timeout(o))

------------------------------------------------------------------------------
\* The types of the rows, the branches, the operations and the histories.
TypeOK ==
  /\ step \in [Task -> Step] /\ status \in [Task -> Status]
  /\ op \in [Op -> [task : Task, kind : MemStep, awaited : BOOLEAN,
                    at : Critical \cup {"branch", "checkout", "write", "lock", "nothing"}] \cup {NoOp}]
  /\ inflight \in Nat /\ crashes \in Nat /\ lock \in Op \cup {NoLock}
  /\ prune \in [at : {"off", "guard", "delete"}, found : SUBSET Task]
  /\ {won, session, branches} \subseteq SUBSET Task
  /\ {content, main, acked} \subseteq [Task -> SUBSET Key]

\* memoryInflight counts the operations that run, timed-out ones included, and
\* never passes the cap: a slow Dolt cannot take the pool from other work.
SlotsAreExact ==
  /\ inflight = Cardinality({o \in Op : Running(o)})
  /\ inflight <= MaxInflight

\* The lock on main is held exactly by the one operation inside flush, merge and
\* delete: no failure of theirs leaves it behind, and no two merges overlap.
LockMatchesSection == \A o \in Op : lock = o <=> op[o].at \in Critical

\* A context whose write was reported done is on main or still on the branch,
\* whatever times out, fails, crashes or is pruned in between.
NothingLost ==
  \A t \in Task : acked[t] \subseteq main[t] \cup (IF t \in branches THEN content[t] ELSE {})

\* Only the session of a task whose execution succeeded reaches main.
FailedStaysOff == \A t \in Task : main[t] # {} => t \in won

\* As long as no live job is reaped, pruning deletes no branch of a task whose row is
\* in flight, although it deletes long after it has looked (branch-cleanup.ts:32-37).
PruneSparesActive ==
  [][JobsMayOutliveAge \/ \A t \in branches \ branches' :
       Terminal(t) \/ \E o \in Op : op[o].task = t /\ OpAt(o, "delete")]_vars

\* Seen from task_log every task goes through the job that TaskWorker runs: the memory
\* steps, their timeouts and their failures show nowhere in its row.
JobAt(t) == CASE step[t] = "begin" -> "begin"
              [] step[t] \in {"create", "classification", "select"} -> "classified"
              [] step[t] \in {"selection", "terminal"} -> "dispatched"
              [] step[t] \in {"execution", "finalize", "commit"} ->
                   IF t \in won THEN "completed" ELSE "failed"
              [] step[t] = "catch" -> "catch"
              [] OTHER -> "done"
Job(t) == INSTANCE RouteJob WITH at <- JobAt(t), status <- status[t]
ImplementsJobs == \A t \in Task : Job(t)!Spec

\* Memory never blocks a task: routeTask ends even if Dolt never answers.
NeverBlocksTask == \A t \in Task : step[t] # "begin" ~> step[t] = "end"
==============================================================================
