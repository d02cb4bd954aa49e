-------------------------- MODULE TaskPipelineProofs --------------------------
(* Proofs about TaskPipeline for every set of tasks, slots and sweeps, every     *)
(* limit, and any number of crashes and faults: its types; no lost wakeup of the *)
(* pump, one job per task, one run per task, the refinement of TaskBoard, no     *)
(* reaping of live jobs, rows owned while nothing fails, recovery at boot.  The  *)
(* invariants are inductive together with TypeOK, and each proof follows the     *)
(* actions that can disturb it.                                                  *)
EXTENDS TaskPipeline, WellFoundedInduction, FiniteSetTheorems, TLAPS

------------------------------------------------------------------------------
(* What the building blocks of the actions keep or return.                      *)

LEMMA IdleIsNoJob == Idle \notin Job /\ Idle.at \notin Stage /\ Idle.task \notin Task
BY TaskAssumption DEF Idle, Job, Task, NoTask, Stage, LiveStage, RouteStage

\* A slot at a stage holds a job, and its task is one.
LEMMA JobAt ==
  ASSUME WorkerTypeOK, NEW s \in Slot, slot[s].at \in Stage
  PROVE  slot[s] \in Job /\ slot[s].task \in Task
<1>1. slot[s] \in Job \cup {Idle}
  BY DEF WorkerTypeOK
<1> QED BY <1>1, IdleIsNoJob DEF Job

LEMMA GotoType ==
  ASSUME WorkerTypeOK, NEW s \in Slot, slot[s].at \in Stage,
         NEW stage \in Stage, Goto(s, stage)
  PROVE  slot' \in [Slot -> Job \cup {Idle}]
<1>1. slot[s] \in Job
  BY JobAt
<1>2. [slot[s] EXCEPT !.at = stage] \in Job
  BY <1>1 DEF Job
<1>3. slot' = [slot EXCEPT ![s] = [slot[s] EXCEPT !.at = stage]]
  BY DEF Goto
<1> QED BY <1>2, <1>3 DEF WorkerTypeOK

LEMMA SetStatusType ==
  ASSUME LogTypeOK, NEW t \in Task, NEW s \in Status, SetStatus(t, s)
  PROVE  LogTypeOK'
BY DEF LogTypeOK, SetStatus, Row

LEMMA EnqueueType ==
  ASSUME queue \in Seq(Task), tracked \subseteq Task, pumpDue \in BOOLEAN,
         NEW t \in Task, Enqueue(t)
  PROVE  /\ queue' \in Seq(Task) /\ tracked' \subseteq Task /\ pumpDue' \in BOOLEAN
<1>1. CASE EnqueueResult(t) = "ok"
  <2>1. /\ tracked' = tracked \cup {t} /\ queue' = Append(queue, t) /\ pumpDue' = TRUE
    BY <1>1, Zenon DEF Enqueue
  <2> QED BY <2>1
<1>2. CASE EnqueueResult(t) # "ok"
  BY <1>2, Zenon DEF Enqueue
<1> QED BY <1>1, <1>2

LEMMA PickUpType ==
  ASSUME LogTypeOK, NEW t \in Task, PickUp(t)
  PROVE  LogTypeOK'
BY DEF LogTypeOK, PickUp, Row, Status, InFlight

\* The statements of the pipeline write statuses of the column.
LEMMA WriterTypes ==
  ASSUME LogTypeOK, NEW t \in Task
  PROVE  /\ RecordWorkerError(t) => LogTypeOK'
         /\ MarkFailed(t) => LogTypeOK'
         /\ \A stage : RouteWrite(stage, t) => LogTypeOK'
<1>1. {"CLASSIFIED", "DISPATCHED", "COMPLETED", "FAILED"} \subseteq Status
  BY DEF Status, InFlight, Terminal
<1>2. RecordWorkerError(t) => LogTypeOK'
  BY <1>1, SetStatusType DEF RecordWorkerError
<1>3. MarkFailed(t) => LogTypeOK'
  BY <1>1, SetStatusType DEF MarkFailed
<1>4. ASSUME NEW stage, RouteWrite(stage, t) PROVE LogTypeOK'
  <2>1. CASE Written(stage, row[t].status) \in Status
    BY <1>4, <2>1, SetStatusType DEF RouteWrite
  <2>2. CASE Written(stage, row[t].status) = row[t].status
    BY <1>4, <2>2 DEF RouteWrite, SetStatus, LogTypeOK, Row
  <2> QED BY <1>1, <2>1, <2>2 DEF Written
<1> QED BY <1>2, <1>3, <1>4

LEMMA RouteNextType ==
  ASSUME NEW stage \in RouteStage
  PROVE  RouteNext(stage) \subseteq Stage
BY DEF RouteNext, RouteStage, LiveStage, Stage

LEMMA FaultType == faults \in Nat /\ (Fault \/ NoFault) => faults' \in Nat
BY DEF Fault, NoFault

\* Two frames: of the steps of a job, and of a step that changes no job.
LEMMA JobFrameType ==
  ASSUME TypeOK, NEW s \in Slot, NEW stage \in Stage, slot[s].at \in Stage,
         Goto(s, stage), JobFrame, Fault \/ NoFault,
         UNCHANGED runs \/ BeginRoute(s)
  PROVE  WorkerTypeOK' /\ turn' \in Turn
<1>1. slot' \in [Slot -> Job \cup {Idle}]
  BY GotoType DEF TypeOK
<1>2. faults' \in Nat
  BY FaultType DEF TypeOK, WorkerTypeOK
<1>3. runs' \in [Task -> Nat]
  <2>1. slot[s].task \in Task /\ runs \in [Task -> Nat]
    BY JobAt DEF TypeOK, WorkerTypeOK
  <2>2. CASE BeginRoute(s)
    BY <2>1, <2>2 DEF BeginRoute
  <2> QED BY <2>1, <2>2
<1> QED BY <1>1, <1>2, <1>3 DEF TypeOK, WorkerTypeOK, JobFrame, queueVars

LEMMA FinishType ==
  ASSUME TypeOK, NEW s \in Slot, Finish(s)
  PROVE  LogTypeOK' /\ WorkerTypeOK' /\ turn' \in Turn
<1>1. slot' \in [Slot -> Job \cup {Idle}]
  BY DEF TypeOK, WorkerTypeOK, Finish
<1>2. inflight' \in Int /\ tracked' \subseteq Task
  BY DEF TypeOK, WorkerTypeOK, Finish, Untrack
<1>3. pumpDue' \in BOOLEAN /\ drain' \in {"none", "waiting", "resolved", "expired"}
  BY DEF TypeOK, WorkerTypeOK, Finish, AfterJob, MaybeResolveDrain
<1> QED BY <1>1, <1>2, <1>3 DEF TypeOK, LogTypeOK, WorkerTypeOK, Finish

LEMMA JobStepType ==
  ASSUME TypeOK, NEW s \in Slot, JobStep(s)
  PROVE  LogTypeOK' /\ WorkerTypeOK' /\ turn' \in Turn
<1> DEFINE t == slot[s].task
           Typed == LogTypeOK' /\ WorkerTypeOK' /\ turn' \in Turn
<1> USE DEF At
<1>0. /\ LogTypeOK /\ WorkerTypeOK
      /\ \A stage \in Stage : slot[s].at = stage => t \in Task
      /\ UNCHANGED row => LogTypeOK'
      /\ {"begin", "done", "claimWrite", "workerError", "catch", "claim", "classified"} \subseteq Stage
  BY JobAt DEF TypeOK, LogTypeOK, Stage, LiveStage, RouteStage
<1>1. CASE Claim(s)
  <2>1. slot[s].at = "claim" /\ NoFault /\ JobFrame
    BY <1>1 DEF Claim
  <2>2. \/ Goto(s, "done") /\ UNCHANGED <<row, runs>>
        \/ PickUp(t) /\ BeginRoute(s)
        \/ Goto(s, "claimWrite") /\ UNCHANGED <<row, runs>>
    BY <1>1, Zenon DEF Claim
  <2>3. CASE Goto(s, "done") /\ UNCHANGED <<row, runs>>
    BY <1>0, <2>1, <2>3, JobFrameType
  <2>4. CASE PickUp(t) /\ BeginRoute(s)
    BY <1>0, <2>1, <2>4, JobFrameType, PickUpType DEF BeginRoute
  <2>5. CASE Goto(s, "claimWrite") /\ UNCHANGED <<row, runs>>
    BY <1>0, <2>1, <2>5, JobFrameType
  <2> QED BY <2>2, <2>3, <2>4, <2>5
<1>2. CASE ClaimWrite(s)
  BY <1>0, <1>2, JobFrameType, PickUpType DEF ClaimWrite, BeginRoute
<1>3. CASE ClaimError(s)
  BY <1>0, <1>3, JobFrameType, PickUpType DEF ClaimError
<1>4. CASE RouteThrows(s)
  BY <1>0, <1>4, JobFrameType DEF RouteThrows
<1>5. CASE WorkerError(s)
  BY <1>0, <1>5, JobFrameType, WriterTypes DEF WorkerError
<1>6. CASE Route(s)
  <2>1. slot[s].at \in Stage
    BY <1>6 DEF Route, Stage, LiveStage
  <2>2. PICK next \in RouteNext(slot[s].at) : Goto(s, next)
    BY <1>6 DEF Route
  <2>3. next \in Stage
    BY <1>6, RouteNextType DEF Route
  <2> QED BY <1>0, <1>6, <2>1, <2>2, <2>3, JobFrameType, WriterTypes DEF Route
<1>7. CASE NoAgent(s)
  BY <1>0, <1>7, JobFrameType DEF NoAgent
<1>8. CASE RouteError(s)
  <2>1. slot[s].at \in Stage
    BY <1>8 DEF RouteError, Stage, LiveStage
  <2> QED BY <1>0, <1>8, <2>1, JobFrameType, WriterTypes DEF RouteError
<1>9. CASE RouteCatch(s)
  BY <1>0, <1>9, JobFrameType, WriterTypes DEF RouteCatch
<1>10. CASE Finish(s)
  BY <1>10, FinishType
<1> QED BY <1>1, <1>2, <1>3, <1>4, <1>5, <1>6, <1>7, <1>8, <1>9, <1>10 DEF JobStep

LEMMA PumpType ==
  ASSUME TypeOK, Pump \/ PumpReturn \/ (\E s \in Slot : StartJob(s)) \/ GraceExpires \/ Stop
  PROVE  LogTypeOK' /\ WorkerTypeOK' /\ turn' \in Turn
<1> USE DEF TypeOK, LogTypeOK, WorkerTypeOK
<1>1. CASE Pump
  BY <1>1 DEF Pump, MaybeResolveDrain, Turn
<1>2. CASE PumpReturn
  BY <1>2 DEF PumpReturn, Turn
<1>3. CASE \E s \in Slot : StartJob(s)
  <2>1. PICK s \in Slot : StartJob(s)
    BY <1>3
  <2>2. queue # <<>> /\ queue \in Seq(Task)
    BY <2>1 DEF StartJob, HasRoom
  <2>3. Head(queue) \in Task /\ Tail(queue) \in Seq(Task)
    BY <2>2
  <2>4. [task |-> Head(queue), at |-> "claim"] \in Job
    BY <2>3 DEF Job, Stage
  <2>5. slot' \in [Slot -> Job \cup {Idle}]
    BY <2>1, <2>4 DEF StartJob
  <2>6. queue' \in Seq(Task) /\ inflight' \in Int
    BY <2>1, <2>3 DEF StartJob
  <2> QED BY <2>1, <2>5, <2>6 DEF StartJob
<1>4. CASE GraceExpires
  BY <1>4 DEF GraceExpires
<1>5. CASE Stop
  BY <1>5 DEF Stop
<1> QED BY <1>1, <1>2, <1>3, <1>4, <1>5

LEMMA HandlerType ==
  ASSUME TypeOK, NEW t \in Task, Post(t) \/ HandlerStep(t)
  PROVE  LogTypeOK' /\ WorkerTypeOK' /\ turn' \in Turn /\ IntakeTypeOK'
<1> USE DEF TypeOK, WorkerTypeOK, IntakeTypeOK, HandlerFrame
<1>1. \A a \in Client : Answers(t, a) => IntakeTypeOK'
  BY DEF Answers
<1>2. {"insert", "busy", "enqueue", "error", "accepted", "refuse", "refused", "warned"}
      \subseteq Client
  BY DEF Client, Handling, Answer
<1>3. CASE Post(t)
  BY <1>1, <1>2, <1>3 DEF Post, LogTypeOK
<1>4. CASE Insert(t)
  <2>1. [status |-> "QUEUED", prompt |-> TRUE, stale |-> FALSE] \in Row
    BY DEF Row, Status
  <2>2. CreateQueued(t) => LogTypeOK'
    BY <2>1 DEF CreateQueued, LogTypeOK
  <2>3. LogTypeOK'
    BY <1>4, <2>2 DEF Insert, LogTypeOK
  <2>4. faults' \in Nat /\ IntakeTypeOK'
    BY <1>1, <1>2, <1>4, FaultType DEF Insert
  <2> QED BY <1>4, <2>3, <2>4 DEF Insert
<1>5. CASE HandOver(t)
  <2>1. queue' \in Seq(Task) /\ tracked' \subseteq Task /\ pumpDue' \in BOOLEAN
    BY <1>5, EnqueueType DEF HandOver
  <2>2. IntakeTypeOK'
    BY <1>1, <1>2, <1>5 DEF HandOver
  <2> QED BY <1>5, <2>1, <2>2 DEF HandOver, LogTypeOK
<1>6. CASE Refuse(t)
  <2>1. LogTypeOK'
    BY <1>6, WriterTypes DEF Refuse, LogTypeOK
  <2>2. faults' \in Nat /\ IntakeTypeOK'
    BY <1>1, <1>2, <1>6, FaultType DEF Refuse
  <2> QED BY <1>6, <2>1, <2>2 DEF Refuse
<1> QED BY <1>3, <1>4, <1>5, <1>6 DEF HandlerStep

LEMMA NatMin ==
  ASSUME NEW S \in SUBSET Nat, S # {}
  PROVE  \E n \in S : \A m \in S : n <= m
<1>1. PICK n \in S : \A m \in S : ~(<<m, n>> \in OpToRel(<, Nat))
  BY NatLessThanWellFounded, WFMin
<1>2. \A m \in S : ~(m < n)
  BY <1>1 DEF OpToRel
<1> QED BY <1>2

\* FirstOf and LastOf are members of every nonempty set of task ids.
LEMMA FirstOfType ==
  ASSUME NEW S \in SUBSET Task, S # {}
  PROVE  FirstOf(S) \in S
<1>1. S \subseteq Nat
  BY TaskAssumption DEF Task
<1>2. \E t \in S : \A u \in S : t <= u
  BY <1>1, NatMin
<1> QED BY <1>2 DEF FirstOf

LEMMA LastOfType ==
  ASSUME NEW S \in SUBSET Task, S # {}
  PROVE  LastOf(S) \in S
<1> DEFINE Bound == {n \in Nat : \A u \in S : u <= n}
<1>1. NumTasks \in Bound /\ Bound \subseteq Nat
  BY TaskAssumption DEF Task
<1>2. PICK n \in Bound : \A m \in Bound : n <= m
  BY <1>1, NatMin
<1>3. n \in S
  <2> SUFFICES ASSUME n \notin S PROVE FALSE
    OBVIOUS
  <2>1. \A u \in S : u \in Nat /\ u >= 1 /\ u <= n - 1
    BY <1>2 DEF Task
  <2>2. n - 1 \in Bound
    BY <2>1, <1>2
  <2> QED BY <1>2, <2>2
<1>4. \E t \in S : \A u \in S : u <= t
  BY <1>2, <1>3
<1> QED BY <1>4 DEF LastOf

LEMMA SweepOffType ==
  /\ SweepOff \in SweepState
  /\ \A stage \in SweepStage : [SweepOff EXCEPT !.at = stage] \in SweepState
  /\ \A d \in BOOLEAN :
       [SweepOff EXCEPT !.at = "findStale", !.draining = d] \in SweepState
BY DEF SweepOff, SweepState, SweepStage

LEMMA SweepGotoType ==
  ASSUME ReaperTypeOK, NEW w \in Sweep, NEW stage \in SweepStage, SweepGoto(w, stage)
  PROVE  ReaperTypeOK'
<1>1. sweep[w] \in SweepState
  BY DEF ReaperTypeOK
<1>2. [sweep[w] EXCEPT !.at = stage] \in SweepState
  BY <1>1 DEF SweepState
<1> QED BY <1>2 DEF ReaperTypeOK, SweepGoto

LEMMA SweepPageType ==
  ASSUME TypeOK, NEW w \in Sweep, SweepPage(w)
  PROVE  ReaperTypeOK' /\ faults' \in Nat
<1> DEFINE page == FindQueuedPage(sweep[w].cursor)
           blank == {t \in page : ~row[t].prompt}
           full == (Cardinality(page) >= PageSize)
<1>1. ReaperTypeOK /\ sweep[w] \in SweepState
  BY DEF TypeOK, ReaperTypeOK
<1>2. faults' \in Nat
  BY FaultType DEF TypeOK, WorkerTypeOK, SweepPage
<1>3. ASSUME NEW d \in BOOLEAN, FindStaleNext(w, d) PROVE ReaperTypeOK'
  BY <1>1, <1>3, SweepOffType DEF FindStaleNext, ReaperTypeOK
<1>4. CASE FindStaleNext(w, TRUE)
  BY <1>2, <1>3, <1>4
<1>5. CASE /\ page # {}
           /\ sweep' = [sweep EXCEPT ![w] =
                [@ EXCEPT !.at = "rows", !.rows = page, !.blank = blank,
                          !.full = full, !.cursor = LastOf(page)]]
  <2>1. page \subseteq Task /\ blank \subseteq Task
    BY DEF FindQueuedPage
  <2>2. LastOf(page) \in Nat
    BY <1>5, <2>1, LastOfType, TaskAssumption DEF Task
  <2>3. full \in BOOLEAN
    OBVIOUS
  <2> HIDE DEF page, blank, full
  <2>4. [sweep[w] EXCEPT !.at = "rows", !.rows = page, !.blank = blank,
                         !.full = full, !.cursor = LastOf(page)] \in SweepState
    BY <1>1, <2>1, <2>2, <2>3 DEF SweepState, SweepStage
  <2> QED BY <1>1, <1>2, <1>5, <2>4 DEF ReaperTypeOK
<1>6. \/ FindStaleNext(w, TRUE)
      \/ /\ page # {}
         /\ sweep' = [sweep EXCEPT ![w] =
                [@ EXCEPT !.at = "rows", !.rows = page, !.blank = blank,
                          !.full = full, !.cursor = LastOf(page)]]
  BY Zenon DEF SweepPage
<1> QED BY <1>4, <1>5, <1>6

LEMMA SweepRowType ==
  ASSUME TypeOK, NEW w \in Sweep, SweepRow(w)
  PROVE  /\ ReaperTypeOK' /\ turn' \in Turn
         /\ queue' \in Seq(Task) /\ tracked' \subseteq Task /\ pumpDue' \in BOOLEAN
<1> DEFINE t == FirstOf(sweep[w].rows)
<1>1. /\ ReaperTypeOK /\ sweep[w] \in SweepState
      /\ queue \in Seq(Task) /\ tracked \subseteq Task /\ pumpDue \in BOOLEAN
  BY DEF TypeOK, ReaperTypeOK, WorkerTypeOK
<1>2. sweep[w].rows \subseteq Task /\ t \in Task
  BY <1>1, FirstOfType DEF SweepRow, SweepState
<1>3. turn' \in Turn
  BY DEF SweepRow, Turn
<1>4. CASE SweepGoto(w, "blank") /\ QueueFrame
  BY <1>1, <1>3, <1>4, SweepGotoType DEF SweepStage, QueueFrame
<1>5. CASE FindStaleNext(w, FALSE) /\ QueueFrame
  BY <1>1, <1>3, <1>5, SweepOffType DEF FindStaleNext, ReaperTypeOK, QueueFrame
<1>6. CASE Enqueue(t) /\ sweep' = [sweep EXCEPT ![w].rows = @ \ {t}]
  <2>1. [sweep[w] EXCEPT !.rows = @ \ {t}] \in SweepState
    BY <1>1, <1>2 DEF SweepState
  <2>2. ReaperTypeOK'
    BY <1>1, <1>6, <2>1 DEF ReaperTypeOK
  <2> QED BY <1>1, <1>2, <1>3, <1>6, <2>2, EnqueueType
<1>7. \/ SweepGoto(w, "blank") /\ QueueFrame
      \/ FindStaleNext(w, FALSE) /\ QueueFrame
      \/ Enqueue(t) /\ sweep' = [sweep EXCEPT ![w].rows = @ \ {t}]
  BY Zenon DEF SweepRow
<1> QED BY <1>4, <1>5, <1>6, <1>7

\* The steps of a sweep that leave the worker's queue alone.
LEMMA SweepOtherType ==
  ASSUME TypeOK, NEW w \in Sweep,
         \/ SweepStart(w) \/ SweepBlank(w) \/ SweepPageEnd(w) \/ SweepFindStale(w)
         \/ (\E t \in Task : SweepMarkStale(w, t)) \/ SweepStaleDone(w) \/ SweepPurge(w)
  PROVE  /\ LogTypeOK' /\ ReaperTypeOK' /\ turn' \in Turn /\ faults' \in Nat
         /\ QueueFrame
<1>1. /\ LogTypeOK /\ ReaperTypeOK /\ sweep[w] \in SweepState /\ turn \in Turn
      /\ faults \in Nat /\ (UNCHANGED row => LogTypeOK')
      /\ \A r \in SweepState : sweep' = [sweep EXCEPT ![w] = r] => ReaperTypeOK'
  BY DEF TypeOK, LogTypeOK, ReaperTypeOK, WorkerTypeOK
<1>2. CASE SweepStart(w)
  BY <1>1, <1>2, SweepOffType DEF SweepStart, SweepStage
<1>3. CASE SweepBlank(w)
  <2> DEFINE t == FirstOf(sweep[w].rows)
             r == [sweep[w] EXCEPT !.at = "rows", !.rows = @ \ {t}]
  <2>1. r \in SweepState
    BY <1>1 DEF SweepState, SweepStage
  <2>2. sweep' = [sweep EXCEPT ![w] = r] /\ turn' = turn /\ QueueFrame
    BY <1>3 DEF SweepBlank
  <2>3. ReaperTypeOK'
    BY <1>1, <2>1, <2>2
  <2>4. t \in Task
    BY <1>1, <1>3, FirstOfType DEF SweepBlank, SweepState
  <2>5. LogTypeOK'
    BY <1>1, <1>3, <2>4, SetStatusType DEF SweepBlank, RecordWorkerError, Status, Terminal, TypeOK
  <2>6. faults' \in Nat
    BY <1>1, <1>3, FaultType DEF SweepBlank
  <2> QED BY <1>1, <2>2, <2>3, <2>5, <2>6
<1>4. CASE SweepPageEnd(w)
  <2>1. CASE MorePages(w)
    BY <1>1, <1>4, <2>1, SweepGotoType DEF SweepPageEnd, SweepStage, Turn
  <2>2. CASE ~MorePages(w)
    BY <1>1, <1>4, <2>2, SweepOffType DEF SweepPageEnd, FindStaleNext, Turn
  <2> QED BY <2>1, <2>2
<1>5. CASE SweepFindStale(w)
  <2>1. FindStale \subseteq Task
    BY DEF FindStale
  <2>2. [sweep[w] EXCEPT !.at = "markStale", !.stale = FindStale] \in SweepState
    BY <1>1, <2>1 DEF SweepState, SweepStage
  <2>3. ReaperTypeOK'
    BY <1>1, <1>5, <2>2, SweepGotoType DEF SweepFindStale, SweepStage
  <2> QED BY <1>1, <1>5, <2>3, FaultType DEF SweepFindStale
<1>6. CASE \E t \in Task : SweepMarkStale(w, t)
  <2>1. PICK t \in Task : SweepMarkStale(w, t)
    BY <1>6
  <2>2. [sweep[w] EXCEPT !.stale = @ \ {t}] \in SweepState
    BY <1>1 DEF SweepState
  <2>3. ReaperTypeOK' /\ LogTypeOK'
    BY <1>1, <2>1, <2>2, WriterTypes DEF SweepMarkStale
  <2> QED BY <1>1, <2>1, <2>3, FaultType DEF SweepMarkStale
<1>7. CASE SweepStaleDone(w)
  BY <1>1, <1>7, SweepOffType DEF SweepStaleDone, SweepStage
<1>8. CASE SweepPurge(w)
  <2>1. PICK old : PurgeExpiredPrompts(old)
    BY <1>8 DEF SweepPurge
  <2>2. LogTypeOK'
    BY <1>1, <2>1 DEF PurgeExpiredPrompts, LogTypeOK, Row
  <2> QED BY <1>1, <1>8, <2>2, SweepOffType DEF SweepPurge
<1> QED BY <1>2, <1>3, <1>4, <1>5, <1>6, <1>7, <1>8

LEMMA InitType == Init => TypeOK
<1> SUFFICES ASSUME Init PROVE TypeOK
  OBVIOUS
<1>1. LogTypeOK
  BY DEF Init, LogInit, LogTypeOK, Row, NoRow
<1>2. WorkerTypeOK /\ turn \in Turn
  <2>1. queue \in Seq(Task) /\ tracked \subseteq Task /\ inflight \in Int
    BY DEF Init, WorkerInit
  <2>2. slot \in [Slot -> Job \cup {Idle}]
    BY DEF Init, WorkerInit
  <2>3. runs \in [Task -> Nat] /\ faults \in Nat
    BY DEF Init, WorkerInit
  <2> QED BY <2>1, <2>2, <2>3 DEF Init, WorkerInit, WorkerTypeOK, Turn
<1>3. IntakeTypeOK
  BY DEF Init, IntakeInit, IntakeTypeOK, Client
<1>4. ReaperTypeOK
  BY DEF Init, ReaperInit, ReaperTypeOK, SweepState, SweepOff, SweepStage
<1> QED BY <1>1, <1>2, <1>3, <1>4 DEF Init, TypeOK, Proc

\* A sweep's step, its start included, keeps the types of all it can change.
LEMMA SweepStepType ==
  ASSUME TypeOK, NEW w \in Sweep, SweepStart(w) \/ SweepStep(w)
  PROVE  LogTypeOK' /\ WorkerTypeOK' /\ ReaperTypeOK' /\ turn' \in Turn
<1> USE DEF TypeOK
<1>1. ASSUME QueueFrame, SweepFrame, faults' \in Nat PROVE WorkerTypeOK'
  BY <1>1 DEF WorkerTypeOK, QueueFrame, SweepFrame
<1>2. CASE SweepPage(w)
  BY <1>1, <1>2, SweepPageType DEF SweepPage, LogTypeOK
<1>3. CASE SweepRow(w)
  <2>1. SweepFrame /\ UNCHANGED <<row, faults>>
    BY <1>3, Zenon DEF SweepRow
  <2>2. LogTypeOK'
    BY <2>1 DEF LogTypeOK
  <2>3. WorkerTypeOK'
    BY <1>3, <2>1, SweepRowType DEF WorkerTypeOK, SweepFrame
  <2> QED BY <1>3, <2>2, <2>3, SweepRowType
<1>4. CASE \/ SweepStart(w) \/ SweepBlank(w) \/ SweepPageEnd(w) \/ SweepFindStale(w)
         \/ (\E t \in Task : SweepMarkStale(w, t)) \/ SweepStaleDone(w) \/ SweepPurge(w)
  <2>1. SweepFrame
    BY <1>4, Zenon DEF SweepStart, SweepBlank, SweepPageEnd, SweepFindStale,
                       SweepMarkStale, SweepStaleDone, SweepPurge
  <2> QED BY <1>1, <1>4, <2>1, SweepOtherType
<1> QED BY <1>2, <1>3, <1>4, Zenon DEF SweepStep

LEMMA ProcessEndsType ==
  ASSUME TypeOK, ProcessEnds
  PROVE  LogTypeOK' /\ WorkerTypeOK' /\ IntakeTypeOK' /\ ReaperTypeOK' /\ turn' \in Turn
<1> USE DEF TypeOK, ProcessEnds
<1>1. LogTypeOK'
  BY DEF LogTypeOK
<1>2. WorkerTypeOK' /\ turn' \in Turn
  <2>1. slot' \in [Slot -> Job \cup {Idle}]
    BY DEF WorkerReset
  <2>2. queue' \in Seq(Task) /\ tracked' \subseteq Task /\ inflight' \in Int
    BY DEF WorkerReset
  <2> QED BY <2>1, <2>2 DEF WorkerReset, WorkerTypeOK, Turn
<1>3. IntakeTypeOK'
  BY DEF IntakeReset, IntakeTypeOK, Client, Answer
<1>4. ReaperTypeOK'
  BY SweepOffType DEF ReaperReset, ReaperTypeOK
<1> QED BY <1>1, <1>2, <1>3, <1>4

\* Every action, one step per disjunct of Next.
LEMMA NextType == TypeOK /\ [Next]_vars => TypeOK'
<1> SUFFICES ASSUME TypeOK, [Next]_vars PROVE TypeOK'
  OBVIOUS
<1> USE DEF lifeVars
<1>0. /\ LogTypeOK /\ WorkerTypeOK /\ IntakeTypeOK /\ ReaperTypeOK
      /\ turn \in Turn /\ proc \in Proc /\ restarts \in Nat
      /\ UNCHANGED row => LogTypeOK' 
      /\ UNCHANGED client => IntakeTypeOK' 
      /\ UNCHANGED sweep => ReaperTypeOK' 
      /\ UNCHANGED lifeVars => proc' \in Proc /\ restarts' \in Nat
      /\ UNCHANGED workerVars => WorkerTypeOK' /\ turn' \in Turn
  BY DEF TypeOK, LogTypeOK, IntakeTypeOK, ReaperTypeOK, WorkerTypeOK, workerVars
<1>1. CASE Boot
  <2>1. PICK w \in Sweep : SweepStart(w)
    BY <1>1 DEF Boot
  <2> QED BY <1>0, <1>1, <2>1, SweepStepType DEF Boot, TypeOK, Proc
<1>2. CASE Serve
  BY <1>0, <1>2 DEF Serve, TypeOK, Proc
<1>3. CASE Shutdown
  BY <1>0, <1>3 DEF Shutdown, TypeOK, Proc
<1>4. CASE ServerClosed
  <2>1. LogTypeOK' /\ WorkerTypeOK' /\ turn' \in Turn
    BY <1>4, PumpType DEF ServerClosed
  <2> QED BY <1>0, <1>4, <2>1 DEF ServerClosed, TypeOK, Proc
<1>5. CASE Exit
  BY <1>0, <1>5, ProcessEndsType DEF Exit, ProcessEnds, TypeOK, Proc
<1>6. CASE Crash
  BY <1>0, <1>6, ProcessEndsType DEF Crash, ProcessEnds, TypeOK, Proc
<1>7. CASE \E w \in Sweep : Tick(w)
  BY <1>0, <1>7, SweepStepType DEF Tick, TypeOK
<1>8. CASE \E t \in Task : Request(t)
  BY <1>0, <1>8, HandlerType DEF Request, TypeOK
<1>9. CASE \E t \in Task : Age(t)
  <2>1. LogTypeOK'
    BY <1>0, <1>9 DEF Age, LogTypeOK, Row
  <2> QED BY <1>0, <1>9, <2>1 DEF Age, TypeOK
<1>10. CASE Work
  <2>1. LogTypeOK' /\ WorkerTypeOK' /\ turn' \in Turn
    BY <1>10, PumpType, JobStepType DEF Work, WorkerNext
  <2> QED BY <1>0, <1>10, <2>1 DEF Work, TypeOK
<1>11. CASE Handle
  BY <1>0, <1>11, HandlerType DEF Handle, TypeOK
<1>12. CASE Reap
  BY <1>0, <1>12, SweepStepType DEF Reap, TypeOK
<1>13. CASE UNCHANGED vars
  BY <1>0, <1>13 DEF vars, workerVars, TypeOK
<1> QED BY <1>1, <1>2, <1>3, <1>4, <1>5, <1>6, <1>7, <1>8, <1>9, <1>10, <1>11, <1>12, <1>13
        DEF Next

\* Every variable of the pipeline stays in its type: the queue holds task ids, a
\* slot a job or nothing, a row a status its column has.
THEOREM TypeCorrect == Spec => []TypeOK
<1> QED BY InitType, NextType, PTL DEF Spec

------------------------------------------------------------------------------
(* Which actions touch the queue and the slots.                                 *)

\* A job's step finishes the job or moves it to another stage.
LEMMA JobStepFrame ==
  ASSUME NEW s \in Slot, JobStep(s)
  PROVE  \/ Finish(s)
         \/ /\ JobFrame /\ slot[s].at \in Stage
            /\ \E stage \in Stage : Goto(s, stage)
<1> DEFINE Moves == /\ JobFrame /\ slot[s].at \in Stage
                    /\ \E stage \in Stage : Goto(s, stage)
<1>0. {"begin", "done", "claimWrite", "workerError", "catch", "claim", "classified"} \subseteq Stage
  BY DEF Stage, LiveStage, RouteStage
<1>1. CASE Claim(s) \/ ClaimWrite(s) \/ ClaimError(s) \/ RouteThrows(s)
  <2>1. JobFrame /\ slot[s].at \in {"claim", "claimWrite", "begin"}
    BY <1>1 DEF Claim, ClaimWrite, ClaimError, RouteThrows, At
  <2>2. \/ Goto(s, "done") \/ Goto(s, "begin") \/ Goto(s, "claimWrite")
        \/ Goto(s, "workerError")
    BY <1>1, Zenon DEF Claim, ClaimWrite, ClaimError, RouteThrows, BeginRoute
  <2> QED BY <1>0, <2>1, <2>2
<1>2. CASE WorkerError(s) \/ NoAgent(s) \/ RouteCatch(s)
  BY <1>0, <1>2 DEF WorkerError, NoAgent, RouteCatch, At
<1>3. CASE Route(s)
  <2>1. slot[s].at \in RouteStage /\ JobFrame
    BY <1>3 DEF Route
  <2>2. PICK next \in RouteNext(slot[s].at) : Goto(s, next)
    BY <1>3 DEF Route
  <2> QED BY <2>1, <2>2, RouteNextType DEF Stage, LiveStage
<1>4. CASE RouteError(s)
  BY <1>0, <1>4 DEF RouteError, Stage, LiveStage
<1> QED BY <1>1, <1>2, <1>3, <1>4 DEF JobStep

LEMMA SweepStepFrame ==
  ASSUME NEW w \in Sweep, SweepStart(w) \/ SweepStep(w)
  PROVE  /\ SweepFrame
         /\ SweepRow(w) \/ (QueueFrame /\ (UNCHANGED turn \/ SweepPageEnd(w)))
BY Zenon DEF SweepStep, SweepStart, SweepPage, SweepRow, SweepBlank, SweepPageEnd,
             SweepFindStale, SweepMarkStale, SweepStaleDone, SweepPurge

LEMMA HandlerStepFrame ==
  ASSUME NEW t \in Task, Post(t) \/ HandlerStep(t)
  PROVE  HandlerFrame /\ (HandOver(t) \/ UNCHANGED <<queue, tracked, pumpDue>>)
BY DEF Post, HandlerStep, Insert, HandOver, Refuse

\* One iteration over a page: the row is enqueued, or the queue is left alone.
LEMMA SweepRowCases ==
  ASSUME TypeOK, NEW w \in Sweep, SweepRow(w)
  PROVE  /\ turn \in {"idle", w}
         /\ \/ QueueFrame /\ turn' = "idle"
            \/ \E t \in Task : /\ t = FirstOf(sweep[w].rows) /\ Enqueue(t)
                               /\ sweep' = [sweep EXCEPT ![w].rows = @ \ {t}] /\ turn' = w
<1> DEFINE t == FirstOf(sweep[w].rows)
<1>1. sweep[w].rows \subseteq Task /\ sweep[w].rows # {}
  BY DEF TypeOK, ReaperTypeOK, SweepRow, SweepState
<1>2. t \in Task
  BY <1>1, FirstOfType
<1>3. turn \in {"idle", w}
  BY DEF SweepRow
<1>4. \/ QueueFrame /\ turn' = "idle"
      \/ Enqueue(t) /\ sweep' = [sweep EXCEPT ![w].rows = @ \ {t}] /\ turn' = w
  BY Zenon DEF SweepRow
<1> QED BY <1>2, <1>3, <1>4

------------------------------------------------------------------------------
LEMMA EnqueueWakes ==
  ASSUME NEW t, Enqueue(t)
  PROVE  pumpDue' = TRUE \/ UNCHANGED <<queue, pumpDue>>
BY Zenon DEF Enqueue

\* Each action that adds a job, or frees a place, leaves a pump on its way.
LEMMA WakeupStep == TypeOK /\ NoLostWakeup /\ [Next]_vars => NoLostWakeup'
<1> SUFFICES ASSUME TypeOK, NoLostWakeup, [Next]_vars PROVE NoLostWakeup'
  OBVIOUS
<1> USE DEF NoLostWakeup, HasRoom
<1>0. UNCHANGED <<queue, inflight, stopping, pumpDue, turn>> => NoLostWakeup'
  OBVIOUS
<1>1. ASSUME NEW w \in Sweep, SweepStart(w) \/ SweepStep(w) PROVE NoLostWakeup'
  <2>1. UNCHANGED <<inflight, stopping>>
    BY <1>1, SweepStepFrame DEF SweepFrame
  <2>2. CASE SweepRow(w)
    BY <2>1, <2>2, SweepRowCases, EnqueueWakes, PipelineAssumption DEF QueueFrame
  <2>3. CASE QueueFrame /\ (UNCHANGED turn \/ SweepPageEnd(w))
    BY <2>1, <2>3, PipelineAssumption DEF QueueFrame, SweepPageEnd
  <2> QED BY <1>1, <2>2, <2>3, SweepStepFrame
<1>2. ASSUME NEW t \in Task, Post(t) \/ HandlerStep(t) PROVE NoLostWakeup'
  BY <1>0, <1>2, HandlerStepFrame, EnqueueWakes DEF HandlerFrame, HandOver
<1>3. ASSUME NEW s \in Slot, JobStep(s) PROVE NoLostWakeup'
  <2>1. CASE Finish(s)
    BY <2>1 DEF Finish, AfterJob
  <2>2. CASE JobFrame
    BY <1>0, <2>2 DEF JobFrame, queueVars
  <2> QED BY <1>3, <2>1, <2>2, JobStepFrame
<1>4. CASE ProcessEnds
  BY <1>4 DEF ProcessEnds, WorkerReset
<1>5. CASE Work
  <2>1. CASE Pump
    BY <2>1 DEF Pump
  <2>2. CASE PumpReturn \/ GraceExpires \/ (\E s \in Slot : StartJob(s))
    BY <2>2 DEF PumpReturn, GraceExpires, StartJob
  <2> QED BY <1>3, <1>5, <2>1, <2>2 DEF Work, WorkerNext
<1>6. CASE ServerClosed
  BY <1>6 DEF ServerClosed, Stop
<1>7. CASE Serve \/ Shutdown \/ (\E t \in Task : Age(t)) \/ UNCHANGED vars
  BY <1>0, <1>7 DEF Serve, Shutdown, Age, workerVars, vars
<1> QED BY <1>1, <1>2, <1>4, <1>5, <1>6, <1>7
        DEF Next, Boot, Tick, Request, Handle, Reap, Exit, Crash

\* The pump is never asleep beside a waiting job and a free place: with the FIFO
\* event loop, every queued job is started.
THEOREM NoLostWakeupHolds == Spec => []NoLostWakeup
<1>1. Init => NoLostWakeup
  BY DEF Init, WorkerInit, NoLostWakeup, HasRoom
<1> QED BY <1>1, WakeupStep, TypeCorrect, PTL DEF Spec

------------------------------------------------------------------------------
(* TrackedIsExact, element by element.                                          *)
Holder(s) == slot[s].task

OwnInv ==
  /\ \A i, j \in 1..Len(queue) : i # j => queue[i] # queue[j]
  /\ \A s \in Slot, i \in 1..Len(queue) : Holder(s) # queue[i]
  /\ \A r, s \in Slot : r # s /\ Holder(r) # NoTask => Holder(r) # Holder(s)
  /\ \A i \in 1..Len(queue) : queue[i] \in tracked
  /\ \A s \in Slot : Holder(s) # NoTask => Holder(s) \in tracked
  /\ \A t \in tracked : (\E i \in 1..Len(queue) : queue[i] = t) \/ \E s \in Slot : Holder(s) = t

LEMMA HolderType ==
  ASSUME WorkerTypeOK, NEW s \in Slot
  PROVE  /\ Holder(s) \in Task \cup {NoTask} /\ NoTask \notin Task
         /\ s \in Busy <=> Holder(s) # NoTask
<1>1. slot[s] \in Job \cup {Idle}
  BY DEF WorkerTypeOK
<1>2. NoTask \notin Task
  BY TaskAssumption DEF NoTask, Task
<1> QED BY <1>1, <1>2 DEF Job, Idle, Busy, Holder

LEMMA OwnInvMeans == WorkerTypeOK => (OwnInv <=> TrackedIsExact)
<1> SUFFICES ASSUME WorkerTypeOK PROVE OwnInv <=> TrackedIsExact
  OBVIOUS
<1>1. DOMAIN queue = 1..Len(queue) /\ Range(queue) = {queue[i] : i \in 1..Len(queue)}
  BY DEF WorkerTypeOK, Range
<1>2. \A i \in 1..Len(queue) : queue[i] \in Task
  BY DEF WorkerTypeOK
<1>3. Busy = {s \in Slot : Holder(s) # NoTask} /\ NoTask \notin Task
  BY HolderType, TaskAssumption DEF Busy, NoTask, Task
<1>4. OwnInv => OneJobPerTask
  BY <1>1, <1>3 DEF OwnInv, OneJobPerTask, Holder
<1>5. OwnInv => TrackedIsExact
  <2> SUFFICES ASSUME OwnInv PROVE tracked = Range(queue) \cup {Holder(s) : s \in Busy}
    BY <1>4 DEF TrackedIsExact, Holder
  <2>1. ASSUME NEW t \in tracked PROVE t \in Range(queue) \cup {Holder(s) : s \in Busy}
    <3>1. t # NoTask
      BY <1>3 DEF WorkerTypeOK
    <3> QED BY <1>1, <1>3, <3>1 DEF OwnInv
  <2>2. \A t \in Range(queue) \cup {Holder(s) : s \in Busy} : t \in tracked
    BY <1>1, <1>3 DEF OwnInv
  <2> QED BY <2>1, <2>2
<1>6. TrackedIsExact => OwnInv
  <2> SUFFICES ASSUME OneJobPerTask, TrackedIsExact PROVE OwnInv
    BY DEF TrackedIsExact
  <2>1. \A i, j \in 1..Len(queue) : i # j => queue[i] # queue[j]
    BY <1>1 DEF OneJobPerTask
  <2>2. \A s \in Slot, i \in 1..Len(queue) : Holder(s) # queue[i]
    BY <1>1, <1>2, <1>3 DEF OneJobPerTask, Holder
  <2>3. \A r, s \in Slot : r # s /\ Holder(r) # NoTask => Holder(r) # Holder(s)
    BY <1>3 DEF OneJobPerTask, Holder
  <2>4. \A t : t \in tracked <=> \/ \E i \in 1..Len(queue) : queue[i] = t
                                 \/ \E s \in Busy : Holder(s) = t
    BY <1>1 DEF TrackedIsExact, Holder
  <2> QED BY <1>3, <2>1, <2>2, <2>3, <2>4 DEF OwnInv
<1> QED BY <1>4, <1>5, <1>6

LEMMA OwnFrame ==
  ASSUME OwnInv, UNCHANGED <<queue, tracked>>, \A s \in Slot : slot'[s].task = slot[s].task
  PROVE  OwnInv'
BY DEF OwnInv, Holder

\* Enqueue() appends only a task that is not tracked.
LEMMA OwnEnqueue ==
  ASSUME WorkerTypeOK, OwnInv, NEW t \in Task, Enqueue(t), UNCHANGED slot
  PROVE  OwnInv'
<1>1. CASE EnqueueResult(t) = "ok"
  <2>1. /\ tracked' = tracked \cup {t} /\ queue' = Append(queue, t)
    BY <1>1, Zenon DEF Enqueue
  <2>2. t \notin tracked
    BY <1>1 DEF EnqueueResult
  <2>3. /\ queue \in Seq(Task) /\ Len(queue) \in Nat /\ Len(queue') = Len(queue) + 1
        /\ \A i \in 1..Len(queue) : queue'[i] = queue[i]
        /\ queue'[Len(queue) + 1] = t
    BY <2>1 DEF WorkerTypeOK
  <2>4. \A i \in 1..Len(queue') : \/ i \in 1..Len(queue) /\ queue'[i] = queue[i]
                                  \/ i = Len(queue) + 1 /\ queue'[i] = t
    BY <2>3
  <2>5. \A s \in Slot : Holder(s)' = Holder(s) /\ Holder(s) # t
    BY <2>2, HolderType DEF Holder, OwnInv
  <2> HIDE DEF Holder
  <2>6. \A i \in 1..Len(queue) : queue[i] # t
    BY <2>2 DEF OwnInv
  <2>7. \A i, j \in 1..Len(queue') : i # j => queue'[i] # queue'[j]
    BY <2>4, <2>6 DEF OwnInv
  <2>8. \A s \in Slot, i \in 1..Len(queue') : Holder(s)' # queue'[i]
    BY <2>4, <2>5 DEF OwnInv
  <2>9. \A i \in 1..Len(queue') : queue'[i] \in tracked'
    BY <2>1, <2>4 DEF OwnInv
  <2>10. ASSUME NEW u \in tracked'
         PROVE  (\E i \in 1..Len(queue') : queue'[i] = u) \/ \E s \in Slot : Holder(s)' = u
    BY <2>1, <2>3, <2>5 DEF OwnInv
  <2> QED BY <2>1, <2>5, <2>7, <2>8, <2>9, <2>10 DEF OwnInv
<1>2. CASE EnqueueResult(t) # "ok"
  <2>1. UNCHANGED <<queue, tracked>>
    BY <1>2, Zenon DEF Enqueue
  <2> QED BY <2>1, OwnFrame
<1> QED BY <1>1, <1>2

\* A started job moves from the head of the queue to a free slot.
LEMMA OwnStart ==
  ASSUME WorkerTypeOK, OwnInv, NEW s \in Slot, StartJob(s)
  PROVE  OwnInv'
<1> DEFINE h == Head(queue)
<1>1. /\ queue \in Seq(Task) /\ queue # <<>> /\ queue' = Tail(queue) /\ tracked' = tracked
      /\ Holder(s) = NoTask
  BY DEF StartJob, HasRoom, WorkerTypeOK, Holder, Idle
<1>2. /\ Len(queue) \in Nat /\ Len(queue) >= 1 /\ Len(queue') = Len(queue) - 1 /\ h = queue[1]
      /\ \A i \in 1..Len(queue') : i + 1 \in 1..Len(queue) /\ queue'[i] = queue[i + 1]
      /\ h \in Task
  BY <1>1
<1>3. \A i \in 2..Len(queue) : i - 1 \in 1..Len(queue') /\ queue'[i - 1] = queue[i]
  BY <1>1, <1>2
<1>4. /\ Holder(s)' = h
      /\ \A r \in Slot : r # s => Holder(r)' = Holder(r)
  BY <1>2 DEF StartJob, WorkerTypeOK, Holder
<1>5. h # NoTask
  BY <1>2, HolderType
<1> HIDE DEF h, Holder
<1>6. 1 \in 1..Len(queue)
  BY <1>2
<1>7. \A i, j \in 1..Len(queue') : i # j => queue'[i] # queue'[j]
  BY <1>2 DEF OwnInv
<1>8. \A i \in 1..Len(queue') : h # queue'[i]
  BY <1>2, <1>6 DEF OwnInv
<1>9. \A r \in Slot, i \in 1..Len(queue') : Holder(r)' # queue'[i]
  BY <1>2, <1>4, <1>8 DEF OwnInv
<1>10. \A r \in Slot : Holder(r) # h
  BY <1>2, <1>6 DEF OwnInv
<1>11. \A q, r \in Slot : q # r /\ Holder(q)' # NoTask => Holder(q)' # Holder(r)'
  BY <1>4, <1>10 DEF OwnInv
<1>12. \A i \in 1..Len(queue') : queue'[i] \in tracked'
  BY <1>1, <1>2 DEF OwnInv
<1>13. \A r \in Slot : Holder(r)' # NoTask => Holder(r)' \in tracked'
  BY <1>1, <1>2, <1>4, <1>6 DEF OwnInv
<1>14. ASSUME NEW u \in tracked'
       PROVE  (\E i \in 1..Len(queue') : queue'[i] = u) \/ \E r \in Slot : Holder(r)' = u
  <2>1. CASE \E i \in 1..Len(queue) : queue[i] = u
    <3>1. PICK i \in 1..Len(queue) : queue[i] = u
      BY <2>1
    <3>2. CASE i = 1
      BY <1>2, <1>4, <3>1, <3>2
    <3>3. CASE i # 1
      <4>1. i \in 2..Len(queue)
        BY <3>3, <1>2
      <4> QED BY <1>3, <3>1, <4>1
    <3> QED BY <3>2, <3>3
  <2>2. CASE \E r \in Slot : Holder(r) = u
    <3>1. u # NoTask
      BY <1>1, HolderType DEF WorkerTypeOK
    <3> QED BY <1>1, <1>4, <2>2, <3>1
  <2> QED BY <1>1, <2>1, <2>2 DEF OwnInv
<1> QED BY <1>7, <1>9, <1>11, <1>12, <1>13, <1>14 DEF OwnInv

\* A finished job gives up its slot and its place in tracked.
LEMMA OwnFinish ==
  ASSUME WorkerTypeOK, OwnInv, NEW s \in Slot, Finish(s)
  PROVE  OwnInv'
<1>1. queue' = queue /\ tracked' = tracked \ {Holder(s)}
  BY DEF Finish, Untrack, Holder
<1>2. /\ Holder(s)' = NoTask
      /\ \A r \in Slot : r # s => Holder(r)' = Holder(r)
  BY DEF Finish, WorkerTypeOK, Holder, Idle
<1>3. Holder(s) # NoTask
  <2>1. slot[s].at \in Stage
    BY DEF Finish, Stage
  <2> QED BY <2>1, JobAt, HolderType DEF Holder
<1>4. \A i \in 1..Len(queue) : queue[i] \in Task
  BY DEF WorkerTypeOK
<1>5. \A t \in tracked : t # NoTask
  BY HolderType DEF WorkerTypeOK
<1> HIDE DEF Holder
<1>6. \A r \in Slot, i \in 1..Len(queue') : Holder(r)' # queue'[i]
  BY <1>1, <1>2, <1>4, HolderType DEF OwnInv
<1>7. \A r \in Slot : Holder(r)' # NoTask => Holder(r)' \in tracked'
  BY <1>1, <1>2, <1>3 DEF OwnInv
<1>8. \A i \in 1..Len(queue') : queue'[i] \in tracked'
  BY <1>1 DEF OwnInv
<1>9. \A t \in tracked' : \/ \E i \in 1..Len(queue') : queue'[i] = t
                          \/ \E r \in Slot : Holder(r)' = t
  BY <1>1, <1>2, <1>5 DEF OwnInv
<1> QED BY <1>1, <1>2, <1>6, <1>7, <1>8, <1>9 DEF OwnInv

LEMMA GotoHolder ==
  ASSUME WorkerTypeOK, NEW s \in Slot, slot[s].at \in Stage,
         NEW stage, Goto(s, stage)
  PROVE  \A r \in Slot : slot'[r].task = slot[r].task
BY JobAt DEF Goto, WorkerTypeOK, Job

LEMMA OwnReset == ASSUME WorkerReset PROVE OwnInv'
BY DEF WorkerReset, OwnInv, Holder, Idle

\* Enqueue, StartJob and Finish move a task; nothing else does.
LEMMA OwnStep == TypeOK /\ OwnInv /\ [Next]_vars => OwnInv'
<1> SUFFICES ASSUME TypeOK, OwnInv, [Next]_vars PROVE OwnInv'
  OBVIOUS
<1>0. WorkerTypeOK /\ (UNCHANGED <<queue, tracked, slot>> => OwnInv')
  BY OwnFrame DEF TypeOK
<1>1. ASSUME NEW w \in Sweep, SweepStart(w) \/ SweepStep(w) PROVE OwnInv'
  <2>1. UNCHANGED slot
    BY <1>1, SweepStepFrame DEF SweepFrame
  <2> QED BY <1>0, <1>1, <2>1, SweepStepFrame, SweepRowCases, OwnEnqueue DEF QueueFrame
<1>2. ASSUME NEW t \in Task, Post(t) \/ HandlerStep(t) PROVE OwnInv'
  BY <1>0, <1>2, HandlerStepFrame, OwnEnqueue DEF HandlerFrame, HandOver
<1>3. ASSUME NEW s \in Slot, JobStep(s) PROVE OwnInv'
  <2>1. CASE Finish(s)
    BY <1>0, <2>1, OwnFinish
  <2>2. CASE /\ JobFrame /\ slot[s].at \in Stage
             /\ \E stage \in Stage : Goto(s, stage)
    BY <1>0, <2>2, GotoHolder, OwnFrame DEF JobFrame, queueVars
  <2> QED BY <1>3, <2>1, <2>2, JobStepFrame
<1>4. CASE ProcessEnds
  BY <1>4, OwnReset DEF ProcessEnds
<1>5. CASE Work
  <2>1. CASE \E s \in Slot : StartJob(s)
    BY <1>0, <2>1, OwnStart
  <2>2. CASE Pump \/ PumpReturn \/ GraceExpires
    BY <1>0, <2>2 DEF Pump, PumpReturn, GraceExpires
  <2> QED BY <1>3, <1>5, <2>1, <2>2 DEF Work, WorkerNext
<1>6. CASE ServerClosed \/ Serve \/ Shutdown \/ (\E t \in Task : Age(t)) \/ UNCHANGED vars
  BY <1>0, <1>6 DEF ServerClosed, Stop, Serve, Shutdown, Age, workerVars, vars
<1> QED BY <1>1, <1>2, <1>4, <1>5, <1>6
        DEF Next, Boot, Tick, Request, Handle, Reap, Exit, Crash

LEMMA OwnHolds == Spec => []OwnInv
<1>1. Init => OwnInv
  BY DEF Init, WorkerInit, OwnInv, Holder, Idle
<1> QED BY <1>1, OwnStep, TypeCorrect, PTL DEF Spec

\* No interleaving of handlers and sweeps queues a task twice, or queues one that is
\* running; and tracked never keeps a task that left, which enqueue() would refuse
\* until the process restarts, and never misses one (task-worker.ts:95-160).
THEOREM TrackedIsExactHolds == Spec => []TrackedIsExact
<1>1. TypeOK /\ OwnInv => TrackedIsExact
  BY OwnInvMeans DEF TypeOK
<1> QED BY <1>1, OwnHolds, TypeCorrect, PTL

------------------------------------------------------------------------------
(* One run per task.  AtMostOneRun is not inductive: a second run is excluded    *)
(* because a task that ran is not QUEUED any more and never becomes QUEUED again *)
(* (a row is inserted once, for a handler that found none), and because a claim  *)
(* that saw QUEUED belongs to the only job of the task.                          *)
KnownInv ==
  /\ \A t \in tracked : Exists(t)
  /\ \A w \in Sweep : \A t \in sweep[w].rows \cup sweep[w].stale : Exists(t)
  /\ \A t \in Task : client[t] \in {"enqueue", "refuse"} => Exists(t)
  /\ \A t \in Task : client[t] \in {"none", "insert"} => ~Exists(t)

RunsInv ==
  /\ \A t \in Task : runs[t] <= 1
  /\ \A t \in Task : runs[t] = 1 => Exists(t) /\ ~Queued(t)
  /\ \A s \in Slot : slot[s].at = "claimWrite" => runs[slot[s].task] = 0

\* No row appears, disappears or goes back to QUEUED.
Forward == \A t \in Task : (Exists(t)' <=> Exists(t)) /\ (Queued(t)' => Queued(t))

LEMMA ForwardWrites ==
  ASSUME LogTypeOK, NEW t \in Task, Exists(t)
  PROVE  /\ UNCHANGED row => Forward
         /\ PickUp(t) => Forward /\ ~Queued(t)'
         /\ MarkFailed(t) => Forward
         /\ RecordWorkerError(t) => Forward
         /\ \A stage : RouteWrite(stage, t) => Forward
<1> USE DEF LogTypeOK, Forward, Exists, Queued
<1>1. UNCHANGED row => Forward
  OBVIOUS
<1>2. PickUp(t) => Forward /\ ~Queued(t)'
  BY DEF PickUp, Row
<1>3. \A s \in {"CLASSIFIED", "DISPATCHED", "COMPLETED", "FAILED"} : SetStatus(t, s) => Forward
  BY DEF SetStatus, Row
<1> HIDE DEF LogTypeOK, Forward, Exists, Queued
<1>4. \A stage : RouteWrite(stage, t) =>
         \/ SetStatus(t, row[t].status)
         \/ \E s \in {"CLASSIFIED", "DISPATCHED", "COMPLETED", "FAILED"} : SetStatus(t, s)
  BY DEF RouteWrite, Written
<1>0. SetStatus(t, row[t].status) => Forward
  BY DEF SetStatus, LogTypeOK, Forward, Exists, Queued, Row
<1>5. \A stage : RouteWrite(stage, t) => Forward
  BY <1>0, <1>3, <1>4
<1> QED BY <1>1, <1>2, <1>3, <1>5 DEF MarkFailed, RecordWorkerError

LEMMA JobKnown ==
  ASSUME TypeOK, OwnInv, KnownInv, NEW s \in Slot, slot[s].at \in Stage
  PROVE  slot[s].task \in Task /\ Exists(slot[s].task)
BY JobAt, HolderType DEF TypeOK, OwnInv, KnownInv, Holder

\* A job's step moves its row forward, if it changes it.
LEMMA JobForward ==
  ASSUME TypeOK, OwnInv, KnownInv, NEW s \in Slot, JobStep(s)
  PROVE  Forward
<1> DEFINE t == slot[s].task
<1>1. slot[s].at \in Stage
  BY JobStepFrame DEF Finish, Stage
<1>2. LogTypeOK /\ t \in Task /\ Exists(t)
  BY <1>1, JobKnown DEF TypeOK
<1>3. \/ UNCHANGED row \/ PickUp(t) \/ MarkFailed(t) \/ RecordWorkerError(t)
      \/ \E stage : RouteWrite(stage, t)
  BY Zenon DEF JobStep, Claim, ClaimWrite, ClaimError, RouteThrows, WorkerError, Route,
               NoAgent, RouteError, RouteCatch, Finish
<1> QED BY <1>2, <1>3, ForwardWrites

LEMMA SweepForward ==
  ASSUME TypeOK, KnownInv, NEW w \in Sweep, SweepStart(w) \/ SweepStep(w)
  PROVE  Forward
<1> USE DEF TypeOK
<1>1. UNCHANGED row => Forward
  BY DEF Forward, Exists, Queued
<1>2. CASE SweepBlank(w)
  <2>1. FirstOf(sweep[w].rows) \in sweep[w].rows /\ sweep[w].rows \subseteq Task
    BY <1>2, FirstOfType DEF SweepBlank, ReaperTypeOK, SweepState
  <2>2. Exists(FirstOf(sweep[w].rows))
    BY <2>1 DEF KnownInv
  <2> QED BY <1>1, <1>2, <2>1, <2>2, ForwardWrites DEF SweepBlank
<1>3. CASE \E t \in Task : SweepMarkStale(w, t)
  <2>1. PICK t \in Task : SweepMarkStale(w, t)
    BY <1>3
  <2>2. Exists(t)
    BY <2>1 DEF SweepMarkStale, KnownInv
  <2> QED BY <1>1, <2>1, <2>2, ForwardWrites DEF SweepMarkStale
<1>4. CASE SweepPurge(w)
  <2>1. PICK old : PurgeExpiredPrompts(old)
    BY <1>4 DEF SweepPurge
  <2> QED BY <2>1 DEF PurgeExpiredPrompts, Forward, Exists, Queued, LogTypeOK, Row
<1>5. CASE \/ SweepStart(w) \/ SweepPage(w) \/ SweepRow(w) \/ SweepPageEnd(w)
           \/ SweepFindStale(w) \/ SweepStaleDone(w)
  <2>1. UNCHANGED row
    BY <1>5, Zenon DEF SweepStart, SweepPage, SweepRow, SweepPageEnd, SweepFindStale,
                       SweepStaleDone
  <2> QED BY <1>1, <2>1
<1> QED BY <1>2, <1>3, <1>4, <1>5, Zenon DEF SweepStep

\* A sweep has the ids it had, and reads ids of rows that are QUEUED or in flight.
HasRead(v, t) == t \in sweep[v].rows \cup sweep[v].stale

LEMMA SweepReads ==
  ASSUME TypeOK, NEW w \in Sweep, SweepStart(w) \/ SweepStep(w),
         NEW v \in Sweep, NEW t \in sweep'[v].rows \cup sweep'[v].stale
  PROVE  HasRead(v, t) \/ Queued(t) \/ Running(t)
<1> DEFINE Known == HasRead(v, t) \/ Queued(t) \/ Running(t)
<1> SUFFICES Known
  OBVIOUS
<1>1. sweep \in [Sweep -> SweepState]
  BY DEF TypeOK, ReaperTypeOK
<1>2. \A r : sweep' = [sweep EXCEPT ![w] = r] => (v = w /\ t \in r.rows \cup r.stale) \/ Known
  BY <1>1 DEF HasRead
<1>3. SweepOff.rows = {} /\ SweepOff.stale = {}
  BY DEF SweepOff
<1>4. ASSUME NEW stage, SweepGoto(w, stage) PROVE Known
  BY <1>1, <1>4 DEF SweepGoto, SweepState, HasRead
<1>5. ASSUME NEW d, FindStaleNext(w, d) PROVE Known
  BY <1>2, <1>5 DEF FindStaleNext, SweepOff
<1>6. CASE SweepStart(w) \/ SweepStaleDone(w) \/ SweepPurge(w)
  BY <1>2, <1>6 DEF SweepStart, SweepStaleDone, SweepPurge, SweepOff
<1>7. CASE SweepPage(w)
  <2> DEFINE page == FindQueuedPage(sweep[w].cursor)
             r == [sweep[w] EXCEPT !.at = "rows", !.rows = page,
                                   !.blank = {u \in page : ~row[u].prompt},
                                   !.full = (Cardinality(page) >= PageSize),
                                   !.cursor = LastOf(page)]
  <2>1. FindStaleNext(w, TRUE) \/ sweep' = [sweep EXCEPT ![w] = r]
    BY <1>7, Zenon DEF SweepPage
  <2>2. \A u \in page : Queued(u)
    BY DEF FindQueuedPage
  <2>3. r.rows = page /\ r.stale = sweep[w].stale
    BY <1>1 DEF SweepState
  <2> HIDE DEF page, r
  <2> QED BY <1>2, <1>5, <2>1, <2>2, <2>3 DEF HasRead
<1>8. CASE SweepRow(w) \/ SweepBlank(w)
  <2>1. \/ SweepGoto(w, "blank") \/ FindStaleNext(w, FALSE)
        \/ sweep' = [sweep EXCEPT ![w].rows = @ \ {FirstOf(sweep[w].rows)}]
        \/ sweep' = [sweep EXCEPT ![w].at = "rows", ![w].rows = @ \ {FirstOf(sweep[w].rows)}]
    BY <1>8, Zenon DEF SweepRow, SweepBlank
  <2>2. SweepGoto(w, "blank") \/ FindStaleNext(w, FALSE) => Known
    BY <1>4, <1>5
  <2>3. CASE sweep' = [sweep EXCEPT ![w].rows = @ \ {FirstOf(sweep[w].rows)}]
    BY <1>1, <2>3 DEF SweepState, HasRead
  <2>4. CASE sweep' = [sweep EXCEPT ![w].at = "rows", ![w].rows = @ \ {FirstOf(sweep[w].rows)}]
    BY <1>1, <2>4 DEF SweepState, HasRead
  <2> QED BY <2>1, <2>2, <2>3, <2>4
<1>9. CASE SweepPageEnd(w)
  BY <1>4, <1>5, <1>9 DEF SweepPageEnd
<1>10. CASE SweepFindStale(w)
  <2>1. \A u \in FindStale : Running(u)
    BY DEF FindStale, IsStale
  <2>2. [sweep[w] EXCEPT !.at = "markStale", !.stale = FindStale].stale = FindStale
    BY <1>1 DEF SweepState
  <2>3. [sweep[w] EXCEPT !.at = "markStale", !.stale = FindStale].rows = sweep[w].rows
    BY <1>1 DEF SweepState
  <2> QED BY <1>2, <1>4, <1>10, <2>1, <2>2, <2>3 DEF SweepFindStale, HasRead
<1>11. CASE \E u \in Task : SweepMarkStale(w, u)
  BY <1>1, <1>11 DEF SweepMarkStale, SweepState, HasRead
<1> QED BY <1>6, <1>7, <1>8, <1>9, <1>10, <1>11, Zenon DEF SweepStep

\* A sweep only ever reads ids of rows that exist.
LEMMA SweepKnown ==
  ASSUME TypeOK, KnownInv, NEW w \in Sweep, SweepStart(w) \/ SweepStep(w),
         NEW v \in Sweep, NEW t \in sweep'[v].rows \cup sweep'[v].stale
  PROVE  Exists(t)
BY SweepReads DEF KnownInv, HasRead, Exists, Queued, Running, InFlight

LEMMA EnqueueTracks ==
  ASSUME NEW t \in Task, Enqueue(t)
  PROVE  tracked' \subseteq tracked \cup {t}
BY Zenon DEF Enqueue

\* The exception to Forward: the INSERT of a handler, for a task that has no row.
LEMMA HandlerForward ==
  ASSUME TypeOK, KnownInv, NEW t \in Task, Post(t) \/ HandlerStep(t)
  PROVE  \/ Forward
         \/ /\ client[t] = "insert" /\ client'[t] \in {"enqueue", "error"} /\ Exists(t)'
            /\ \A u \in Task \ {t} : (Exists(u)' <=> Exists(u)) /\ (Queued(u)' => Queued(u))
<1>1. UNCHANGED row => Forward
  BY DEF Forward, Exists, Queued
<1>2. CASE Insert(t)
  <2>1. client[t] = "insert" /\ client'[t] \in {"enqueue", "error"}
    BY <1>2 DEF Insert, Handler, Answers, TypeOK, IntakeTypeOK
  <2>2. CASE CreateQueued(t)
    BY <2>1, <2>2 DEF CreateQueued, Exists, Queued, TypeOK, LogTypeOK
  <2> QED BY <1>1, <1>2, <2>2 DEF Insert
<1>3. CASE Refuse(t)
  <2>1. Exists(t)
    BY <1>3 DEF Refuse, Handler, KnownInv
  <2> QED BY <1>1, <1>3, <2>1, ForwardWrites DEF Refuse, TypeOK
<1>4. CASE Post(t) \/ HandOver(t)
  BY <1>1, <1>4 DEF Post, HandOver
<1> QED BY <1>2, <1>3, <1>4 DEF HandlerStep

LEMMA KnownStep == TypeOK /\ OwnInv /\ KnownInv /\ [Next]_vars => KnownInv'
<1> SUFFICES ASSUME TypeOK, OwnInv, KnownInv, [Next]_vars PROVE KnownInv'
  OBVIOUS
<1>0. /\ tracked \subseteq Task /\ client \in [Task -> Client]
      /\ sweep \in [Sweep -> SweepState]
      /\ \A w \in Sweep : sweep[w].rows \cup sweep[w].stale \subseteq Task
  BY DEF TypeOK, WorkerTypeOK, IntakeTypeOK, ReaperTypeOK, SweepState
<1>1. ASSUME Forward, UNCHANGED <<client, sweep>>, tracked' \subseteq tracked PROVE KnownInv'
  BY <1>0, <1>1 DEF KnownInv, Forward
<1>2. UNCHANGED row => Forward
  BY DEF Forward, Exists, Queued
<1>3. ASSUME NEW w \in Sweep, SweepStart(w) \/ SweepStep(w), UNCHANGED client PROVE KnownInv'
  <2>1. Forward
    BY <1>3, SweepForward
  <2>2. \A v \in Sweep : \A t \in sweep'[v].rows \cup sweep'[v].stale : t \in Task /\ Exists(t)
    <3>1. \A v \in Sweep : sweep'[v].rows \cup sweep'[v].stale \subseteq Task
      BY <1>3, SweepStepType DEF ReaperTypeOK, SweepState
    <3> QED BY <1>3, <3>1, SweepKnown
  <2>3. \A t \in tracked' : t \in Task /\ Exists(t)
    <3>1. CASE SweepRow(w)
      <4>1. FirstOf(sweep[w].rows) \in sweep[w].rows
        BY <1>0, <3>1, FirstOfType DEF SweepRow
      <4>2. FirstOf(sweep[w].rows) \in Task /\ Exists(FirstOf(sweep[w].rows))
        BY <1>0, <4>1 DEF KnownInv
      <4>3. tracked' \subseteq tracked \cup {FirstOf(sweep[w].rows)}
        BY <3>1, SweepRowCases, EnqueueTracks DEF QueueFrame
      <4> QED BY <1>0, <4>2, <4>3 DEF KnownInv
    <3>2. CASE QueueFrame
      BY <1>0, <3>2 DEF QueueFrame, KnownInv
    <3> QED BY <1>3, <3>1, <3>2, SweepStepFrame
  <2> QED BY <1>3, <2>1, <2>2, <2>3 DEF KnownInv, Forward
<1>4. ASSUME NEW t \in Task, Post(t) \/ HandlerStep(t), UNCHANGED sweep PROVE KnownInv'
  <2>1. \A u \in Task : u # t => client'[u] = client[u]
    <3>1. PICK a : Answers(t, a)
      BY <1>4, Zenon DEF Post, HandlerStep, Insert, HandOver, Refuse
    <3> QED BY <1>0, <3>1 DEF Answers
  <2>2. \A u \in Task : Exists(u) => Exists(u)'
    BY <1>4, HandlerForward DEF Forward
  <2>3. \A u \in tracked' : u \in Task /\ Exists(u)
    <3>1. CASE HandOver(t)
      BY <1>0, <3>1, EnqueueTracks DEF HandOver, Handler, KnownInv
    <3>2. CASE UNCHANGED tracked
      BY <1>0, <3>2 DEF KnownInv
    <3> QED BY <1>4, <3>1, <3>2, HandlerStepFrame
  <2>4. ASSUME NEW u \in Task, client'[u] \in {"enqueue", "refuse"} PROVE Exists(u)'
    <3>1. CASE u # t
      BY <2>1, <2>2, <2>4, <3>1 DEF KnownInv
    <3>2. CASE u = t /\ Insert(t)
      BY <1>0, <2>4, <3>2 DEF Insert, Answers, CreateQueued, Exists, TypeOK, LogTypeOK
    <3>3. CASE u = t /\ HandOver(t)
      BY <2>2, <3>3 DEF HandOver, Handler, KnownInv
    <3>4. CASE u = t /\ (Post(t) \/ Refuse(t))
      BY <1>0, <2>4, <3>4 DEF Post, Refuse, Answers
    <3> QED BY <1>4, <3>1, <3>2, <3>3, <3>4 DEF HandlerStep
  <2>5. ASSUME NEW u \in Task, client'[u] \in {"none", "insert"} PROVE ~Exists(u)'
    <3>1. client[u] \in {"none", "insert"}
      <4>1. CASE u = t
        BY <1>0, <1>4, <2>5, <4>1
           DEF Post, HandlerStep, Insert, HandOver, Refuse, Answers, Handler
      <4> QED BY <2>1, <2>5, <4>1
    <3>2. ~(client[u] = "insert" /\ client'[u] \in {"enqueue", "error"})
      BY <2>5
    <3> QED BY <1>4, <3>1, <3>2, HandlerForward DEF KnownInv, Forward
  <2> QED BY <1>0, <1>4, <2>2, <2>3, <2>4, <2>5 DEF KnownInv
<1>5. ASSUME NEW s \in Slot, JobStep(s), UNCHANGED <<client, sweep>> PROVE KnownInv'
  <2>1. tracked' \subseteq tracked
    BY <1>5, JobStepFrame DEF Finish, Untrack, JobFrame, queueVars
  <2> QED BY <1>1, <1>5, <2>1, JobForward
<1>6. CASE ProcessEnds
  <2>1. Forward /\ tracked' = {}
    BY <1>2, <1>6 DEF ProcessEnds, WorkerReset
  <2>2. \A w \in Sweep : sweep'[w].rows \cup sweep'[w].stale = {}
    BY <1>6 DEF ProcessEnds, ReaperReset, SweepOff
  <2>3. \A t \in Task : \/ client'[t] = client[t] /\ client'[t] \notin Handling
                        \/ client'[t] = "lost"
    BY <1>6 DEF ProcessEnds, IntakeReset
  <2> QED BY <2>1, <2>2, <2>3 DEF KnownInv, Forward, Handling
<1>7. CASE Work
  <2>1. CASE Pump \/ PumpReturn \/ GraceExpires \/ (\E s \in Slot : StartJob(s))
    BY <1>1, <1>2, <1>7, <2>1 DEF Work, Pump, PumpReturn, GraceExpires, StartJob
  <2> QED BY <1>5, <1>7, <2>1 DEF Work, WorkerNext
<1>8. CASE \E t \in Task : Age(t)
  <2>1. Forward
    BY <1>8 DEF Age, Forward, Exists, Queued, TypeOK, LogTypeOK, Row
  <2> QED BY <1>1, <1>8, <2>1 DEF Age, workerVars
<1>9. CASE ServerClosed \/ Serve \/ Shutdown \/ UNCHANGED vars
  BY <1>1, <1>2, <1>9 DEF ServerClosed, Stop, Serve, Shutdown, workerVars, vars
<1> QED BY <1>3, <1>4, <1>6, <1>7, <1>8, <1>9
        DEF Next, Boot, Tick, Request, Handle, Reap, Exit, Crash

\* What keeps RunsInv: no new run, no new claimWrite, rows move forward.
LEMMA RunsFrame ==
  ASSUME WorkerTypeOK, RunsInv, UNCHANGED runs,
         \A t \in Task : runs[t] = 1 => Exists(t)' /\ ~Queued(t)',
         \A s \in Slot : slot'[s].at = "claimWrite" => UNCHANGED slot[s]
  PROVE  RunsInv'
BY DEF RunsInv

\* The steps of a job that end in a claim or in a call of routeTask.
LEMMA ClaimRuns ==
  ASSUME TypeOK, OwnInv, KnownInv, RunsInv, NEW s \in Slot, Claim(s) \/ ClaimWrite(s)
  PROVE  RunsInv'
<1>1. PICK t \in Task :
        /\ slot[s].at \in Stage /\ slot[s].at \in {"claim", "claimWrite"}
        /\ t = slot[s].task /\ Exists(t) /\ LogTypeOK /\ WorkerTypeOK
  <2>1. slot[s].at \in Stage /\ slot[s].at \in {"claim", "claimWrite"}
    BY DEF Claim, ClaimWrite, At, Stage
  <2> QED BY <2>1, JobKnown DEF TypeOK
<1>2. slot \in [Slot -> Job \cup {Idle}] /\ runs \in [Task -> Nat]
  BY <1>1 DEF WorkerTypeOK
<1>3. \A r \in Slot : r # s => slot[r].task # t
  BY <1>1, HolderType DEF OwnInv, Holder
<1>4. \A u \in Task : runs[u] = 0 \/ runs[u] = 1
  BY <1>2 DEF RunsInv
<1>5. Forward
  BY JobForward DEF JobStep
<1>6. CASE Goto(s, "done") /\ UNCHANGED runs
  BY <1>1, <1>2, <1>5, <1>6, RunsFrame DEF Goto, Forward, RunsInv
<1>7. CASE Goto(s, "claimWrite") /\ UNCHANGED runs /\ Claimable(t)
  <2>1. runs[t] = 0
    BY <1>1, <1>4, <1>7 DEF RunsInv, Claimable
  <2>2. slot'[s].task = t /\ \A r \in Slot : r # s => slot'[r] = slot[r]
    BY <1>1, <1>2, <1>7, GotoHolder DEF Goto
  <2> QED BY <1>5, <1>7, <2>1, <2>2 DEF RunsInv, Forward
<1>8. CASE PickUp(t) /\ BeginRoute(s) /\ (Claimable(t) \/ slot[s].at = "claimWrite")
  <2>1. runs[t] = 0
    BY <1>1, <1>4, <1>8 DEF RunsInv, Claimable
  <2>2. runs' = [runs EXCEPT ![t] = 1] /\ slot' = [slot EXCEPT ![s].at = "begin"]
    BY <1>1, <1>2, <1>8, <2>1 DEF BeginRoute, Goto
  <2>3. \A u \in Task : runs'[u] <= 1 /\ (u # t => runs'[u] = runs[u])
    BY <1>2, <1>4, <2>2
  <2>4. Exists(t)' /\ ~Queued(t)'
    BY <1>1, <1>5, <1>8, ForwardWrites DEF Forward
  <2>5. \A r \in Slot : slot'[r].at = "claimWrite" => r # s /\ slot'[r] = slot[r]
    BY <1>2, <2>2
  <2>6. ASSUME NEW r \in Slot, slot'[r].at = "claimWrite" PROVE runs'[slot'[r].task] = 0
    <3>1. r # s /\ slot'[r] = slot[r]
      BY <2>5, <2>6
    <3>2. slot[r].at \in Stage
      BY <2>6, <3>1 DEF Stage
    <3>3. slot[r].task \in Task /\ slot[r].task # t
      BY <1>1, <1>3, <3>1, <3>2, JobAt
    <3> QED BY <2>3, <2>6, <3>1, <3>3 DEF RunsInv
  <2>7. \A u \in Task : runs'[u] = 1 => Exists(u)' /\ ~Queued(u)'
    BY <1>5, <2>3, <2>4 DEF RunsInv, Forward
  <2> QED BY <2>3, <2>6, <2>7 DEF RunsInv
<1>9. \/ Goto(s, "done") /\ UNCHANGED runs
      \/ Goto(s, "claimWrite") /\ UNCHANGED runs /\ Claimable(t)
      \/ PickUp(t) /\ BeginRoute(s) /\ (Claimable(t) \/ slot[s].at = "claimWrite")
  <2>1. t = slot[s].task
    BY <1>1
  <2> QED BY <2>1, Zenon DEF Claim, ClaimWrite, At
<1> QED BY <1>6, <1>7, <1>8, <1>9

\* The other steps of a job run nothing and claim nothing.
LEMMA JobRuns ==
  ASSUME TypeOK, OwnInv, KnownInv, RunsInv, NEW s \in Slot, JobStep(s)
  PROVE  RunsInv'
<1>0. slot \in [Slot -> Job \cup {Idle}]
  BY DEF TypeOK, WorkerTypeOK
<1>1. CASE Claim(s) \/ ClaimWrite(s)
  BY <1>1, ClaimRuns
<1>2. CASE \/ ClaimError(s) \/ RouteThrows(s) \/ WorkerError(s) \/ Route(s)
           \/ NoAgent(s) \/ RouteError(s) \/ RouteCatch(s) \/ Finish(s)
  <2>1. UNCHANGED runs
    BY <1>2, Zenon DEF ClaimError, RouteThrows, WorkerError, Route, NoAgent, RouteError,
                       RouteCatch, Finish
  <2>2. \/ Finish(s)
        \/ \E stage \in Stage \ {"claimWrite"} : Goto(s, stage)
    <3>1. \A stage \in RouteStage : RouteNext(stage) \subseteq Stage \ {"claimWrite"}
      BY DEF RouteNext, RouteStage, LiveStage, Stage
    <3>2. {"workerError", "done", "catch"} \subseteq Stage \ {"claimWrite"}
      BY DEF Stage, LiveStage, RouteStage
    <3> QED BY <1>2, <3>1, <3>2 DEF ClaimError, RouteThrows, WorkerError, Route, NoAgent,
                                    RouteError, RouteCatch
  <2>3. \A r \in Slot : slot'[r].at = "claimWrite" => slot'[r] = slot[r]
    <3>1. CASE Finish(s)
      BY <1>0, <3>1 DEF Finish, Idle
    <3>2. ASSUME NEW stage \in Stage \ {"claimWrite"}, Goto(s, stage)
          PROVE  \A r \in Slot : slot'[r].at = "claimWrite" => slot'[r] = slot[r]
      <4>1. CASE slot[s] \in Job
        BY <1>0, <3>2, <4>1 DEF Goto, Job
      <4>2. CASE slot[s] = Idle
        BY <1>0, <3>2, <4>2 DEF Goto, Idle
      <4> QED BY <1>0, <4>1, <4>2
    <3> QED BY <2>2, <3>1, <3>2
  <2>4. \A t \in Task : runs[t] = 1 => Exists(t)' /\ ~Queued(t)'
    BY JobForward DEF Forward, RunsInv
  <2> QED BY <2>1, <2>3, <2>4, RunsFrame DEF TypeOK
<1> QED BY <1>1, <1>2 DEF JobStep

LEMMA RunsStep == TypeOK /\ OwnInv /\ KnownInv /\ RunsInv /\ [Next]_vars => RunsInv'
<1> SUFFICES ASSUME TypeOK, OwnInv, KnownInv, RunsInv, [Next]_vars PROVE RunsInv'
  OBVIOUS
<1>0. slot \in [Slot -> Job \cup {Idle}]
  BY DEF TypeOK, WorkerTypeOK
<1>1. ASSUME Forward, UNCHANGED <<runs, slot>> PROVE RunsInv'
  BY <1>1, RunsFrame DEF Forward, RunsInv, TypeOK
<1>2. UNCHANGED row => Forward
  BY DEF Forward, Exists, Queued
<1>3. ASSUME NEW w \in Sweep, SweepStart(w) \/ SweepStep(w) PROVE RunsInv'
  BY <1>1, <1>3, SweepForward, SweepStepFrame DEF SweepFrame
<1>4. ASSUME NEW t \in Task, Post(t) \/ HandlerStep(t) PROVE RunsInv'
  <2>1. UNCHANGED <<runs, slot>>
    BY <1>4, HandlerStepFrame DEF HandlerFrame
  <2>2. CASE Forward
    BY <1>1, <2>1, <2>2
  <2>3. CASE /\ client[t] = "insert"
             /\ \A u \in Task \ {t} : (Exists(u)' <=> Exists(u)) /\ (Queued(u)' => Queued(u))
    <3>1. runs[t] # 1
      BY <2>3 DEF KnownInv, RunsInv
    <3>2. \A u \in Task : runs[u] = 1 => Exists(u)' /\ ~Queued(u)'
      BY <2>3, <3>1 DEF RunsInv
    <3> QED BY <2>1, <3>2, RunsFrame DEF TypeOK
  <2> QED BY <1>4, <2>2, <2>3, HandlerForward
<1>5. CASE ProcessEnds
  <2>1. UNCHANGED <<row, runs>> /\ \A s \in Slot : slot'[s].at # "claimWrite"
    BY <1>5 DEF ProcessEnds, WorkerReset, Idle
  <2> QED BY <1>2, <2>1, RunsFrame DEF Forward, RunsInv, TypeOK
<1>6. CASE Work
  <2>1. CASE \E s \in Slot : StartJob(s)
    <3>1. PICK s \in Slot : StartJob(s)
      BY <2>1
    <3>2. \A r \in Slot : slot'[r].at = "claimWrite" => slot'[r] = slot[r]
      BY <1>0, <3>1 DEF StartJob
    <3> QED BY <1>2, <3>1, <3>2, RunsFrame DEF StartJob, Forward, RunsInv, TypeOK
  <2>2. CASE Pump \/ PumpReturn \/ GraceExpires
    BY <1>1, <1>2, <2>2 DEF Pump, PumpReturn, GraceExpires
  <2> QED BY <1>6, <2>1, <2>2, JobRuns DEF Work, WorkerNext
<1>7. CASE \E t \in Task : Age(t)
  <2>1. Forward
    BY <1>7 DEF Age, Forward, Exists, Queued, TypeOK, LogTypeOK, Row
  <2> QED BY <1>1, <1>7, <2>1 DEF Age, workerVars
<1>8. CASE ServerClosed \/ Serve \/ Shutdown \/ UNCHANGED vars
  BY <1>1, <1>2, <1>8 DEF ServerClosed, Stop, Serve, Shutdown, workerVars, vars
<1> QED BY <1>3, <1>4, <1>5, <1>6, <1>7, <1>8
        DEF Next, Boot, Tick, Request, Handle, Reap, Exit, Crash

LEMMA RunsInit == Init => KnownInv /\ RunsInv
<1> SUFFICES ASSUME Init PROVE KnownInv /\ RunsInv
  OBVIOUS
<1> USE DEF Init, LogInit, WorkerInit, IntakeInit, ReaperInit
<1>1. \A t \in Task : ~Exists(t) /\ runs[t] = 0 /\ client[t] = "none"
  BY DEF Exists, NoRow
<1>2. KnownInv
  BY <1>1 DEF KnownInv, SweepOff
<1>3. RunsInv
  BY <1>1 DEF RunsInv, Idle
<1> QED BY <1>2, <1>3

LEMMA KnownHolds == Spec => [](KnownInv /\ RunsInv)
BY RunsInit, KnownStep, RunsStep, TypeCorrect, OwnHolds, PTL DEF Spec

\* routeTask, with its providers' cost, is invoked at most once per task in any
\* history of crashes, restarts, faults and overlapping sweeps, whether or not the
\* database serializes claims and whether or not jobs outlive the recovery age.
THEOREM AtMostOneRunHolds == Spec => []AtMostOneRun
<1>1. RunsInv => AtMostOneRun
  BY DEF RunsInv, AtMostOneRun
<1> QED BY <1>1, KnownHolds, PTL

------------------------------------------------------------------------------
(* The refinement of TaskBoard.  It needs one claim at a time: a claim that read *)
(* QUEUED before another writer failed the row would begin a closed task.        *)
NoSplitClaim == \A s \in Slot : slot[s].at # "claimWrite"

\* The task t moves along the board, or stays where it is.
Moves(t) ==
  \/ BoardPhase'[t] = BoardPhase[t]
  \/ BoardPhase[t] = "none" /\ BoardPhase'[t] = "open"
  \/ BoardPhase[t] = "open" /\ BoardPhase'[t] \in {"running", "closed"}
  \/ BoardPhase[t] = "running" /\ BoardPhase'[t] = "closed"

LEMMA OneMoves ==
  ASSUME NEW t \in Task, Moves(t),
         \A u \in Task : u # t => BoardPhase'[u] = BoardPhase[u]
  PROVE  Board!Turn \/ UNCHANGED BoardPhase
<1>1. /\ BoardPhase = [u \in Task |-> BoardPhase[u]]
      /\ BoardPhase' = [u \in Task |-> BoardPhase'[u]]
  BY DEF BoardPhase
<1>2. ASSUME NEW x, BoardPhase'[t] = x PROVE BoardPhase' = [BoardPhase EXCEPT ![t] = x]
  BY <1>1, <1>2
<1>3. CASE BoardPhase'[t] = BoardPhase[t]
  BY <1>1, <1>3
<1>4. CASE BoardPhase[t] = "none" /\ BoardPhase'[t] = "open"
  <2>1. Board!Post(t)
    BY <1>2, <1>4 DEF Board!Post, Board!Move
  <2> QED BY <2>1 DEF Board!Turn
<1>5. CASE BoardPhase[t] = "open" /\ BoardPhase'[t] = "running"
  <2>1. Board!Begin(t)
    BY <1>2, <1>5 DEF Board!Begin, Board!Move
  <2> QED BY <2>1 DEF Board!Turn
<1>6. CASE BoardPhase[t] = "open" /\ BoardPhase'[t] = "closed"
  <2>1. Board!Withdraw(t)
    BY <1>2, <1>6 DEF Board!Withdraw, Board!Move
  <2> QED BY <2>1 DEF Board!Turn
<1>7. CASE BoardPhase[t] = "running" /\ BoardPhase'[t] = "closed"
  <2>1. Board!End({t})
    BY <1>1, <1>7 DEF Board!End
  <2> QED BY <2>1 DEF Board!Turn
<1> QED BY <1>3, <1>4, <1>5, <1>6, <1>7 DEF Moves

\* The phase of a task, case by case.
LEMMA PhaseOf ==
  ASSUME NEW t \in Task
  PROVE  BoardPhase[t] = IF ~Exists(t) THEN "none"
                         ELSE IF Queued(t) THEN "open"
                         ELSE IF Routed(t) THEN "running" ELSE "closed"
BY DEF BoardPhase

LEMMA PhaseOfNext ==
  ASSUME NEW t \in Task
  PROVE  BoardPhase'[t] = IF ~Exists(t)' THEN "none"
                          ELSE IF Queued(t)' THEN "open"
                          ELSE IF Routed(t)' THEN "running" ELSE "closed"
BY DEF BoardPhase

\* A step that concerns the row and the job of t alone.
LEMMA ForwardMoves ==
  ASSUME NEW t \in Task, Forward, Routed(t)' => Routed(t) \/ Queued(t),
         \A u \in Task : u # t => row'[u].status = row[u].status /\ (Routed(u)' <=> Routed(u))
  PROVE  Board!Turn \/ UNCHANGED BoardPhase
<1>1. Moves(t)
  <2>1. (Exists(t)' <=> Exists(t)) /\ (Queued(t)' => Queued(t))
    BY DEF Forward
  <2>2. Queued(t) => Exists(t)
    BY DEF Queued, Exists
  <2>3. Queued(t)' => Exists(t)'
    BY DEF Queued, Exists
  <2> QED BY <2>1, <2>2, <2>3, PhaseOf, PhaseOfNext DEF Moves
<1>2. ASSUME NEW u \in Task, u # t PROVE BoardPhase'[u] = BoardPhase[u]
  <2>1. (Exists(u)' <=> Exists(u)) /\ (Queued(u)' <=> Queued(u))
    BY <1>2 DEF Exists, Queued
  <2> QED BY <1>2, <2>1, PhaseOf, PhaseOfNext
<1> QED BY <1>1, <1>2, OneMoves

\* Which rows a statement leaves alone.
LEMMA OtherRows ==
  ASSUME NEW t \in Task, NEW u \in Task, u # t, LogTypeOK
  PROVE  /\ PickUp(t) => row'[u] = row[u]
         /\ CreateQueued(t) => row'[u] = row[u]
         /\ MarkFailed(t) => row'[u] = row[u]
         /\ RecordWorkerError(t) => row'[u] = row[u]
         /\ \A stage : RouteWrite(stage, t) => row'[u] = row[u]
<1>1. \A s : SetStatus(t, s) => row'[u] = row[u]
  BY DEF SetStatus, LogTypeOK
<1>2. \A stage : RouteWrite(stage, t) => \E s : SetStatus(t, s)
  BY DEF RouteWrite
<1>3. PickUp(t) \/ CreateQueued(t) => row'[u] = row[u]
  BY DEF PickUp, CreateQueued, LogTypeOK
<1> QED BY <1>1, <1>2, <1>3 DEF MarkFailed, RecordWorkerError

Claiming(t) == \E s \in Slot : slot[s].task = t /\ slot[s].at = "claimWrite"

\* A job's step concerns the row and the job of its own task alone.
LEMMA JobElsewhere ==
  ASSUME TypeOK, OwnInv, KnownInv, NEW s \in Slot, JobStep(s),
         NEW u \in Task, u # slot[s].task
  PROVE  row'[u] = row[u] /\ (Routed(u)' <=> Routed(u)) /\ (Claiming(u)' <=> Claiming(u))
<1>1. slot[s].at \in Stage
  BY JobStepFrame DEF Finish, Stage
<1>2. PICK t \in Task :
        /\ t = slot[s].task /\ LogTypeOK /\ slot[s] \in Job /\ NoTask \notin Task
        /\ slot \in [Slot -> Job \cup {Idle}]
  BY <1>1, JobAt, TaskAssumption DEF TypeOK, WorkerTypeOK, NoTask, Task
<1>3. \/ slot' = [slot EXCEPT ![s] = Idle]
      \/ \E stage \in Stage : Goto(s, stage)
  BY JobStepFrame DEF Finish
<1>4. \A r \in Slot : r # s => slot'[r] = slot[r]
  BY <1>2, <1>3 DEF Goto
<1>5. slot'[s].task \in {t, NoTask}
  BY <1>2, <1>3 DEF Goto, Idle, Job
<1>6. row'[u] = row[u]
  <2>1. \/ UNCHANGED row \/ PickUp(t) \/ MarkFailed(t) \/ RecordWorkerError(t)
        \/ \E stage : RouteWrite(stage, t)
    BY <1>2, Zenon DEF JobStep, Claim, ClaimWrite, ClaimError, RouteThrows, WorkerError, Route,
                 NoAgent, RouteError, RouteCatch, Finish
  <2> QED BY <1>2, <2>1, OtherRows
<1>7. slot[s].task # u /\ slot'[s].task # u
  BY <1>2, <1>5
<1>8. \A r \in Slot : slot'[r].task = u \/ slot[r].task = u => slot'[r] = slot[r]
  BY <1>4, <1>7
<1>9. Routed(u)' <=> Routed(u)
  BY <1>8 DEF Routed
<1>10. Claiming(u)' <=> Claiming(u)
  BY <1>8 DEF Claiming
<1> QED BY <1>6, <1>9, <1>10

\* It begins its task by the claim of a QUEUED row, read just now or earlier, and
\* the claim clears the age of the row.
LEMMA JobAtHome ==
  ASSUME TypeOK, OwnInv, KnownInv, NEW s \in Slot, JobStep(s)
  PROVE  \E t \in Task :
           /\ t = slot[s].task
           /\ row'[t].stale => row[t].stale
           /\ Routed(t)' => Routed(t) \/ ((Queued(t) \/ Claiming(t)) /\ ~row'[t].stale)
           /\ Claiming(t)' => Queued(t) /\ UNCHANGED row
<1>1. slot[s].at \in Stage
  BY JobStepFrame DEF Finish, Stage
<1>2. PICK t \in Task :
        /\ t = slot[s].task /\ LogTypeOK /\ slot[s] \in Job /\ NoTask \notin Task
        /\ slot \in [Slot -> Job \cup {Idle}]
  BY <1>1, JobAt, TaskAssumption DEF TypeOK, WorkerTypeOK, NoTask, Task
<1>3. \A r \in Slot : r # s => slot'[r] = slot[r] /\ slot'[r].task # t
  <2>1. \/ slot' = [slot EXCEPT ![s] = Idle]
        \/ \E stage \in Stage : Goto(s, stage)
    BY JobStepFrame DEF Finish
  <2>2. \A r \in Slot : r # s => slot'[r] = slot[r]
    BY <1>2, <2>1 DEF Goto
  <2> QED BY <1>2, <2>2 DEF OwnInv, Holder
<1>4. PickUp(t) => ~row'[t].stale
  BY <1>2 DEF PickUp, LogTypeOK, Row
<1>5. row'[t].stale => row[t].stale
  <2>1. \A x : SetStatus(t, x) => row'[t].stale = row[t].stale
    BY <1>2 DEF SetStatus, LogTypeOK, Row
  <2>2. \/ UNCHANGED row \/ PickUp(t) \/ MarkFailed(t) \/ RecordWorkerError(t)
        \/ \E stage : RouteWrite(stage, t)
    BY <1>2, Zenon DEF JobStep, Claim, ClaimWrite, ClaimError, RouteThrows, WorkerError, Route,
                 NoAgent, RouteError, RouteCatch, Finish
  <2>3. \A stage : RouteWrite(stage, t) => \E x : SetStatus(t, x)
    BY DEF RouteWrite
  <2> QED BY <1>4, <2>1, <2>2, <2>3 DEF MarkFailed, RecordWorkerError
<1>6. \A stage : Goto(s, stage) => slot'[s].at = stage
  BY <1>2 DEF Goto, Job
<1>7. {"claimWrite", "workerError", "done", "idle"} \cap LiveStage = {}
  BY DEF LiveStage, RouteStage
<1>8. /\ slot'[s].at \in LiveStage =>
           slot[s].at \in LiveStage \/ (PickUp(t) /\ (Queued(t) \/ slot[s].at = "claimWrite"))
      /\ slot'[s].at = "claimWrite" => Queued(t) /\ UNCHANGED row
  <2>1. CASE Claim(s)
    BY <1>2, <1>6, <1>7, <2>1 DEF Claim, BeginRoute, Claimable
  <2>2. CASE ClaimWrite(s)
    BY <1>2, <1>6, <2>2 DEF ClaimWrite, BeginRoute, At
  <2>3. CASE ClaimError(s) \/ WorkerError(s)
    BY <1>6, <1>7, <2>3 DEF ClaimError, WorkerError
  <2>4. CASE RouteThrows(s) \/ Route(s) \/ NoAgent(s) \/ RouteError(s) \/ RouteCatch(s)
    <3>1. slot[s].at \in LiveStage
      BY <2>4 DEF RouteThrows, Route, NoAgent, RouteError, RouteCatch, At, LiveStage, RouteStage
    <3>2. \A next \in RouteStage : "claimWrite" \notin RouteNext(next)
      BY DEF RouteNext, RouteStage
    <3>3. slot'[s].at # "claimWrite"
      BY <1>6, <2>4, <3>2 DEF RouteThrows, Route, NoAgent, RouteError, RouteCatch
    <3> QED BY <3>1, <3>3
  <2>5. CASE Finish(s)
    BY <1>2, <1>7, <2>5 DEF Finish, Idle
  <2> QED BY <2>1, <2>2, <2>3, <2>4, <2>5 DEF JobStep
<1>9. Routed(t)' => slot'[s].at \in LiveStage
  BY <1>3 DEF Routed
<1>10. Claiming(t)' => slot'[s].at = "claimWrite"
  BY <1>3 DEF Claiming
<1>11. /\ slot[s].at \in LiveStage => Routed(t)
       /\ slot[s].at = "claimWrite" => Claiming(t)
  BY <1>2 DEF Routed, Claiming
<1> QED BY <1>2, <1>4, <1>5, <1>8, <1>9, <1>10, <1>11

\* Where claims are serialized, a job's step begins its task only if it is open.
LEMMA JobMoves ==
  ASSUME TypeOK, OwnInv, KnownInv, NoSplitClaim, NEW s \in Slot, JobStep(s)
  PROVE  Board!Turn \/ UNCHANGED BoardPhase
<1>1. PICK t \in Task : t = slot[s].task /\ (Routed(t)' => Routed(t) \/ Queued(t) \/ Claiming(t))
  BY JobAtHome
<1>2. ~Claiming(t)
  BY DEF Claiming, NoSplitClaim
<1>3. \A u \in Task : u # t => row'[u].status = row[u].status /\ (Routed(u)' <=> Routed(u))
  BY <1>1, JobElsewhere
<1> QED BY <1>1, <1>2, <1>3, JobForward, ForwardMoves

\* With claims serialized, no claim is ever split.
LEMMA ClaimsStaySerial ==
  SerializableClaim /\ TypeOK /\ NoSplitClaim /\ [Next]_vars => NoSplitClaim'
<1> SUFFICES ASSUME SerializableClaim, TypeOK, NoSplitClaim, [Next]_vars PROVE NoSplitClaim'
  OBVIOUS
<1>0. slot \in [Slot -> Job \cup {Idle}]
  BY DEF TypeOK, WorkerTypeOK
<1>1. UNCHANGED slot => NoSplitClaim'
  BY DEF NoSplitClaim
<1>2. ASSUME NEW s \in Slot, NEW job, slot' = [slot EXCEPT ![s] = job], job.at # "claimWrite"
      PROVE  NoSplitClaim'
  BY <1>0, <1>2 DEF NoSplitClaim
<1>3. ASSUME NEW s \in Slot, JobStep(s) PROVE NoSplitClaim'
  <2>1. CASE Finish(s)
    BY <1>0, <2>1 DEF Finish, Idle, NoSplitClaim
  <2>2. CASE ~Finish(s)
    <3>1. slot[s].at \in Stage /\ slot[s] \in Job
      BY <1>3, <2>2, JobStepFrame, JobAt DEF TypeOK
    <3>2. PICK stage \in Stage \ {"claimWrite"} : Goto(s, stage)
      <4>1. \A next \in RouteStage : RouteNext(next) \subseteq Stage \ {"claimWrite"}
        BY DEF RouteNext, RouteStage, LiveStage, Stage
      <4>2. {"workerError", "done", "catch", "begin"} \subseteq Stage \ {"claimWrite"}
        BY DEF Stage, LiveStage, RouteStage
      <4>3. ~ClaimWrite(s)
        BY DEF ClaimWrite, At, NoSplitClaim
      <4>4. Claim(s) => Goto(s, "done") \/ Goto(s, "begin")
        BY DEF Claim, BeginRoute
      <4> QED BY <1>3, <2>2, <4>1, <4>2, <4>3, <4>4
              DEF JobStep, ClaimError, RouteThrows, WorkerError, Route, NoAgent, RouteError, RouteCatch
    <3>3. [slot[s] EXCEPT !.at = stage].at # "claimWrite"
      BY <3>1, <3>2 DEF Job
    <3>4. slot' = [slot EXCEPT ![s] = [slot[s] EXCEPT !.at = stage]]
      BY <3>2 DEF Goto
    <3> QED BY <1>2, <3>3, <3>4
  <2> QED BY <2>1, <2>2
<1>4. CASE Work
  <2>1. CASE \E s \in Slot : StartJob(s)
    BY <1>0, <2>1 DEF StartJob, NoSplitClaim
  <2>2. CASE Pump \/ PumpReturn \/ GraceExpires
    BY <1>1, <2>2 DEF Pump, PumpReturn, GraceExpires
  <2> QED BY <1>3, <1>4, <2>1, <2>2 DEF Work, WorkerNext
<1>5. CASE ProcessEnds
  BY <1>5 DEF ProcessEnds, WorkerReset, NoSplitClaim, Idle
<1>6. ASSUME NEW w \in Sweep, SweepStart(w) \/ SweepStep(w) PROVE NoSplitClaim'
  BY <1>1, <1>6, SweepStepFrame DEF SweepFrame
<1>7. ASSUME NEW t \in Task, Post(t) \/ HandlerStep(t) PROVE NoSplitClaim'
  BY <1>1, <1>7, HandlerStepFrame DEF HandlerFrame
<1>8. CASE (\E t \in Task : Age(t)) \/ ServerClosed \/ Serve \/ Shutdown \/ UNCHANGED vars
  BY <1>1, <1>8 DEF Age, ServerClosed, Stop, Serve, Shutdown, workerVars, vars
<1> QED BY <1>4, <1>5, <1>6, <1>7, <1>8
        DEF Next, Boot, Tick, Request, Handle, Reap, Exit, Crash

LEMMA TurnStep ==
  TypeOK /\ OwnInv /\ KnownInv /\ NoSplitClaim /\ [Next]_vars => Board!Turn \/ UNCHANGED BoardPhase
<1> SUFFICES ASSUME TypeOK, OwnInv, KnownInv, NoSplitClaim, [Next]_vars
             PROVE  Board!Turn \/ UNCHANGED BoardPhase
  OBVIOUS
<1>0. LogTypeOK /\ slot \in [Slot -> Job \cup {Idle}]
  BY DEF TypeOK, WorkerTypeOK
<1>1. UNCHANGED slot => \A t \in Task : Routed(t)' <=> Routed(t)
  BY DEF Routed
<1>2. ASSUME UNCHANGED slot, \A t \in Task : row'[t].status = row[t].status
      PROVE  UNCHANGED BoardPhase
  <2>1. \A t \in Task : (Exists(t)' <=> Exists(t)) /\ (Queued(t)' <=> Queued(t))
    BY <1>2 DEF Exists, Queued
  <2> QED BY <1>1, <1>2, <2>1 DEF BoardPhase
<1>3. ASSUME NEW t \in Task, UNCHANGED slot, Forward, \A u \in Task : u # t => row'[u] = row[u]
      PROVE  Board!Turn \/ UNCHANGED BoardPhase
  BY <1>1, <1>3, ForwardMoves
<1>4. ASSUME NEW w \in Sweep, SweepStart(w) \/ SweepStep(w)
      PROVE  Board!Turn \/ UNCHANGED BoardPhase
  <2>1. UNCHANGED slot /\ Forward
    BY <1>4, SweepStepFrame, SweepForward DEF SweepFrame
  <2>2. CASE SweepBlank(w) \/ \E t \in Task : SweepMarkStale(w, t)
    <3>1. PICK t \in Task : UNCHANGED row \/ RecordWorkerError(t)
      <4>1. CASE SweepBlank(w)
        <5>1. FirstOf(sweep[w].rows) \in Task
          BY <4>1, FirstOfType DEF SweepBlank, TypeOK, ReaperTypeOK, SweepState
        <5> QED BY <4>1, <5>1 DEF SweepBlank
      <4> QED BY <2>2, <4>1 DEF SweepMarkStale
    <3>2. \A u \in Task : u # t => row'[u] = row[u]
      BY <1>0, <3>1, OtherRows
    <3> QED BY <1>3, <2>1, <3>2
  <2>3. CASE SweepPurge(w)
    <3>1. \A t \in Task : row'[t].status = row[t].status
      BY <1>0, <2>3 DEF SweepPurge, PurgeExpiredPrompts, LogTypeOK, Row
    <3> QED BY <1>2, <2>1, <3>1
  <2>4. CASE UNCHANGED row
    BY <1>2, <2>1, <2>4
  <2> QED BY <1>4, <2>2, <2>3, <2>4, Zenon
          DEF SweepStep, SweepStart, SweepPage, SweepRow, SweepPageEnd, SweepFindStale, SweepStaleDone
<1>5. ASSUME NEW t \in Task, Post(t) \/ HandlerStep(t)
      PROVE  Board!Turn \/ UNCHANGED BoardPhase
  <2>1. UNCHANGED slot
    BY <1>5, HandlerStepFrame DEF HandlerFrame
  <2>2. \A u \in Task : u # t => row'[u] = row[u]
    <3>1. UNCHANGED row \/ CreateQueued(t) \/ RecordWorkerError(t)
      BY <1>5, Zenon DEF Post, HandlerStep, Insert, HandOver, Refuse
    <3> QED BY <1>0, <3>1, OtherRows
  <2>3. CASE ~Forward
    <3>1. Insert(t) /\ CreateQueued(t) /\ ~Exists(t)
      <4>1. client[t] = "insert"
        BY <1>5, <2>3, HandlerForward
      <4>2. Insert(t) /\ ~Exists(t)
        BY <1>5, <4>1 DEF Post, HandlerStep, HandOver, Refuse, Handler, KnownInv
      <4>3. UNCHANGED row => Forward
        BY DEF Forward, Exists, Queued
      <4> QED BY <2>3, <4>2, <4>3 DEF Insert
    <3>2. Queued(t)' /\ Exists(t)'
      BY <1>0, <3>1 DEF CreateQueued, LogTypeOK, Queued, Exists
    <3>3. Moves(t)
      BY <3>1, <3>2, PhaseOf, PhaseOfNext DEF Moves
    <3>4. ASSUME NEW u \in Task, u # t PROVE BoardPhase'[u] = BoardPhase[u]
      <4>1. (Exists(u)' <=> Exists(u)) /\ (Queued(u)' <=> Queued(u)) /\ (Routed(u)' <=> Routed(u))
        BY <1>1, <2>1, <2>2, <3>4 DEF Exists, Queued
      <4> QED BY <4>1, PhaseOf, PhaseOfNext
    <3> QED BY <3>3, <3>4, OneMoves
  <2> QED BY <1>3, <2>1, <2>2, <2>3
\* A crash, or process.exit, ends every task then running at once.
<1>6. CASE ProcessEnds
  <2> DEFINE S == {t \in Task : BoardPhase[t] = "running"}
  <2>1. UNCHANGED row /\ \A t \in Task : ~Routed(t)'
    BY <1>6 DEF ProcessEnds, WorkerReset, Routed, Idle, LiveStage, RouteStage
  <2>2. \A t \in Task : (Exists(t)' <=> Exists(t)) /\ (Queued(t)' <=> Queued(t))
    BY <2>1 DEF Exists, Queued
  <2>3. BoardPhase' = [t \in Task |-> IF t \in S THEN "closed" ELSE BoardPhase[t]]
    <3>1. \A t \in Task : BoardPhase'[t] = IF t \in S THEN "closed" ELSE BoardPhase[t]
      BY <2>1, <2>2, PhaseOf, PhaseOfNext
    <3>2. BoardPhase' = [t \in Task |-> BoardPhase'[t]]
      BY DEF BoardPhase
    <3> QED BY <3>1, <3>2
  <2>4. CASE S = {}
    <3>1. BoardPhase = [t \in Task |-> BoardPhase[t]]
      BY DEF BoardPhase
    <3> QED BY <2>3, <2>4, <3>1
  <2>5. CASE S # {}
    <3>1. Board!End(S)
      BY <2>3, <2>5 DEF Board!End
    <3> QED BY <3>1 DEF Board!Turn
  <2> QED BY <2>4, <2>5
<1>7. CASE Work
  <2>1. CASE \E s \in Slot : StartJob(s)
    <3>1. PICK s \in Slot : StartJob(s)
      BY <2>1
    <3>2. \A r \in Slot : slot'[r].at \in LiveStage \/ slot[r].at \in LiveStage => slot'[r] = slot[r]
      BY <1>0, <3>1 DEF StartJob, Idle, LiveStage, RouteStage
    <3>3. \A t \in Task : Routed(t)' <=> Routed(t)
      BY <3>2 DEF Routed
    <3>4. UNCHANGED row
      BY <3>1 DEF StartJob
    <3>5. \A t \in Task : (Exists(t)' <=> Exists(t)) /\ (Queued(t)' <=> Queued(t))
      BY <3>4 DEF Exists, Queued
    <3> QED BY <3>3, <3>5 DEF BoardPhase
  <2>2. CASE Pump \/ PumpReturn \/ GraceExpires
    BY <1>2, <2>2 DEF Pump, PumpReturn, GraceExpires
  <2> QED BY <1>7, <2>1, <2>2, JobMoves DEF Work, WorkerNext
<1>8. CASE \E t \in Task : Age(t)
  <2>1. \A t \in Task : row'[t].status = row[t].status
    BY <1>0, <1>8 DEF Age, LogTypeOK, Row
  <2> QED BY <1>2, <1>8, <2>1 DEF Age, workerVars
<1>9. CASE ServerClosed \/ Serve \/ Shutdown \/ UNCHANGED vars
  BY <1>2, <1>9 DEF ServerClosed, Stop, Serve, Shutdown, workerVars, vars
<1> QED BY <1>4, <1>5, <1>6, <1>7, <1>8, <1>9
        DEF Next, Boot, Tick, Request, Handle, Reap, Exit, Crash

\* What a step that is no job's writes on a row that exists.
SettlesOnly(t) == row'[t].status \in {row[t].status, "FAILED"}

LEMMA SweepStatus ==
  ASSUME TypeOK, NEW w \in Sweep, SweepStart(w) \/ SweepStep(w), NEW u \in Task
  PROVE  SettlesOnly(u)
<1>0. LogTypeOK /\ sweep[w].rows \subseteq Task
  BY DEF TypeOK, ReaperTypeOK, SweepState
<1>1. CASE SweepPurge(w)
  BY <1>0, <1>1 DEF SweepPurge, PurgeExpiredPrompts, LogTypeOK, Row, SettlesOnly
<1>2. CASE UNCHANGED row
  BY <1>2 DEF SettlesOnly
<1>3. CASE \E t \in Task : RecordWorkerError(t)
  BY <1>0, <1>3 DEF RecordWorkerError, SetStatus, LogTypeOK, Row, SettlesOnly
<1>4. SweepBlank(w) => UNCHANGED row \/ \E t \in Task : RecordWorkerError(t)
  BY <1>0, FirstOfType DEF SweepBlank
<1>5. (\E t \in Task : SweepMarkStale(w, t)) => UNCHANGED row \/ \E t \in Task : RecordWorkerError(t)
  BY DEF SweepMarkStale
<1> QED BY <1>1, <1>2, <1>3, <1>4, <1>5, Zenon
        DEF SweepStep, SweepStart, SweepPage, SweepRow, SweepPageEnd, SweepFindStale, SweepStaleDone

LEMMA HandlerStatus ==
  ASSUME TypeOK, KnownInv, NEW t \in Task, Post(t) \/ HandlerStep(t), NEW u \in Task, Exists(u)
  PROVE  SettlesOnly(u)
<1>0. LogTypeOK
  BY DEF TypeOK
<1>1. CASE UNCHANGED row \/ RecordWorkerError(t)
  BY <1>0, <1>1 DEF RecordWorkerError, SetStatus, LogTypeOK, Row, SettlesOnly
<1>2. CASE Insert(t)
  <2>1. t # u
    BY <1>2 DEF Insert, Handler, KnownInv
  <2>2. UNCHANGED row \/ CreateQueued(t)
    BY <1>2 DEF Insert
  <2> QED BY <1>0, <1>1, <2>1, <2>2, OtherRows DEF SettlesOnly
<1>3. Post(t) \/ HandOver(t) \/ Refuse(t) => UNCHANGED row \/ RecordWorkerError(t)
  BY DEF Post, HandOver, Refuse
<1> QED BY <1>1, <1>2, <1>3 DEF HandlerStep

\* Until a job has written its terminal status, its row does not say COMPLETED.
BeforeEnd == {"begin", "classified", "dispatched", "again"}
LiveInv == \A s \in Slot : slot[s].at \in BeforeEnd => row[slot[s].task].status # "COMPLETED"

\* What keeps LiveInv for a step that is no job's.
LEMMA LiveFrame ==
  ASSUME TypeOK, OwnInv, KnownInv, LiveInv,
         \A s \in Slot : slot'[s].at \in BeforeEnd => UNCHANGED slot[s],
         \A t \in Task : Exists(t) => SettlesOnly(t)
  PROVE  LiveInv'
<1> SUFFICES ASSUME NEW s \in Slot, slot'[s].at \in BeforeEnd
             PROVE  row'[slot'[s].task].status # "COMPLETED"
  BY DEF LiveInv
<1>1. slot'[s] = slot[s] /\ slot[s].at \in Stage
  BY DEF BeforeEnd, Stage, LiveStage, RouteStage
<1>2. SettlesOnly(slot[s].task)
  BY <1>1, JobKnown
<1> QED BY <1>1, <1>2 DEF LiveInv, SettlesOnly

LEMMA JobLive ==
  ASSUME TypeOK, OwnInv, KnownInv, NEW s \in Slot, JobStep(s),
         slot'[s].at \in BeforeEnd
  PROVE  slot'[s].task = slot[s].task /\ row'[slot[s].task].status # "COMPLETED"
<1>1. slot[s].at \in Stage
  BY JobStepFrame DEF Finish, Stage
<1>2. PICK t \in Task :
        /\ t = slot[s].task /\ LogTypeOK /\ slot[s] \in Job
        /\ slot \in [Slot -> Job \cup {Idle}]
  BY <1>1, JobAt DEF TypeOK, WorkerTypeOK
<1>3. PICK stage : Goto(s, stage) /\ ~Finish(s)
  <2>1. ~Finish(s)
    BY <1>2 DEF Finish, Idle, BeforeEnd
  <2> QED BY <2>1, JobStepFrame
<1>4. slot'[s].task = t /\ \A x : Goto(s, x) => slot'[s].at = x
  BY <1>2, <1>3 DEF Goto, Job
<1>5. PickUp(t) => row'[t].status = "RECEIVED"
  BY <1>2 DEF PickUp, LogTypeOK, Row
<1>6. \A x : SetStatus(t, x) => row'[t].status = x
  BY <1>2 DEF SetStatus, LogTypeOK, Row
<1>7. CASE Claim(s) \/ ClaimWrite(s)
  <2>1. PickUp(t)
    BY <1>2, <1>4, <1>7 DEF Claim, ClaimWrite, BeginRoute, BeforeEnd
  <2> QED BY <1>2, <1>4, <1>5, <2>1
<1>8. CASE Route(s)
  <2>1. RouteWrite(slot'[s].at, t) /\ slot[s].at \in RouteStage /\ slot'[s].at \in RouteNext(slot[s].at)
    BY <1>2, <1>4, <1>8 DEF Route
  <2>2. slot'[s].at \in {"classified", "dispatched", "again"}
    BY <2>1 DEF RouteNext, RouteStage, BeforeEnd
  <2>3. \E x \in {"CLASSIFIED", "DISPATCHED"} : SetStatus(t, x)
    BY <2>1, <2>2 DEF RouteWrite, Written
  <2> QED BY <1>2, <1>4, <1>6, <2>3
<1>9. ~(ClaimError(s) \/ RouteThrows(s) \/ WorkerError(s) \/ NoAgent(s) \/ RouteError(s) \/ RouteCatch(s))
  BY <1>4 DEF ClaimError, RouteThrows, WorkerError, NoAgent, RouteError, RouteCatch, BeforeEnd
<1> QED BY <1>3, <1>7, <1>8, <1>9 DEF JobStep

LEMMA LiveStep == TypeOK /\ OwnInv /\ KnownInv /\ LiveInv /\ [Next]_vars => LiveInv'
<1> SUFFICES ASSUME TypeOK, OwnInv, KnownInv, LiveInv, [Next]_vars PROVE LiveInv'
  OBVIOUS
<1>0. LogTypeOK /\ slot \in [Slot -> Job \cup {Idle}]
  BY DEF TypeOK, WorkerTypeOK
<1>1. ASSUME UNCHANGED slot, \A t \in Task : Exists(t) => SettlesOnly(t) PROVE LiveInv'
  BY <1>1, LiveFrame
<1>2. UNCHANGED row => \A t \in Task : SettlesOnly(t)
  BY DEF SettlesOnly
<1>3. ASSUME NEW w \in Sweep, SweepStart(w) \/ SweepStep(w) PROVE LiveInv'
  BY <1>1, <1>3, SweepStepFrame, SweepStatus DEF SweepFrame
<1>4. ASSUME NEW t \in Task, Post(t) \/ HandlerStep(t) PROVE LiveInv'
  BY <1>1, <1>4, HandlerStepFrame, HandlerStatus DEF HandlerFrame
<1>5. ASSUME NEW s \in Slot, JobStep(s), NEW r \in Slot, slot'[r].at \in BeforeEnd
      PROVE  row'[slot'[r].task].status # "COMPLETED"
  <2>1. CASE r = s
    BY <1>5, <2>1, JobLive
  <2>2. CASE r # s
    <3>1. slot'[r] = slot[r] /\ slot[r].at \in Stage
      BY <1>0, <1>5, <2>2, JobStepFrame DEF Finish, Goto, BeforeEnd, Stage, LiveStage, RouteStage
    <3>2. slot[s].at \in Stage
      BY <1>5, JobStepFrame DEF Finish, Stage
    <3>3. slot[r].task \in Task /\ slot[r].task # slot[s].task
      <4>1. slot[r].task \in Task /\ slot[s].task \in Task
        BY <3>1, <3>2, JobKnown
      <4>2. NoTask \notin Task
        BY DEF NoTask, Task
      <4> QED BY <2>2, <4>1, <4>2 DEF OwnInv, Holder
    <3>4. row'[slot[r].task] = row[slot[r].task]
      BY <1>5, <3>3, JobElsewhere
    <3> QED BY <1>5, <3>1, <3>4 DEF LiveInv
  <2> QED BY <2>1, <2>2
<1>6. CASE ProcessEnds
  BY <1>6 DEF ProcessEnds, WorkerReset, Idle, LiveInv, BeforeEnd
<1>7. CASE Work
  <2>1. CASE \E s \in Slot : StartJob(s)
    <3>1. PICK s \in Slot : StartJob(s)
      BY <2>1
    <3>2. \A r \in Slot : slot'[r].at \in BeforeEnd => UNCHANGED slot[r]
      BY <1>0, <3>1 DEF StartJob, BeforeEnd
    <3> QED BY <1>2, <3>1, <3>2, LiveFrame DEF StartJob
  <2>2. CASE Pump \/ PumpReturn \/ GraceExpires
    BY <1>1, <1>2, <2>2 DEF Pump, PumpReturn, GraceExpires
  <2>3. ASSUME NEW s \in Slot, JobStep(s) PROVE LiveInv'
    BY <1>5, <2>3 DEF LiveInv
  <2> QED BY <1>7, <2>1, <2>2, <2>3 DEF Work, WorkerNext
<1>8. CASE \E t \in Task : Age(t)
  <2>1. \A t \in Task : SettlesOnly(t)
    BY <1>0, <1>8 DEF Age, LogTypeOK, Row, SettlesOnly
  <2> QED BY <1>1, <1>8, <2>1 DEF Age, workerVars
<1>9. CASE ServerClosed \/ Serve \/ Shutdown \/ UNCHANGED vars
  BY <1>1, <1>2, <1>9 DEF ServerClosed, Stop, Serve, Shutdown, workerVars, vars
<1> QED BY <1>3, <1>4, <1>6, <1>7, <1>8, <1>9
        DEF Next, Boot, Tick, Request, Handle, Reap, Exit, Crash

\* What a step does to the row and the holders of one task, said of the pipeline.
Kept(t) ==
  /\ row[t].status = "COMPLETED" => row'[t].status \in Terminal
  /\ Exists(t) /\ ~Queued(t) /\ ~Routed(t) =>
       row'[t].status = row[t].status \/ (row'[t].status = "FAILED" /\ Held(t))
  /\ Done(t) /\ Held(t)' => Held(t)

\* The same, said of the board.
LEMMA KeptIsJudged ==
  ASSUME NEW t \in Task, Kept(t)
  PROVE  Board!Judged(t)
<1>1. /\ BoardVerdict[t] = IF Done(t) THEN row[t].status ELSE "open"
      /\ BoardVerdict'[t] = IF Done(t)' THEN row'[t].status ELSE "open"
  BY DEF BoardVerdict
<1>2. (t \in BoardHeld <=> Held(t)) /\ (t \in BoardHeld' <=> Held(t)')
  BY DEF BoardHeld
<1>3. BoardPhase'[t] \in {"none", "open"} => ~Done(t)'
  BY PhaseOfNext DEF Exists, Queued, Done, Terminal
<1>4. BoardPhase[t] = "closed" => Exists(t) /\ ~Queued(t) /\ ~Routed(t)
  BY PhaseOf
<1>5. BoardVerdict[t] = "COMPLETED" => BoardVerdict'[t] \in {"COMPLETED", "FAILED"}
  BY <1>1 DEF Kept, Done, Terminal
<1>6. BoardPhase[t] = "closed" /\ BoardVerdict'[t] # BoardVerdict[t]
         => BoardVerdict'[t] = "FAILED" /\ Held(t)
  BY <1>1, <1>4 DEF Kept, Done, Terminal
<1>7. BoardVerdict[t] # "open" /\ Held(t)' => Held(t)
  BY <1>1 DEF Kept
<1> QED BY <1>1, <1>2, <1>3, <1>5, <1>6, <1>7 DEF Board!Judged

\* Steps that write nothing and take no task in hand.
LEMMA QuietKeeps ==
  ASSUME \A t \in Task : row'[t].status = row[t].status,
         \A t \in Task : Held(t)' => Held(t)
  PROVE  \A t \in Task : Kept(t)
BY DEF Kept, Terminal

LEMMA SweepKeeps ==
  ASSUME TypeOK, KnownInv, NEW w \in Sweep, SweepStart(w) \/ SweepStep(w), UNCHANGED client,
         NEW t \in Task
  PROVE  Kept(t)
<1>0. /\ LogTypeOK /\ sweep[w].rows \subseteq Task /\ sweep \in [Sweep -> SweepState]
  BY DEF TypeOK, ReaperTypeOK, SweepState
<1>1. SettlesOnly(t)
  BY SweepStatus
<1>2. row'[t].status # row[t].status => \E v \in Sweep : HasRead(v, t)
  <2>1. CASE SweepPurge(w)
    BY <1>0, <2>1 DEF SweepPurge, PurgeExpiredPrompts, LogTypeOK, Row
  <2>2. CASE SweepBlank(w)
    <3>1. FirstOf(sweep[w].rows) \in Task /\ FirstOf(sweep[w].rows) \in sweep[w].rows
      BY <1>0, <2>2, FirstOfType DEF SweepBlank
    <3>2. t # FirstOf(sweep[w].rows) => row'[t] = row[t]
      BY <1>0, <2>2, <3>1, OtherRows DEF SweepBlank
    <3> QED BY <3>1, <3>2 DEF HasRead
  <2>3. CASE \E u \in Task : SweepMarkStale(w, u)
    <3>1. PICK u \in Task : SweepMarkStale(w, u)
      BY <2>3
    <3>2. t # u => row'[t] = row[t]
      BY <1>0, <3>1, OtherRows DEF SweepMarkStale
    <3> QED BY <3>1, <3>2 DEF SweepMarkStale, HasRead
  <2>4. CASE UNCHANGED row
    BY <2>4
  <2> QED BY <2>1, <2>2, <2>3, <2>4, Zenon
          DEF SweepStep, SweepStart, SweepPage, SweepRow, SweepPageEnd, SweepFindStale, SweepStaleDone
<1>3. Done(t) /\ Held(t)' => Held(t)
  <2> SUFFICES ASSUME Done(t), Held(t)' PROVE Held(t)
    OBVIOUS
  <2>1. ~Queued(t) /\ ~Running(t)
    BY DEF Done, Queued, Running, Terminal, InFlight
  <2>2. ASSUME NEW v \in Sweep, t \in sweep'[v].rows \cup sweep'[v].stale PROVE Held(t)
    BY <2>1, <2>2, SweepReads DEF HasRead, Held
  <2>3. CASE t \in tracked'
    <3>1. CASE SweepRow(w)
      <4>1. tracked' \subseteq tracked \cup {FirstOf(sweep[w].rows)}
        BY <3>1, SweepRowCases, EnqueueTracks DEF QueueFrame
      <4>2. FirstOf(sweep[w].rows) \in sweep[w].rows
        BY <1>0, <3>1, FirstOfType DEF SweepRow
      <4> QED BY <2>3, <4>1, <4>2 DEF Held
    <3>2. CASE QueueFrame
      BY <2>3, <3>2 DEF QueueFrame, Held
    <3> QED BY <3>1, <3>2, SweepStepFrame
  <2> QED BY <2>2, <2>3 DEF Held
<1>4. (\E v \in Sweep : HasRead(v, t)) => Held(t)
  BY DEF HasRead, Held
<1> QED BY <1>1, <1>2, <1>3, <1>4 DEF Kept, SettlesOnly, Terminal

LEMMA HandlerKeeps ==
  ASSUME TypeOK, KnownInv, NEW u \in Task, Post(u) \/ HandlerStep(u), UNCHANGED sweep,
         NEW t \in Task
  PROVE  Kept(t)
<1>0. LogTypeOK /\ client \in [Task -> Client]
  BY DEF TypeOK, IntakeTypeOK
<1>1. Exists(t) => SettlesOnly(t)
  BY HandlerStatus
<1>2. Exists(t) /\ row'[t].status # row[t].status => Held(t)
  <2>1. CASE t # u
    <3>1. UNCHANGED row \/ CreateQueued(u) \/ RecordWorkerError(u)
      BY Zenon DEF Post, HandlerStep, Insert, HandOver, Refuse
    <3> QED BY <1>0, <2>1, <3>1, OtherRows
  <2>2. CASE t = u
    <3>1. Exists(t) => ~Insert(t)
      BY DEF Insert, Handler, KnownInv
    <3>2. Post(t) \/ HandOver(t) => UNCHANGED row
      BY DEF Post, HandOver
    <3>3. Refuse(t) => Held(t)
      BY DEF Refuse, Handler, Held
    <3> QED BY <2>2, <3>1, <3>2, <3>3 DEF HandlerStep
  <2> QED BY <2>1, <2>2
<1>3. Done(t) /\ Held(t)' => Held(t)
  <2> SUFFICES ASSUME Done(t), Held(t)' PROVE Held(t)
    OBVIOUS
  <2>1. ~(t = u /\ (Insert(t) \/ Post(t)))
    <3>1. Exists(t)
      BY DEF Done, Terminal, Exists
    <3> QED BY <3>1 DEF Insert, Post, Handler, KnownInv
  <2>2. \A v \in Task : v # u => client'[v] = client[v]
    <3>1. PICK a : Answers(u, a)
      BY Zenon DEF Post, HandlerStep, Insert, HandOver, Refuse
    <3> QED BY <1>0, <3>1 DEF Answers
  <2>3. CASE t # u
    <3>1. t \in tracked' => t \in tracked
      BY <2>3, HandlerStepFrame, EnqueueTracks DEF HandOver
    <3> QED BY <2>2, <2>3, <3>1 DEF Held
  <2>4. CASE t = u
    BY <2>1, <2>4 DEF HandlerStep, HandOver, Refuse, Handler, Held
  <2> QED BY <2>3, <2>4
<1>4. row[t].status = "COMPLETED" => Exists(t)
  BY DEF Exists
<1> QED BY <1>1, <1>2, <1>3, <1>4 DEF Kept, SettlesOnly, Terminal

LEMMA JobKeeps ==
  ASSUME TypeOK, OwnInv, KnownInv, NoSplitClaim, LiveInv, NEW s \in Slot, JobStep(s),
         UNCHANGED <<client, sweep>>, NEW u \in Task
  PROVE  Kept(u)
<1>1. slot[s].at \in Stage
  BY JobStepFrame DEF Finish, Stage
<1>2. PICK t \in Task :
        /\ t = slot[s].task /\ LogTypeOK /\ slot[s] \in Job
        /\ slot \in [Slot -> Job \cup {Idle}]
  BY <1>1, JobAt DEF TypeOK, WorkerTypeOK
<1>3. t \in tracked
  BY <1>1, <1>2, HolderType DEF TypeOK, OwnInv, Holder
<1>4. Held(u)' => Held(u)
  <2>1. tracked' \subseteq tracked
    BY JobStepFrame DEF Finish, Untrack, JobFrame, queueVars
  <2> QED BY <2>1 DEF Held
<1>5. CASE u # t
  BY <1>2, <1>4, <1>5, JobElsewhere DEF Kept, Terminal
<1>6. CASE u = t
  <2>1. Held(t)
    BY <1>3 DEF Held
  <2>2. \A x : SetStatus(t, x) => row'[t].status = x
    BY <1>2 DEF SetStatus, LogTypeOK, Row
  <2>3. CASE UNCHANGED row
    BY <1>4, <1>6, <2>3 DEF Kept, Terminal
  <2>4. CASE WorkerError(s) \/ RouteCatch(s)
    <3>1. UNCHANGED row \/ SetStatus(t, "FAILED")
      BY <1>2, <2>4 DEF WorkerError, RouteCatch, RecordWorkerError, MarkFailed
    <3> QED BY <1>4, <1>6, <2>1, <2>2, <2>3, <3>1 DEF Kept, Terminal
  <2>5. CASE Queued(t)
    BY <1>4, <1>6, <2>5 DEF Kept, Queued, Done, Terminal
  <2>6. CASE Route(s) \/ RouteError(s)
    <3>1. /\ slot[s].at \in RouteStage
          /\ UNCHANGED row \/ \E next \in RouteNext(slot[s].at) : RouteWrite(next, t)
      BY <1>2, <2>6 DEF Route, RouteError
    <3>2. Routed(t)
      BY <1>2, <3>1 DEF Routed, LiveStage
    <3>3. CASE slot[s].at \in {"completed", "failed"}
      <4>1. UNCHANGED row \/ SetStatus(t, row[t].status)
        BY <3>1, <3>3 DEF RouteNext, RouteWrite, Written
      <4>2. row'[t].status = row[t].status
        BY <2>2, <4>1
      <4> QED BY <1>4, <1>6, <4>2 DEF Kept, Terminal
    <3>4. CASE slot[s].at \in BeforeEnd
      BY <1>2, <1>4, <1>6, <3>2, <3>4 DEF LiveInv, Kept
    <3> QED BY <3>1, <3>3, <3>4 DEF RouteStage, BeforeEnd
  <2>7. ~Queued(t) /\ (Claim(s) \/ ClaimError(s)) => UNCHANGED row
    BY <1>2 DEF Claim, ClaimError, Claimable
  <2>8. ~ClaimWrite(s)
    BY DEF ClaimWrite, At, NoSplitClaim
  <2>9. RouteThrows(s) \/ NoAgent(s) \/ Finish(s) => UNCHANGED row
    BY DEF RouteThrows, NoAgent, Finish
  <2> QED BY <2>3, <2>4, <2>5, <2>6, <2>7, <2>8, <2>9 DEF JobStep
<1> QED BY <1>5, <1>6

LEMMA JudgedStep ==
  TypeOK /\ OwnInv /\ KnownInv /\ NoSplitClaim /\ LiveInv /\ [Next]_vars => \A t \in Task : Kept(t)
<1> SUFFICES ASSUME TypeOK, OwnInv, KnownInv, NoSplitClaim, LiveInv, [Next]_vars
             PROVE  \A t \in Task : Kept(t)
  OBVIOUS
<1>0. LogTypeOK
  BY DEF TypeOK
<1>1. ASSUME \A t \in Task : row'[t].status = row[t].status, UNCHANGED <<client, sweep, tracked>>
      PROVE  \A t \in Task : Kept(t)
  <2>1. \A t \in Task : Held(t)' => Held(t)
    BY <1>1 DEF Held
  <2> QED BY <1>1, <2>1, QuietKeeps
<1>2. ASSUME NEW w \in Sweep, SweepStart(w) \/ SweepStep(w), UNCHANGED client
      PROVE  \A t \in Task : Kept(t)
  BY <1>2, SweepKeeps
<1>3. ASSUME NEW u \in Task, Post(u) \/ HandlerStep(u), UNCHANGED sweep
      PROVE  \A t \in Task : Kept(t)
  BY <1>3, HandlerKeeps
<1>4. CASE ProcessEnds
  <2>1. \A t \in Task : ~Held(t)'
    BY <1>4 DEF ProcessEnds, WorkerReset, IntakeReset, ReaperReset, SweepOff, Held, Handling
  <2>2. \A t \in Task : row'[t].status = row[t].status
    BY <1>4 DEF ProcessEnds
  <2> QED BY <2>1, <2>2, QuietKeeps
<1>5. CASE Work
  <2>1. CASE Pump \/ PumpReturn \/ GraceExpires \/ \E s \in Slot : StartJob(s)
    BY <1>1, <1>5, <2>1 DEF Work, Pump, PumpReturn, GraceExpires, StartJob
  <2> QED BY <1>5, <2>1, JobKeeps DEF Work, WorkerNext
<1>6. CASE \E t \in Task : Age(t)
  <2>1. \A t \in Task : row'[t].status = row[t].status
    BY <1>0, <1>6 DEF Age, LogTypeOK, Row
  <2> QED BY <1>1, <1>6, <2>1 DEF Age, workerVars
<1>7. CASE ServerClosed \/ Serve \/ Shutdown \/ UNCHANGED vars
  BY <1>1, <1>7 DEF ServerClosed, Stop, Serve, Shutdown, workerVars, vars
<1> QED BY <1>2, <1>3, <1>4, <1>5, <1>6, <1>7
        DEF Next, Boot, Tick, Request, Handle, Reap, Exit, Crash

\* When the database serializes claims, what a client sees of a task is the board: it
\* is open, begun at most once or withdrawn, and closed for good; it has no verdict
\* before; a success only ever turns into a failure; and what can still fail a closed
\* task is a job, a handler or a sweep that had it in hand before its verdict was
\* there.  A crash, an error or a second sweep is a step of the board or invisible.
THEOREM BoardImplemented ==
  ASSUME SerializableClaim
  PROVE  Spec => ImplementsBoard
<1>1. Init => Board!Init /\ NoSplitClaim /\ LiveInv
  <2> SUFFICES ASSUME Init PROVE Board!Init /\ NoSplitClaim /\ LiveInv
    OBVIOUS
  <2>1. \A t \in Task : ~Exists(t) /\ ~Done(t)
    BY DEF Init, LogInit, Exists, NoRow, Done, Terminal
  <2>2. \A s \in Slot : slot[s].at \notin BeforeEnd \cup {"claimWrite"}
    BY DEF Init, WorkerInit, Idle, BeforeEnd
  <2>3. \A t \in Task : ~Held(t)
    BY DEF Init, WorkerInit, IntakeInit, ReaperInit, SweepOff, Held
  <2> QED BY <2>1, <2>2, <2>3
          DEF Board!Init, BoardPhase, BoardVerdict, BoardHeld, NoSplitClaim, LiveInv
<1>2. TypeOK /\ NoSplitClaim /\ [Next]_vars => NoSplitClaim'
  BY ClaimsStaySerial
<1>3. TypeOK /\ OwnInv /\ KnownInv /\ NoSplitClaim /\ LiveInv /\ [Next]_vars => Board!Next
  BY TurnStep, JudgedStep, KeptIsJudged DEF Board!Next
<1> QED BY <1>1, <1>2, <1>3, LiveStep, TypeCorrect, OwnHolds, KnownHolds, PTL
        DEF Spec, ImplementsBoard, Board!Spec

------------------------------------------------------------------------------
(* ReapsOnlyOrphans.  The ids are read in one turn and written in later ones, so *)
(* it is not enough that a stale row has no job: no pending claim, and no later   *)
(* one, may begin the task again.                                                *)
OrphanInv ==
  /\ \A t \in Task : row[t].stale => ~Routed(t)
  /\ \A w \in Sweep : \A t \in sweep[w].stale : ~Routed(t) /\ ~Queued(t) /\ ~Claiming(t)
  /\ \A t \in Task : Claiming(t) => ~Running(t)

\* What the sweeps and the handlers write never ages a row, nor puts it in flight.
LEMMA WritesNothingLive ==
  ASSUME LogTypeOK, NEW t \in Task,
         UNCHANGED row \/ RecordWorkerError(t) \/ CreateQueued(t), NEW u \in Task
  PROVE  (row'[u].stale => row[u].stale) /\ (Running(u)' => Running(u))
BY DEF LogTypeOK, Row, RecordWorkerError, SetStatus, CreateQueued, Running, InFlight

\* A sweep only ever reads ids of rows that are stale at the time.
LEMMA SweepReadsStale ==
  ASSUME TypeOK, NEW w \in Sweep, SweepStart(w) \/ SweepStep(w),
         NEW v \in Sweep, NEW t \in sweep'[v].stale
  PROVE  t \in sweep[v].stale \/ t \in FindStale
<1> DEFINE Read == t \in sweep[v].stale \/ t \in FindStale
<1> USE DEF TypeOK
<1>1. sweep \in [Sweep -> SweepState]
  BY DEF ReaperTypeOK
<1>2. ASSUME NEW r, sweep' = [sweep EXCEPT ![w] = r], r.stale \subseteq sweep[w].stale \cup FindStale
      PROVE  Read
  BY <1>1, <1>2
<1>3. ASSUME NEW stage, SweepGoto(w, stage) PROVE Read
  BY <1>1, <1>3 DEF SweepGoto, SweepState
<1>4. ASSUME NEW d, FindStaleNext(w, d) PROVE Read
  BY <1>2, <1>4 DEF FindStaleNext, SweepOff
<1>5. CASE SweepStart(w) \/ SweepStaleDone(w) \/ SweepPurge(w)
  BY <1>2, <1>5 DEF SweepStart, SweepStaleDone, SweepPurge, SweepOff
<1>6. CASE SweepPage(w)
  <2> DEFINE page == FindQueuedPage(sweep[w].cursor)
             r == [sweep[w] EXCEPT !.at = "rows", !.rows = page,
                                   !.blank = {u \in page : ~row[u].prompt},
                                   !.full = (Cardinality(page) >= PageSize),
                                   !.cursor = LastOf(page)]
  <2>1. FindStaleNext(w, TRUE) \/ sweep' = [sweep EXCEPT ![w] = r]
    BY <1>6, Zenon DEF SweepPage
  <2>2. r.stale = sweep[w].stale
    BY <1>1 DEF SweepState
  <2> HIDE DEF page, r
  <2> QED BY <1>2, <1>4, <2>1, <2>2
<1>7. CASE SweepRow(w) \/ SweepBlank(w)
  <2>1. \/ SweepGoto(w, "blank") \/ FindStaleNext(w, FALSE)
        \/ sweep' = [sweep EXCEPT ![w].rows = @ \ {FirstOf(sweep[w].rows)}]
        \/ sweep' = [sweep EXCEPT ![w].at = "rows", ![w].rows = @ \ {FirstOf(sweep[w].rows)}]
    BY <1>7, Zenon DEF SweepRow, SweepBlank
  <2>2. SweepGoto(w, "blank") \/ FindStaleNext(w, FALSE) => Read
    BY <1>3, <1>4
  <2>3. CASE sweep' = [sweep EXCEPT ![w].rows = @ \ {FirstOf(sweep[w].rows)}]
    BY <1>1, <2>3 DEF SweepState
  <2>4. CASE sweep' = [sweep EXCEPT ![w].at = "rows", ![w].rows = @ \ {FirstOf(sweep[w].rows)}]
    BY <1>1, <2>4 DEF SweepState
  <2> QED BY <2>1, <2>2, <2>3, <2>4
<1>8. CASE SweepPageEnd(w)
  BY <1>3, <1>4, <1>8 DEF SweepPageEnd
<1>9. CASE SweepFindStale(w)
  <2>1. [sweep[w] EXCEPT !.at = "markStale", !.stale = FindStale].stale = FindStale
    BY <1>1 DEF SweepState
  <2> QED BY <1>2, <1>3, <1>9, <2>1 DEF SweepFindStale
<1>10. CASE \E u \in Task : SweepMarkStale(w, u)
  BY <1>1, <1>10 DEF SweepMarkStale, SweepState
<1> QED BY <1>5, <1>6, <1>7, <1>8, <1>9, <1>10, Zenon DEF SweepStep

\* What keeps OrphanInv for the steps that begin no task.
LEMMA OrphanFrame ==
  ASSUME TypeOK, OrphanInv,
         \A t \in Task : /\ Routed(t)' => Routed(t)
                         /\ Claiming(t)' => Claiming(t)
                         /\ row'[t].stale => row[t].stale \/ ~Routed(t)
                         /\ Running(t)' => Running(t),
         \A w \in Sweep : \A t \in sweep'[w].stale :
            t \in Task /\ ~Routed(t)' /\ ~Queued(t)' /\ ~Claiming(t)'
  PROVE  OrphanInv'
BY DEF OrphanInv

LEMMA OrphanStep ==
  ~JobsMayOutliveAge /\ TypeOK /\ OwnInv /\ KnownInv /\ OrphanInv /\ [Next]_vars => OrphanInv'
<1> SUFFICES ASSUME ~JobsMayOutliveAge, TypeOK, OwnInv, KnownInv, OrphanInv, [Next]_vars
             PROVE  OrphanInv'
  OBVIOUS
<1>0. /\ LogTypeOK /\ slot \in [Slot -> Job \cup {Idle}]
      /\ \A w \in Sweep : \A t \in sweep[w].stale : t \in Task /\ Exists(t)
  BY DEF TypeOK, WorkerTypeOK, ReaperTypeOK, SweepState, KnownInv
<1>1. UNCHANGED slot => \A t \in Task : (Routed(t)' <=> Routed(t)) /\ (Claiming(t)' <=> Claiming(t))
  BY DEF Routed, Claiming
<1>2. UNCHANGED row => \A t \in Task : (Running(t)' <=> Running(t)) /\ (Queued(t)' <=> Queued(t))
                                       /\ row'[t].stale = row[t].stale
  BY DEF Running, Queued
<1>3. ASSUME NEW w \in Sweep, SweepStart(w) \/ SweepStep(w) PROVE OrphanInv'
  <2>1. UNCHANGED slot /\ Forward
    BY <1>3, SweepStepFrame, SweepForward DEF SweepFrame
  <2>2. \A t \in Task : (row'[t].stale => row[t].stale) /\ (Running(t)' => Running(t))
    <3>1. CASE SweepPurge(w)
      BY <1>0, <3>1 DEF SweepPurge, PurgeExpiredPrompts, LogTypeOK, Row, Running
    <3>2. CASE UNCHANGED row
      BY <1>2, <3>2
    <3>3. CASE \E t \in Task : RecordWorkerError(t)
      BY <1>0, <3>3, WritesNothingLive
    <3>4. SweepBlank(w) => UNCHANGED row \/ \E t \in Task : RecordWorkerError(t)
      <4>1. sweep[w].rows \subseteq Task
        BY DEF TypeOK, ReaperTypeOK, SweepState
      <4> QED BY <4>1, FirstOfType DEF SweepBlank
    <3>5. (\E t \in Task : SweepMarkStale(w, t)) => UNCHANGED row \/ \E t \in Task : RecordWorkerError(t)
      BY DEF SweepMarkStale
    <3> QED BY <1>3, <3>1, <3>2, <3>3, <3>4, <3>5, Zenon
            DEF SweepStep, SweepStart, SweepPage, SweepRow, SweepPageEnd, SweepFindStale, SweepStaleDone
  <2>3. ASSUME NEW v \in Sweep, NEW t \in sweep'[v].stale
        PROVE  t \in Task /\ ~Routed(t)' /\ ~Queued(t)' /\ ~Claiming(t)'
    <3>1. t \in Task /\ ~Routed(t) /\ ~Queued(t) /\ ~Claiming(t)
      <4>1. CASE t \in sweep[v].stale
        BY <1>0, <4>1 DEF OrphanInv
      <4>2. CASE t \in FindStale
        BY <4>2 DEF OrphanInv, FindStale, IsStale, Running, InFlight, Queued
      <4> QED BY <1>3, <4>1, <4>2, SweepReadsStale
    <3> QED BY <1>1, <2>1, <3>1 DEF Forward
  <2> QED BY <1>1, <2>1, <2>2, <2>3, OrphanFrame
<1>4. ASSUME NEW t \in Task, Post(t) \/ HandlerStep(t), UNCHANGED sweep PROVE OrphanInv'
  <2>1. UNCHANGED slot
    BY <1>4, HandlerStepFrame DEF HandlerFrame
  <2>2. \A u \in Task : (row'[u].stale => row[u].stale) /\ (Running(u)' => Running(u))
    <3>1. UNCHANGED row \/ CreateQueued(t) \/ RecordWorkerError(t)
      BY <1>4, Zenon DEF Post, HandlerStep, Insert, HandOver, Refuse
    <3> QED BY <1>0, <3>1, WritesNothingLive
  \* The ids a sweep holds have a row, and the INSERT is for a task without one.
  <2>3. \A u \in Task : Exists(u) /\ ~Queued(u) => ~Queued(u)'
    BY <1>4, HandlerForward DEF Forward, KnownInv
  <2>4. \A v \in Sweep : \A u \in sweep'[v].stale :
          u \in Task /\ ~Routed(u)' /\ ~Queued(u)' /\ ~Claiming(u)'
    BY <1>0, <1>1, <1>4, <2>1, <2>3 DEF OrphanInv
  <2> QED BY <1>1, <2>1, <2>2, <2>4, OrphanFrame
<1>5. ASSUME NEW s \in Slot, JobStep(s), UNCHANGED sweep PROVE OrphanInv'
  <2>1. PICK t \in Task :
          /\ t = slot[s].task
          /\ row'[t].stale => row[t].stale
          /\ Routed(t)' => Routed(t) \/ ((Queued(t) \/ Claiming(t)) /\ ~row'[t].stale)
          /\ Claiming(t)' => Queued(t) /\ UNCHANGED row
    BY <1>5, JobAtHome
  <2>2. \A u \in Task : u # t =>
          row'[u] = row[u] /\ (Routed(u)' <=> Routed(u)) /\ (Claiming(u)' <=> Claiming(u))
    BY <1>5, <2>1, JobElsewhere
  <2>3. Forward
    BY <1>5, JobForward
  <2>4. \A u \in Task : row'[u].stale => ~Routed(u)'
    BY <2>1, <2>2 DEF OrphanInv
  <2>5. \A u \in Task : ~Routed(u) /\ ~Queued(u) /\ ~Claiming(u) =>
                        ~Routed(u)' /\ ~Queued(u)' /\ ~Claiming(u)'
    BY <2>1, <2>2, <2>3 DEF Forward
  <2>6. \A u \in Task : Claiming(u)' => ~Running(u)'
    <3>1. Claiming(t)' => ~Running(t)'
      BY <2>1 DEF Queued, Running, InFlight
    <3>2. \A u \in Task : u # t => (Running(u)' <=> Running(u))
      BY <2>2 DEF Running
    <3> QED BY <2>2, <3>1, <3>2 DEF OrphanInv
  <2> QED BY <1>0, <1>5, <2>4, <2>5, <2>6 DEF OrphanInv
<1>6. CASE ProcessEnds
  <2>1. \A t \in Task : ~Routed(t)' /\ ~Claiming(t)'
    BY <1>6 DEF ProcessEnds, WorkerReset, Routed, Claiming, Idle, LiveStage, RouteStage
  <2>2. UNCHANGED row /\ \A w \in Sweep : sweep'[w].stale = {}
    BY <1>6 DEF ProcessEnds, ReaperReset, SweepOff
  <2> QED BY <2>1, <2>2 DEF OrphanInv
<1>7. ASSUME UNCHANGED <<row, sweep>>,
             \A t \in Task : (Routed(t)' <=> Routed(t)) /\ (Claiming(t)' <=> Claiming(t))
      PROVE  OrphanInv'
  BY <1>0, <1>2, <1>7 DEF OrphanInv
<1>8. CASE Work
  <2>1. CASE \E s \in Slot : StartJob(s)
    <3>1. PICK s \in Slot : StartJob(s)
      BY <2>1
    <3>2. \A r \in Slot : slot'[r].at \in LiveStage \cup {"claimWrite"}
                          \/ slot[r].at \in LiveStage \cup {"claimWrite"} => slot'[r] = slot[r]
      BY <1>0, <3>1 DEF StartJob, Idle, LiveStage, RouteStage
    <3>3. \A t \in Task : (Routed(t)' <=> Routed(t)) /\ (Claiming(t)' <=> Claiming(t))
      BY <3>2 DEF Routed, Claiming
    <3> QED BY <1>7, <1>8, <3>1, <3>3 DEF StartJob, Work
  <2>2. CASE Pump \/ PumpReturn \/ GraceExpires
    BY <1>1, <1>7, <1>8, <2>2 DEF Pump, PumpReturn, GraceExpires, Work
  <2> QED BY <1>5, <1>8, <2>1, <2>2 DEF Work, WorkerNext
\* Only a row without a live job grows old.
<1>9. ASSUME NEW t \in Task, Age(t) PROVE OrphanInv'
  <2>1. UNCHANGED <<slot, sweep>>
    BY <1>9 DEF Age, workerVars
  <2>2. \A u \in Task : /\ Running(u)' <=> Running(u)
                        /\ Queued(u)' <=> Queued(u)
                        /\ row'[u].stale => row[u].stale \/ ~Routed(u)
    BY <1>0, <1>9 DEF Age, Running, Queued, LogTypeOK, Row
  <2>3. \A v \in Sweep : \A u \in sweep'[v].stale :
          u \in Task /\ ~Routed(u)' /\ ~Queued(u)' /\ ~Claiming(u)'
    BY <1>0, <1>1, <2>1, <2>2 DEF OrphanInv
  <2> QED BY <1>1, <2>1, <2>2, <2>3, OrphanFrame
<1>10. CASE ServerClosed \/ Serve \/ Shutdown \/ UNCHANGED vars
  BY <1>1, <1>7, <1>10 DEF ServerClosed, Stop, Serve, Shutdown, workerVars, vars
<1> QED BY <1>3, <1>4, <1>6, <1>8, <1>9, <1>10
        DEF Next, Boot, Tick, Request, Handle, Reap, Exit, Crash

\* The reaper fails no row under a live job, although it acts on ids it read turns
\* ago: as long as no job outlives the recovery age, an id it holds has no job, and
\* none can begin.  With any number of overlapping sweeps, claims serialized or not.
THEOREM ReapsOnlyOrphansHolds == Spec => []ReapsOnlyOrphans
<1>1. CASE JobsMayOutliveAge
  <2>1. ReapsOnlyOrphans
    BY <1>1 DEF ReapsOnlyOrphans
  <2> QED BY <2>1, PTL
<1>2. CASE ~JobsMayOutliveAge
  <2>1. Init => OrphanInv
    <3> SUFFICES ASSUME Init PROVE OrphanInv
      OBVIOUS
    <3>1. \A t \in Task : ~row[t].stale /\ ~Claiming(t)
      BY DEF Init, LogInit, NoRow, WorkerInit, Claiming, Idle
    <3>2. \A w \in Sweep : sweep[w].stale = {}
      BY DEF Init, ReaperInit, SweepOff
    <3> QED BY <3>1, <3>2 DEF OrphanInv
  <2>2. TypeOK /\ OwnInv /\ KnownInv /\ OrphanInv /\ [Next]_vars => OrphanInv'
    BY <1>2, OrphanStep
  <2>3. OrphanInv => ReapsOnlyOrphans
    BY DEF OrphanInv, ReapsOnlyOrphans
  <2> QED BY <2>1, <2>2, <2>3, TypeCorrect, OwnHolds, KnownHolds, PTL DEF Spec
<1> QED BY <1>1, <1>2

------------------------------------------------------------------------------
(* RowsAreOwned: while nothing fails, a job leaves its row settled.              *)
Closed == {"completed", "failed"}
SettledInv ==
  faults = 0 => \A s \in Slot : /\ slot[s].at \in Closed => Done(slot[s].task)
                                /\ slot[s].at = "done" => ~Queued(slot[s].task)

\* An error is never forgotten.
LEMMA FaultsGrow ==
  ASSUME TypeOK, [Next]_vars, faults' = 0
  PROVE  faults = 0
<1>0. faults \in Nat /\ (Fault \/ NoFault => faults = 0)
  BY DEF TypeOK, WorkerTypeOK, Fault, NoFault
<1>1. ASSUME NEW w \in Sweep, SweepStart(w) \/ SweepStep(w) PROVE faults = 0
  <2>1. UNCHANGED faults \/ Fault \/ NoFault
    BY <1>1, Zenon DEF SweepStart, SweepStep, SweepPage, SweepRow, SweepBlank, SweepPageEnd,
                       SweepFindStale, SweepMarkStale, SweepStaleDone, SweepPurge
  <2> QED BY <1>0, <2>1
<1>2. ASSUME NEW t \in Task, Post(t) \/ HandlerStep(t) PROVE faults = 0
  BY <1>0, <1>2 DEF Post, HandlerStep, Insert, HandOver, Refuse
<1>3. ASSUME NEW s \in Slot, JobStep(s) PROVE faults = 0
  <2>1. UNCHANGED faults \/ Fault \/ NoFault
    BY <1>3, Zenon DEF JobStep, Claim, ClaimWrite, ClaimError, RouteThrows, WorkerError, Route,
                       NoAgent, RouteError, RouteCatch, Finish
  <2> QED BY <1>0, <2>1
<1>4. CASE Work
  <2>1. CASE Pump \/ PumpReturn \/ GraceExpires \/ \E s \in Slot : StartJob(s)
    BY <2>1 DEF Pump, PumpReturn, GraceExpires, StartJob
  <2> QED BY <1>3, <1>4, <2>1 DEF Work, WorkerNext
<1>5. CASE ProcessEnds \/ ServerClosed \/ Serve \/ Shutdown \/ (\E t \in Task : Age(t)) \/ UNCHANGED vars
  BY <1>5 DEF ProcessEnds, ServerClosed, Stop, Serve, Shutdown, Age, workerVars, vars
<1> QED BY <1>1, <1>2, <1>4, <1>5
        DEF Next, Boot, Tick, Request, Handle, Reap, Exit, Crash

\* A job's step, when it meets no error: it leaves routeTask only with a terminal
\* row, and the task's place in tracked only with a row that is not QUEUED.
LEMMA JobSettles ==
  ASSUME TypeOK, OwnInv, KnownInv, SettledInv, NEW s \in Slot, JobStep(s), faults' = 0, faults = 0
  PROVE  \E t \in Task :
           /\ t = slot[s].task
           /\ \A r \in Slot : r # s => slot'[r] = slot[r] /\ slot[r].task # t
           /\ slot'[s].task = t \/ slot'[s] = Idle
           /\ Running(t)' => Routed(t)' \/ (Running(t) /\ ~Routed(t))
           /\ slot'[s].at \in Closed => Done(t)'
           /\ slot'[s].at = "done" => ~Queued(t)'
           /\ UNCHANGED tracked \/ (~Queued(t) /\ tracked' = tracked \ {t})
<1>1. slot[s].at \in Stage
  BY JobStepFrame DEF Finish, Stage
<1>2. PICK t \in Task :
        /\ t = slot[s].task /\ LogTypeOK /\ slot[s] \in Job /\ NoTask \notin Task
        /\ slot \in [Slot -> Job \cup {Idle}]
  BY <1>1, JobAt, TaskAssumption DEF TypeOK, WorkerTypeOK, NoTask, Task
<1>3. \/ slot' = [slot EXCEPT ![s] = Idle] /\ Finish(s)
      \/ \E stage \in Stage : Goto(s, stage) /\ JobFrame
  BY JobStepFrame DEF Finish
<1>4. /\ \A r \in Slot : r # s => slot'[r] = slot[r] /\ slot[r].task # t
      /\ slot'[s].task = t \/ slot'[s] = Idle
  BY <1>2, <1>3 DEF Goto, Job, OwnInv, Holder
<1>5. /\ Routed(t) <=> slot[s].at \in LiveStage
      /\ slot'[s].at \in LiveStage => Routed(t)'
  <2>1. slot'[s].at \in LiveStage => slot'[s].task = t
    BY <1>4 DEF Idle, LiveStage, RouteStage
  <2> QED BY <1>2, <1>4, <2>1 DEF Routed
<1>6. \A stage : Goto(s, stage) => slot'[s].at = stage
  BY <1>2 DEF Goto, Job
<1>7. ~Fault
  BY DEF Fault
<1>8. \A x \in Terminal : SetStatus(t, x) => Done(t)' /\ ~Queued(t)' /\ ~Running(t)'
  BY <1>2 DEF SetStatus, LogTypeOK, Row, Done, Queued, Running, Terminal, InFlight
<1>9. {"claimWrite", "workerError", "done", "idle", "claim"} \cap LiveStage = {}
  BY DEF LiveStage, RouteStage
<1>10. UNCHANGED row => (Running(t)' <=> Running(t)) /\ (Queued(t)' <=> Queued(t)) /\ (Done(t)' <=> Done(t))
  BY DEF Running, Queued, Done
<1> DEFINE Goal == /\ Running(t)' => Routed(t)' \/ (Running(t) /\ ~Routed(t))
                   /\ slot'[s].at \in Closed => Done(t)'
                   /\ slot'[s].at = "done" => ~Queued(t)'
<1>11. Goal
  <2>1. CASE Claim(s)
    <3>1. \/ ~Queued(t) /\ slot'[s].at = "done" /\ UNCHANGED row
          \/ slot'[s].at = "begin"
          \/ slot'[s].at = "claimWrite" /\ UNCHANGED row
      BY <1>2, <1>6, <2>1 DEF Claim, BeginRoute, Claimable
    <3>2. ~Routed(t)
      BY <1>5, <1>9, <2>1 DEF Claim, At
    <3>3. "begin" \in LiveStage
      BY DEF LiveStage, RouteStage
    <3> QED BY <1>5, <1>10, <3>1, <3>2, <3>3 DEF Closed
  <2>2. CASE ClaimWrite(s)
    <3>1. slot'[s].at = "begin" /\ "begin" \in LiveStage
      BY <1>6, <2>2 DEF ClaimWrite, BeginRoute, LiveStage, RouteStage
    <3> QED BY <1>5, <3>1 DEF Closed
  <2>3. CASE ClaimError(s) \/ RouteThrows(s) \/ RouteError(s)
    BY <1>7, <2>3 DEF ClaimError, RouteThrows, RouteError
  <2>4. CASE WorkerError(s) \/ RouteCatch(s)
    <3>1. SetStatus(t, "FAILED") /\ "FAILED" \in Terminal
      BY <1>2, <1>7, <2>4 DEF WorkerError, RouteCatch, RecordWorkerError, MarkFailed, Terminal
    <3> QED BY <1>8, <3>1
  <2>5. CASE NoAgent(s)
    <3>1. slot'[s].at = "catch" /\ "catch" \in LiveStage
      BY <1>6, <2>5 DEF NoAgent, LiveStage
    <3> QED BY <1>5, <3>1 DEF Closed
  <2>6. CASE Route(s)
    <3>1. PICK next \in RouteNext(slot[s].at) :
            /\ slot[s].at \in RouteStage /\ slot'[s].at = next
            /\ RouteWrite(next, t)
      BY <1>2, <1>6, <2>6 DEF Route
    <3>2. CASE next \in Closed
      <4>1. \E x \in Terminal : SetStatus(t, x)
        BY <3>1, <3>2 DEF RouteWrite, Written, Closed, Terminal
      <4> QED BY <1>5, <1>8, <3>1, <3>2, <4>1 DEF Closed
    <3>3. CASE slot[s].at \in Closed
      <4>1. next = "done" /\ SetStatus(t, row[t].status) /\ Done(t)
        BY <1>2, <3>1, <3>3 DEF RouteNext, RouteWrite, Written, SettledInv, Closed
      <4>2. row'[t].status = row[t].status
        BY <1>2, <4>1 DEF SetStatus, LogTypeOK, Row
      <4>3. Done(t)' /\ ~Running(t)' /\ ~Queued(t)'
        BY <4>1, <4>2 DEF Done, Running, Queued, Terminal, InFlight
      <4> QED BY <4>3
    <3>4. CASE next \in BeforeEnd
      <4>1. next \in LiveStage \ (Closed \cup {"done"})
        BY <3>4 DEF BeforeEnd, LiveStage, RouteStage, Closed
      <4> QED BY <1>5, <3>1, <4>1
    <3>5. next \in Closed \cup BeforeEnd \/ slot[s].at \in Closed
      BY <3>1 DEF RouteNext, RouteStage, Closed, BeforeEnd
    <3> QED BY <3>2, <3>3, <3>4, <3>5
  <2>7. CASE Finish(s)
    <3>1. UNCHANGED row /\ ~Routed(t) /\ slot'[s].at = "idle"
      BY <1>2, <1>5, <1>9, <2>7 DEF Finish, Idle
    <3> QED BY <1>10, <3>1 DEF Closed
  <2> QED BY <2>1, <2>2, <2>3, <2>4, <2>5, <2>6, <2>7 DEF JobStep
<1>12. UNCHANGED tracked \/ (~Queued(t) /\ tracked' = tracked \ {t})
  <2>1. CASE Finish(s)
    BY <1>2, <2>1 DEF Finish, Untrack, SettledInv
  <2>2. CASE JobFrame
    BY <2>2 DEF JobFrame, queueVars
  <2> QED BY <1>3, <2>1, <2>2
<1> QED BY <1>2, <1>4, <1>11, <1>12

\* What keeps SettledInv for a step that is no job's.
LEMMA SettledFrame ==
  ASSUME TypeOK, OwnInv, KnownInv, SettledInv, faults = 0,
         \A s \in Slot : slot'[s].at \in Stage => UNCHANGED slot[s] \/ slot'[s].at = "claim",
         \A t \in Task : Exists(t) => SettlesOnly(t)
  PROVE  SettledInv'
<1> SUFFICES ASSUME NEW s \in Slot, slot'[s].at \in Closed \cup {"done"}
             PROVE  /\ slot'[s].at \in Closed => Done(slot[s].task)'
                    /\ slot'[s].at = "done" => ~Queued(slot[s].task)'
  BY DEF SettledInv
<1>1. slot'[s] = slot[s] /\ slot[s].at \in Stage
  BY DEF Stage, LiveStage, RouteStage, Closed
<1>2. SettlesOnly(slot[s].task)
  BY <1>1, JobKnown
<1>3. PICK t : t = slot[s].task
  OBVIOUS
<1>4. /\ slot[s].at \in Closed => Done(t)'
      /\ slot[s].at = "done" => ~Queued(t)'
  BY <1>1, <1>2, <1>3 DEF SettledInv, SettlesOnly, Done, Queued, Terminal
<1> QED BY <1>1, <1>3, <1>4
LEMMA SettledStep == TypeOK /\ OwnInv /\ KnownInv /\ SettledInv /\ [Next]_vars => SettledInv'
<1> SUFFICES ASSUME TypeOK, OwnInv, KnownInv, SettledInv, [Next]_vars, faults' = 0
             PROVE  SettledInv'
  BY DEF SettledInv
<1>0. faults = 0 /\ LogTypeOK /\ slot \in [Slot -> Job \cup {Idle}]
  BY FaultsGrow DEF TypeOK, WorkerTypeOK
<1>1. ASSUME UNCHANGED slot, \A t \in Task : Exists(t) => SettlesOnly(t) PROVE SettledInv'
  BY <1>0, <1>1, SettledFrame
<1>2. UNCHANGED row => \A t \in Task : SettlesOnly(t)
  BY DEF SettlesOnly
<1>3. ASSUME NEW w \in Sweep, SweepStart(w) \/ SweepStep(w) PROVE SettledInv'
  BY <1>1, <1>3, SweepStepFrame, SweepStatus DEF SweepFrame
<1>4. ASSUME NEW t \in Task, Post(t) \/ HandlerStep(t) PROVE SettledInv'
  BY <1>1, <1>4, HandlerStepFrame, HandlerStatus DEF HandlerFrame
<1>5. ASSUME NEW s \in Slot, JobStep(s) PROVE SettledInv'
  <2>1. PICK t \in Task :
           /\ t = slot[s].task
           /\ \A r \in Slot : r # s => slot'[r] = slot[r] /\ slot[r].task # t
           /\ slot'[s].task = t \/ slot'[s] = Idle
           /\ slot'[s].at \in Closed => Done(t)'
           /\ slot'[s].at = "done" => ~Queued(t)'
    BY <1>0, <1>5, JobSettles
  <2>2. ASSUME NEW r \in Slot, slot'[r].at \in Closed \cup {"done"}
        PROVE  /\ slot'[r].at \in Closed => Done(slot[r].task)'
               /\ slot'[r].at = "done" => ~Queued(slot[r].task)'
    <3>1. CASE r = s
      <4>1. slot'[s].task = t
        BY <2>1, <2>2, <3>1 DEF Idle, Closed
      <4> QED BY <2>1, <3>1, <4>1 DEF Done, Queued
    <3>2. CASE r # s
      <4>1. slot'[r] = slot[r] /\ slot[r].at \in Stage
        BY <2>1, <2>2, <3>2 DEF Stage, LiveStage, RouteStage, Closed
      <4>2. slot[r].task \in Task /\ slot[r].task # slot[s].task
        BY <2>1, <3>2, <4>1, JobKnown
      <4>3. row'[slot[r].task] = row[slot[r].task]
        BY <1>5, <4>2, JobElsewhere
      <4> QED BY <1>0, <2>2, <4>1, <4>3 DEF SettledInv, Done, Queued
    <3> QED BY <3>1, <3>2
  <2> QED BY <2>2 DEF SettledInv
<1>6. CASE ProcessEnds
  BY <1>6 DEF ProcessEnds, WorkerReset, Idle, SettledInv, Closed
<1>7. CASE Work
  <2>1. CASE \E s \in Slot : StartJob(s)
    <3>1. PICK s \in Slot : StartJob(s)
      BY <2>1
    <3>2. \A r \in Slot : slot'[r].at \in Stage => UNCHANGED slot[r] \/ slot'[r].at = "claim"
      BY <1>0, <3>1 DEF StartJob
    <3> QED BY <1>0, <1>2, <3>1, <3>2, SettledFrame DEF StartJob
  <2>2. CASE Pump \/ PumpReturn \/ GraceExpires
    BY <1>1, <1>2, <2>2 DEF Pump, PumpReturn, GraceExpires
  <2> QED BY <1>5, <1>7, <2>1, <2>2 DEF Work, WorkerNext
<1>8. CASE \E t \in Task : Age(t)
  <2>1. \A t \in Task : SettlesOnly(t)
    BY <1>0, <1>8 DEF Age, LogTypeOK, Row, SettlesOnly
  <2> QED BY <1>1, <1>8, <2>1 DEF Age, workerVars
<1>9. CASE ServerClosed \/ Serve \/ Shutdown \/ UNCHANGED vars
  BY <1>1, <1>2, <1>9 DEF ServerClosed, Stop, Serve, Shutdown, workerVars, vars
<1> QED BY <1>3, <1>4, <1>6, <1>7, <1>8, <1>9
        DEF Next, Boot, Tick, Request, Handle, Reap, Exit, Crash

\* The phases of the process.  Before it serves there is no handler, and while it is
\* down there is no sweep; only a shutdown, which counts as a restart, closes it.
PhaseInv ==
  /\ proc \in {"closing", "stopping"} => restarts > 0
  /\ proc \in {"down", "boot"} => NoHandler
  /\ proc = "down" => SweepsOff

LEMMA NoHandlerNoStep ==
  ASSUME NoHandler, NEW t \in Task
  PROVE  ~HandlerStep(t)
BY DEF NoHandler, HandlerStep, Insert, HandOver, Refuse, Handler, Handling

LEMMA SweepsOffNoStep ==
  ASSUME SweepsOff, NEW w \in Sweep
  PROVE  ~SweepStep(w)
BY DEF SweepsOff, SweepStep, SweepPage, SweepRow, SweepBlank, SweepPageEnd, SweepFindStale,
       SweepMarkStale, SweepStaleDone, SweepPurge, SweepAt

LEMMA PhaseStep == TypeOK /\ PhaseInv /\ [Next]_vars => PhaseInv'
<1> SUFFICES ASSUME TypeOK, PhaseInv, [Next]_vars PROVE PhaseInv'
  OBVIOUS
<1>0. restarts \in Nat
  BY DEF TypeOK
<1>1. UNCHANGED <<proc, restarts, client, sweep>> => PhaseInv'
  BY DEF PhaseInv, NoHandler, SweepsOff
<1>2. CASE ProcessEnds /\ (restarts' = restarts \/ restarts' = restarts + 1)
  <2>1. NoHandler' /\ SweepsOff'
    BY <1>2 DEF ProcessEnds, IntakeReset, ReaperReset, SweepOff, SweepsOff, NoHandler, Handling
  <2> QED BY <1>2, <2>1 DEF ProcessEnds, PhaseInv
<1>3. CASE Boot \/ Serve \/ Shutdown \/ ServerClosed
  BY <1>0, <1>3 DEF Boot, Serve, Shutdown, ServerClosed, PhaseInv, NoHandler
<1>4. CASE \/ \E w \in Sweep : Tick(w)
           \/ \E t \in Task : Request(t)
  BY <1>4 DEF Tick, Request, PhaseInv, lifeVars
<1>5. CASE Handle
  <2>1. ~NoHandler
    BY <1>5, NoHandlerNoStep DEF Handle
  <2> QED BY <1>5, <2>1 DEF Handle, PhaseInv, lifeVars
<1>6. CASE Reap
  <2>1. ~SweepsOff
    BY <1>6, SweepsOffNoStep DEF Reap
  <2> QED BY <1>6, <2>1 DEF Reap, PhaseInv, NoHandler, lifeVars
<1>7. CASE Work \/ (\E t \in Task : Age(t)) \/ UNCHANGED vars
  BY <1>1, <1>7 DEF Work, Age, lifeVars, vars
<1> QED BY <1>2, <1>3, <1>4, <1>5, <1>6, <1>7 DEF Next, Exit, Crash

OwnedInv ==
  restarts = 0 /\ faults = 0 =>
    \A t \in Task : /\ Queued(t) => t \in tracked \/ client[t] \in {"enqueue", "refuse"}
                    /\ Running(t) => Routed(t)

LEMMA EnqueueKeeps ==
  ASSUME NEW t \in Task, Enqueue(t)
  PROVE  tracked \subseteq tracked' /\ (EnqueueResult(t) \in {"ok", "duplicate"} => t \in tracked')
BY DEF Enqueue, EnqueueResult

\* No sweep, handler or pump takes an id out of tracked.
LEMMA SweepTracks ==
  ASSUME TypeOK, NEW w \in Sweep, SweepStart(w) \/ SweepStep(w)
  PROVE  tracked \subseteq tracked'
BY SweepStepFrame, SweepRowCases, EnqueueKeeps DEF QueueFrame

LEMMA HandlerTracks ==
  ASSUME NEW t \in Task, Post(t) \/ HandlerStep(t)
  PROVE  tracked \subseteq tracked'
BY HandlerStepFrame, EnqueueKeeps DEF HandOver

LEMMA OwnedFrame ==
  ASSUME OwnedInv, restarts = 0, faults = 0, Forward, tracked \subseteq tracked',
         \A t \in Task : /\ Running(t)' => Running(t)
                         /\ Routed(t) => Routed(t)'
                         /\ client'[t] = client[t]
  PROVE  OwnedInv'
BY DEF OwnedInv, Forward

LEMMA OwnedStep ==
  TypeOK /\ OwnInv /\ KnownInv /\ SettledInv /\ PhaseInv /\ OwnedInv /\ [Next]_vars => OwnedInv'
<1> SUFFICES ASSUME TypeOK, OwnInv, KnownInv, SettledInv, PhaseInv, OwnedInv, [Next]_vars,
                    restarts' = 0, faults' = 0
             PROVE  OwnedInv'
  BY DEF OwnedInv
<1>0. /\ restarts = 0 /\ faults = 0 /\ ~Exit /\ ~Crash
      /\ LogTypeOK /\ slot \in [Slot -> Job \cup {Idle}] /\ client \in [Task -> Client]
  <2>1. faults = 0 /\ restarts \in Nat
    BY FaultsGrow DEF TypeOK
  <2>2. ~Exit /\ ~Crash /\ ~Shutdown
    BY <2>1 DEF Exit, Crash, Shutdown, PhaseInv
  <2>3. restarts = 0
    BY <2>2 DEF Next, Boot, Serve, ServerClosed, Tick, Request, Age, Work, Handle, Reap,
                lifeVars, vars
  <2> QED BY <2>1, <2>2, <2>3 DEF TypeOK, WorkerTypeOK, IntakeTypeOK
<1>1. UNCHANGED slot => \A t \in Task : Routed(t)' <=> Routed(t)
  BY DEF Routed
<1>2. UNCHANGED row => Forward /\ \A t \in Task : Running(t)' <=> Running(t)
  BY DEF Forward, Exists, Queued, Running
<1>3. \A t \in Task : SettlesOnly(t) => (Running(t)' => Running(t))
  BY DEF SettlesOnly, Running, InFlight
<1>4. ASSUME NEW w \in Sweep, SweepStart(w) \/ SweepStep(w), UNCHANGED client PROVE OwnedInv'
  <2>1. UNCHANGED slot /\ Forward /\ tracked \subseteq tracked'
    BY <1>4, SweepStepFrame, SweepForward, SweepTracks DEF SweepFrame
  <2>2. \A t \in Task : SettlesOnly(t)
    BY <1>4, SweepStatus
  <2> QED BY <1>0, <1>1, <1>3, <1>4, <2>1, <2>2, OwnedFrame
<1>5. ASSUME NEW t \in Task, Post(t) \/ HandlerStep(t) PROVE OwnedInv'
  <2>1. UNCHANGED slot /\ tracked \subseteq tracked'
    BY <1>5, HandlerStepFrame, HandlerTracks DEF HandlerFrame
  <2>2. \A u \in Task : u # t => row'[u] = row[u] /\ client'[u] = client[u]
    <3>1. UNCHANGED row \/ CreateQueued(t) \/ RecordWorkerError(t)
      BY <1>5, Zenon DEF Post, HandlerStep, Insert, HandOver, Refuse
    <3>2. PICK a : Answers(t, a)
      BY <1>5, Zenon DEF Post, HandlerStep, Insert, HandOver, Refuse
    <3> QED BY <1>0, <3>1, <3>2, OtherRows DEF Answers
  <2>3. ASSUME NEW u \in Task, u # t
        PROVE  /\ Queued(u)' => u \in tracked' \/ client'[u] \in {"enqueue", "refuse"}
               /\ Running(u)' => Routed(u)'
    <3>1. (Queued(u)' <=> Queued(u)) /\ (Running(u)' <=> Running(u))
      BY <2>2, <2>3 DEF Queued, Running
    <3> QED BY <1>0, <1>1, <2>1, <2>2, <2>3, <3>1 DEF OwnedInv
  <2>4. Queued(t)' => t \in tracked' \/ client'[t] \in {"enqueue", "refuse"}
    <3>1. ~Fault
      BY <1>0 DEF Fault
    <3>2. CASE Post(t)
      <4>1. ~Queued(t)'
        BY <3>2 DEF Post, Handler, KnownInv, Exists, Queued
      <4> QED BY <4>1
    <3>3. CASE Insert(t)
      BY <1>0, <3>1, <3>3 DEF Insert, Answers
    <3>4. CASE HandOver(t)
      BY <1>0, <3>4, EnqueueKeeps DEF HandOver, Answers
    <3>5. CASE Refuse(t)
      <4>1. ~Queued(t)'
        BY <1>0, <3>1, <3>5 DEF Refuse, RecordWorkerError, SetStatus, LogTypeOK, Row, Queued
      <4> QED BY <4>1
    <3> QED BY <1>5, <3>2, <3>3, <3>4, <3>5 DEF HandlerStep
  <2>5. Running(t)' => Running(t)
    <3>1. UNCHANGED row \/ CreateQueued(t) \/ RecordWorkerError(t)
      BY <1>5, Zenon DEF Post, HandlerStep, Insert, HandOver, Refuse
    <3> QED BY <1>0, <3>1, WritesNothingLive
  <2> QED BY <1>0, <1>1, <2>1, <2>3, <2>4, <2>5 DEF OwnedInv
<1>6. ASSUME NEW s \in Slot, JobStep(s), UNCHANGED client PROVE OwnedInv'
  <2>1. PICK t \in Task :
           /\ t = slot[s].task
           /\ Running(t)' => Routed(t)' \/ (Running(t) /\ ~Routed(t))
           /\ UNCHANGED tracked \/ (~Queued(t) /\ tracked' = tracked \ {t})
    BY <1>0, <1>6, JobSettles
  <2>2. Forward
    BY <1>6, JobForward
  <2>3. ASSUME NEW u \in Task, u # t
        PROVE  (Queued(u)' <=> Queued(u)) /\ (Running(u)' <=> Running(u)) /\ (Routed(u)' <=> Routed(u))
    BY <1>6, <2>1, <2>3, JobElsewhere DEF Queued, Running
  <2>4. Running(t)' => Routed(t)'
    BY <1>0, <2>1 DEF OwnedInv
  <2>5. \A u \in Task : Queued(u)' => u \in tracked' \/ client'[u] \in {"enqueue", "refuse"}
    BY <1>0, <1>6, <2>1, <2>2 DEF OwnedInv, Forward
  <2> QED BY <1>0, <2>3, <2>4, <2>5 DEF OwnedInv
<1>7. CASE Work
  <2>1. CASE \E s \in Slot : StartJob(s)
    <3>1. PICK s \in Slot : StartJob(s)
      BY <2>1
    <3>2. \A r \in Slot : slot[r].at \in LiveStage => slot'[r] = slot[r]
      BY <1>0, <3>1 DEF StartJob, Idle, LiveStage, RouteStage
    <3>3. \A t \in Task : Routed(t) => Routed(t)'
      BY <3>2 DEF Routed
    <3> QED BY <1>0, <1>2, <1>7, <3>1, <3>3, OwnedFrame DEF StartJob, Work
  <2>2. CASE Pump \/ PumpReturn \/ GraceExpires
    BY <1>0, <1>1, <1>2, <1>7, <2>2, OwnedFrame DEF Pump, PumpReturn, GraceExpires, Work
  <2> QED BY <1>6, <1>7, <2>1, <2>2 DEF Work, WorkerNext
<1>8. CASE \E t \in Task : Age(t)
  <2>1. Forward /\ \A t \in Task : Running(t)' => Running(t)
    BY <1>0, <1>8 DEF Age, Forward, Exists, Queued, Running, LogTypeOK, Row
  <2> QED BY <1>0, <1>1, <1>8, <2>1, OwnedFrame DEF Age, workerVars
<1>9. CASE ServerClosed \/ Serve \/ Shutdown \/ UNCHANGED vars
  BY <1>0, <1>1, <1>2, <1>9, OwnedFrame DEF ServerClosed, Stop, Serve, Shutdown, workerVars, vars
<1> QED BY <1>0, <1>4, <1>5, <1>6, <1>7, <1>8, <1>9
        DEF Next, Boot, Tick, Request, Handle, Reap

\* While the first process lives and nothing fails, no row is left for a sweep: a
\* QUEUED one is tracked or in its handler's hands, one in flight has its job.
THEOREM RowsAreOwnedHolds == Spec => []RowsAreOwned
<1>1. Init => SettledInv /\ PhaseInv /\ OwnedInv
  <2> SUFFICES ASSUME Init PROVE SettledInv /\ PhaseInv /\ OwnedInv
    OBVIOUS
  <2>1. SettledInv
    BY DEF Init, WorkerInit, Idle, SettledInv, Closed
  <2>2. PhaseInv
    BY DEF Init, IntakeInit, ReaperInit, SweepOff, PhaseInv, NoHandler, SweepsOff, Handling
  <2>3. OwnedInv
    BY DEF Init, LogInit, NoRow, OwnedInv, Queued, Running, InFlight
  <2> QED BY <2>1, <2>2, <2>3
<1>2. OwnedInv => RowsAreOwned
  BY DEF OwnedInv, RowsAreOwned
<1> QED BY <1>1, <1>2, SettledStep, PhaseStep, OwnedStep, TypeCorrect, OwnHolds, KnownHolds,
           PTL DEF Spec

------------------------------------------------------------------------------
(* BootRecoversQueued.  The sweep of a booting process has passed on every QUEUED *)
(* row up to its cursor, and during the boot no handler inserts another one.     *)
Behind(c) == {t \in Task : Queued(t) /\ t > c}

\* A page is a prefix of the rows behind the cursor, and a short one is all of them.
LEMMA PageIsPrefix ==
  ASSUME NEW c \in Nat
  PROVE  /\ FindQueuedPage(c) \subseteq Behind(c)
         /\ \A t \in Behind(c), u \in FindQueuedPage(c) : t <= u => t \in FindQueuedPage(c)
         /\ Cardinality(FindQueuedPage(c)) < PageSize => Behind(c) = FindQueuedPage(c)
         /\ FindQueuedPage(c) = {} => Behind(c) = {}
<1> DEFINE B == Behind(c)
           Below(t) == {u \in B : u < t}
           P == {t \in B : Cardinality(Below(t)) < PageSize}
<1>1. FindQueuedPage(c) = P
  BY DEF FindQueuedPage, Behind
<1>2. /\ B \subseteq Task /\ Task \subseteq Nat /\ IsFiniteSet(Task)
      /\ PageSize \in Nat \ {0}
  BY TaskAssumption, PageSizeAssumption, FS_Interval DEF Task, Behind
<1> HIDE DEF B
<1>3. \A S \in SUBSET Task : IsFiniteSet(S) /\ Cardinality(S) \in Nat
  BY <1>2, FS_Subset, FS_CardinalityType
<1>4. \A S \in SUBSET Task : \A T \in SUBSET S : Cardinality(T) <= Cardinality(S)
  BY <1>3, FS_Subset
<1>5. \A t \in B : Below(t) \in SUBSET Task
  BY <1>2
<1>6. ASSUME NEW t \in B, NEW u \in P, t <= u PROVE t \in P
  <2>0. t \in Nat /\ u \in Nat /\ u \in B /\ \A x \in B : x \in Nat
    BY <1>2, <1>6
  <2>1. Below(t) \in SUBSET Below(u) /\ Below(u) \in SUBSET Task
    <3>1. \A x \in Below(t) : x \in B /\ x < u
      BY <1>6, <2>0
    <3> QED BY <1>2, <3>1
  <2>2. Cardinality(Below(t)) <= Cardinality(Below(u))
    BY <1>4, <2>1
  <2>3. /\ Cardinality(Below(t)) \in Nat /\ Cardinality(Below(u)) \in Nat
        /\ Cardinality(Below(u)) < PageSize
    BY <1>3, <1>5, <1>6
  <2> HIDE DEF Below
  <2>4. Cardinality(Below(t)) < PageSize
    BY <1>2, <2>2, <2>3
  <2> QED BY <2>4
<1>7. ASSUME Cardinality(P) < PageSize PROVE B = P
  <2> SUFFICES ASSUME B \ P # {} PROVE FALSE
    OBVIOUS
  <2>1. PICK t \in B \ P : \A u \in B \ P : t <= u
    BY <1>2, NatMin
  <2>2. Below(t) \in SUBSET P /\ P \in SUBSET Task
    <3>1. t \in Nat /\ \A x \in B : x \in Nat
      BY <1>2, <2>1
    <3>2. \A x \in B : x < t => x \in P
      BY <2>1, <3>1
    <3> QED BY <1>2, <3>2
  <2>3. /\ Cardinality(Below(t)) <= Cardinality(P)
        /\ Cardinality(Below(t)) \in Nat /\ Cardinality(P) \in Nat
    BY <1>3, <1>4, <1>5, <2>1, <2>2
  <2> HIDE DEF Below
  <2>4. Cardinality(Below(t)) < PageSize
    BY <1>2, <1>7, <2>3
  <2> QED BY <2>1, <2>4
<1>8. P = {} => B = {}
  <2>1. Cardinality({}) = 0
    BY FS_EmptySet
  <2>2. P = {} => Cardinality(P) = 0
    BY <2>1
  <2> HIDE DEF P
  <2> QED BY <1>2, <1>7, <2>2
<1> HIDE DEF P
<1> QED BY <1>1, <1>6, <1>7, <1>8 DEF P, B

PassedOn(w) ==
  /\ sweep[w].at = "page" =>
       \A t \in Task : Queued(t) /\ t <= sweep[w].cursor => t \in tracked
  /\ sweep[w].at \in {"rows", "blank"} =>
       \A t \in Task : Queued(t) /\ t \notin sweep[w].rows
                       /\ (t <= sweep[w].cursor \/ ~sweep[w].full) => t \in tracked
  /\ sweep[w].at \in {"findStale", "markStale"} /\ sweep[w].draining =>
       \A t \in Task : Queued(t) => t \in tracked

BootInv == faults = 0 /\ proc = "boot" => \A w \in Sweep : PassedOn(w)

\* PassedOn does not mind a QUEUED row less, nor a tracked id more.
LEMMA PassedOnFrame ==
  ASSUME NEW w \in Sweep, PassedOn(w), UNCHANGED sweep[w],
         \A t \in Task : Queued(t)' => Queued(t) /\ (t \in tracked => t \in tracked')
  PROVE  PassedOn(w)'
BY DEF PassedOn

\* A sweep leaves the local state of the others alone.
LEMMA SweepWritesOne ==
  ASSUME TypeOK, NEW v \in Sweep, SweepStart(v) \/ SweepStep(v), NEW w \in Sweep, w # v
  PROVE  UNCHANGED sweep[w]
<1>0. sweep \in [Sweep -> SweepState]
  BY DEF TypeOK, ReaperTypeOK
<1>1. \A r : sweep' = [sweep EXCEPT ![v] = r] => UNCHANGED sweep[w]
  BY <1>0
<1>2. CASE SweepStart(v) \/ SweepStaleDone(v) \/ SweepPurge(v) \/ \E t \in Task : SweepMarkStale(v, t)
  BY <1>0, <1>2 DEF SweepStart, SweepStaleDone, SweepPurge, SweepMarkStale
<1>3. (\A d : FindStaleNext(v, d) => UNCHANGED sweep[w])
      /\ (\A s : SweepGoto(v, s) => UNCHANGED sweep[w])
  BY <1>0 DEF FindStaleNext, SweepGoto
<1>4. CASE SweepRow(v) \/ SweepBlank(v)
  <2>1. \/ SweepGoto(v, "blank") \/ FindStaleNext(v, FALSE)
        \/ sweep' = [sweep EXCEPT ![v].rows = @ \ {FirstOf(sweep[v].rows)}]
        \/ sweep' = [sweep EXCEPT ![v].at = "rows", ![v].rows = @ \ {FirstOf(sweep[v].rows)}]
    BY <1>4, Zenon DEF SweepRow, SweepBlank
  <2> QED BY <1>0, <1>3, <2>1
<1>5. CASE SweepPage(v)
  <2>1. FindStaleNext(v, TRUE) \/ \E r : sweep' = [sweep EXCEPT ![v] = r]
    BY <1>5, Zenon DEF SweepPage
  <2> QED BY <1>1, <1>3, <2>1
<1>6. CASE SweepPageEnd(v) \/ SweepFindStale(v)
  <2>1. \/ \E d : FindStaleNext(v, d)
        \/ \E s : SweepGoto(v, s)
        \/ \E r : sweep' = [sweep EXCEPT ![v] = r]
    BY <1>6, Zenon DEF SweepPageEnd, SweepFindStale
  <2> QED BY <1>1, <1>3, <2>1
<1> QED BY <1>2, <1>4, <1>5, <1>6 DEF SweepStep

\* The steps of the sweep itself.
LEMMA SweepPasses ==
  ASSUME TypeOK, KnownInv, NEW w \in Sweep, SweepStart(w) \/ SweepStep(w), PassedOn(w),
         faults = 0, faults' = 0
  PROVE  PassedOn(w)'
<1>0. /\ sweep \in [Sweep -> SweepState] /\ sweep[w] \in SweepState
      /\ LogTypeOK /\ Task \subseteq Nat /\ ~Fault
  BY TaskAssumption DEF TypeOK, ReaperTypeOK, Task, Fault
<1>1. /\ tracked \subseteq tracked'
      /\ \A t \in Task : Queued(t)' => Queued(t)
  BY SweepTracks, SweepForward DEF Forward
<1>2. ASSUME NEW d \in BOOLEAN, FindStaleNext(w, d), d => \A t \in Task : Queued(t) => t \in tracked
      PROVE  PassedOn(w)'
  <2>1. sweep'[w] = [SweepOff EXCEPT !.at = "findStale", !.draining = d]
    BY <1>0, <1>2 DEF FindStaleNext
  <2>2. sweep'[w].at = "findStale" /\ sweep'[w].draining = d
    BY <2>1 DEF SweepOff
  <2> QED BY <1>1, <1>2, <2>2 DEF PassedOn
<1>3. CASE SweepStart(w)
  <2>1. sweep'[w].at = "page" /\ sweep'[w].cursor = 0
    BY <1>0, <1>3 DEF SweepStart, SweepOff
  <2>2. \A t \in Task : ~(t <= 0)
    BY TaskAssumption DEF Task
  <2> QED BY <2>1, <2>2 DEF PassedOn
<1>4. CASE SweepStaleDone(w) \/ SweepPurge(w)
  <2>1. sweep'[w].at \in {"off", "purge"}
    BY <1>0, <1>4 DEF SweepStaleDone, SweepPurge, SweepOff
  <2> QED BY <2>1 DEF PassedOn
<1>5. CASE SweepPage(w)
  <2> DEFINE c == sweep[w].cursor
             page == FindQueuedPage(c)
             r == [sweep[w] EXCEPT !.at = "rows", !.rows = page,
                                   !.blank = {u \in page : ~row[u].prompt},
                                   !.full = (Cardinality(page) >= PageSize),
                                   !.cursor = LastOf(page)]
  <2>1. c \in Nat /\ \A t \in Task : Queued(t) /\ t <= c => t \in tracked
    BY <1>0, <1>5 DEF SweepPage, SweepAt, SweepState, PassedOn
  <2>2. \/ page = {} /\ FindStaleNext(w, TRUE)
        \/ page # {} /\ sweep' = [sweep EXCEPT ![w] = r]
    <3>1. ~Fault
      BY <1>0
    <3> QED BY <1>5, <3>1, Zenon DEF SweepPage
  <2>3. \A t \in Task : Queued(t) => t \in tracked \/ t \in Behind(c)
    BY <1>0, <2>1 DEF Behind
  <2>4. CASE page = {} /\ FindStaleNext(w, TRUE)
    BY <1>2, <2>1, <2>3, <2>4, PageIsPrefix
  <2>5. CASE page # {} /\ sweep' = [sweep EXCEPT ![w] = r]
    <3>1. /\ r.at = "rows" /\ r.rows = page /\ r.cursor = LastOf(page)
          /\ r.full <=> Cardinality(page) >= PageSize
      BY <1>0 DEF SweepState
    <3>2. page \in SUBSET Task /\ LastOf(page) \in page
      BY <2>5, LastOfType DEF FindQueuedPage
    <3>3. Cardinality(page) \in Nat /\ PageSize \in Nat
      <4>1. IsFiniteSet(Task)
        BY FS_Interval, TaskAssumption DEF Task
      <4>2. IsFiniteSet(page)
        BY <3>2, <4>1, FS_Subset
      <4> QED BY <4>2, FS_CardinalityType, PageSizeAssumption
    <3>4. sweep'[w] = r
      BY <1>0, <2>5
    <3> HIDE DEF page, r, c
    <3>5. \A t \in Task : Queued(t) /\ t \notin page /\ (t <= LastOf(page) \/ ~r.full) => t \in tracked
      <4>1. \A t \in Behind(c) : t <= LastOf(page) => t \in page
        BY <2>1, <3>2, PageIsPrefix DEF page
      <4>2. ~r.full => Behind(c) = page
        BY <2>1, <3>1, <3>3, PageIsPrefix DEF page
      <4> QED BY <2>3, <4>1, <4>2
    <3> QED BY <1>1, <3>1, <3>4, <3>5 DEF PassedOn
  <2> QED BY <2>2, <2>4, <2>5
<1> DEFINE t == FirstOf(sweep[w].rows)
<1>6. sweep[w].rows # {} => t \in sweep[w].rows /\ t \in Task
  BY <1>0, FirstOfType DEF SweepState
<1>7. CASE SweepRow(w) \/ SweepBlank(w)
  <2>1. sweep[w].rows # {} /\ sweep[w].at \in {"rows", "blank"}
    BY <1>7 DEF SweepRow, SweepBlank, SweepAt
  <2>2. PICK x \in Task : x = t
    BY <1>6, <2>1
  <2>3. \/ SweepGoto(w, "blank") /\ QueueFrame /\ UNCHANGED row
        \/ FindStaleNext(w, FALSE)
        \/ Enqueue(x) /\ CanAccept /\ sweep' = [sweep EXCEPT ![w].rows = @ \ {x}] /\ SweepRow(w)
        \/ RecordWorkerError(x) /\ sweep' = [sweep EXCEPT ![w].at = "rows", ![w].rows = @ \ {x}]
    <3>1. ~Fault
      BY <1>0
    <3>2. SweepRow(w) => \/ SweepGoto(w, "blank") /\ QueueFrame /\ UNCHANGED row
                         \/ FindStaleNext(w, FALSE)
                         \/ Enqueue(x) /\ CanAccept /\ sweep' = [sweep EXCEPT ![w].rows = @ \ {x}]
      BY <2>2, Zenon DEF SweepRow
    <3> QED BY <1>7, <2>2, <3>1, <3>2 DEF SweepBlank
  <2>4. CASE SweepGoto(w, "blank") /\ QueueFrame /\ UNCHANGED row
    <3>1. /\ sweep'[w].at = "blank" /\ sweep'[w].rows = sweep[w].rows
          /\ sweep'[w].cursor = sweep[w].cursor /\ sweep'[w].full = sweep[w].full
      BY <1>0, <2>4 DEF SweepGoto, SweepState
    <3> QED BY <1>1, <2>1, <3>1 DEF PassedOn
  <2>5. CASE FindStaleNext(w, FALSE)
    BY <1>2, <2>5
  <2>6. CASE Enqueue(x) /\ CanAccept /\ sweep' = [sweep EXCEPT ![w].rows = @ \ {x}] /\ SweepRow(w)
    <3>1. EnqueueResult(x) \in {"ok", "duplicate"}
      <4>1. Len(queue) \in Nat /\ MaxDepth \in Nat
        BY WorkerAssumption DEF TypeOK, WorkerTypeOK
      <4> QED BY <2>6, <4>1 DEF CanAccept, EnqueueResult
    <3>2. x \in tracked'
      BY <2>6, <3>1, EnqueueKeeps
    <3>3. /\ sweep'[w].at = "rows" /\ sweep'[w].rows = sweep[w].rows \ {x}
          /\ sweep'[w].cursor = sweep[w].cursor /\ sweep'[w].full = sweep[w].full
      BY <1>0, <2>6 DEF SweepRow, SweepState
    <3> QED BY <1>1, <2>1, <3>2, <3>3 DEF PassedOn
  <2>7. CASE RecordWorkerError(x) /\ sweep' = [sweep EXCEPT ![w].at = "rows", ![w].rows = @ \ {x}]
    <3>1. ~Queued(x)'
      BY <1>0, <2>7 DEF RecordWorkerError, SetStatus, LogTypeOK, Row, Queued
    <3>2. /\ sweep'[w].at = "rows" /\ sweep'[w].rows = sweep[w].rows \ {x}
          /\ sweep'[w].cursor = sweep[w].cursor /\ sweep'[w].full = sweep[w].full
      BY <1>0, <2>7 DEF SweepState
    <3> QED BY <1>1, <2>1, <3>1, <3>2 DEF PassedOn
  <2> QED BY <2>3, <2>4, <2>5, <2>6, <2>7
<1>8. CASE SweepPageEnd(w)
  <2>1. /\ sweep[w].at = "rows" /\ sweep[w].rows = {}
        /\ \/ sweep[w].full /\ SweepGoto(w, "page")
           \/ ~sweep[w].full /\ FindStaleNext(w, TRUE)
    BY <1>8, Zenon DEF SweepPageEnd, MorePages
  <2>2. CASE sweep[w].full /\ SweepGoto(w, "page")
    <3>1. sweep'[w].at = "page" /\ sweep'[w].cursor = sweep[w].cursor
      BY <1>0, <2>2 DEF SweepGoto, SweepState
    <3> QED BY <1>1, <2>1, <3>1 DEF PassedOn
  <2>3. CASE ~sweep[w].full /\ FindStaleNext(w, TRUE)
    <3>1. \A u \in Task : Queued(u) => u \in tracked
      BY <2>1, <2>3 DEF PassedOn
    <3> QED BY <1>2, <2>3, <3>1
  <2> QED BY <2>1, <2>2, <2>3
<1>9. CASE SweepFindStale(w) \/ \E u \in Task : SweepMarkStale(w, u)
  <2>1. /\ sweep[w].at \in {"findStale", "markStale"}
        /\ sweep'[w].at = "markStale" /\ sweep'[w].draining = sweep[w].draining
    <3>1. CASE SweepFindStale(w)
      <4>1. sweep[w].at = "findStale"
        BY <3>1 DEF SweepFindStale, SweepAt
      <4> DEFINE q == [sweep[w] EXCEPT !.at = "markStale", !.stale = FindStale]
      <4>2. sweep'[w] = q \/ sweep'[w] = [sweep[w] EXCEPT !.at = "markStale"]
        BY <1>0, <3>1 DEF SweepFindStale, SweepGoto
      <4>3. q.at = "markStale" /\ q.draining = sweep[w].draining
        BY <1>0 DEF SweepState
      <4> HIDE DEF q
      <4> QED BY <1>0, <4>1, <4>2, <4>3 DEF SweepState
    <3>2. CASE \E u \in Task : SweepMarkStale(w, u)
      BY <1>0, <3>2 DEF SweepMarkStale, SweepAt, SweepState
    <3> QED BY <1>9, <3>1, <3>2
  <2> QED BY <1>1, <2>1 DEF PassedOn
<1> QED BY <1>3, <1>4, <1>5, <1>7, <1>8, <1>9 DEF SweepStep

LEMMA BootStep ==
  TypeOK /\ OwnInv /\ KnownInv /\ SettledInv /\ PhaseInv /\ BootInv /\ [Next]_vars => BootInv'
<1> SUFFICES ASSUME TypeOK, OwnInv, KnownInv, SettledInv, PhaseInv, BootInv, [Next]_vars,
                    faults' = 0, proc' = "boot", NEW w \in Sweep
             PROVE  PassedOn(w)'
  BY DEF BootInv
<1>0. /\ faults = 0 /\ LogTypeOK /\ sweep \in [Sweep -> SweepState]
      /\ proc = "boot" => PassedOn(w)
  BY FaultsGrow DEF TypeOK, ReaperTypeOK, BootInv
<1>1. ASSUME proc = "boot", UNCHANGED <<row, sweep, tracked>> PROVE PassedOn(w)'
  BY <1>0, <1>1, PassedOnFrame DEF Queued
<1>2. ASSUME NEW v \in Sweep, SweepStart(v) \/ SweepStep(v), PassedOn(w) PROVE PassedOn(w)'
  <2>1. CASE v = w
    BY <1>0, <1>2, <2>1, SweepPasses
  <2>2. CASE v # w
    <3>1. UNCHANGED sweep[w]
      BY <1>2, <2>2, SweepWritesOne
    <3> QED BY <1>2, <3>1, SweepForward, SweepTracks, PassedOnFrame DEF Forward
  <2> QED BY <2>1, <2>2
\* The boot sweep starts while every place of a sweep is free.
<1>3. CASE Boot
  <2>1. PassedOn(w)
    BY <1>3 DEF Boot, PhaseInv, SweepsOff, PassedOn
  <2> QED BY <1>2, <1>3, <2>1 DEF Boot
<1>4. CASE Reap
  BY <1>0, <1>2, <1>4 DEF Reap, lifeVars
<1>5. CASE Handle
  <2>1. proc = "boot" /\ NoHandler
    BY <1>5 DEF Handle, lifeVars, PhaseInv
  <2> QED BY <1>5, <2>1, NoHandlerNoStep DEF Handle
<1>6. CASE Work
  <2>1. proc = "boot" /\ UNCHANGED sweep
    BY <1>6 DEF Work, lifeVars
  <2>2. ASSUME NEW s \in Slot, JobStep(s) PROVE PassedOn(w)'
    <3>1. PICK t \in Task : UNCHANGED tracked \/ (~Queued(t) /\ tracked' = tracked \ {t})
      BY <1>0, <2>2, JobSettles
    <3>2. Forward
      BY <2>2, JobForward
    <3> QED BY <1>0, <2>1, <3>1, <3>2, PassedOnFrame DEF Forward
  <2>3. CASE Pump \/ PumpReturn \/ GraceExpires \/ \E s \in Slot : StartJob(s)
    BY <1>1, <2>1, <2>3 DEF Pump, PumpReturn, GraceExpires, StartJob
  <2> QED BY <1>6, <2>2, <2>3 DEF Work, WorkerNext
<1>7. CASE \E t \in Task : Age(t)
  <2>1. /\ proc = "boot" /\ UNCHANGED <<sweep, tracked>>
        /\ \A t \in Task : Queued(t)' <=> Queued(t)
    BY <1>0, <1>7 DEF Age, lifeVars, workerVars, Queued, LogTypeOK, Row
  <2> QED BY <1>0, <2>1, PassedOnFrame
<1>8. CASE UNCHANGED vars
  BY <1>1, <1>8 DEF vars
<1> QED BY <1>3, <1>4, <1>5, <1>6, <1>7, <1>8
        DEF Next, Serve, Shutdown, ServerClosed, Exit, Crash, ProcessEnds, Tick, Request, lifeVars

\* However many pages the boot sweep reads, and while jobs it handed over already
\* run and finish, it leaves no QUEUED row of the crashed process behind.
THEOREM BootRecoversQueuedHolds == Spec => []BootRecoversQueued
<1>1. Init => SettledInv /\ PhaseInv /\ BootInv
  <2> SUFFICES ASSUME Init PROVE SettledInv /\ PhaseInv /\ BootInv
    OBVIOUS
  <2>1. SettledInv
    BY DEF Init, WorkerInit, Idle, SettledInv, Closed
  <2>2. PhaseInv
    BY DEF Init, IntakeInit, ReaperInit, SweepOff, PhaseInv, NoHandler, SweepsOff, Handling
  <2>3. BootInv
    BY DEF Init, BootInv
  <2> QED BY <2>1, <2>2, <2>3
<1>2. BootInv => BootRecoversQueued
  BY DEF BootInv, BootRecoversQueued, PassedOn
<1> QED BY <1>1, <1>2, SettledStep, PhaseStep, BootStep, TypeCorrect, OwnHolds, KnownHolds,
           PTL DEF Spec
==============================================================================
