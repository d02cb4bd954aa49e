------------------------- MODULE SessionMemoryProofs -------------------------
(* Proofs about the session memory, for any number of tasks and operations, any  *)
(* cap on the slots and any number of crashes.                                   *)
EXTENDS SessionMemory, FiniteSetTheorems, TLAPS

Stage == Critical \cup {"branch", "checkout", "write", "lock", "nothing"}
Fn   == [task : Task, kind : MemStep, awaited : BOOLEAN, at : Stage]

\* What an operation does, by where it stands.
OpInv ==
  \A o \in Op :
    /\ op[o].at \in {"checkout", "write"} => op[o].kind \in Key
    /\ op[o].at \in Critical \cup {"lock"} => op[o].kind = "finalize" /\ op[o].task \in won
    /\ op[o].at = "branch" => op[o].kind = "create"
    /\ op[o].at = "nothing" => op[o].kind \in {"finalize", "discard"}

\* routeTask stands at the step whose operation it awaits, and awaits one at a time.
AwaitInv ==
  \A o \in Op : op[o].awaited =>
    /\ step[op[o].task] = op[o].kind
    /\ \A q \in Op : op[q].awaited /\ op[q].task = op[o].task => q = o

CoreInv == TypeOK /\ SlotsAreExact /\ OpInv /\ AwaitInv

------------------------------------------------------------------------------
LEMMA NoOpFacts == NoOp.at = "free" /\ NoOp.awaited = FALSE /\ "free" \notin Stage
BY DEF NoOp, Stage, Critical

\* A running operation is a job.
LEMMA JobOf ==
  ASSUME TypeOK, NEW o \in Op, Running(o)
  PROVE  op[o] \in Fn
<1>1. op[o] \in Fn \cup {NoOp}
  BY Zenon DEF TypeOK, Fn, Stage
<1> QED BY <1>1, NoOpFacts DEF Running

LEMMA IdleOp ==
  ASSUME TypeOK, NEW o \in Op, ~Running(o)
  PROVE  op[o] = NoOp
<1>1. op[o] \in Fn \cup {NoOp}
  BY Zenon DEF TypeOK, Fn, Stage
<1> QED BY <1>1, NoOpFacts DEF Running, Fn

\* An awaited operation runs.
LEMMA AwaitedRuns ==
  ASSUME TypeOK, NEW o \in Op, op[o].awaited
  PROVE  Running(o) /\ op[o].task \in Task /\ op[o].kind \in MemStep
<1>1. Running(o)
  BY IdleOp, NoOpFacts
<1> QED BY <1>1, JobOf DEF Fn

LEMMA FollowingStep == \A s \in MemStep : Following[s] \in Step
BY DEF MemStep, Following, Key, Step

LEMMA OpTypeOK ==
  TypeOK <=>
    /\ step \in [Task -> Step] /\ status \in [Task -> Status]
    /\ op \in [Op -> Fn \cup {NoOp}]
    /\ inflight \in Nat /\ crashes \in Nat /\ lock \in Op \cup {NoLock}
    /\ prune \in [at : {"off", "guard", "delete"}, found : SUBSET Task]
    /\ won \subseteq Task /\ session \subseteq Task /\ branches \subseteq Task
    /\ content \in [Task -> SUBSET Key] /\ main \in [Task -> SUBSET Key]
    /\ acked \in [Task -> SUBSET Key]
BY Zenon DEF TypeOK, Fn, Stage

\* What routeTask's part of the state is after a memory step.
LEMMA ResumeEffect ==
  ASSUME TypeOK, NEW t \in Task, step[t] \in MemStep, NEW got \in BOOLEAN, Resume(t, got)
  PROVE  /\ step' \in [Task -> Step] /\ session' \subseteq Task
         /\ acked' \in [Task -> SUBSET Key] /\ status' = status /\ won' = won
         /\ \A u \in Task \ {t} : step'[u] = step[u]
<1>1. step' = [step EXCEPT ![t] = Following[step[t]]]
  BY DEF Resume, GoOn
<1>2. Following[step[t]] \in Step
  BY FollowingStep
<1>3. session' \in {session \cup {t}, session \ {t}, session}
  BY DEF Resume
<1>4. acked' \in {[acked EXCEPT ![t] = @ \cup {step[t]}], acked} /\ (acked' # acked => step[t] \in Key)
  BY DEF Resume
<1>5. acked' \in [Task -> SUBSET Key]
  BY <1>4 DEF TypeOK
<1>6. step' \in [Task -> Step] /\ \A u \in Task \ {t} : step'[u] = step[u]
  BY <1>1, <1>2 DEF TypeOK
<1> QED BY <1>3, <1>5, <1>6 DEF Resume, TypeOK

\* How many operations run after one of them starts or settles.
LEMMA RunningCount ==
  ASSUME TypeOK
  PROVE  /\ IsFiniteSet({o \in Op : Running(o)})
         /\ Cardinality({o \in Op : Running(o)}) \in Nat
         /\ \A o \in Op : ~Running(o) =>
              Cardinality({q \in Op : Running(q)} \cup {o}) = Cardinality({q \in Op : Running(q)}) + 1
         /\ \A o \in Op : Running(o) =>
              Cardinality({q \in Op : Running(q)} \ {o}) = Cardinality({q \in Op : Running(q)}) - 1
<1>1. IsFiniteSet({o \in Op : Running(o)})
  BY FS_Subset, MemoryAssumption
<1> QED BY <1>1, FS_CardinalityType, FS_AddElement, FS_RemoveElement

\* The parts of the invariant that no statement on the branches touches.
OpCore ==
  /\ step \in [Task -> Step] /\ session \subseteq Task /\ acked \in [Task -> SUBSET Key]
  /\ op \in [Op -> Fn \cup {NoOp}] /\ inflight \in Nat
  /\ SlotsAreExact /\ OpInv /\ AwaitInv

\* An operation settles and its slot is free.
LEMMA SettleCore ==
  ASSUME CoreInv, NEW o \in Op, Running(o), NEW got \in BOOLEAN, Settle(o, got)
  PROVE  OpCore' /\ status' = status /\ won' = won
<1> USE DEF CoreInv
<1> DEFINE t == op[o].task
<1>1. op[o] \in Fn /\ t \in Task /\ op[o].kind \in MemStep /\ op[o].awaited \in BOOLEAN
  BY JobOf DEF Fn
<1>2. op' = [op EXCEPT ![o] = NoOp] /\ inflight' = inflight - 1
  BY DEF Settle
<1>3. op' \in [Op -> Fn \cup {NoOp}] /\ op'[o] = NoOp /\ \A q \in Op \ {o} : op'[q] = op[q]
  BY <1>2, OpTypeOK
<1>4. SlotsAreExact' /\ inflight' \in Nat
  <2>1. {q \in Op : Running(q)}' = {q \in Op : Running(q)} \ {o}
    BY <1>3, NoOpFacts DEF Running
  <2>2. MaxInflight \in Nat
    BY MemoryAssumption
  <2>3. inflight \in Nat /\ inflight = Cardinality({q \in Op : Running(q)}) /\ inflight <= MaxInflight
    BY OpTypeOK DEF SlotsAreExact
  <2>4. Cardinality({q \in Op : Running(q)} \ {o}) = inflight - 1
    BY <2>3, RunningCount
  <2>5. o \in {q \in Op : Running(q)}
    OBVIOUS
  <2>6. inflight # 0
    BY <2>3, <2>5, RunningCount, FS_EmptySet
  <2>7. inflight' = Cardinality({q \in Op : Running(q)}')
    BY <2>1, <2>4, <1>2, Zenon
  <2>8. inflight' \in Nat /\ inflight' <= MaxInflight
    BY <2>2, <2>3, <2>6, <1>2
  <2> QED BY <2>7, <2>8, Zenon DEF SlotsAreExact
<1>5. /\ step' \in [Task -> Step] /\ session' \subseteq Task /\ acked' \in [Task -> SUBSET Key]
      /\ status' = status /\ won' = won
      /\ \A u \in Task : step'[u] # step[u] => u = t /\ op[o].awaited
  <2>1. CASE op[o].awaited
    <3>1. step[t] \in MemStep /\ Resume(t, got)
      BY <2>1, <1>1 DEF Settle, AwaitInv
    <3> QED BY <3>1, <2>1, <1>1, ResumeEffect
  <2>2. CASE ~op[o].awaited
    BY <2>2, OpTypeOK DEF Settle, routeVars
  <2> QED BY <2>1, <2>2, <1>1
<1>6. OpInv'
  BY <1>3, <1>5, NoOpFacts DEF OpInv, Stage, Critical
<1>7. AwaitInv'
  <2> SUFFICES ASSUME NEW q \in Op, op'[q].awaited
               PROVE  /\ step'[op'[q].task] = op'[q].kind
                      /\ \A r \in Op : op'[r].awaited /\ op'[r].task = op'[q].task => r = q
    BY DEF AwaitInv
  <2>1. q # o /\ op'[q] = op[q] /\ op[q].awaited
    BY <1>3, NoOpFacts
  <2>2. op[q].task \in Task
    BY <2>1, AwaitedRuns
  <2>3. step'[op[q].task] = step[op[q].task]
    BY <2>1, <2>2, <1>5 DEF AwaitInv
  <2>4. \A r \in Op : op'[r].awaited => r # o /\ op'[r] = op[r]
    BY <1>3, NoOpFacts
  <2> QED BY <2>1, <2>3, <2>4 DEF AwaitInv
<1> QED BY <1>3, <1>4, <1>5, <1>6, <1>7 DEF OpCore

\* An operation goes on to a stage of the same kind.
LEMMA OpNextCore ==
  ASSUME CoreInv, NEW o \in Op, Running(o), NEW stage \in Stage, OpNext(o, stage),
         \/ op[o].at = "checkout" /\ stage = "write"
         \/ op[o].at \in Critical \cup {"lock"} /\ stage \in Critical
  PROVE  OpCore' /\ status' = status /\ won' = won
<1> USE DEF CoreInv
<1>1. op[o] \in Fn
  BY JobOf
<1>2. op' = [op EXCEPT ![o] = [op[o] EXCEPT !.at = stage]]
  BY DEF OpNext
<1>3. [op[o] EXCEPT !.at = stage] \in Fn
  BY <1>1 DEF Fn
<1>4. op' \in [Op -> Fn \cup {NoOp}] /\ \A q \in Op \ {o} : op'[q] = op[q]
  BY <1>2, <1>3, OpTypeOK
<1>5. /\ op'[o].at = stage /\ op'[o].kind = op[o].kind
      /\ op'[o].task = op[o].task /\ op'[o].awaited = op[o].awaited
  BY <1>1, <1>2, OpTypeOK DEF Fn
<1>6. UNCHANGED <<inflight, step, status, won, session, acked>>
  BY DEF OpNext, routeVars
<1>7. {q \in Op : Running(q)}' = {q \in Op : Running(q)}
  BY <1>4, <1>5, NoOpFacts DEF Running
<1>8. SlotsAreExact'
  BY <1>6, <1>7 DEF SlotsAreExact
<1>9. OpInv'
  BY <1>4, <1>5, <1>6 DEF OpInv, Critical
<1>10. AwaitInv'
  BY <1>4, <1>5, <1>6 DEF AwaitInv
<1> QED BY <1>4, <1>6, <1>8, <1>9, <1>10, OpTypeOK DEF OpCore

RestTypeOK ==
  /\ status \in [Task -> Status] /\ won \subseteq Task
  /\ branches \subseteq Task /\ content \in [Task -> SUBSET Key] /\ main \in [Task -> SUBSET Key]
  /\ lock \in Op \cup {NoLock} /\ crashes \in Nat
  /\ prune \in [at : {"off", "guard", "delete"}, found : SUBSET Task]

LEMMA CoreParts == CoreInv <=> OpCore /\ RestTypeOK
BY OpTypeOK, Zenon DEF CoreInv, OpCore, RestTypeOK

LEMMA CorePartsPrimed == OpCore' /\ RestTypeOK' => CoreInv'
BY CoreParts, PTL

------------------------------------------------------------------------------
(* The operations.                                                              *)
LEMMA OpStepCore == ASSUME CoreInv, NEW o \in Op, OpStep(o) PROVE CoreInv'
<1> USE CoreParts
<1> SUFFICES OpCore' /\ RestTypeOK'
  BY CorePartsPrimed
<1> DEFINE t == op[o].task
<1>1. Running(o)
  BY DEF OpStep, CreateBranch, CheckoutBranch, WriteContext, AcquireLock, Flush, Merge,
         DeleteMerged, DiscardSession, OpAt, Running
<1>2. t \in Task /\ op[o].kind \in MemStep
  BY <1>1, JobOf DEF Fn, CoreInv
<1>3. ASSUME NEW got \in BOOLEAN, Settle(o, got) PROVE OpCore' /\ status' = status /\ won' = won
  BY <1>1, <1>3, SettleCore
<1>4. CASE CreateBranch(o)
  <2>1. OpCore' /\ status' = status /\ won' = won
    BY <1>3, <1>4 DEF CreateBranch
  <2>2. branches' \subseteq Task /\ UNCHANGED <<content, main, lock, prune, crashes>>
    BY <1>2, <1>4 DEF CreateBranch, OpFrame, RestTypeOK
  <2> QED BY <2>1, <2>2 DEF RestTypeOK
<1>5. CASE CheckoutBranch(o)
  <2>1. OpCore' /\ status' = status /\ won' = won
    BY <1>1, <1>3, <1>5, OpNextCore DEF CheckoutBranch, OpAt, Stage
  <2>2. UNCHANGED <<branches, content, main, lock, prune, crashes>>
    BY <1>5 DEF CheckoutBranch, OpFrame, branchVars
  <2> QED BY <2>1, <2>2 DEF RestTypeOK
<1>6. CASE WriteContext(o)
  <2>1. OpCore' /\ status' = status /\ won' = won
    BY <1>3, <1>6 DEF WriteContext
  <2>2. op[o].kind \in Key
    BY <1>6 DEF WriteContext, OpAt, OpInv, CoreInv
  <2>3. content' \in {content, [content EXCEPT ![t] = @ \cup {op[o].kind}]}
    BY <1>6 DEF WriteContext
  <2>4. content' \in [Task -> SUBSET Key]
    BY <2>2, <2>3 DEF RestTypeOK
  <2>5. UNCHANGED <<branches, main, lock, prune, crashes>>
    BY <1>6 DEF WriteContext, OpFrame
  <2> QED BY <2>1, <2>4, <2>5 DEF RestTypeOK
<1>7. CASE AcquireLock(o)
  <2>1. OpCore' /\ status' = status /\ won' = won
    BY <1>1, <1>3, <1>7, OpNextCore DEF AcquireLock, OpAt, Stage, Critical
  <2>2. lock' \in {lock, o} /\ UNCHANGED <<branches, content, main, prune, crashes>>
    BY <1>7 DEF AcquireLock, OpFrame, branchVars
  <2> QED BY <2>1, <2>2 DEF RestTypeOK
<1>8. CASE Flush(o)
  <2>1. OpCore' /\ status' = status /\ won' = won
    BY <1>1, <1>3, <1>8, OpNextCore DEF Flush, OpAt, Stage, Critical, LeaveLocked
  <2>2. lock' \in {lock, NoLock} /\ UNCHANGED <<branches, content, main, prune, crashes>>
    BY <1>8 DEF Flush, OpFrame, branchVars, LeaveLocked, ReleaseLock
  <2> QED BY <2>1, <2>2 DEF RestTypeOK
<1>9. CASE Merge(o)
  <2>1. OpCore' /\ status' = status /\ won' = won
    BY <1>1, <1>3, <1>9, OpNextCore DEF Merge, OpAt, Stage, Critical, LeaveLocked
  <2>2. lock' \in {lock, NoLock} /\ UNCHANGED <<branches, content, prune, crashes>>
    BY <1>9 DEF Merge, OpFrame, LeaveLocked, ReleaseLock
  <2>3. main' \in {main, [main EXCEPT ![t] = @ \cup content[t]]}
    BY <1>9 DEF Merge
  <2>4. main' \in [Task -> SUBSET Key]
    BY <1>2, <2>3 DEF RestTypeOK
  <2> QED BY <2>1, <2>2, <2>4 DEF RestTypeOK
<1>10. CASE DeleteMerged(o)
  <2>1. OpCore' /\ status' = status /\ won' = won
    BY <1>3, <1>10 DEF DeleteMerged, LeaveLocked
  <2>2. lock' = NoLock /\ UNCHANGED <<main, prune, crashes>>
    BY <1>10 DEF DeleteMerged, OpFrame, LeaveLocked, ReleaseLock
  <2>3. branches' \subseteq Task /\ content' \in [Task -> SUBSET Key]
    BY <1>10 DEF DeleteMerged, DeleteBranch, RestTypeOK
  <2> QED BY <2>1, <2>2, <2>3 DEF RestTypeOK
<1>11. CASE DiscardSession(o)
  <2>1. OpCore' /\ status' = status /\ won' = won
    BY <1>3, <1>11 DEF DiscardSession
  <2>2. UNCHANGED <<branches, content, main, lock, prune, crashes>>
    BY <1>11 DEF DiscardSession, OpFrame, branchVars
  <2> QED BY <2>1, <2>2 DEF RestTypeOK
<1> QED BY <1>4, <1>5, <1>6, <1>7, <1>8, <1>9, <1>10, <1>11 DEF OpStep

------------------------------------------------------------------------------
(* The other steps.                                                             *)
LEMMA InitCore == Init => CoreInv
<1> SUFFICES ASSUME Init PROVE CoreInv
  OBVIOUS
<1>1. \A o \in Op : op[o] = NoOp
  BY DEF Init
<1>2. {o \in Op : Running(o)} = {}
  BY <1>1 DEF Running, NoOp
<1>3. SlotsAreExact
  <2>1. Cardinality({o \in Op : Running(o)}) = 0
    BY <1>2, FS_EmptySet
  <2>2. inflight = 0 /\ MaxInflight \in Nat
    BY MemoryAssumption DEF Init
  <2> QED BY <2>1, <2>2 DEF SlotsAreExact
<1>4. TypeOK
  BY OpTypeOK DEF Init, Step, Status, PruneOff
<1>5. OpInv /\ AwaitInv
  BY <1>1, NoOpFacts DEF OpInv, AwaitInv, NoOp, Critical
<1> QED BY <1>3, <1>4, <1>5 DEF CoreInv

\* routeTask steps outside its memory steps, while it awaits nothing of them.
LEMMA RouteStepCore ==
  ASSUME CoreInv, NEW t \in Task, RouteStep(t) \/ FailStranded(t)
  PROVE  CoreInv'
<1> USE CoreParts
<1>1. UNCHANGED <<op, inflight, branches, content, main, lock, prune, acked, crashes>>
  BY DEF RouteStep, Classify, Dispatch, Terminate, CommitTask, Throw, Catch, FailStranded,
         RouteFrame, branchVars, opVars
<1>2. session' = session
  BY DEF RouteStep, Classify, Dispatch, Terminate, CommitTask, Throw, Catch, FailStranded
<1>3. \/ step' = step
      \/ step[t] \notin MemStep /\ \E s \in Step : step' = [step EXCEPT ![t] = s]
  <2>1. CASE FailStranded(t)
    BY <2>1 DEF FailStranded
  <2>2. CASE RouteStep(t)
    <3>1. step[t] \notin MemStep
      BY <2>2 DEF RouteStep, Classify, Dispatch, Terminate, CommitTask, Throw, Catch, AtStep, Statement, MemStep, Key
    <3>2. \E s \in Step : step' = [step EXCEPT ![t] = s]
      BY <2>2 DEF RouteStep, Classify, Dispatch, Terminate, CommitTask, Throw, Catch, GoOn, Step, MemStep, Key
    <3> QED BY <3>1, <3>2
  <2> QED BY <2>1, <2>2
<1>4. step' \in [Task -> Step] /\ \A u \in Task : step'[u] # step[u] => u = t /\ step[t] \notin MemStep
  BY <1>3 DEF OpCore
<1>5. status' \in [Task -> Status]
  <2>1. \/ status' = status
        \/ \E s \in Status : status' = [status EXCEPT ![t] = s]
    BY DEF RouteStep, Classify, Dispatch, Terminate, CommitTask, Throw, Catch, FailStranded, FailedRow,
           WriteStatus, Status, Statement
  <2> QED BY <2>1 DEF RestTypeOK
<1>6. won \subseteq won' /\ won' \subseteq Task
  <2>1. won' \in {won, won \cup {t}}
    BY DEF RouteStep, Classify, Dispatch, Terminate, CommitTask, Throw, Catch, FailStranded
  <2> QED BY <2>1 DEF RestTypeOK
<1>7. SlotsAreExact' /\ OpInv'
  BY <1>1, <1>6 DEF OpCore, SlotsAreExact, OpInv, Running
<1>8. AwaitInv'
  <2> SUFFICES ASSUME NEW q \in Op, op[q].awaited PROVE step'[op[q].task] = op[q].kind
    BY <1>1, Zenon DEF OpCore, AwaitInv
  <2>1. op[q].task \in Task /\ op[q].kind \in MemStep /\ step[op[q].task] = op[q].kind
    BY AwaitedRuns DEF CoreInv, AwaitInv
  <2> QED BY <2>1, <1>4
<1>9. OpCore' /\ RestTypeOK'
  BY <1>1, <1>2, <1>4, <1>5, <1>6, <1>7, <1>8 DEF OpCore, RestTypeOK
<1> QED BY <1>9, CorePartsPrimed

LEMMA SkipMemoryCore == ASSUME CoreInv, NEW t \in Task, SkipMemory(t) PROVE CoreInv'
<1> USE CoreParts
<1>1. UNCHANGED <<op, inflight, branches, content, main, lock, prune, crashes>>
  BY DEF SkipMemory, branchVars, opVars
<1>2. step[t] \in MemStep /\ Resume(t, FALSE)
  BY DEF SkipMemory
<1>3. /\ step' \in [Task -> Step] /\ session' \subseteq Task
      /\ acked' \in [Task -> SUBSET Key] /\ status' = status /\ won' = won
      /\ \A u \in Task \ {t} : step'[u] = step[u]
  BY <1>2, ResumeEffect DEF CoreInv
<1>4. SlotsAreExact' /\ OpInv'
  BY <1>1, <1>3 DEF OpCore, SlotsAreExact, OpInv, Running
<1>5. AwaitInv'
  <2> SUFFICES ASSUME NEW q \in Op, op[q].awaited PROVE step'[op[q].task] = op[q].kind
    BY <1>1, Zenon DEF OpCore, AwaitInv
  <2>1. op[q].task \in Task /\ step[op[q].task] = op[q].kind
    BY AwaitedRuns DEF CoreInv, AwaitInv
  <2>2. op[q].task # t
    BY DEF SkipMemory, Awaiting
  <2> QED BY <2>1, <2>2, <1>3
<1>6. OpCore' /\ RestTypeOK'
  BY <1>1, <1>3, <1>4, <1>5 DEF OpCore, RestTypeOK
<1> QED BY <1>6, CorePartsPrimed

LEMMA StartMemoryCore ==
  ASSUME CoreInv, NEW t \in Task, NEW o \in Op, StartMemory(t, o)
  PROVE  CoreInv'
<1> USE CoreParts
<1> DEFINE job == [task |-> t, kind |-> step[t], at |-> FirstStage(t), awaited |-> TRUE]
<1>1. /\ UNCHANGED <<step, status, won, session, branches, content, main, lock, prune, acked, crashes>>
      /\ op' = [op EXCEPT ![o] = job] /\ inflight' = inflight + 1
      /\ step[t] \in MemStep /\ ~Awaiting(t) /\ HasSlot /\ ~Running(o)
  BY DEF StartMemory, routeVars, branchVars
<1>2. FirstStage(t) \in Stage
  BY DEF FirstStage, Stage
<1>3. job \in Fn
  BY <1>1, <1>2 DEF Fn
<1>4. op' \in [Op -> Fn \cup {NoOp}] /\ op'[o] = job /\ \A q \in Op \ {o} : op'[q] = op[q]
  BY <1>1, <1>3 DEF OpCore
<1>5. SlotsAreExact' /\ inflight' \in Nat
  <2>1. {q \in Op : Running(q)}' = {q \in Op : Running(q)} \cup {o}
    BY <1>2, <1>4, NoOpFacts DEF Running
  <2>2. inflight = Cardinality({q \in Op : Running(q)}) /\ inflight \in Nat /\ MaxInflight \in Nat
    BY MemoryAssumption DEF OpCore, SlotsAreExact
  <2>3. Cardinality({q \in Op : Running(q)} \cup {o}) = inflight + 1
    BY <1>1, <2>2, RunningCount DEF CoreInv
  <2>4. inflight' = Cardinality({q \in Op : Running(q)}')
    BY <2>1, <2>3, <1>1, Zenon
  <2>5. inflight' \in Nat /\ inflight' <= MaxInflight
    BY <2>2, <1>1 DEF HasSlot
  <2> QED BY <2>4, <2>5, Zenon DEF SlotsAreExact
<1>6. OpInv'
  <2>1. /\ FirstStage(t) \in {"checkout", "write"} => step[t] \in Key
        /\ FirstStage(t) \in Critical \cup {"lock"} => step[t] = "finalize" /\ t \in won
        /\ FirstStage(t) = "branch" => step[t] = "create"
        /\ FirstStage(t) = "nothing" => step[t] \in {"finalize", "discard"}
    BY <1>1 DEF FirstStage, Critical, MemStep
  <2> QED BY <2>1, <1>1, <1>4 DEF OpInv, OpCore
<1>7. AwaitInv'
  <2>1. \A q \in Op : q # o /\ op'[q].awaited => op'[q] = op[q] /\ op[q].task # t
    BY <1>1, <1>4 DEF Awaiting
  <2> QED BY <2>1, <1>1, <1>4 DEF AwaitInv, OpCore
<1>8. OpCore' /\ RestTypeOK'
  BY <1>1, <1>4, <1>5, <1>6, <1>7 DEF OpCore, RestTypeOK
<1> QED BY <1>8, CorePartsPrimed

\* The timer wins: the operation runs on, and nobody awaits it.
LEMMA TimeoutCore == ASSUME CoreInv, NEW o \in Op, Timeout(o) PROVE CoreInv'
<1> USE CoreParts
<1> DEFINE t == op[o].task
<1>1. /\ UNCHANGED <<branches, content, main, lock, prune, crashes, inflight>>
      /\ op' = [op EXCEPT ![o] = [op[o] EXCEPT !.awaited = FALSE]]
      /\ Running(o) /\ op[o].awaited /\ Resume(t, FALSE)
  BY DEF Timeout, StepTimesOut, SlotsAfterTimeout, branchVars
<1>2. op[o] \in Fn /\ t \in Task /\ step[t] \in MemStep
  BY <1>1, JobOf DEF Fn, CoreInv, AwaitInv
<1>3. [op[o] EXCEPT !.awaited = FALSE] \in Fn
  BY <1>2 DEF Fn
<1>4. /\ op' \in [Op -> Fn \cup {NoOp}] /\ \A q \in Op \ {o} : op'[q] = op[q]
      /\ ~op'[o].awaited /\ op'[o].at = op[o].at /\ op'[o].kind = op[o].kind /\ op'[o].task = t
  BY <1>1, <1>2, <1>3 DEF OpCore, Fn
<1>5. /\ step' \in [Task -> Step] /\ session' \subseteq Task
      /\ acked' \in [Task -> SUBSET Key] /\ status' = status /\ won' = won
      /\ \A u \in Task \ {t} : step'[u] = step[u]
  BY <1>1, <1>2, ResumeEffect DEF CoreInv
<1>6. SlotsAreExact'
  <2>1. {q \in Op : Running(q)}' = {q \in Op : Running(q)}
    BY <1>4 DEF Running
  <2> QED BY <2>1, <1>1 DEF SlotsAreExact, OpCore
<1>7. OpInv'
  BY <1>4, <1>5 DEF OpInv, OpCore
<1>8. AwaitInv'
  <2>1. \A q \in Op : op'[q].awaited => q # o /\ op'[q] = op[q] /\ op[q].awaited
    BY <1>4
  <2>2. \A q \in Op : op'[q].awaited => op[q].task \in Task \ {t}
    BY <2>1, <1>1, AwaitedRuns DEF CoreInv, AwaitInv
  <2> QED BY <2>1, <2>2, <1>5 DEF AwaitInv, OpCore
<1>9. OpCore' /\ RestTypeOK'
  BY <1>1, <1>4, <1>5, <1>6, <1>7, <1>8 DEF OpCore, RestTypeOK
<1> QED BY <1>9, CorePartsPrimed

LEMMA PruneCore == ASSUME CoreInv, Prune PROVE CoreInv'
<1> USE CoreParts
<1>1. UNCHANGED <<step, status, won, session, op, inflight, lock, main, acked, crashes>>
  BY DEF Prune, ListBranches, ActiveGuard, PruneDone, PruneOne, PruneFrame, routeVars, opVars
<1>2. prune' \in [at : {"off", "guard", "delete"}, found : SUBSET Task]
  BY DEF Prune, ListBranches, ActiveGuard, PruneDone, PruneOne, PruneOff, ActiveOnError, RestTypeOK
<1>3. branches' \subseteq Task /\ content' \in [Task -> SUBSET Key]
  BY DEF Prune, ListBranches, ActiveGuard, PruneDone, PruneOne, DeleteBranch, RestTypeOK
<1>4. OpCore'
  BY <1>1 DEF OpCore, SlotsAreExact, OpInv, AwaitInv, Running
<1>5. RestTypeOK'
  BY <1>1, <1>2, <1>3 DEF RestTypeOK
<1> QED BY <1>4, <1>5, CorePartsPrimed

LEMMA CrashCore == ASSUME CoreInv, Crash PROVE CoreInv'
<1> USE CoreParts
<1>1. /\ UNCHANGED <<status, won, branches, content, main, acked>>
      /\ step' \in [Task -> Step] /\ session' = {} /\ op' = [o \in Op |-> NoOp]
      /\ inflight' = 0 /\ lock' = NoLock /\ prune' = PruneOff /\ crashes' = crashes + 1
  BY DEF Crash, branchVars, Step
<1>2. \A o \in Op : op'[o] = NoOp
  BY <1>1
<1>3. SlotsAreExact'
  <2>1. {o \in Op : Running(o)}' = {}
    BY <1>2 DEF Running, NoOp
  <2>2. 0 = Cardinality({o \in Op : Running(o)}')
    BY <2>1, FS_EmptySet, Zenon
  <2>3. inflight' <= MaxInflight
    BY <1>1, MemoryAssumption
  <2> QED BY <2>2, <2>3, <1>1, Zenon DEF SlotsAreExact
<1>4. OpInv' /\ AwaitInv'
  BY <1>2, NoOpFacts DEF OpInv, AwaitInv, NoOp, Critical
<1>5. OpCore' /\ RestTypeOK'
  BY <1>1, <1>3, <1>4 DEF OpCore, RestTypeOK, PruneOff
<1> QED BY <1>5, CorePartsPrimed

LEMMA StutterCore == ASSUME CoreInv, UNCHANGED vars PROVE CoreInv'
<1>1. UNCHANGED <<step, status, won, session, op, inflight, branches, content, main, lock,
                  prune, acked, crashes>>
  BY DEF vars, routeVars, branchVars, opVars
<1>2. OpCore' /\ RestTypeOK'
  BY <1>1, CoreParts DEF OpCore, RestTypeOK, SlotsAreExact, OpInv, AwaitInv, Running
<1> QED BY <1>2, CorePartsPrimed

LEMMA CoreStep == CoreInv /\ [Next]_vars => CoreInv'
BY OpStepCore, RouteStepCore, SkipMemoryCore, StartMemoryCore, TimeoutCore, PruneCore,
   CrashCore, StutterCore DEF Next, MemoryStep

LEMMA CoreHolds == Spec => []CoreInv
BY InitCore, CoreStep, PTL DEF Spec

\* The rows, the branches, the running operations and the histories keep their types.
THEOREM MemoryTypeCorrect == Spec => []TypeOK
<1>1. CoreInv => TypeOK
  BY DEF CoreInv
<1> QED BY <1>1, CoreHolds, PTL

\* bestEffortMemory counts the operations that run, timed-out ones included, and never
\* lets more than memoryMaxConcurrent() run (router.ts:106-150).
THEOREM SlotsAreExactHolds == Spec => []SlotsAreExact
<1>1. CoreInv => SlotsAreExact
  BY DEF CoreInv
<1> QED BY <1>1, CoreHolds, PTL

------------------------------------------------------------------------------
(* The lock on main.                                                            *)
LEMMA SettledAt ==
  ASSUME CoreInv, NEW o \in Op, NEW got \in BOOLEAN, Settle(o, got)
  PROVE  op'[o].at = "free" /\ \A q \in Op \ {o} : op'[q] = op[q]
BY NoOpFacts DEF Settle, CoreInv, TypeOK

LEMMA NextAt ==
  ASSUME CoreInv, NEW o \in Op, Running(o), NEW stage \in Stage, OpNext(o, stage)
  PROVE  op'[o].at = stage /\ \A q \in Op \ {o} : op'[q] = op[q]
<1>1. op[o] \in Fn
  BY JobOf DEF CoreInv
<1> QED BY <1>1, CoreParts DEF OpNext, OpCore, Fn

LEMMA LockOpStep ==
  ASSUME CoreInv, LockMatchesSection, NEW o \in Op, OpStep(o)
  PROVE  LockMatchesSection'
<1> DEFINE Others == \A q \in Op \ {o} : op'[q] = op[q]
<1> NoLock \notin Op
  BY MemoryAssumption DEF NoLock
<1> USE DEF Critical
<1>1. ASSUME NEW got \in BOOLEAN, op[o].at \in Critical, LeaveLocked(o, got)
      PROVE  LockMatchesSection'
  <2>1. op'[o].at = "free" /\ Others /\ lock' = NoLock /\ lock = o
    BY <1>1, SettledAt DEF LeaveLocked, ReleaseLock, LockMatchesSection
  <2> QED BY <2>1 DEF LockMatchesSection
<1>2. ASSUME NEW got \in BOOLEAN, op[o].at \notin Critical, Settle(o, got), lock' = lock
      PROVE  LockMatchesSection'
  <2>1. op'[o].at = "free" /\ Others
    BY <1>2, SettledAt
  <2> QED BY <2>1, <1>2 DEF LockMatchesSection
<1>3. ASSUME NEW stage \in Stage, OpNext(o, stage), lock' = lock, Running(o),
             op[o].at \in Critical <=> stage \in Critical
      PROVE  LockMatchesSection'
  <2>1. op'[o].at = stage /\ Others
    BY <1>3, NextAt
  <2> QED BY <2>1, <1>3 DEF LockMatchesSection
<1>4. CASE AcquireLock(o)
  <2>1. CASE lock = NoLock /\ lock' = o /\ OpNext(o, "flush")
    <3>1. op'[o].at = "flush" /\ Others
      BY <2>1, <1>4, NextAt DEF AcquireLock, OpAt, Running, Stage
    <3> QED BY <3>1, <2>1 DEF LockMatchesSection
  <2>2. CASE Settle(o, FALSE) /\ lock' = lock
    BY <2>2, <1>2, <1>4 DEF AcquireLock, OpAt
  <2> QED BY <2>1, <2>2, <1>4 DEF AcquireLock, LockFree
<1>5. CASE Flush(o)
  BY <1>1, <1>3, <1>5 DEF Flush, OpAt, Running, Stage
<1>6. CASE Merge(o)
  BY <1>1, <1>3, <1>6 DEF Merge, OpAt, Running, Stage
<1>7. CASE DeleteMerged(o)
  BY <1>1, <1>7 DEF DeleteMerged, OpAt
<1>8. CASE CheckoutBranch(o)
  BY <1>2, <1>3, <1>8 DEF CheckoutBranch, OpAt, Running, Stage
<1>9. CASE CreateBranch(o) \/ WriteContext(o) \/ DiscardSession(o)
  BY <1>2, <1>9 DEF CreateBranch, WriteContext, DiscardSession, OpAt
<1> QED BY <1>4, <1>5, <1>6, <1>7, <1>8, <1>9 DEF OpStep

LEMMA LockStep ==
  ASSUME CoreInv, LockMatchesSection, [Next]_vars
  PROVE  LockMatchesSection'
<1> NoLock \notin Op
  BY MemoryAssumption DEF NoLock
<1>1. CASE \E o \in Op : OpStep(o)
  BY <1>1, LockOpStep
<1>2. ASSUME NEW o \in Op, Timeout(o) PROVE LockMatchesSection'
  <2>1. op[o] \in Fn
    BY <1>2, JobOf DEF Timeout, StepTimesOut, CoreInv
  <2>2. lock' = lock /\ \A q \in Op : op'[q].at = op[q].at
    BY <1>2, <2>1, CoreParts DEF Timeout, OpCore, Fn
  <2> QED BY <2>2 DEF LockMatchesSection
<1>3. ASSUME NEW t \in Task, NEW o \in Op, StartMemory(t, o) PROVE LockMatchesSection'
  <2>1. lock' = lock /\ ~Running(o) /\ op'[o].at \notin Critical /\ \A q \in Op \ {o} : op'[q] = op[q]
    BY <1>3, CoreParts DEF StartMemory, OpCore, FirstStage, Critical
  <2>2. op[o].at \notin Critical
    BY <2>1 DEF Running, Critical
  <2> QED BY <2>1, <2>2 DEF LockMatchesSection
<1>4. CASE Crash
  BY <1>4, NoOpFacts DEF Crash, LockMatchesSection, NoOp, Critical
<1>5. CASE \/ \E t \in Task : RouteStep(t) \/ SkipMemory(t) \/ FailStranded(t)
           \/ Prune \/ UNCHANGED vars
  <2>1. UNCHANGED <<op, lock>>
    BY <1>5 DEF RouteStep, Classify, Dispatch, Terminate, CommitTask, Throw, Catch, FailStranded,
         RouteFrame, SkipMemory, Prune, ListBranches, ActiveGuard, PruneDone, PruneOne,
         PruneFrame, vars, opVars
  <2> QED BY <2>1 DEF LockMatchesSection
<1> QED BY <1>1, <1>2, <1>3, <1>4, <1>5 DEF Next, MemoryStep

\* One operation at a time is between GET_LOCK and RELEASE_LOCK, it holds the lock, and
\* no failure, timeout or crash leaves the lock behind (session-manager.ts:58-80).
THEOREM LockMatchesSectionHolds == Spec => []LockMatchesSection
<1>1. Init => LockMatchesSection
  BY MemoryAssumption, NoOpFacts DEF Init, LockMatchesSection, NoLock, NoOp, Critical
<1>2. CoreInv /\ LockMatchesSection /\ [Next]_vars => LockMatchesSection'
  BY LockStep
<1> QED BY <1>1, <1>2, CoreHolds, PTL DEF Spec

------------------------------------------------------------------------------
(* What is written stays.                                                       *)
\* The keys of t that main or the branch of t holds.
Kept(t) == main[t] \cup (IF t \in branches THEN content[t] ELSE {})

LEMMA DeleteKeeps ==
  ASSUME CoreInv, NEW t \in Task, DeleteBranch(t), main' = main
  PROVE  \A u \in Task : Kept(u) \subseteq Kept(u)'
<1>1. /\ t \in branches /\ content[t] \subseteq main[t]
      /\ branches' = branches \ {t} /\ content' = [content EXCEPT ![t] = {}]
  BY DEF DeleteBranch, Removable
<1>2. \A u \in Task : u # t => content'[u] = content[u]
  BY <1>1, CoreParts DEF RestTypeOK
<1>3. Kept(t) \subseteq Kept(t)'
  BY <1>1 DEF Kept
<1>4. \A u \in Task : u # t => Kept(u) = Kept(u)'
  BY <1>1, <1>2 DEF Kept
<1> QED BY <1>3, <1>4

\* No step takes a key away, whatever it deletes.
LEMMA KeepsAll ==
  ASSUME CoreInv, [Next]_vars
  PROVE  \A u \in Task : Kept(u) \subseteq Kept(u)'
<1>1. CASE UNCHANGED branchVars
  BY <1>1 DEF branchVars, Kept
<1>2. ASSUME NEW o \in Op, OpStep(o), NEW t, t = op[o].task
      PROVE  \A u \in Task : Kept(u) \subseteq Kept(u)'
  <2>1. t \in Task
    BY <1>2, JobOf DEF OpStep, CreateBranch, CheckoutBranch, WriteContext, AcquireLock, Flush,
       Merge, DeleteMerged, DiscardSession, OpAt, Running, CoreInv, Fn
  <2>2. CASE CreateBranch(o)
    <3>1. branches \subseteq branches' /\ UNCHANGED <<content, main>>
      BY <2>2 DEF CreateBranch
    <3> QED BY <3>1 DEF Kept
  <2>3. CASE WriteContext(o)
    <3>1. /\ content' \in {content, [content EXCEPT ![t] = @ \cup {op[o].kind}]}
          /\ UNCHANGED <<branches, main>>
      BY <1>2, <2>3 DEF WriteContext
    <3>2. \A u \in Task : content[u] \subseteq content'[u]
      BY <2>1, <3>1, CoreParts DEF RestTypeOK
    <3> QED BY <3>1, <3>2 DEF Kept
  <2>4. CASE Merge(o)
    <3>1. /\ main' \in {main, [main EXCEPT ![t] = @ \cup content[t]]}
          /\ UNCHANGED <<branches, content>>
      BY <1>2, <2>4 DEF Merge
    <3>2. \A u \in Task : main[u] \subseteq main'[u]
      BY <2>1, <3>1, CoreParts DEF RestTypeOK
    <3> QED BY <3>1, <3>2 DEF Kept
  <2>5. CASE DeleteMerged(o)
    BY <2>1, <2>5, <1>2, <1>1, DeleteKeeps DEF DeleteMerged, branchVars
  <2>6. CASE CheckoutBranch(o) \/ AcquireLock(o) \/ Flush(o) \/ DiscardSession(o)
    BY <2>6, <1>1 DEF CheckoutBranch, AcquireLock, Flush, DiscardSession
  <2> QED BY <1>2, <2>2, <2>3, <2>4, <2>5, <2>6 DEF OpStep
<1>3. CASE Prune
  <2>1. CASE UNCHANGED <<branches, content>>
    BY <2>1, <1>1, <1>3 DEF Prune, ListBranches, ActiveGuard, PruneDone, PruneOne, PruneFrame, branchVars
  <2>2. CASE \E t \in Task : DeleteBranch(t) /\ main' = main
    BY <2>2, DeleteKeeps
  <2> QED BY <2>1, <2>2, <1>3
          DEF Prune, ListBranches, ActiveGuard, PruneDone, PruneOne, PruneFrame
<1>4. CASE \/ \E t \in Task : RouteStep(t) \/ MemoryStep(t) \/ FailStranded(t)
           \/ \E o \in Op : Timeout(o)
           \/ Crash \/ UNCHANGED vars
  <2>1. UNCHANGED branchVars
    BY <1>4 DEF RouteStep, Classify, Dispatch, Terminate, CommitTask, Throw, Catch, FailStranded,
         RouteFrame, MemoryStep, SkipMemory, StartMemory, Timeout, Crash, vars
  <2> QED BY <2>1, <1>1
<1> QED BY <1>2, <1>3, <1>4 DEF Next

\* routeTask learns that a key is written only from the operation that wrote it.
LEMMA SettleAcks ==
  ASSUME CoreInv, NEW o \in Op, Running(o), NEW got \in BOOLEAN, Settle(o, got)
  PROVE  \A u \in Task : acked'[u] \subseteq acked[u] \cup
           (IF got /\ u = op[o].task /\ op[o].kind \in Key THEN {op[o].kind} ELSE {})
<1> DEFINE t == op[o].task
<1>1. CASE ~op[o].awaited
  BY <1>1 DEF Settle
<1>2. CASE op[o].awaited
  <2>1. step[t] = op[o].kind /\ Resume(t, got) /\ t \in Task
    BY <1>2, AwaitedRuns DEF Settle, AwaitInv, CoreInv
  <2>2. acked' = IF got /\ op[o].kind \in Key THEN [acked EXCEPT ![t] = @ \cup {op[o].kind}] ELSE acked
    BY <2>1 DEF Resume
  <2> QED BY <2>1, <2>2, CoreParts DEF OpCore
<1> QED BY <1>1, <1>2

LEMMA AcksKept ==
  ASSUME CoreInv, NothingLost, [Next]_vars
  PROVE  \A u \in Task : acked'[u] \subseteq acked[u] \cup Kept(u)'
<1>1. CASE acked' = acked
  BY <1>1
<1>2. ASSUME NEW t \in Task, step[t] \in MemStep, Resume(t, FALSE)
      PROVE  acked' = acked
  BY <1>2 DEF Resume
<1>3. ASSUME NEW o \in Op, OpStep(o), NEW t, t = op[o].task
      PROVE  \A u \in Task : acked'[u] \subseteq acked[u] \cup Kept(u)'
  <2>1. Running(o) /\ t \in Task
    BY <1>3, JobOf DEF OpStep, CreateBranch, CheckoutBranch, WriteContext, AcquireLock, Flush,
       Merge, DeleteMerged, DiscardSession, OpAt, Running, CoreInv, Fn
  <2>2. ASSUME NEW got \in BOOLEAN, Settle(o, got), ~got \/ op[o].kind \notin Key
        PROVE  \A u \in Task : acked'[u] \subseteq acked[u]
    BY <1>3, <2>1, <2>2, SettleAcks
  <2>3. CASE WriteContext(o)
    <3>1. CASE Settle(o, FALSE)
      BY <2>2, <3>1
    <3>2. CASE t \in branches /\ content' = [content EXCEPT ![t] = @ \cup {op[o].kind}]
               /\ branches' = branches /\ Settle(o, TRUE)
      <4>1. op[o].kind \in content'[t] /\ t \in branches'
        BY <2>1, <3>2, CoreParts DEF RestTypeOK
      <4>2. op[o].kind \in Kept(t)'
        BY <4>1 DEF Kept
      <4>3. \A u \in Task : acked'[u] \subseteq acked[u] \cup
               (IF TRUE /\ u = t /\ op[o].kind \in Key THEN {op[o].kind} ELSE {})
        BY <1>3, <2>1, <3>2, SettleAcks
      <4> QED BY <4>2, <4>3
    <3> QED BY <1>3, <2>3, <3>1, <3>2 DEF WriteContext
  <2>4. CASE CreateBranch(o) \/ DiscardSession(o) \/ DeleteMerged(o)
    <3>1. op[o].kind \notin Key
      BY <2>4 DEF CreateBranch, DiscardSession, DeleteMerged, OpAt, CoreInv, OpInv, Critical, Key
    <3>2. Settle(o, TRUE) \/ Settle(o, FALSE)
      BY <2>4 DEF CreateBranch, DiscardSession, DeleteMerged, LeaveLocked
    <3> QED BY <3>1, <3>2, <2>2
  <2>5. CASE CheckoutBranch(o) \/ AcquireLock(o) \/ Flush(o) \/ Merge(o)
    <3>1. acked' = acked \/ Settle(o, FALSE)
      BY <2>5 DEF CheckoutBranch, AcquireLock, Flush, Merge, LeaveLocked, OpNext
    <3> QED BY <3>1, <2>2
  <2> QED BY <1>3, <2>3, <2>4, <2>5 DEF OpStep
<1>4. ASSUME NEW o \in Op, Timeout(o) PROVE acked' = acked
  <2>1. op[o].awaited /\ Resume(op[o].task, FALSE)
    BY <1>4 DEF Timeout, StepTimesOut
  <2>2. op[o].task \in Task /\ step[op[o].task] \in MemStep
    BY <2>1, AwaitedRuns DEF CoreInv, AwaitInv
  <2> QED BY <2>1, <2>2, <1>2
<1>5. ASSUME NEW t \in Task, MemoryStep(t) PROVE acked' = acked
  BY <1>2, <1>5 DEF MemoryStep, SkipMemory, StartMemory
<1>6. CASE \/ \E t \in Task : RouteStep(t) \/ FailStranded(t)
           \/ Prune \/ Crash \/ UNCHANGED vars
  <2>1. acked' = acked
    BY <1>6 DEF RouteStep, Classify, Dispatch, Terminate, CommitTask, Throw, Catch, FailStranded,
         RouteFrame, Prune, ListBranches, ActiveGuard, PruneDone, PruneOne, PruneFrame, Crash, vars
  <2> QED BY <2>1
<1> QED BY <1>1, <1>3, <1>4, <1>5, <1>6 DEF Next

\* A context whose write was reported done to routeTask is on main or on the branch of its
\* task, whatever times out, fails, crashes or is pruned: DOLT_BRANCH('-d') deletes what
\* is merged only, and a late write either finds its branch or fails.
THEOREM NothingLostHolds == Spec => []NothingLost
<1>1. NothingLost <=> \A t \in Task : acked[t] \subseteq Kept(t)
  BY DEF NothingLost, Kept
<1>2. Init => NothingLost
  BY DEF Init, NothingLost
<1>3. CoreInv /\ NothingLost /\ [Next]_vars => NothingLost'
  <2>1. NothingLost' <=> \A t \in Task : acked'[t] \subseteq Kept(t)'
    BY DEF NothingLost, Kept
  <2> QED BY <1>1, <2>1, AcksKept, KeepsAll
<1> QED BY <1>2, <1>3, CoreHolds, PTL DEF Spec

------------------------------------------------------------------------------
(* What reaches main, and what pruning deletes.                                 *)

\* Only routeTask and the reaper write the row of a task.
LEMMA RowFrame ==
  ASSUME [Next]_vars, ~\E t \in Task : RouteStep(t) \/ FailStranded(t)
  PROVE  status' = status /\ won' = won
<1>1. ASSUME NEW t, NEW got, Resume(t, got) PROVE status' = status /\ won' = won
  BY <1>1 DEF Resume
<1>2. ASSUME NEW o, NEW got, Settle(o, got) PROVE status' = status /\ won' = won
  BY <1>1, <1>2 DEF Settle, routeVars
<1>3. ASSUME NEW o, NEW stage, OpNext(o, stage) PROVE status' = status /\ won' = won
  BY <1>3 DEF OpNext, routeVars
<1>4. CASE \E o \in Op : OpStep(o)
  BY <1>2, <1>3, <1>4 DEF OpStep, CreateBranch, CheckoutBranch, WriteContext, AcquireLock, Flush,
     Merge, DeleteMerged, DiscardSession, LeaveLocked
<1>5. CASE \/ \E t \in Task : MemoryStep(t)
           \/ \E o \in Op : Timeout(o)
  BY <1>1, <1>5 DEF MemoryStep, SkipMemory, StartMemory, Timeout, routeVars
<1>6. CASE Prune \/ Crash \/ UNCHANGED vars
  BY <1>6 DEF Prune, ListBranches, ActiveGuard, PruneDone, PruneOne, PruneFrame, Crash, routeVars, vars
<1> QED BY <1>4, <1>5, <1>6 DEF Next

\* Only a merge of a session whose task has won adds keys to main.
LEMMA MainStep ==
  ASSUME CoreInv, FailedStaysOff, [Next]_vars
  PROVE  FailedStaysOff'
<1>1. won \subseteq won'
  BY RowFrame DEF RouteStep, Classify, Dispatch, Terminate, CommitTask, Throw, Catch, FailStranded
<1>2. CASE main' = main
  BY <1>1, <1>2 DEF FailedStaysOff
<1>3. ASSUME NEW o \in Op, Merge(o) PROVE FailedStaysOff'
  <2> DEFINE t == op[o].task
  <2>1. t \in won
    BY <1>3 DEF Merge, OpAt, CoreInv, OpInv, Critical
  <2>2. main' \in {main, [main EXCEPT ![t] = @ \cup content[t]]}
    BY <1>3 DEF Merge
  <2>3. \A u \in Task : u # t => main'[u] = main[u]
    BY <2>2, CoreParts DEF RestTypeOK
  <2> QED BY <1>1, <2>1, <2>3 DEF FailedStaysOff
<1>4. CASE /\ \A o \in Op : ~Merge(o)
           /\ Next \/ UNCHANGED vars
  <2>1. main' = main
    BY <1>4 DEF Next, RouteStep, Classify, Dispatch, Terminate, CommitTask, Throw, Catch,
       FailStranded, RouteFrame, MemoryStep, SkipMemory, StartMemory, Timeout, OpStep,
       CreateBranch, CheckoutBranch, WriteContext, AcquireLock, Flush, DeleteMerged,
       DiscardSession, Prune, ListBranches, ActiveGuard, PruneDone, PruneOne, PruneFrame,
       Crash, branchVars, vars
  <2> QED BY <2>1, <1>2
<1> QED BY <1>3, <1>4

\* The memory of a task whose execution did not succeed never reaches main
\* (router.ts:352-366).
THEOREM FailedStaysOffHolds == Spec => []FailedStaysOff
<1>1. Init => FailedStaysOff
  BY DEF Init, FailedStaysOff
<1>2. CoreInv /\ FailedStaysOff /\ [Next]_vars => FailedStaysOff'
  BY MainStep
<1> QED BY <1>1, <1>2, CoreHolds, PTL DEF Spec

\* What each step of routeTask does to the stage and the row of its task.
RouteMove(t) ==
  \/ step[t] = "begin" /\ step'[t] = "create" /\ status'[t] = "CLASSIFIED"
  \/ step[t] = "select" /\ step'[t] = "selection" /\ status'[t] = "DISPATCHED"
  \/ /\ step[t] = "terminal" /\ step'[t] = "execution"
     /\ \/ status'[t] = "COMPLETED" /\ t \in won'
        \/ status'[t] = "FAILED" /\ won' = won
  \/ step[t] = "commit" /\ step'[t] = "end" /\ status'[t] = status[t]
RouteThrow(t) ==
  /\ step[t] \in DOMAIN Statement /\ step'[t] = "catch"
  /\ status'[t] \in {status[t]} \cup Statement[step[t]]
RouteCatch(t) ==
  /\ step[t] = "catch" /\ step'[t] \in {"discard", "end"} /\ status'[t] \in {status[t], "FAILED"}

LEMMA RouteEffect ==
  ASSUME CoreInv, NEW t \in Task, RouteStep(t)
  PROVE  /\ RouteMove(t) \/ RouteThrow(t) \/ RouteCatch(t)
         /\ \A u \in Task \ {t} :
              step'[u] = step[u] /\ status'[u] = status[u] /\ (u \in won' <=> u \in won)
         /\ step[t] # "terminal" => won' = won
<1>0. step \in [Task -> Step] /\ status \in [Task -> Status]
  BY CoreParts DEF OpCore, RestTypeOK
<1>1. CASE Classify(t)
  BY <1>0, <1>1 DEF Classify, AtStep, GoOn, WriteStatus, RouteMove
<1>2. CASE Dispatch(t)
  BY <1>0, <1>2 DEF Dispatch, AtStep, GoOn, WriteStatus, RouteMove
<1>3. CASE Terminate(t)
  BY <1>0, <1>3 DEF Terminate, AtStep, GoOn, WriteStatus, RouteMove
<1>4. CASE CommitTask(t)
  BY <1>0, <1>4 DEF CommitTask, AtStep, GoOn, RouteMove
<1>5. CASE Throw(t)
  <2>1. step[t] \in DOMAIN Statement /\ step' = [step EXCEPT ![t] = "catch"]
    BY <1>5 DEF Throw, GoOn
  <2>2. status' = status \/ \E s \in Statement[step[t]] : status' = [status EXCEPT ![t] = s]
    BY <1>5 DEF Throw, WriteStatus
  <2>3. status'[t] \in {status[t]} \cup Statement[step[t]]
        /\ \A u \in Task \ {t} : status'[u] = status[u]
    BY <1>0, <2>2
  <2>4. won' = won
    BY <1>5 DEF Throw
  <2> QED BY <1>0, <2>1, <2>3, <2>4 DEF RouteThrow
<1>6. CASE Catch(t)
  BY <1>0, <1>6 DEF Catch, AtStep, GoOn, FailedRow, RouteCatch
<1> QED BY <1>1, <1>2, <1>3, <1>4, <1>5, <1>6 DEF RouteStep

\* The reaper writes the row of a task whose routeTask is over, unless jobs outlive
\* the recovery age.
LEMMA ReapEffect ==
  ASSUME CoreInv, NEW t \in Task, FailStranded(t)
  PROVE  /\ JobsMayOutliveAge \/ (step[t] = "end" /\ ~Terminal(t))
         /\ status'[t] = "FAILED" /\ step' = step /\ won' = won
         /\ \A u \in Task \ {t} : status'[u] = status[u]
  BY CoreParts DEF RestTypeOK, FailStranded, WriteStatus

\* Elsewhere routeTask goes on from a memory step, or dies.
MemoryMove(t) == \/ step'[t] = step[t]
                 \/ step[t] \in MemStep /\ step'[t] = Following[step[t]]
                 \/ step[t] # "begin" /\ step'[t] = "end"

LEMMA MemoryEffect ==
  ASSUME CoreInv, [Next]_vars, ~\E t \in Task : RouteStep(t) \/ FailStranded(t)
  PROVE  status' = status /\ won' = won /\ \A t \in Task : MemoryMove(t)
<1> SUFFICES \A t \in Task : MemoryMove(t)
  BY RowFrame
<1>0. step \in [Task -> Step]
  BY CoreParts DEF OpCore
<1>1. ASSUME NEW t \in Task, NEW got, Resume(t, got), step[t] \in MemStep
      PROVE  \A u \in Task : MemoryMove(u)
  BY <1>0, <1>1 DEF Resume, GoOn, MemoryMove
<1>2. ASSUME step' = step PROVE \A u \in Task : MemoryMove(u)
  BY <1>2 DEF MemoryMove
<1>3. ASSUME NEW o \in Op, op[o].awaited
      PROVE  op[o].task \in Task /\ step[op[o].task] \in MemStep
  BY <1>3, AwaitedRuns DEF CoreInv, AwaitInv
<1>4. ASSUME NEW o \in Op, NEW got, Settle(o, got) PROVE \A u \in Task : MemoryMove(u)
  BY <1>1, <1>2, <1>3, <1>4 DEF Settle, routeVars
<1>5. CASE \E o \in Op : OpStep(o)
  <2>1. PICK o \in Op : OpStep(o)
    BY <1>5
  <2>2. \/ Settle(o, TRUE) \/ Settle(o, FALSE)
        \/ step' = step
    BY <2>1 DEF OpStep, CreateBranch, CheckoutBranch, WriteContext, AcquireLock, Flush, Merge,
                DeleteMerged, DiscardSession, LeaveLocked, OpNext, routeVars
  <2> QED BY <2>2, <1>2, <1>4, Zenon
<1>6. CASE \E t \in Task : MemoryStep(t)
  <2>1. PICK t \in Task : MemoryStep(t)
    BY <1>6
  <2>2. (step[t] \in MemStep /\ Resume(t, FALSE)) \/ step' = step
    BY <2>1 DEF MemoryStep, SkipMemory, StartMemory, routeVars
  <2> QED BY <2>2, <1>1, <1>2, Zenon
<1>7. CASE \E o \in Op : Timeout(o)
  <2>1. PICK o \in Op : Timeout(o)
    BY <1>7
  <2>2. op[o].awaited /\ Resume(op[o].task, FALSE)
    BY <2>1 DEF Timeout, StepTimesOut
  <2> QED BY <2>2, <1>1, <1>3, Zenon
<1>8. CASE Prune \/ UNCHANGED vars
  BY <1>2, <1>8
     DEF Prune, ListBranches, ActiveGuard, PruneDone, PruneOne, PruneFrame, routeVars, vars
<1>9. CASE Crash
  BY <1>9 DEF Crash, MemoryMove
<1> QED BY <1>5, <1>6, <1>7, <1>8, <1>9 DEF Next

\* The row of a task is as far as its routeTask, if no live job is reaped.
StageInv ==
  \A t \in Task :
    /\ step[t] = "begin" => status[t] = "RECEIVED"
    /\ step[t] \in {"create", "classification", "select"} => status[t] = "CLASSIFIED"
    /\ step[t] \in {"selection", "terminal"} => status[t] = "DISPATCHED"
    /\ step[t] \in {"execution", "finalize", "commit"} => status[t] \in {"COMPLETED", "FAILED"}

LEMMA StageStep ==
  ASSUME ~JobsMayOutliveAge, CoreInv, StageInv, [Next]_vars
  PROVE  StageInv'
<1>0. \A s \in MemStep :
        /\ Following[s] # "begin"
        /\ Following[s] \in {"create", "classification", "select"} => s \in {"create", "classification"}
        /\ Following[s] \in {"selection", "terminal"} => s = "selection"
        /\ Following[s] \in {"execution", "finalize", "commit"} => s \in {"execution", "finalize"}
  BY DEF MemStep, Key, Following
<1>1. CASE \E t \in Task : RouteStep(t)
  <2>1. PICK t \in Task : RouteStep(t)
    BY <1>1
  <2>2. \/ RouteMove(t) \/ RouteThrow(t) \/ RouteCatch(t)
    BY <2>1, RouteEffect
  <2>3. \A u \in Task \ {t} : step'[u] = step[u] /\ status'[u] = status[u]
    BY <2>1, RouteEffect
  <2>4. /\ step'[t] # "begin" /\ step'[t] \notin {"classification", "select", "terminal", "finalize", "commit"}
        /\ step'[t] = "create" => status'[t] = "CLASSIFIED"
        /\ step'[t] = "selection" => status'[t] = "DISPATCHED"
        /\ step'[t] = "execution" => status'[t] \in {"COMPLETED", "FAILED"}
    BY <2>2 DEF RouteMove, RouteThrow, RouteCatch
  <2> QED BY <2>3, <2>4 DEF StageInv
<1>2. CASE \E t \in Task : FailStranded(t)
  <2>1. PICK t \in Task : FailStranded(t)
    BY <1>2
  <2> QED BY <2>1, ReapEffect DEF StageInv
<1>3. CASE ~\E t \in Task : RouteStep(t) \/ FailStranded(t)
  <2>1. status' = status /\ \A t \in Task : MemoryMove(t)
    BY <1>3, MemoryEffect
  <2> SUFFICES ASSUME NEW t \in Task
               PROVE  /\ step'[t] = "begin" => status[t] = "RECEIVED"
                      /\ step'[t] \in {"create", "classification", "select"} => status[t] = "CLASSIFIED"
                      /\ step'[t] \in {"selection", "terminal"} => status[t] = "DISPATCHED"
                      /\ step'[t] \in {"execution", "finalize", "commit"}
                           => status[t] \in {"COMPLETED", "FAILED"}
    BY <2>1 DEF StageInv
  <2> QED BY <1>0, <2>1 DEF StageInv, MemoryMove
<1> QED BY <1>1, <1>2, <1>3

LEMMA StageHolds ==
  ASSUME ~JobsMayOutliveAge
  PROVE  Spec => [](CoreInv /\ StageInv)
<1>1. Init => StageInv
  BY DEF Init, StageInv
<1>2. CoreInv /\ StageInv /\ [Next]_vars => StageInv'
  BY StageStep
<1> QED BY <1>1, <1>2, CoreHolds, PTL DEF Spec

\* A terminal row stays terminal, so that what the guard saw is still true when the
\* deletes come: routeTask is past the statements that would reopen it.
PruneInv == prune.at = "delete" => \A t \in prune.found : Terminal(t)

LEMMA TerminalStays ==
  ASSUME ~JobsMayOutliveAge, CoreInv, StageInv, [Next]_vars, NEW t \in Task, Terminal(t)
  PROVE  Terminal(t)'
<1>1. CASE \E u \in Task : RouteStep(u)
  <2>1. PICK u \in Task : RouteStep(u)
    BY <1>1
  <2>2. CASE u # t
    BY <2>1, <2>2, RouteEffect DEF Terminal
  <2>3. CASE u = t
    BY <2>1, <2>3, RouteEffect DEF Terminal, StageInv, RouteMove, RouteThrow, RouteCatch, Statement
  <2> QED BY <2>2, <2>3
<1>2. CASE \E u \in Task : FailStranded(u)
  BY <1>2, ReapEffect DEF Terminal
<1>3. CASE ~\E u \in Task : RouteStep(u) \/ FailStranded(u)
  BY <1>3, RowFrame DEF Terminal
<1> QED BY <1>1, <1>2, <1>3

LEMMA PruneInvStep ==
  ASSUME ~JobsMayOutliveAge, CoreInv, StageInv, PruneInv, [Next]_vars
  PROVE  PruneInv'
<1> SUFFICES ASSUME prune'.at = "delete", NEW t \in prune'.found PROVE Terminal(t)'
  BY DEF PruneInv
<1>1. prune \in [at : {"off", "guard", "delete"}, found : SUBSET Task]
  BY CoreParts DEF RestTypeOK
<1>2. CASE prune' = prune
  BY <1>1, <1>2, TerminalStays DEF PruneInv
<1>3. CASE ListBranches \/ PruneDone \/ Crash
  BY <1>3 DEF ListBranches, PruneDone, Crash, PruneOff
<1>4. CASE ActiveGuard
  <2>1. t \in prune.found /\ Terminal(t)
    BY <1>4 DEF ActiveGuard, ActiveOnError
  <2> QED BY <2>1, <1>1, TerminalStays
<1>5. ASSUME NEW u \in Task, PruneOne(u) PROVE Terminal(t)'
  <2>1. prune.at = "delete" /\ t \in prune.found
    BY <1>5, <1>1 DEF PruneOne
  <2> QED BY <2>1, <1>1, TerminalStays DEF PruneInv
<1>6. CASE ~(Prune \/ Crash)
  <2>1. prune' = prune
    BY <1>6 DEF Next, RouteStep, Classify, Dispatch, Terminate, CommitTask, Throw, Catch,
       FailStranded, RouteFrame, MemoryStep, SkipMemory, StartMemory, Timeout, OpStep,
       CreateBranch, CheckoutBranch, WriteContext, AcquireLock, Flush, Merge, DeleteMerged,
       DiscardSession, OpFrame, vars
  <2> QED BY <2>1, <1>2
<1> QED BY <1>3, <1>4, <1>5, <1>6 DEF Prune

\* Only pruning and commitSession delete branches.
LEMMA DeletesSpare ==
  ASSUME CoreInv, PruneInv, [Next]_vars, NEW t \in branches \ branches'
  PROVE  Terminal(t) \/ \E o \in Op : op[o].task = t /\ OpAt(o, "delete")
<1>1. CASE \E u \in Task : PruneOne(u)
  <2>1. PICK u \in Task : PruneOne(u)
    BY <1>1
  <2>2. prune.at = "delete" /\ u \in prune.found /\ t = u
    BY <2>1 DEF PruneOne, DeleteBranch
  <2> QED BY <2>2 DEF PruneInv
<1>2. CASE \E o \in Op : DeleteMerged(o)
  BY <1>2 DEF DeleteMerged, DeleteBranch
<1>3. CASE ~(\E u \in Task : PruneOne(u)) /\ ~(\E o \in Op : DeleteMerged(o))
  <2>1. branches \subseteq branches'
    BY <1>3 DEF Next, RouteStep, Classify, Dispatch, Terminate, CommitTask, Throw, Catch,
       FailStranded, RouteFrame, MemoryStep, SkipMemory, StartMemory, Timeout, OpStep,
       CreateBranch, CheckoutBranch, WriteContext, AcquireLock, Flush, Merge,
       DiscardSession, Prune, ListBranches, ActiveGuard, PruneDone, Crash, branchVars, vars
  <2> QED BY <2>1
<1> QED BY <1>1, <1>2, <1>3

\* As long as no live job is reaped, pruning deletes no branch of a task whose row is
\* in flight, however long after the guard it deletes (branch-cleanup.ts:32-50).
THEOREM PruneSparesActiveHolds == Spec => PruneSparesActive
<1>1. CASE JobsMayOutliveAge
  BY <1>1, PTL DEF PruneSparesActive
<1>2. CASE ~JobsMayOutliveAge
  <2>1. Init => PruneInv
    BY DEF Init, PruneInv, PruneOff
  <2>2. CoreInv /\ StageInv /\ PruneInv /\ [Next]_vars => PruneInv'
    BY <1>2, PruneInvStep
  <2>3. CoreInv /\ PruneInv /\ [Next]_vars =>
          [JobsMayOutliveAge \/ \A t \in branches \ branches' :
             Terminal(t) \/ \E o \in Op : op[o].task = t /\ OpAt(o, "delete")]_vars
    BY DeletesSpare
  <2> QED BY <1>2, <2>1, <2>2, <2>3, StageHolds, PTL DEF Spec, PruneSparesActive
<1> QED BY <1>1, <1>2

------------------------------------------------------------------------------
(* Every task goes through the abstract job of RouteJob.                        *)

\* Where the job may go from each of its stages, and what is written on the way.
LEMMA JobPaths ==
  ASSUME NEW t \in Task
  PROVE  /\ Job(t)!RouteNext("begin") = {"classified"}
         /\ Job(t)!RouteNext("classified") = {"dispatched"}
         /\ Job(t)!RouteNext("dispatched") = {"again", "completed", "failed"}
         /\ Job(t)!RouteNext("completed") = {"done"} /\ Job(t)!RouteNext("failed") = {"done"}
         /\ Job(t)!Written("classified", status[t]) = "CLASSIFIED"
         /\ Job(t)!Written("dispatched", status[t]) = "DISPATCHED"
         /\ Job(t)!Written("completed", status[t]) = "COMPLETED"
         /\ Job(t)!Written("failed", status[t]) = "FAILED"
         /\ Job(t)!Written("done", status[t]) = status[t]
  BY DEF Job!RouteNext, Job!Written

\* A task has won only after its execution.
WonInv == \A t \in won : step[t] \in {"execution", "finalize", "commit", "catch", "discard", "end"}

LEMMA WonStep ==
  ASSUME CoreInv, WonInv, [Next]_vars
  PROVE  WonInv'
<1>0. won \subseteq Task
  BY CoreParts DEF RestTypeOK
<1>1. CASE \E t \in Task : RouteStep(t)
  <2>1. PICK t \in Task : RouteStep(t)
    BY <1>1
  <2>2. RouteMove(t) \/ RouteThrow(t) \/ RouteCatch(t)
    BY <2>1, RouteEffect
  <2>3. won' \subseteq Task
    BY <2>1, RouteStepCore, CorePartsPrimed, CoreParts DEF CoreInv, TypeOK
  <2>4. \A u \in won' \ {t} : step'[u] = step[u] /\ u \in won
    BY <2>1, <2>3, RouteEffect
  <2>5. ASSUME t \in won'
        PROVE  step'[t] \in {"execution", "finalize", "commit", "catch", "discard", "end"}
    <3>1. step[t] = "terminal" \/ t \in won
      BY <2>1, <2>5, RouteEffect
    <3> QED BY <2>2, <3>1 DEF WonInv, RouteMove, RouteThrow, RouteCatch
  <2> QED BY <2>4, <2>5 DEF WonInv
<1>2. CASE \E t \in Task : FailStranded(t)
  BY <1>2, ReapEffect DEF WonInv
<1>3. CASE ~\E t \in Task : RouteStep(t) \/ FailStranded(t)
  <2>1. won' = won /\ \A t \in Task : MemoryMove(t)
    BY <1>3, MemoryEffect
  <2>2. ASSUME NEW t \in won
        PROVE  step'[t] \in {"execution", "finalize", "commit", "catch", "discard", "end"}
    BY <1>0, <2>1, <2>2 DEF WonInv, MemoryMove, Following, MemStep, Key
  <2> QED BY <2>1, <2>2 DEF WonInv
<1> QED BY <1>1, <1>2, <1>3

\* A step that keeps the row and the stage is a stutter of the job.
LEMMA JobRests ==
  ASSUME NEW t \in Task, status'[t] = status[t], JobAt(t)' = JobAt(t)
  PROVE  UNCHANGED Job(t)!job
  BY DEF Job!job

LEMMA JobMoves ==
  ASSUME WonInv, NEW t \in Task, RouteMove(t), step[t] # "terminal" => won' = won
  PROVE  Job(t)!Next
<1> DEFINE next == CASE step[t] = "begin"    -> "classified"
                     [] step[t] = "select"   -> "dispatched"
                     [] step[t] = "terminal" ->
                          IF status'[t] = "COMPLETED" THEN "completed" ELSE "failed"
                     [] step[t] = "commit"   -> "done"
<1>1. JobAt(t) \in Job(t)!RouteStage /\ next \in Job(t)!RouteNext(JobAt(t))
  BY JobPaths DEF RouteMove, JobAt, Job!RouteStage
<1>2. JobAt(t)' = next
  BY DEF RouteMove, JobAt, WonInv
<1>3. status'[t] = Job(t)!Written(next, status[t])
  BY JobPaths DEF RouteMove
<1> HIDE DEF next, JobAt
<1> QED BY <1>1, <1>2, <1>3 DEF Job!Move, Job!Next

LEMMA JobThrows ==
  ASSUME NEW t \in Task, RouteThrow(t)
  PROVE  Job(t)!Next
<1>1. JobAt(t)' = "catch" /\ step[t] \in {"begin", "select", "terminal", "commit"}
  BY DEF RouteThrow, JobAt, Statement
<1>2. /\ JobAt(t) \in Job(t)!RouteStage
      /\ \/ status'[t] = status[t]
         \/ \E next \in Job(t)!RouteNext(JobAt(t)) : status'[t] = Job(t)!Written(next, status[t])
  <2>1. CASE step[t] = "begin"
    <3>1. JobAt(t) = "begin" /\ status'[t] \in {status[t], "CLASSIFIED"}
      BY <2>1 DEF RouteThrow, JobAt, Statement
    <3> QED BY <3>1, JobPaths DEF Job!RouteStage
  <2>2. CASE step[t] = "select"
    <3>1. JobAt(t) = "classified" /\ status'[t] \in {status[t], "DISPATCHED"}
      BY <2>2 DEF RouteThrow, JobAt, Statement
    <3> QED BY <3>1, JobPaths DEF Job!RouteStage
  <2>3. CASE step[t] = "terminal"
    <3>1. JobAt(t) = "dispatched" /\ status'[t] \in {status[t], "COMPLETED", "FAILED"}
      BY <2>3 DEF RouteThrow, JobAt, Statement
    <3> QED BY <3>1, JobPaths DEF Job!RouteStage
  <2>4. CASE step[t] = "commit"
    <3>1. JobAt(t) \in {"completed", "failed"} /\ status'[t] = status[t]
      BY <2>4 DEF RouteThrow, JobAt, Statement
    <3> QED BY <3>1 DEF Job!RouteStage
  <2> QED BY <1>1, <2>1, <2>2, <2>3, <2>4
<1> HIDE DEF JobAt
<1> QED BY <1>1, <1>2 DEF Job!Throw, Job!Next

\* A memory step leaves the job where it is, whatever becomes of it.
LEMMA JobRemembers ==
  ASSUME NEW t \in Task, status'[t] = status[t], won' = won, MemoryMove(t)
  PROVE  Job(t)!Next \/ UNCHANGED Job(t)!job
<1>1. CASE step'[t] = step[t]
  BY <1>1, JobRests DEF JobAt
<1>2. CASE step[t] \in MemStep /\ step'[t] = Following[step[t]]
  <2>1. JobAt(t)' = JobAt(t)
    BY <1>2 DEF JobAt, MemStep, Key, Following
  <2> QED BY <2>1, JobRests
<1>3. CASE step[t] # "begin" /\ step'[t] = "end"
  <2>1. JobAt(t)' = "done"
    BY <1>3 DEF JobAt
  <2> QED BY <2>1 DEF Job!Die, Job!Next
<1> QED BY <1>1, <1>2, <1>3 DEF MemoryMove

LEMMA JobStep ==
  ASSUME CoreInv, WonInv, [Next]_vars, NEW t \in Task
  PROVE  [Job(t)!Next]_(Job(t)!job)
<1>1. ASSUME step'[t] = step[t], status'[t] = status[t], t \in won' <=> t \in won
      PROVE  UNCHANGED Job(t)!job
  BY <1>1, JobRests DEF JobAt
<1>2. CASE \E u \in Task : RouteStep(u)
  <2>1. PICK u \in Task : RouteStep(u)
    BY <1>2
  <2>2. CASE u # t
    BY <2>1, <2>2, <1>1, RouteEffect
  <2>3. CASE u = t
    <3>1. RouteMove(t) \/ RouteThrow(t) \/ RouteCatch(t)
      BY <2>1, <2>3, RouteEffect
    <3>2. CASE RouteCatch(t)
      <4>1. JobAt(t) = "catch" /\ JobAt(t)' = "done" /\ status'[t] \in {status[t], "FAILED"}
        BY <3>2 DEF RouteCatch, JobAt
      <4> QED BY <4>1 DEF Job!Catch, Job!Next
    <3>3. step[t] # "terminal" => won' = won
      BY <2>1, <2>3, RouteEffect
    <3> QED BY <3>1, <3>2, <3>3, JobMoves, JobThrows
  <2> QED BY <2>2, <2>3
<1>3. CASE \E u \in Task : FailStranded(u)
  <2>1. PICK u \in Task : FailStranded(u)
    BY <1>3
  <2>2. CASE u # t
    BY <2>1, <2>2, <1>1, ReapEffect
  <2>3. CASE u = t
    <3>1. /\ JobsMayOutliveAge \/ (step[t] = "end" /\ ~Terminal(t))
          /\ status'[t] = "FAILED" /\ step' = step /\ won' = won
      BY <2>1, <2>3, ReapEffect
    <3>2. JobAt(t)' = JobAt(t) /\ (step[t] = "end" => JobAt(t) = "done")
      BY <3>1 DEF JobAt
    <3> HIDE DEF JobAt
    <3> QED BY <3>1, <3>2 DEF Terminal, Job!Reap, Job!Final, Job!Next
  <2> QED BY <2>2, <2>3
<1>4. CASE ~\E u \in Task : RouteStep(u) \/ FailStranded(u)
  BY <1>4, MemoryEffect, JobRemembers
<1> QED BY <1>2, <1>3, <1>4

\* For any number of tasks and operations, memory is invisible in task_log: whatever its
\* steps do, time out or leave undone, the row of each task changes only as the job of
\* TaskWorker changes it (router.ts:190-471), live jobs reaped or not.
THEOREM JobsImplemented == Spec => ImplementsJobs
<1> SUFFICES ASSUME NEW t \in Task PROVE Spec => Job(t)!Spec
  BY DEF ImplementsJobs
<1>1. Init => Job(t)!Init
  BY DEF Init, Job!Init, JobAt
<1>2. CoreInv /\ WonInv /\ [Next]_vars => [Job(t)!Next]_(Job(t)!job)
  BY JobStep
<1>3. Init => WonInv
  BY DEF Init, WonInv
<1>4. CoreInv /\ WonInv /\ [Next]_vars => WonInv'
  BY WonStep
<1> QED BY <1>1, <1>2, <1>3, <1>4, CoreHolds, PTL DEF Spec, Job!Spec
==============================================================================
