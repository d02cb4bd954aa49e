---------------------------- MODULE DispatchProofs ----------------------------
(* Proofs about Dispatch for every set of agents and every number of retries.    *)
EXTENDS Dispatch, FiniteSetTheorems, WellFoundedInduction, TLAPS

------------------------------------------------------------------------------
(* The inductive invariant, by what it is about.                                *)
Executing == {"find", "invoke", "record", "recordFailure"}
Early     == Executing \cup {"select", "fallback", "synthetic", "terminal", "signals"}
Chosen    == Early \ {"select"}
Primary   == Head(selection.rank)

\* The row and the locals of execute name the agent that is being tried: the first
\* of the ranking, or another one when a fallback is allowed.
ChoiceInv ==
  /\ step = "select" => exec.attempt = 0
  /\ step \in Chosen => selection.rank \in Ranking
  /\ step \in Executing \cup {"synthetic"} =>
       row = [status |-> "DISPATCHED", agent |-> exec.agent, fallback |-> exec.fallback]
  /\ step \in Executing => exec.attempt \in 1..(selection.retries + 1)
  /\ step \in Executing \cup {"synthetic"} =>
       IF exec.fallback THEN /\ exec.agent # Primary /\ exec.attempt = 1
                             /\ selection.strategy # "ABORT"
                        ELSE exec.agent = Primary
  /\ step = "synthetic" => exec.fallback
  /\ step \in Executing \cup {"synthetic"} => exec.agent \in Agent
  /\ step = "fallback" =>
       row = [status |-> "DISPATCHED", agent |-> Primary, fallback |-> FALSE]
       /\ ~exec.fallback /\ selection.strategy # "ABORT"
  /\ step \in {"terminal", "signals"} /\ ~row.fallback => row.agent = Primary

\* What routeTask has been returned: nothing yet, one failure, or the end.
RecordInv ==
  /\ step = "select" => records = <<>>
  /\ step \in Executing \cup {"synthetic"} => Len(records) = IF exec.fallback THEN 1 ELSE 0
  /\ step = "fallback" => Len(records) = 1
  /\ step \in {"terminal", "signals"} => records # <<>>
  /\ step \in Executing \cup {"fallback", "synthetic"} =>
       \A i \in 1..Len(records) : records[i] \in Failure

\* The provider calls so far.
CallInv ==
  /\ step = "select" => calls = <<>>
  /\ \A i \in 1..Len(calls) : i < Len(calls) => calls[i].agent = Primary
  /\ \A i \in 1..Len(calls) :
       IF calls[i].agent = Primary THEN i <= selection.retries + 1
       ELSE i = Len(calls) /\ i > 1 /\ selection.strategy # "ABORT"
  /\ step \in {"find", "invoke", "fallback"} =>
       \A i \in 1..Len(calls) : calls[i].agent = Primary
  /\ step \in {"find", "invoke"} =>
       IF exec.fallback THEN Len(calls) >= 1 ELSE Len(calls) = exec.attempt - 1
  /\ step = "fallback" => Len(calls) >= 1
  /\ step \in {"record", "recordFailure"} =>
       /\ Len(calls) >= 1 /\ calls[Len(calls)].agent = exec.agent
       /\ ~exec.fallback => Len(calls) = exec.attempt
  /\ step = "record" => calls[Len(calls)].outcome = "SUCCESS"
  /\ step = "recordFailure" => exec.outcome \in Failure

\* The rows of execution_log.
LogInv ==
  /\ \A r \in log : r.id # 0 =>
       /\ r.id \in 1..Len(calls) /\ calls[r.id].agent = r.agent
       /\ r.attempt = IF r.agent = Primary THEN r.id ELSE 1
       /\ r.outcome = "SUCCESS" => calls[r.id].outcome = "SUCCESS"
       /\ \A other \in log : other.id = r.id => other = r
  /\ \A r \in log : r.id = 0 => r.outcome = "ERROR"
  /\ step \in Executing \cup {"select", "fallback", "synthetic"} => \A r \in log : r.id # 0
  /\ step \in {"select", "find", "invoke", "fallback"} => \A r \in log : r.outcome # "SUCCESS"
  /\ \A r \in log : r.outcome = "SUCCESS" => r.id = Len(calls)
  /\ step = "record" => \A r \in log : r.id # Len(calls)

\* No call is left without a row when routeTask returns.
CountInv ==
  /\ IsFiniteSet(log)
  /\ step \in {"select", "find", "invoke", "fallback", "terminal", "signals", "commit"}
       => Cardinality(log) >= Len(calls)
  /\ step = "end" /\ ~thrown => Cardinality(log) >= Len(calls)
  /\ step \in {"record", "recordFailure", "synthetic"} => Cardinality(log) + 1 >= Len(calls)
  /\ step \in {"catch", "catchCommit"} => thrown

\* The agent of the row has a successful call that is in the log.
Backed == \E r \in log : /\ r.outcome = "SUCCESS" /\ r.agent = row.agent /\ r.id \in 1..Len(calls)
                         /\ calls[r.id] = [agent |-> row.agent, outcome |-> "SUCCESS"]
BackedInv ==
  /\ step = "terminal" /\ Won => Backed
  /\ row.status = "COMPLETED" => Backed /\ step \notin Early \ {"signals"}

\* The records and the log tell of the same failures; the signals tell of both.
SignalInv ==
  /\ \A o \in Failure : \A i \in 1..Len(records) :
       records[i] = o => \E r \in log : r.outcome = o
  /\ step \in Early /\ (\E r \in log : r.outcome \in Failure) =>
       \E i \in 1..Len(records) : records[i] \in Failure
  /\ step \in Early => signals = {}
  /\ SignalsMatchLog

\* The evaluation starts once, on a task that has no tier-2 row.
VerdictInv ==
  /\ step \in Early => evaluation = "off"
  /\ step \in Early \/ evaluation = "start" => verdict = "none"

IInv == ChoiceInv /\ RecordInv /\ CallInv /\ LogInv /\ CountInv /\ BackedInv /\ SignalInv /\ VerdictInv

------------------------------------------------------------------------------
(* The rankings, and the shape of the steps.                                    *)
LEMMA RankingType ==
  ASSUME NEW r \in Ranking
  PROVE  /\ r \in Seq(Agent) /\ Len(r) \in Nat /\ Len(r) >= 1 /\ DOMAIN r = 1..Len(r)
         /\ Head(r) \in Agent
<1>1. PICK n \in 1..Cardinality(Agent) : r \in [1..n -> Agent]
  BY DEF Ranking
<1>2. n \in Nat /\ n >= 1
  BY <1>1, FS_CardinalityType, DispatchAssumption
<1>3. r \in Seq(Agent) /\ Len(r) = n
  BY <1>1, <1>2
<1> QED BY <1>1, <1>2, <1>3

\* A nonempty set of natural numbers has a least element.
LEMMA NatLeast ==
  ASSUME NEW S \in SUBSET Nat, S # {}
  PROVE  \E n \in S : \A m \in S : n <= m
<1>1. PICK n \in S : \A m \in S : ~(<<m, n>> \in OpToRel(<, Nat))
  BY NatLessThanWellFounded, WFMin
<1>2. \A m \in S : ~(m < n)
  BY <1>1 DEF OpToRel
<1> QED BY <1>2

\* The best of the other agents is another agent.
LEMMA BestOther ==
  ASSUME NEW r \in Ranking, NEW agent, Others(r, agent) # {}
  PROVE  Best(r, Others(r, agent)) \in Agent \ {agent}
<1> DEFINE S == Others(r, agent)
<1>1. S \in SUBSET Nat /\ \A i \in S : r[i] \in Agent \ {agent}
  BY RankingType DEF Others
<1>2. PICK i \in S : \A j \in S : i <= j
  BY <1>1, NatLeast
<1>3. (CHOOSE k \in S : \A j \in S : k <= j) \in S
  BY <1>2
<1> QED BY <1>1, <1>3 DEF Best

\* What an element appended to a sequence changes.
LEMMA AppendFacts ==
  ASSUME NEW S, NEW s \in Seq(S), NEW e \in S
  PROVE  /\ Append(s, e) \in Seq(S) /\ Len(Append(s, e)) = Len(s) + 1
         /\ Len(s) \in Nat /\ Append(s, e) # <<>>
         /\ \A i \in 1..Len(s) : Append(s, e)[i] = s[i]
         /\ Append(s, e)[Len(s) + 1] = e
  OBVIOUS

------------------------------------------------------------------------------
(* Groups of steps with the same effect on the invariant.                       *)
\* The evaluation, an operator or another task; nothing of routeTask changes.
Aside == \/ StartEvaluation \/ FinishEvaluation \/ FailEvaluation \/ CommitEvaluation
         \/ Cleanup \/ OtherCommit
\* routeTask after the agents were tried, or its end.
Ending == WriteTerminal \/ CollectSignals \/ RouterCommit \/ Catch \/ CatchCommitFails
Working == Select \/ SelectFails \/ Execute \/ TryFallback \/ InsertSynthetic

LEMMA AsideFrame ==
  ASSUME Aside \/ UNCHANGED vars
  PROVE  /\ step' = step /\ selection' = selection /\ exec' = exec /\ records' = records
         /\ row' = row /\ log' = log /\ signals' = signals /\ calls' = calls /\ thrown' = thrown
  BY DEF Aside, StartEvaluation, FinishEvaluation, FailEvaluation, CommitEvaluation, Cleanup,
         OtherCommit, EvalFrame, tables, history, dispatchVars, vars

LEMMA CrashFrame ==
  ASSUME Crash
  PROVE  /\ step' = "dead" /\ selection' = selection /\ exec' = exec /\ records' = records
         /\ row' = row /\ log' = log /\ signals' = signals /\ calls' = calls /\ thrown' = thrown
         /\ verdict' = verdict /\ evaluation' = "off" /\ dirty' = dirty
  BY DEF Crash, tables, history

LEMMA EndingFrames ==
  ASSUME Ending
  PROVE  /\ selection' = selection /\ exec' = exec /\ records' = records /\ log' = log
         /\ calls' = calls
         /\ verdict' = verdict
         /\ \/ step = "terminal" /\ step' \in {"signals", "catch"} /\ signals' = signals
            \/ step = "signals" /\ step' = "commit" /\ row' = row
            \/ /\ step \in {"commit", "catch", "catchCommit"}
               /\ step' \in {"catch", "catchCommit", "end", "gaveUp"} /\ signals' = signals
  BY DEF Ending, WriteTerminal, CollectSignals, RouterCommit, Catch, CatchCommitFails, TailFrame,
         Goto, Throw, tables, Touch

LEMMA RowEnds ==
  ASSUME Ending
  PROVE  \/ row' = row
         \/ row' = [row EXCEPT !.status = "FAILED"]
         \/ step = "terminal" /\ Won /\ row' = [row EXCEPT !.status = "COMPLETED"]
  BY DEF Ending, WriteTerminal, FinalStatus, CollectSignals, RouterCommit, Catch,
         CatchCommitFails, tables

LEMMA WorkingFrame ==
  ASSUME Working
  PROVE  /\ step \in Executing \cup {"select", "fallback", "synthetic"}
         /\ signals' = signals /\ verdict' = verdict /\ evaluation' = evaluation
         /\ step' \in (Chosen \ {"signals"}) \cup {"catch"}
  BY DEF Working, Select, SelectFails, Execute, TryFallback, InsertSynthetic, FindAgent, Invoke,
         RecordSuccess, RecordFailure, ExecFrame, DispatchTo, Goto, Throw, ExecuteThrows, Returned,
         Executing, Chosen, Early, Considered

LEMMA Cases ==
  ASSUME [Next]_vars
  PROVE  Working \/ Ending \/ Aside \/ Crash \/ UNCHANGED vars
  BY DEF Next, Route, Evaluate, Working, Ending, Aside

FailureRow == ExecRow(IF LastAttempt THEN exec.outcome ELSE "FALLBACK")

\* What the catch block of an attempt does, by whether it was the last one.
LEMMA RecordFailureCases ==
  ASSUME RecordFailure
  PROVE  /\ \/ log' = log /\ ExecuteThrows /\ exec' = exec /\ records' = records
            \/ /\ log' = log \cup {FailureRow}
               /\ \A other \in log : other.id # FailureRow.id
               /\ \/ LastAttempt /\ Returned(exec.outcome) /\ exec' = exec
                  \/ /\ ~LastAttempt /\ exec' = [exec EXCEPT !.attempt = @ + 1]
                     /\ Goto("invoke") /\ records' = records
                  \/ ExecuteThrows /\ exec' = exec /\ records' = records
         /\ step = "recordFailure" /\ selection' = selection /\ row' = row /\ calls' = calls
<1>1. CASE LastAttempt
  <2> DEFINE r == ExecRow(exec.outcome)
  <2>1. \/ /\ \A other \in log : other.id # r.id
           /\ Insert(r) /\ Returned(exec.outcome) /\ UNCHANGED exec
        \/ /\ \/ (\A other \in log : other.id # r.id) /\ Insert(r)
              \/ NoInsert
           /\ ExecuteThrows /\ UNCHANGED <<exec, records>>
    BY <1>1, Zenon DEF RecordFailure
  <2>2. step = "recordFailure" /\ selection' = selection /\ row' = row /\ calls' = calls
    BY DEF RecordFailure
  <2> HIDE DEF r
  <2>0. (NoInsert => log' = log) /\ (Insert(r) => log' = log \cup {r})
        /\ (UNCHANGED exec => exec' = exec) /\ (UNCHANGED records => records' = records)
        /\ (UNCHANGED <<exec, records>> => exec' = exec /\ records' = records)
    BY DEF Insert, NoInsert
  <2>3. \/ log' = log /\ ExecuteThrows /\ exec' = exec /\ records' = records
        \/ /\ log' = log \cup {r} /\ \A other \in log : other.id # r.id
           /\ \/ Returned(exec.outcome) /\ exec' = exec
              \/ ExecuteThrows /\ exec' = exec /\ records' = records
    BY <2>1, <2>0, Zenon
  <2> QED BY <1>1, <2>2, <2>3 DEF r, FailureRow
<1>2. CASE ~LastAttempt
  <2> DEFINE r == ExecRow("FALLBACK")
  <2>1. \/ /\ \A other \in log : other.id # r.id
           /\ Insert(r) /\ exec' = [exec EXCEPT !.attempt = @ + 1]
           /\ Goto("invoke") /\ UNCHANGED records
        \/ /\ \/ (\A other \in log : other.id # r.id) /\ Insert(r)
              \/ NoInsert
           /\ ExecuteThrows /\ UNCHANGED <<exec, records>>
    BY <1>2, Zenon DEF RecordFailure
  <2>2. step = "recordFailure" /\ selection' = selection /\ row' = row /\ calls' = calls
    BY DEF RecordFailure
  <2> HIDE DEF r
  <2>0. (NoInsert => log' = log) /\ (Insert(r) => log' = log \cup {r})
        /\ (UNCHANGED exec => exec' = exec) /\ (UNCHANGED records => records' = records)
        /\ (UNCHANGED <<exec, records>> => exec' = exec /\ records' = records)
    BY DEF Insert, NoInsert
  <2>3. \/ log' = log /\ ExecuteThrows /\ exec' = exec /\ records' = records
        \/ /\ log' = log \cup {r} /\ \A other \in log : other.id # r.id
           /\ \/ exec' = [exec EXCEPT !.attempt = @ + 1] /\ Goto("invoke") /\ records' = records
              \/ ExecuteThrows /\ exec' = exec /\ records' = records
    BY <2>1, <2>0, Zenon
  <2> QED BY <1>2, <2>2, <2>3 DEF r, FailureRow
<1> QED BY <1>1, <1>2

------------------------------------------------------------------------------
(* Types.                                                                       *)
CallType == [agent : Agent, outcome : Failure \cup {"SUCCESS"}]

LEMMA InitType == Init => TypeOK
<1> SUFFICES ASSUME Init PROVE TypeOK
  OBVIOUS
<1>1. records \in Seq(Failure \cup {"SUCCESS"}) /\ Len(records) <= 2 /\ calls \in Seq(CallType)
  BY DEF Init
<1>2. selection \in [rank : Ranking \cup {<<>>}, strategy : Strategy, retries : 0..MaxRetries]
  BY DispatchAssumption DEF Init, Strategy
<1>3. exec \in [agent : Agent \cup {"none"}, attempt : 0..(selection.retries + 1),
                fallback : BOOLEAN, outcome : Failure \cup {"SUCCESS"}]
  BY DEF Init
<1> QED BY <1>1, <1>2, <1>3 DEF Init, TypeOK, Step, Table, CallType

\* Dispatching to an agent of a ranking.
LEMMA DispatchType ==
  ASSUME TypeOK, NEW agent \in Agent, NEW fallback \in BOOLEAN, DispatchTo(agent, fallback),
         selection'.retries \in Nat, exec.attempt \in 0..(selection'.retries + 1)
  PROVE  /\ step' \in Step /\ thrown' \in BOOLEAN /\ dirty' \subseteq Table
         /\ row' \in [status : {"CLASSIFIED", "DISPATCHED", "COMPLETED", "FAILED"},
                      agent : Agent \cup {"none"}, fallback : BOOLEAN]
         /\ exec' \in [agent : Agent \cup {"none"}, attempt : 0..(selection'.retries + 1),
                       fallback : BOOLEAN, outcome : Failure \cup {"SUCCESS"}]
<1> USE DEF DispatchTo
<1>1. step' \in Step /\ thrown' \in BOOLEAN
  BY DEF Goto, Throw, Step, TypeOK
<1>2. dirty' \subseteq Table
  BY DEF Touch, Table, TypeOK
<1>3. row' \in [status : {"CLASSIFIED", "DISPATCHED", "COMPLETED", "FAILED"},
                agent : Agent \cup {"none"}, fallback : BOOLEAN]
  BY DEF UpdateSelection
<1>4. exec' \in [agent : Agent \cup {"none"}, attempt : 0..(selection'.retries + 1),
                 fallback : BOOLEAN, outcome : Failure \cup {"SUCCESS"}]
  BY DEF StartExecute, TypeOK
<1> QED BY <1>1, <1>2, <1>3, <1>4

\* The agent of a row of execution_log, and the attempt and id of it.
LEMMA ExecRowType ==
  ASSUME TypeOK, exec.agent \in Agent, NEW o \in Outcome
  PROVE  ExecRow(o) \in [id : Nat, agent : Agent, attempt : Nat, outcome : Outcome]
<1>1. exec.attempt \in Nat /\ selection.retries \in Nat
  BY DispatchAssumption DEF TypeOK
<1>2. Len(calls) \in Nat
  BY DEF TypeOK
<1> QED BY <1>1, <1>2 DEF ExecRow, ExecutionId

\* No step of routeTask's working part leaves a variable ill-typed.
LEMMA WorkingType ==
  ASSUME TypeOK, ChoiceInv, RecordInv, Working
  PROVE  TypeOK'
<1> USE DispatchAssumption
<1> DEFINE ExecType == [agent : Agent \cup {"none"}, attempt : 0..(selection.retries + 1),
                        fallback : BOOLEAN, outcome : Failure \cup {"SUCCESS"}]
           RowType == [status : {"CLASSIFIED", "DISPATCHED", "COMPLETED", "FAILED"},
                       agent : Agent \cup {"none"}, fallback : BOOLEAN]
           SelType == [rank : Ranking \cup {<<>>}, strategy : Strategy, retries : 0..MaxRetries]
           RecType == Failure \cup {"SUCCESS"}
           LogType == [id : Nat, agent : Agent, attempt : Nat, outcome : Outcome]
<1>0. /\ selection.retries \in Nat /\ exec.attempt \in Nat /\ Len(calls) \in Nat
      /\ step' \in Step /\ thrown' \in BOOLEAN
  <2>1. step' \in Step
    BY WorkingFrame DEF Chosen, Early, Executing, Step
  <2>2. thrown' \in BOOLEAN
    BY DEF Working, Select, SelectFails, Execute, TryFallback, InsertSynthetic, FindAgent, Invoke,
           RecordSuccess, RecordFailure, DispatchTo, Goto, Throw, ExecuteThrows, Returned, TypeOK
  <2> QED BY <2>1, <2>2 DEF TypeOK
<1>1. evaluation' = evaluation /\ signals' = signals /\ verdict' = verdict
  BY WorkingFrame
<1>2. /\ selection' \in SelType
      /\ row' \in RowType
      /\ exec' \in [agent : Agent \cup {"none"}, attempt : 0..(selection'.retries + 1),
                    fallback : BOOLEAN, outcome : RecType]
      /\ records' \in Seq(RecType) /\ Len(records') <= 2
      /\ log' \subseteq LogType
      /\ dirty' \subseteq Table
      /\ calls' \in Seq(CallType)
  <2>1. CASE Select
    <3>1. PICK r \in Ranking, s \in Strategy, n \in 0..MaxRetries :
            selection' = [rank |-> r, strategy |-> s, retries |-> n] /\ DispatchTo(Head(r), FALSE)
      BY <2>1 DEF Select
    <3>2. exec.attempt = 0
      BY <2>1 DEF Select, ChoiceInv
    <3>3. Head(r) \in Agent /\ selection'.retries \in Nat
          /\ exec.attempt \in 0..(selection'.retries + 1)
      BY <3>1, <3>2, RankingType
    <3>4. row' \in RowType /\ dirty' \subseteq Table
          /\ exec' \in [agent : Agent \cup {"none"}, attempt : 0..(selection'.retries + 1),
                        fallback : BOOLEAN, outcome : RecType]
      BY <3>1, <3>3, DispatchType
    <3> QED BY <2>1, <3>1, <3>4 DEF Select, TypeOK, CallType
  <2>2. CASE SelectFails
    BY <2>2 DEF SelectFails, TypeOK, CallType
  <2>3. CASE FindAgent
    BY <2>3 DEF FindAgent, TypeOK, CallType
  <2>4. CASE Invoke
    <3>1. PICK o \in RecType :
            /\ calls' = Append(calls, [agent |-> exec.agent, outcome |-> o])
            /\ exec' = [exec EXCEPT !.outcome = o]
      BY <2>4 DEF Invoke
    <3>2. exec.agent \in Agent
      BY <2>4 DEF Invoke, ChoiceInv, Executing
    <3>3. calls' \in Seq(CallType)
      BY <3>1, <3>2, AppendFacts DEF TypeOK, CallType
    <3>4. exec' \in ExecType
      BY <3>1 DEF TypeOK
    <3> QED BY <2>4, <3>3, <3>4 DEF Invoke, TypeOK
  <2>5. CASE RecordSuccess
    <3>0. step \in Executing
      BY <2>5 DEF RecordSuccess, Executing
    <3>1. exec.agent \in Agent /\ Len(records) <= 1
      BY <3>0 DEF ChoiceInv, RecordInv
    <3>2. ExecRow("SUCCESS") \in LogType
      BY <3>1, ExecRowType DEF Outcome
    <3>3. log' \subseteq LogType /\ dirty' \subseteq Table
      BY <2>5, <3>2 DEF RecordSuccess, Insert, NoInsert, Touch, Table, TypeOK
    <3>4. records' \in Seq(RecType) /\ Len(records') <= 2
      BY <2>5, <3>1, AppendFacts DEF RecordSuccess, Returned, TypeOK
    <3>5. exec' \in ExecType
      BY <2>5 DEF RecordSuccess, Failure, TypeOK
    <3> QED BY <2>5, <3>3, <3>4, <3>5 DEF RecordSuccess, TypeOK, CallType
  <2>6. CASE RecordFailure
    <3> DEFINE o == IF LastAttempt THEN exec.outcome ELSE "FALLBACK"
    <3>0. step \in Executing
      BY <2>6 DEF RecordFailure, Executing
    <3>1. exec.agent \in Agent /\ Len(records) <= 1
      BY <3>0 DEF ChoiceInv, RecordInv
    <3>2. o \in Outcome
      BY DEF TypeOK, Outcome, Failure
    <3>3. ExecRow(o) \in LogType
      BY <3>1, <3>2, ExecRowType
    <3>4. log' \subseteq LogType /\ dirty' \subseteq Table
      BY <2>6, <3>3 DEF RecordFailure, Insert, NoInsert, Touch, Table, TypeOK
    <3>5. records' = records \/ (LastAttempt /\ records' = Append(records, exec.outcome))
      BY <2>6, RecordFailureCases DEF Returned
    <3>6. records' \in Seq(RecType) /\ Len(records') <= 2
      BY <3>1, <3>5, AppendFacts DEF TypeOK
    <3>7. exec' = exec \/ (~LastAttempt /\ exec' = [exec EXCEPT !.attempt = @ + 1])
      BY <2>6, RecordFailureCases
    <3>8. exec' \in ExecType
      <4>1. exec \in ExecType
        BY DEF TypeOK
      <4>2. ~LastAttempt => exec.attempt + 1 \in 0..(selection.retries + 1)
        <5>1. exec.attempt \in 0..(selection.retries + 1)
          BY <4>1
        <5>2. ~LastAttempt => exec.attempt # selection.retries + 1
          BY DEF LastAttempt
        <5> HIDE DEF ExecType
        <5> QED BY <1>0, <5>1, <5>2
      <4> QED BY <3>7, <4>1, <4>2, Zenon
    <3> QED BY <2>6, <3>4, <3>6, <3>8 DEF RecordFailure, TypeOK, CallType
  <2>7. CASE TryFallback
    <3>1. /\ selection' = selection /\ records' = records /\ log' = log /\ calls' = calls
          /\ step = "fallback"
      BY <2>7 DEF TryFallback
    <3>2. PICK r \in Considered :
            \/ exec' = exec /\ row' = row /\ dirty' = dirty
            \/ /\ FallbackCandidates(r) # {}
               /\ DispatchTo(Best(r, FallbackCandidates(r)), TRUE)
      BY <2>7 DEF TryFallback
    <3>3. r \in Ranking
      BY <3>1 DEF Considered, ChoiceInv, Chosen, Early
    <3>4. CASE exec' = exec /\ row' = row /\ dirty' = dirty
      BY <3>1, <3>4 DEF TypeOK, CallType
    <3>5. CASE FallbackCandidates(r) # {} /\ DispatchTo(Best(r, FallbackCandidates(r)), TRUE)
      <4>1. Best(r, FallbackCandidates(r)) \in Agent
        BY <3>3, <3>5, BestOther DEF FallbackCandidates
      <4>2. row' \in RowType /\ dirty' \subseteq Table /\ exec' \in ExecType
        BY <1>0, <3>1, <3>5, <4>1, DispatchType DEF TypeOK
      <4> QED BY <3>1, <4>2 DEF TypeOK, CallType
    <3> QED BY <3>2, <3>4, <3>5
  <2>8. CASE InsertSynthetic
    <3>1. exec.agent \in Agent /\ Len(records) <= 1
      BY <2>8 DEF InsertSynthetic, ChoiceInv, RecordInv
    <3>2. SyntheticRow \in LogType
      BY <3>1 DEF SyntheticRow, Outcome, Failure
    <3>3. log' \subseteq LogType /\ dirty' \subseteq Table
      BY <2>8, <3>2 DEF InsertSynthetic, Insert, NoInsert, Touch, Table, TypeOK
    <3>4. records' \in Seq(RecType) /\ Len(records') <= 2
      BY <2>8, <3>1, AppendFacts DEF InsertSynthetic, Failure, TypeOK
    <3> QED BY <2>8, <3>3, <3>4 DEF InsertSynthetic, TypeOK, CallType
  <2> QED BY <2>1, <2>2, <2>3, <2>4, <2>5, <2>6, <2>7, <2>8 DEF Working, Execute
<1> QED BY <1>0, <1>1, <1>2 DEF TypeOK, CallType

LEMMA TypeStep ==
  ASSUME TypeOK, ChoiceInv, RecordInv, [Next]_vars
  PROVE  TypeOK'
<1>1. CASE Working
  BY <1>1, WorkingType
<1>2. CASE Ending
  <2>1. /\ selection' = selection /\ exec' = exec /\ records' = records /\ log' = log
        /\ calls' = calls /\ verdict' = verdict
    BY <1>2, EndingFrames
  <2>2. step' \in Step
    BY <1>2, EndingFrames DEF Step
  <2>3. thrown' \in BOOLEAN
    BY <1>2 DEF Ending, WriteTerminal, CollectSignals, RouterCommit, Catch, CatchCommitFails, Goto,
                Throw, tables, TypeOK
  <2>4. dirty' \subseteq Table
    BY <1>2 DEF Ending, WriteTerminal, CollectSignals, RouterCommit, Catch, CatchCommitFails, Touch,
                CommitAll, Table, TypeOK
  <2>5. row' = row \/ row' = [row EXCEPT !.status = "COMPLETED"]
                   \/ row' = [row EXCEPT !.status = "FAILED"]
    BY <1>2, RowEnds
  <2>6. row' \in [status : {"CLASSIFIED", "DISPATCHED", "COMPLETED", "FAILED"},
                  agent : Agent \cup {"none"}, fallback : BOOLEAN]
    BY <2>5 DEF TypeOK
  <2>7. signals' \subseteq {"fallback_activated", "error_occurred", "timeout_occurred",
                            "limit_exceeded", "clean_execution"}
    BY <1>2 DEF Ending, WriteTerminal, CollectSignals, RouterCommit, Catch, CatchCommitFails, tables,
                Signals, Detected, TypeOK
  <2>8. evaluation' \in {"off", "start", "ask", "failed", "commit"}
    BY <1>2 DEF Ending, WriteTerminal, CollectSignals, RouterCommit, Catch, CatchCommitFails, TypeOK
  <2> QED BY <2>1, <2>2, <2>3, <2>4, <2>6, <2>7, <2>8 DEF TypeOK
<1>3. CASE Aside
  <2>1. /\ step' = step /\ selection' = selection /\ exec' = exec /\ records' = records
        /\ row' = row /\ log' = log /\ signals' = signals /\ calls' = calls /\ thrown' = thrown
    BY <1>3, AsideFrame
  <2>2. dirty' \subseteq Table
    BY <1>3 DEF Aside, StartEvaluation, FinishEvaluation, FailEvaluation, CommitEvaluation, Cleanup,
                OtherCommit, Touch, CommitAll, Table, TypeOK
  <2>3. verdict' \in {"none", "pending", "complete", "failed", "deleted"}
    BY <1>3 DEF Aside, StartEvaluation, FinishEvaluation, FailEvaluation, CommitEvaluation, Cleanup,
                OtherCommit, Finalize, tables, TypeOK
  <2>4. evaluation' \in {"off", "start", "ask", "failed", "commit"}
    BY <1>3 DEF Aside, StartEvaluation, FinishEvaluation, FailEvaluation, CommitEvaluation, Cleanup,
                OtherCommit, Evaluating, TypeOK
  <2> QED BY <2>1, <2>2, <2>3, <2>4 DEF TypeOK
<1>4. CASE Crash
  BY <1>4, CrashFrame DEF TypeOK, Step
<1>5. CASE UNCHANGED vars
  BY <1>5 DEF vars, dispatchVars, tables, history, TypeOK
<1> QED BY <1>1, <1>2, <1>3, <1>4, <1>5, Cases

------------------------------------------------------------------------------
(* The choice of the agent and the records.                                     *)
\* Dispatching leaves the row and the locals with the agent, or throws.
LEMMA DispatchEffect ==
  ASSUME NEW agent, NEW fallback, DispatchTo(agent, fallback)
  PROVE  /\ row' = [status |-> "DISPATCHED", agent |-> agent, fallback |-> fallback]
         /\ \/ /\ step' = "find"
               /\ exec' = [agent |-> agent, attempt |-> 1, fallback |-> fallback, outcome |-> "SUCCESS"]
            \/ step' = "catch"
  BY DEF DispatchTo, UpdateSelection, Goto, Throw, StartExecute

LEMMA ChoiceStep ==
  ASSUME TypeOK, ChoiceInv, [Next]_vars
  PROVE  ChoiceInv'
<1> USE DEF Chosen, Early, Executing, Primary
<1>0. selection.retries \in Nat /\ exec.attempt \in Nat /\ exec.fallback \in BOOLEAN
  BY DispatchAssumption DEF TypeOK
<1>1. CASE Select
  <2>1. PICK r \in Ranking, s \in Strategy, n \in 0..MaxRetries :
          selection' = [rank |-> r, strategy |-> s, retries |-> n] /\ DispatchTo(Head(r), FALSE)
    BY <1>1 DEF Select
  <2>2. Head(r) \in Agent /\ n \in Nat
    BY RankingType, DispatchAssumption
  <2>3. CASE step' = "catch"
    BY <2>3 DEF ChoiceInv
  <2>4. CASE step' = "find"
    <3>1. /\ row' = [status |-> "DISPATCHED", agent |-> Head(r), fallback |-> FALSE]
          /\ exec' = [agent |-> Head(r), attempt |-> 1, fallback |-> FALSE, outcome |-> "SUCCESS"]
      BY <2>1, <2>4, DispatchEffect
    <3> QED BY <2>1, <2>2, <2>4, <3>1 DEF ChoiceInv
  <2> QED BY <2>1, <2>3, <2>4, DispatchEffect
<1>2. CASE SelectFails
  BY <1>2 DEF SelectFails, Throw, ChoiceInv
<1>3. CASE FindAgent
  <2>1. /\ selection' = selection /\ exec' = exec /\ row' = row /\ step = "find"
        /\ step' \in {"invoke", "catch"} \/ (step' = "synthetic" /\ exec.fallback)
    BY <1>3 DEF FindAgent, Goto, ExecuteThrows, Throw
  <2> QED BY <2>1 DEF ChoiceInv
<1>4. CASE Invoke
  <2>1. /\ selection' = selection /\ row' = row /\ step = "invoke"
        /\ step' \in {"record", "recordFailure"}
    BY <1>4 DEF Invoke, Goto
  <2>2. PICK o \in Failure \cup {"SUCCESS"} : exec' = [exec EXCEPT !.outcome = o]
    BY <1>4 DEF Invoke
  <2>3. exec'.agent = exec.agent /\ exec'.fallback = exec.fallback /\ exec'.attempt = exec.attempt
    BY <2>2 DEF TypeOK
  <2> QED BY <2>1, <2>3 DEF ChoiceInv
<1>5. CASE RecordSuccess
  <2>1. /\ selection' = selection /\ row' = row /\ step = "record"
        /\ step' = "terminal" \/ step' = "recordFailure"
        /\ exec' = exec \/ exec' = [exec EXCEPT !.outcome = "ERROR"]
    BY <1>5 DEF RecordSuccess, Returned, Goto
  <2>2. exec'.agent = exec.agent /\ exec'.fallback = exec.fallback /\ exec'.attempt = exec.attempt
    BY <2>1 DEF TypeOK
  <2> QED BY <2>1, <2>2 DEF ChoiceInv
<1>6. CASE RecordFailure
  <2>1. selection' = selection /\ row' = row /\ step = "recordFailure"
    BY <1>6, RecordFailureCases
  <2>2. \/ step' = "terminal"
        \/ exec' = exec /\ step' = "fallback" /\ ~exec.fallback /\ selection.strategy # "ABORT"
        \/ step' = "invoke" /\ ~LastAttempt /\ exec' = [exec EXCEPT !.attempt = @ + 1]
        \/ exec' = exec /\ (step' = "catch" \/ (step' = "synthetic" /\ exec.fallback))
    BY <1>6, RecordFailureCases DEF Returned, Goto, ExecuteThrows, Throw
  <2>3. CASE step' = "terminal"
    BY <2>1, <2>3 DEF ChoiceInv
  <2>4. CASE exec' = exec /\ step' = "fallback" /\ ~exec.fallback /\ selection.strategy # "ABORT"
    BY <2>1, <2>4, <1>0 DEF ChoiceInv
  <2>5. CASE step' = "invoke" /\ ~LastAttempt /\ exec' = [exec EXCEPT !.attempt = @ + 1]
    <3>1. /\ exec'.agent = exec.agent /\ exec'.fallback = exec.fallback
          /\ exec'.attempt = exec.attempt + 1
      BY <2>5 DEF TypeOK
    <3>2. ~exec.fallback /\ exec.attempt # selection.retries + 1
      BY <2>5 DEF LastAttempt
    <3>3. exec'.attempt \in 1..(selection.retries + 1)
      BY <1>0, <2>1, <3>1, <3>2 DEF ChoiceInv
    <3> QED BY <2>1, <2>5, <3>1, <3>2, <3>3 DEF ChoiceInv
  <2>6. CASE exec' = exec /\ (step' = "catch" \/ (step' = "synthetic" /\ exec.fallback))
    BY <2>1, <2>6 DEF ChoiceInv
  <2> QED BY <2>2, <2>3, <2>4, <2>5, <2>6
<1>7. CASE TryFallback
  <2>1. selection' = selection /\ step = "fallback"
    BY <1>7 DEF TryFallback
  <2>2. PICK r \in Considered :
          \/ step' = "terminal" /\ row' = row
          \/ /\ FallbackCandidates(r) # {}
             /\ DispatchTo(Best(r, FallbackCandidates(r)), TRUE)
    BY <1>7 DEF TryFallback, Goto
  <2>3. r \in Ranking
    BY <2>1 DEF Considered, ChoiceInv
  <2>4. CASE step' = "terminal" /\ row' = row
    BY <2>1, <2>4 DEF ChoiceInv
  <2>5. CASE FallbackCandidates(r) # {} /\ DispatchTo(Best(r, FallbackCandidates(r)), TRUE)
    <3> DEFINE other == Best(r, FallbackCandidates(r))
    <3>1. other \in Agent \ {Primary}
      BY <2>3, <2>5, BestOther DEF FallbackCandidates
    <3> HIDE DEF other
    <3>2. CASE step' = "catch"
      BY <3>2 DEF ChoiceInv
    <3>3. CASE step' = "find"
      <4>1. /\ row' = [status |-> "DISPATCHED", agent |-> other, fallback |-> TRUE]
            /\ exec' = [agent |-> other, attempt |-> 1, fallback |-> TRUE, outcome |-> "SUCCESS"]
        BY <2>5, <3>3, DispatchEffect DEF other
      <4> QED BY <1>0, <2>1, <3>1, <3>3, <4>1 DEF ChoiceInv
    <3> QED BY <2>5, <3>2, <3>3, DispatchEffect
  <2> QED BY <2>2, <2>4, <2>5
<1>8. CASE InsertSynthetic
  <2>1. /\ selection' = selection /\ row' = row /\ step = "synthetic"
        /\ step' \in {"terminal", "catch"}
    BY <1>8 DEF InsertSynthetic, Goto, Throw
  <2> QED BY <2>1 DEF ChoiceInv
<1>9. CASE Ending
  <2>1. selection' = selection
    BY <1>9, EndingFrames
  <2>2. \/ step = "terminal" /\ step' = "signals"
        \/ step' \in {"commit", "catch", "catchCommit", "end", "gaveUp"}
    BY <1>9, EndingFrames
  <2>3. CASE step = "terminal" /\ step' = "signals"
    <3>1. \/ row' = row \/ row' = [row EXCEPT !.status = "FAILED"]
                       \/ row' = [row EXCEPT !.status = "COMPLETED"]
      BY <1>9, RowEnds
    <3>2. row'.agent = row.agent /\ row'.fallback = row.fallback
      BY <3>1 DEF TypeOK
    <3> QED BY <2>1, <2>3, <3>2 DEF ChoiceInv
  <2>4. CASE step' \in {"commit", "catch", "catchCommit", "end", "gaveUp"}
    BY <2>4 DEF ChoiceInv
  <2> QED BY <2>2, <2>3, <2>4
<1>10. CASE Aside \/ UNCHANGED vars
  BY <1>10, AsideFrame DEF ChoiceInv
<1>11. CASE Crash
  BY <1>11, CrashFrame DEF ChoiceInv
<1> QED BY <1>1, <1>2, <1>3, <1>4, <1>5, <1>6, <1>7, <1>8, <1>9, <1>10, <1>11, Cases
        DEF Working, Execute

LEMMA RecordStep ==
  ASSUME TypeOK, ChoiceInv, RecordInv, [Next]_vars
  PROVE  RecordInv'
<1> USE DEF Early, Executing
<1>0. exec.fallback \in BOOLEAN /\ records \in Seq(Failure \cup {"SUCCESS"})
      /\ exec.outcome \in Failure \cup {"SUCCESS"}
  BY DEF TypeOK
<1>1. CASE Select
  <2>0. PICK r \in Ranking : DispatchTo(Head(r), FALSE)
    BY <1>1 DEF Select
  <2>3. \/ step' = "catch"
        \/ /\ step' = "find"
           /\ exec' = [agent |-> Head(r), attempt |-> 1, fallback |-> FALSE, outcome |-> "SUCCESS"]
    BY <2>0, DispatchEffect
  <2>1. /\ records' = records /\ step = "select"
        /\ step' = "catch" \/ (step' = "find" /\ exec'.fallback = FALSE)
    BY <1>1, <2>3 DEF Select
  <2>2. Len(records) = 0
    BY <2>1 DEF RecordInv
  <2> QED BY <2>1, <2>2 DEF RecordInv
<1>2. CASE SelectFails
  BY <1>2 DEF SelectFails, Throw, RecordInv
<1>3. CASE FindAgent
  <2>1. /\ records' = records /\ exec' = exec /\ step = "find"
        /\ step' \in {"invoke", "catch", "synthetic"}
    BY <1>3 DEF FindAgent, Goto, ExecuteThrows, Throw
  <2> QED BY <2>1 DEF RecordInv
<1>4. CASE Invoke
  <2>1. /\ records' = records /\ step = "invoke" /\ step' \in {"record", "recordFailure"}
    BY <1>4 DEF Invoke, Goto
  <2>2. exec'.fallback = exec.fallback
    BY <1>4 DEF Invoke, TypeOK
  <2> QED BY <2>1, <2>2 DEF RecordInv
<1>5. CASE RecordSuccess
  <2>1. CASE records' = Append(records, "SUCCESS") /\ step' = "terminal"
    BY <1>0, <2>1, AppendFacts DEF RecordInv
  <2>2. CASE records' = records /\ step' = "recordFailure" /\ exec' = [exec EXCEPT !.outcome = "ERROR"]
    <3>1. exec'.fallback = exec.fallback /\ step = "record"
      BY <1>5, <2>2 DEF TypeOK, RecordSuccess
    <3> QED BY <2>2, <3>1 DEF RecordInv
  <2> QED BY <1>5, <2>1, <2>2 DEF RecordSuccess, Returned, Goto
<1>6. CASE RecordFailure
  <2>0. step = "recordFailure"
    BY <1>6, RecordFailureCases
  <2>1. CASE records' = Append(records, exec.outcome) /\ step' = "terminal"
    BY <1>0, <2>1, AppendFacts DEF RecordInv
  <2>2. CASE /\ records' = Append(records, exec.outcome) /\ step' = "fallback" /\ ~exec.fallback
             /\ exec' = exec /\ exec.outcome \in Failure
    <3>1. Len(records) = 0
      BY <2>0, <2>2 DEF RecordInv
    <3>2. Len(records') = 1 /\ records'[1] = exec.outcome
      BY <1>0, <2>2, <3>1, AppendFacts
    <3> QED BY <2>2, <3>2 DEF RecordInv
  <2>3. CASE /\ records' = records /\ step' \in {"invoke", "catch", "synthetic"}
             /\ exec'.fallback = exec.fallback
    BY <2>0, <2>3 DEF RecordInv
  <2>4. \/ Returned(exec.outcome) /\ exec' = exec
        \/ exec' = [exec EXCEPT !.attempt = @ + 1] /\ Goto("invoke") /\ records' = records
        \/ ExecuteThrows /\ exec' = exec /\ records' = records
    BY <1>6, RecordFailureCases
  <2>5. CASE Returned(exec.outcome) /\ exec' = exec
    BY <1>0, <2>1, <2>2, <2>5 DEF Returned, Goto
  <2>6. CASE exec' = [exec EXCEPT !.attempt = @ + 1] /\ Goto("invoke") /\ records' = records
    BY <2>3, <2>6 DEF Goto, TypeOK
  <2>7. CASE ExecuteThrows /\ exec' = exec /\ records' = records
    BY <2>3, <2>7 DEF ExecuteThrows, Goto, Throw
  <2> QED BY <2>4, <2>5, <2>6, <2>7
<1>7. CASE TryFallback
  <2>1. records' = records /\ step = "fallback"
    BY <1>7 DEF TryFallback
  <2>0. PICK r \in Considered :
          step' = "terminal" \/ DispatchTo(Best(r, FallbackCandidates(r)), TRUE)
    BY <1>7 DEF TryFallback, Goto
  <2> DEFINE other == Best(r, FallbackCandidates(r))
  <2> HIDE DEF other
  <2>4. \/ step' \in {"terminal", "catch"}
        \/ /\ step' = "find"
           /\ exec' = [agent |-> other, attempt |-> 1, fallback |-> TRUE, outcome |-> "SUCCESS"]
    BY <2>0, DispatchEffect DEF other
  <2>2. step' \in {"terminal", "catch"} \/ (step' = "find" /\ exec'.fallback = TRUE)
    BY <2>4
  <2>3. Len(records) = 1 /\ records # <<>>
    BY <2>1 DEF RecordInv
  <2> QED BY <2>1, <2>2, <2>3 DEF RecordInv
<1>8. CASE InsertSynthetic
  <2>1. \/ records' = Append(records, "ERROR") /\ step' = "terminal"
        \/ step' = "catch"
    BY <1>8 DEF InsertSynthetic, Goto, Throw
  <2> QED BY <1>0, <2>1, AppendFacts DEF RecordInv, Failure
<1>9. CASE Ending
  BY <1>9, EndingFrames DEF RecordInv
<1>10. CASE Aside \/ UNCHANGED vars
  BY <1>10, AsideFrame DEF RecordInv
<1>11. CASE Crash
  BY <1>11, CrashFrame DEF RecordInv
<1> QED BY <1>1, <1>2, <1>3, <1>4, <1>5, <1>6, <1>7, <1>8, <1>9, <1>10, <1>11, Cases
        DEF Working, Execute

------------------------------------------------------------------------------
(* The calls and the rows of execution_log.                                     *)
\* What the steps of execute do to the calls and the log, seen from each step.
LEMMA InvokeEffect ==
  ASSUME TypeOK, ChoiceInv, Invoke
  PROVE  \E o \in Failure \cup {"SUCCESS"} :
           /\ calls' = Append(calls, [agent |-> exec.agent, outcome |-> o])
           /\ exec' = [exec EXCEPT !.outcome = o]
           /\ [agent |-> exec.agent, outcome |-> o] \in CallType
           /\ exec'.agent = exec.agent /\ exec'.attempt = exec.attempt
           /\ exec'.fallback = exec.fallback /\ exec'.outcome = o
           /\ step = "invoke" /\ step' = IF o = "SUCCESS" THEN "record" ELSE "recordFailure"
           /\ log' = log /\ selection' = selection /\ records' = records /\ row' = row
<1>1. PICK o \in Failure \cup {"SUCCESS"} :
        /\ calls' = Append(calls, [agent |-> exec.agent, outcome |-> o])
        /\ exec' = [exec EXCEPT !.outcome = o]
        /\ Goto(IF o = "SUCCESS" THEN "record" ELSE "recordFailure")
  BY DEF Invoke
<1>2. step = "invoke" /\ log' = log /\ selection' = selection /\ records' = records /\ row' = row
  BY DEF Invoke
<1>3. [agent |-> exec.agent, outcome |-> o] \in CallType
  BY <1>2 DEF ChoiceInv, Executing, CallType
<1>4. /\ exec'.agent = exec.agent /\ exec'.attempt = exec.attempt
      /\ exec'.fallback = exec.fallback /\ exec'.outcome = o
  BY <1>1 DEF TypeOK
<1> QED BY <1>1, <1>2, <1>3, <1>4 DEF Goto

LEMMA CallStep ==
  ASSUME TypeOK, ChoiceInv, CallInv, [Next]_vars
  PROVE  CallInv'
<1> USE DEF Executing, Early, Chosen
<1>0. /\ calls \in Seq(CallType) /\ Len(calls) \in Nat /\ exec.fallback \in BOOLEAN
      /\ exec.attempt \in Nat /\ selection.retries \in Nat
  BY DispatchAssumption DEF TypeOK, CallType
<1>1. CASE Select \/ SelectFails
  <2>1. /\ calls' = calls
        /\ step' = "find" \/ step' = "catch"
        /\ step = "select" \/ (step' = "catch" /\ selection' = selection)
    <3>1. CASE Select
      <4>1. PICK r \in Ranking : DispatchTo(Head(r), FALSE)
        BY <3>1 DEF Select
      <4>2. step' = "find" \/ step' = "catch"
        BY <4>1, DispatchEffect
      <4> QED BY <3>1, <4>2 DEF Select
    <3>2. CASE SelectFails
      BY <3>2 DEF SelectFails, Throw
    <3> QED BY <1>1, <3>1, <3>2
  <2>2. CASE step' = "catch" /\ selection' = selection
    BY <2>1, <2>2 DEF CallInv, Primary
  <2>3. CASE step = "select"
    <3>1. calls' = <<>> /\ Len(calls') = 0
      BY <2>1, <2>3 DEF CallInv
    <3>2. step' = "find" => exec'.fallback = FALSE /\ exec'.attempt = 1
      <4>1. CASE Select
        <5>1. PICK r \in Ranking : DispatchTo(Head(r), FALSE)
          BY <4>1 DEF Select
        <5>2. \/ step' = "catch"
              \/ exec' = [agent |-> Head(r), attempt |-> 1, fallback |-> FALSE,
                          outcome |-> "SUCCESS"]
          BY <5>1, DispatchEffect
        <5> QED BY <5>2
      <4>2. CASE SelectFails
        BY <4>2 DEF SelectFails, Throw
      <4> QED BY <1>1, <4>1, <4>2
    <3> QED BY <2>1, <3>1, <3>2 DEF CallInv
  <2> QED BY <2>1, <2>2, <2>3
<1>2. CASE FindAgent
  <2>1. /\ selection' = selection /\ exec' = exec /\ calls' = calls /\ step = "find"
        /\ step' \in {"invoke", "catch", "synthetic"}
    BY <1>2 DEF FindAgent, Goto, ExecuteThrows, Throw
  <2> QED BY <2>1 DEF CallInv, Primary
<1>3. CASE Invoke
  <2>1. PICK o \in Failure \cup {"SUCCESS"} :
          /\ calls' = Append(calls, [agent |-> exec.agent, outcome |-> o])
          /\ [agent |-> exec.agent, outcome |-> o] \in CallType
          /\ exec'.agent = exec.agent /\ exec'.attempt = exec.attempt
          /\ exec'.fallback = exec.fallback /\ exec'.outcome = o
          /\ step = "invoke" /\ step' = IF o = "SUCCESS" THEN "record" ELSE "recordFailure"
          /\ selection' = selection
    BY <1>3, InvokeEffect
  <2> DEFINE n == Len(calls)
  <2>2. /\ Len(calls') = n + 1 /\ \A i \in 1..n : calls'[i] = calls[i]
        /\ calls'[n + 1] = [agent |-> exec.agent, outcome |-> o] /\ n \in Nat
    BY <1>0, <2>1, AppendFacts
  <2>3. Primary' = Primary
    BY <2>1 DEF Primary
  <2> HIDE DEF n
  <2>4. \A i \in 1..n : calls'[i].agent = Primary /\ i <= selection.retries + 1
    BY <2>1, <2>2 DEF CallInv, n
  <2>5. calls'[n + 1].agent = exec.agent /\ calls'[n + 1].outcome = o
    BY <2>2
  <2>6. \A i \in 1..(n + 1) : i < n + 1 => calls'[i].agent = Primary
    BY <2>2, <2>4
  <2>7. IF exec.fallback THEN /\ exec.agent # Primary /\ n >= 1 /\ selection.strategy # "ABORT"
                         ELSE /\ exec.agent = Primary /\ n = exec.attempt - 1
                              /\ exec.attempt \in 1..(selection.retries + 1)
    BY <2>1 DEF CallInv, ChoiceInv, n
  <2>8. IF exec.agent = Primary THEN n + 1 <= selection.retries + 1
        ELSE n + 1 > 1 /\ selection.strategy # "ABORT"
    BY <1>0, <2>2, <2>7
  <2>9. \A i \in 1..(n + 1) :
          IF calls'[i].agent = Primary THEN i <= selection.retries + 1
          ELSE i = n + 1 /\ i > 1 /\ selection.strategy # "ABORT"
    <3> SUFFICES ASSUME NEW i \in 1..(n + 1)
                 PROVE  IF calls'[i].agent = Primary THEN i <= selection.retries + 1
                        ELSE i = n + 1 /\ i > 1 /\ selection.strategy # "ABORT"
      OBVIOUS
    <3>1. CASE i \in 1..n
      BY <2>4, <3>1
    <3>2. CASE i = n + 1
      BY <2>5, <2>8, <3>2
    <3> QED BY <2>2, <3>1, <3>2
  <2>10. n + 1 >= 1 /\ (~exec.fallback => n + 1 = exec.attempt)
    BY <1>0, <2>2, <2>7
  <2> QED BY <2>1, <2>2, <2>3, <2>5, <2>6, <2>9, <2>10 DEF CallInv
<1>4. CASE RecordSuccess
  <2>1. /\ selection' = selection /\ calls' = calls /\ step = "record"
        /\ \/ step' = "terminal"
           \/ step' = "recordFailure" /\ exec' = [exec EXCEPT !.outcome = "ERROR"]
    BY <1>4 DEF RecordSuccess, Returned, Goto
  <2>2. CASE step' = "terminal"
    BY <2>1, <2>2 DEF CallInv, Primary
  <2>3. CASE step' = "recordFailure" /\ exec' = [exec EXCEPT !.outcome = "ERROR"]
    <3>1. /\ exec'.agent = exec.agent /\ exec'.attempt = exec.attempt
          /\ exec'.fallback = exec.fallback /\ exec'.outcome = "ERROR"
      BY <2>3 DEF TypeOK
    <3> QED BY <2>1, <2>3, <3>1 DEF CallInv, Primary, Failure
  <2> QED BY <2>1, <2>2, <2>3
<1>5. CASE RecordFailure
  <2>1. selection' = selection /\ calls' = calls /\ step = "recordFailure" /\ Primary' = Primary
    BY <1>5, RecordFailureCases DEF Primary
  <2>2. \/ step' \in {"terminal", "catch", "synthetic"}
        \/ step' = "fallback" /\ ~exec.fallback
        \/ step' = "invoke" /\ ~LastAttempt /\ exec' = [exec EXCEPT !.attempt = @ + 1]
    BY <1>5, RecordFailureCases DEF Returned, Goto, ExecuteThrows, Throw
  <2>3. CASE step' \in {"terminal", "catch", "synthetic"}
    BY <2>1, <2>3 DEF CallInv
  <2>4. ~exec.fallback => \A i \in 1..Len(calls) : calls[i].agent = Primary
    BY <1>0, <2>1 DEF CallInv, ChoiceInv
  <2>5. CASE step' = "fallback" /\ ~exec.fallback
    BY <2>1, <2>4, <2>5 DEF CallInv
  <2>6. CASE step' = "invoke" /\ ~LastAttempt /\ exec' = [exec EXCEPT !.attempt = @ + 1]
    <3>1. exec'.fallback = exec.fallback /\ exec'.attempt = exec.attempt + 1 /\ ~exec.fallback
      BY <2>6 DEF TypeOK, LastAttempt
    <3>2. Len(calls) = exec'.attempt - 1
      BY <1>0, <2>1, <3>1 DEF CallInv
    <3> QED BY <2>1, <2>4, <2>6, <3>1, <3>2 DEF CallInv
  <2> QED BY <2>2, <2>3, <2>5, <2>6
<1>6. CASE TryFallback
  <2>0. PICK r \in Considered :
          step' = "terminal" \/ DispatchTo(Best(r, FallbackCandidates(r)), TRUE)
    BY <1>6 DEF TryFallback, Goto
  <2> DEFINE other == Best(r, FallbackCandidates(r))
  <2> HIDE DEF other
  <2>1. \/ step' \in {"terminal", "catch"}
        \/ /\ step' = "find"
           /\ exec' = [agent |-> other, attempt |-> 1, fallback |-> TRUE, outcome |-> "SUCCESS"]
    BY <2>0, DispatchEffect DEF other
  <2>2. step = "fallback" /\ selection' = selection /\ calls' = calls /\ Primary' = Primary
    BY <1>6 DEF TryFallback, Primary
  <2>3. step' \in {"terminal", "catch"} \/ (step' = "find" /\ exec'.fallback = TRUE)
    BY <2>1
  <2> QED BY <2>2, <2>3 DEF CallInv
<1>7. CASE InsertSynthetic
  <2>1. /\ selection' = selection /\ calls' = calls /\ step' \in {"terminal", "catch"}
    BY <1>7 DEF InsertSynthetic, Goto, Throw
  <2> QED BY <2>1 DEF CallInv, Primary
<1>8. CASE Ending
  <2>1. /\ selection' = selection /\ calls' = calls
        /\ step' \in {"signals", "commit", "catch", "catchCommit", "end", "gaveUp"}
    BY <1>8, EndingFrames
  <2> QED BY <2>1 DEF CallInv, Primary
<1>9. CASE Aside \/ UNCHANGED vars
  BY <1>9, AsideFrame DEF CallInv, Primary
<1>10. CASE Crash
  BY <1>10, CrashFrame DEF CallInv, Primary
<1> QED BY <1>1, <1>2, <1>3, <1>4, <1>5, <1>6, <1>7, <1>8, <1>9, <1>10, Cases
        DEF Working, Execute

\* Every step of routeTask but Invoke leaves the calls, and every one that can only
\* grow the log by one row says so here.
LEMMA InsertEffect ==
  ASSUME TypeOK, ChoiceInv, CallInv, RecordSuccess \/ RecordFailure
  PROVE  /\ calls' = calls /\ selection' = selection /\ Primary' = Primary /\ row' = row
         /\ Len(calls) \in Nat /\ Len(calls) >= 1 /\ selection.retries \in Nat
         /\ step \in {"record", "recordFailure"}
         /\ \/ /\ log' = log
               /\ step' \in {"recordFailure", "catch", "synthetic"}
               /\ step' = "recordFailure" => step = "record"
            \/ \E r \in [id : {Len(calls)}, agent : {exec.agent}, attempt : {exec.attempt},
                         outcome : Outcome] :
                 /\ log' = log \cup {r}
                 /\ \/ /\ step = "record" /\ r.outcome = "SUCCESS"
                       /\ step' \in {"terminal", "recordFailure"}
                    \/ /\ step = "recordFailure" /\ \A other \in log : other.id # Len(calls)
                       /\ r.outcome # "SUCCESS" /\ (LastAttempt => r.outcome = exec.outcome)
                       /\ step' \in {"terminal", "fallback", "invoke", "catch", "synthetic"}
                       /\ step' = "invoke" => ~LastAttempt
                       /\ step' = "synthetic" => exec.fallback
<1> USE DEF Executing
<1>1. CASE RecordSuccess
  <2>1. step = "record" /\ calls' = calls /\ selection' = selection /\ row' = row
    BY <1>1 DEF RecordSuccess
  <2>2. Len(calls) \in Nat /\ Len(calls) >= 1 /\ selection.retries \in Nat
    BY <2>1, DispatchAssumption DEF CallInv, TypeOK
  <2>3. \/ log' = log /\ step' = "recordFailure"
        \/ log' = log \cup {ExecRow("SUCCESS")} /\ step' \in {"terminal", "recordFailure"}
    BY <1>1 DEF RecordSuccess, Insert, NoInsert, Returned, Goto
  <2>4. /\ ExecRow("SUCCESS") \in [id : {Len(calls)}, agent : {exec.agent},
                                   attempt : {exec.attempt}, outcome : Outcome]
        /\ ExecRow("SUCCESS").outcome = "SUCCESS"
    BY DEF ExecRow, ExecutionId, Outcome
  <2> QED BY <2>1, <2>2, <2>3, <2>4 DEF Primary
<1>2. CASE RecordFailure
  <2>1. step = "recordFailure" /\ calls' = calls /\ selection' = selection /\ row' = row
    BY <1>2, RecordFailureCases
  <2>2. /\ Len(calls) \in Nat /\ Len(calls) >= 1 /\ selection.retries \in Nat
        /\ exec.outcome \in Failure
    BY <2>1, DispatchAssumption DEF CallInv, TypeOK
  <2>3. \/ log' = log /\ ExecuteThrows
        \/ /\ log' = log \cup {FailureRow}
           /\ \A other \in log : other.id # FailureRow.id
           /\ \/ LastAttempt /\ Returned(exec.outcome)
              \/ ~LastAttempt /\ Goto("invoke")
              \/ ExecuteThrows
    BY <1>2, RecordFailureCases
  <2>4. /\ FailureRow \in [id : {Len(calls)}, agent : {exec.agent}, attempt : {exec.attempt},
                           outcome : Outcome]
        /\ FailureRow.outcome # "SUCCESS" /\ FailureRow.id = Len(calls)
        /\ (LastAttempt => FailureRow.outcome = exec.outcome)
    BY <2>2 DEF FailureRow, ExecRow, ExecutionId, Outcome, Failure
  <2>5. /\ ExecuteThrows => step' = "catch" \/ (step' = "synthetic" /\ exec.fallback)
        /\ Returned(exec.outcome) => step' \in {"terminal", "fallback"}
        /\ Goto("invoke") => step' = "invoke"
    BY DEF ExecuteThrows, Goto, Throw, Returned
  <2>6. CASE log' = log /\ ExecuteThrows
    BY <2>1, <2>2, <2>5, <2>6 DEF Primary
  <2>7. CASE /\ log' = log \cup {FailureRow}
             /\ \A other \in log : other.id # FailureRow.id
             /\ \/ LastAttempt /\ Returned(exec.outcome)
                \/ ~LastAttempt /\ Goto("invoke")
                \/ ExecuteThrows
    <3>1. \A other \in log : other.id # Len(calls)
      BY <2>4, <2>7
    <3>2. /\ step' \in {"terminal", "fallback", "invoke", "catch", "synthetic"}
          /\ step' = "invoke" => ~LastAttempt
          /\ step' = "synthetic" => exec.fallback
      BY <2>5, <2>7
    <3> QED BY <2>1, <2>2, <2>4, <2>7, <3>1, <3>2 DEF Primary
  <2> QED BY <2>3, <2>6, <2>7
<1> QED BY <1>1, <1>2

LEMMA LogStep ==
  ASSUME TypeOK, ChoiceInv, CallInv, LogInv, [Next]_vars
  PROVE  LogInv'
<1> USE DEF Executing, Early, Chosen
<1>0. calls \in Seq(CallType) /\ Len(calls) \in Nat
  BY DEF TypeOK, CallType
<1>1. CASE Select \/ SelectFails \/ FindAgent \/ TryFallback
  <2>1. /\ calls' = calls /\ log' = log /\ step \in {"select", "find", "fallback"}
    BY <1>1 DEF Select, SelectFails, FindAgent, TryFallback
  <2>2. step' \in (Chosen \ {"signals"}) \cup {"catch"}
    BY <1>1, WorkingFrame DEF Working, Execute
  <2>3. step' # "record"
    <3>1. CASE Select
      <4>1. PICK r \in Ranking : DispatchTo(Head(r), FALSE)
        BY <3>1 DEF Select
      <4> QED BY <4>1, DispatchEffect
    <3>2. CASE SelectFails \/ FindAgent
      BY <3>2 DEF SelectFails, FindAgent, Throw, Goto, ExecuteThrows
    <3>3. CASE TryFallback
      <4>1. PICK r \in Considered :
              step' = "terminal" \/ DispatchTo(Best(r, FallbackCandidates(r)), TRUE)
        BY <3>3 DEF TryFallback, Goto
      <4> QED BY <4>1, DispatchEffect
    <3> QED BY <1>1, <3>1, <3>2, <3>3
  <2>4. \A r \in log : r.id # 0 /\ r.outcome # "SUCCESS"
    BY <2>1 DEF LogInv
  <2>5. CASE step = "select"
    <3>1. log = {}
      BY <1>0, <2>4, <2>5 DEF LogInv, CallInv
    <3> QED BY <2>1, <2>3, <3>1 DEF LogInv
  <2>6. CASE step # "select"
    <3>1. Primary' = Primary
      BY <1>1, <2>6 DEF Select, SelectFails, FindAgent, TryFallback, Primary
    <3> QED BY <2>1, <2>3, <2>4, <3>1 DEF LogInv
  <2> QED BY <2>5, <2>6
<1>2. CASE Invoke
  <2>1. PICK o \in Failure \cup {"SUCCESS"} :
          /\ calls' = Append(calls, [agent |-> exec.agent, outcome |-> o])
          /\ [agent |-> exec.agent, outcome |-> o] \in CallType
          /\ step = "invoke" /\ step' = IF o = "SUCCESS" THEN "record" ELSE "recordFailure"
          /\ selection' = selection /\ log' = log
    BY <1>2, InvokeEffect
  <2> DEFINE n == Len(calls)
  <2>2. /\ Len(calls') = n + 1 /\ \A i \in 1..n : calls'[i] = calls[i]
        /\ n \in Nat
    BY <1>0, <2>1, AppendFacts
  <2>3. Primary' = Primary
    BY <2>1 DEF Primary
  <2>4. \A r \in log : /\ r.id \in 1..n /\ calls[r.id].agent = r.agent /\ r.outcome # "SUCCESS"
                       /\ r.attempt = IF r.agent = Primary THEN r.id ELSE 1
                       /\ \A other \in log : other.id = r.id => other = r
    BY <2>1 DEF LogInv
  <2> HIDE DEF n
  <2>5. \A r \in log : /\ r.id \in 1..(n + 1) /\ r.id # 0 /\ r.id # n + 1
                       /\ calls'[r.id].agent = r.agent
    BY <2>2, <2>4
  <2> QED BY <2>1, <2>2, <2>3, <2>4, <2>5 DEF LogInv
<1>3. CASE RecordSuccess \/ RecordFailure
  <2> DEFINE n == Len(calls)
  <2>1. /\ calls' = calls /\ Primary' = Primary /\ n \in Nat /\ n >= 1
        /\ step \in {"record", "recordFailure"}
    BY <1>3, InsertEffect
  <2>2. \A r \in log : /\ r.id \in 1..n /\ calls[r.id].agent = r.agent
                       /\ r.attempt = IF r.agent = Primary THEN r.id ELSE 1
                       /\ r.outcome = "SUCCESS" => calls[r.id].outcome = "SUCCESS" /\ r.id = n
                       /\ \A other \in log : other.id = r.id => other = r
    BY <2>1 DEF LogInv
  <2>3. CASE log' = log /\ step' \in {"recordFailure", "catch", "synthetic"}
    BY <2>1, <2>2, <2>3 DEF LogInv
  <2>4. CASE \E r \in [id : {n}, agent : {exec.agent}, attempt : {exec.attempt},
                       outcome : Outcome] :
               /\ log' = log \cup {r}
               /\ \/ /\ step = "record" /\ r.outcome = "SUCCESS"
                     /\ step' \in {"terminal", "recordFailure"}
                  \/ /\ step = "recordFailure" /\ \A other \in log : other.id # n
                     /\ r.outcome # "SUCCESS"
                     /\ step' \in {"terminal", "fallback", "invoke", "catch", "synthetic"}
    <3>1. PICK r \in [id : {n}, agent : {exec.agent}, attempt : {exec.attempt},
                      outcome : Outcome] :
            /\ log' = log \cup {r}
            /\ \/ /\ step = "record" /\ r.outcome = "SUCCESS"
                  /\ step' \in {"terminal", "recordFailure"}
               \/ /\ step = "recordFailure" /\ \A other \in log : other.id # n
                  /\ r.outcome # "SUCCESS"
                  /\ step' \in {"terminal", "fallback", "invoke", "catch", "synthetic"}
      BY <2>4
    <3>2. \A other \in log : other.id # n
      BY <3>1 DEF LogInv
    <3>3. /\ r.id = n /\ r.agent = exec.agent /\ r.attempt = exec.attempt
          /\ calls[n].agent = exec.agent
          /\ r.outcome = "SUCCESS" => calls[n].outcome = "SUCCESS"
      BY <2>1, <3>1 DEF CallInv
    <3>4. r.attempt = IF r.agent = Primary THEN r.id ELSE 1
      BY <2>1, <3>3 DEF CallInv, ChoiceInv
    <3>5. \A q \in log' :
            /\ q.id \in 1..n /\ calls[q.id].agent = q.agent
            /\ q.attempt = IF q.agent = Primary THEN q.id ELSE 1
            /\ q.outcome = "SUCCESS" => calls[q.id].outcome = "SUCCESS" /\ q.id = n
            /\ \A other \in log' : other.id = q.id => other = q
      BY <2>1, <2>2, <3>1, <3>2, <3>3, <3>4
    <3>6. step' \in {"fallback", "invoke"} => \A q \in log' : q.outcome # "SUCCESS"
      BY <2>2, <3>1, <3>2
    <3>7. n # 0 /\ step' \notin {"record", "find", "select"}
      BY <2>1, <3>1
    <3> HIDE DEF n
    <3>8. \A q \in log' : q.id # 0
      BY <2>1, <3>5
    <3> QED BY <2>1, <3>5, <3>6, <3>7, <3>8 DEF LogInv, n
  <2> QED BY <1>3, <2>3, <2>4, InsertEffect
<1>4. CASE InsertSynthetic
  <2>1. /\ selection' = selection /\ calls' = calls /\ step = "synthetic" /\ Primary' = Primary
        /\ step' \in {"terminal", "catch"}
        /\ log' = log \/ log' = log \cup {SyntheticRow}
    BY <1>4 DEF InsertSynthetic, Goto, Throw, Insert, NoInsert, Primary
  <2>2. SyntheticRow.id = 0 /\ SyntheticRow.outcome = "ERROR"
    BY DEF SyntheticRow
  <2>3. \A r \in log : r.id # 0
    BY <2>1 DEF LogInv
  <2> HIDE DEF SyntheticRow
  <2>4. CASE log' = log
    BY <2>1, <2>4 DEF LogInv
  <2>5. CASE log' = log \cup {SyntheticRow}
    BY <2>1, <2>2, <2>3, <2>5 DEF LogInv
  <2> QED BY <2>1, <2>4, <2>5
<1>5. CASE Ending
  <2>1. /\ selection' = selection /\ calls' = calls /\ log' = log
        /\ step' \in {"signals", "commit", "catch", "catchCommit", "end", "gaveUp"}
    BY <1>5, EndingFrames
  <2> QED BY <2>1 DEF LogInv, Primary
<1>6. CASE Aside \/ UNCHANGED vars
  BY <1>6, AsideFrame DEF LogInv, Primary
<1>7. CASE Crash
  BY <1>7, CrashFrame DEF LogInv, Primary
<1> QED BY <1>1, <1>2, <1>3, <1>4, <1>5, <1>6, <1>7, Cases DEF Working, Execute

------------------------------------------------------------------------------
(* Every call has its row.                                                      *)
LEMMA ThrownBy ==
  ASSUME [Next]_vars
  PROVE  /\ step' \in {"catch", "catchCommit"} => thrown' = TRUE \/ (step' = step /\ thrown' = thrown)
                                                  \/ (step = "catch" /\ thrown' = thrown)
         /\ step' = "end" => \/ step = "end" /\ thrown' = thrown
                             \/ step \in {"commit", "catchCommit"} /\ thrown' = thrown
<1>1. CASE Working
  <2>1. step' \in (Chosen \ {"signals"}) \cup {"catch"}
    BY <1>1, WorkingFrame
  <2>2. step' = "catch" => thrown' = TRUE
    BY <1>1 DEF Working, Select, SelectFails, Execute, TryFallback, InsertSynthetic, FindAgent,
                Invoke, RecordSuccess, RecordFailure, DispatchTo, Goto, Throw, ExecuteThrows,
                Returned
  <2> QED BY <2>1, <2>2 DEF Chosen, Early, Executing
<1>2. CASE Ending
  BY <1>2 DEF Ending, WriteTerminal, CollectSignals, RouterCommit, Catch, CatchCommitFails,
              Goto, Throw
<1>3. CASE Aside \/ UNCHANGED vars
  BY <1>3, AsideFrame
<1>4. CASE Crash
  BY <1>4, CrashFrame
<1> QED BY <1>1, <1>2, <1>3, <1>4, Cases

LEMMA CountStep ==
  ASSUME TypeOK, ChoiceInv, CallInv, LogInv, CountInv, [Next]_vars
  PROVE  CountInv'
<1> USE DEF Executing, Early, Chosen
<1>0. /\ calls \in Seq(CallType) /\ Len(calls) \in Nat /\ Cardinality(log) \in Nat
      /\ IsFiniteSet(log)
  BY FS_CardinalityType DEF TypeOK, CallType, CountInv
<1>t. step' \in {"catch", "catchCommit"} => thrown'
  BY ThrownBy DEF CountInv
<1>1. CASE Working
  <2>1. step' \in {"find", "invoke", "record", "recordFailure", "fallback", "synthetic",
                   "terminal", "catch"}
    BY <1>1, WorkingFrame
  <2>2. CASE Select \/ SelectFails \/ FindAgent \/ TryFallback
    <3>1. calls' = calls /\ log' = log /\ step \in {"select", "find", "fallback"}
      BY <2>2 DEF Select, SelectFails, FindAgent, TryFallback
    <3>2. Cardinality(log) >= Len(calls)
      BY <3>1 DEF CountInv
    <3>3. Cardinality(log) + 1 >= Len(calls)
      BY <1>0, <3>2
    <3> QED BY <1>0, <1>t, <2>1, <3>1, <3>2, <3>3 DEF CountInv
  <2>3. CASE Invoke
    <3>1. PICK o \in Failure \cup {"SUCCESS"} :
            /\ calls' = Append(calls, [agent |-> exec.agent, outcome |-> o])
            /\ [agent |-> exec.agent, outcome |-> o] \in CallType
            /\ step = "invoke" /\ step' = IF o = "SUCCESS" THEN "record" ELSE "recordFailure"
            /\ log' = log
      BY <2>3, InvokeEffect
    <3>2. Len(calls') = Len(calls) + 1
      BY <1>0, <3>1, AppendFacts
    <3>3. Cardinality(log) >= Len(calls)
      BY <3>1 DEF CountInv
    <3>4. Cardinality(log') + 1 >= Len(calls')
      BY <1>0, <3>1, <3>2, <3>3
    <3>5. step' \in {"record", "recordFailure"}
      BY <3>1
    <3> QED BY <1>0, <3>1, <3>4, <3>5 DEF CountInv
  <2>4. CASE RecordSuccess \/ RecordFailure
    <3>1. calls' = calls /\ step \in {"record", "recordFailure"}
      BY <2>4, InsertEffect
    <3>2. Cardinality(log) + 1 >= Len(calls)
      BY <3>1 DEF CountInv
    <3>3. CASE log' = log /\ step' \in {"recordFailure", "catch", "synthetic"}
      BY <1>0, <1>t, <3>1, <3>2, <3>3 DEF CountInv
    <3>4. CASE \E r : log' = log \cup {r} /\ r \notin log
      <4>1. PICK r : log' = log \cup {r} /\ r \notin log
        BY <3>4
      <4>2. IsFiniteSet(log') /\ Cardinality(log') = Cardinality(log) + 1
        BY <1>0, <4>1, FS_AddElement
      <4>3. Cardinality(log') >= Len(calls') /\ Cardinality(log') + 1 >= Len(calls')
        BY <1>0, <3>1, <3>2, <4>2
      <4> QED BY <1>t, <2>1, <4>2, <4>3 DEF CountInv
    <3>5. \/ log' = log /\ step' \in {"recordFailure", "catch", "synthetic"}
          \/ \E r : /\ r.id = Len(calls) /\ log' = log \cup {r}
                    /\ step = "record" \/ \A other \in log : other.id # Len(calls)
      BY <2>4, InsertEffect
    <3>6. step = "record" => \A other \in log : other.id # Len(calls)
      BY DEF LogInv
    <3> QED BY <3>3, <3>4, <3>5, <3>6
  <2>5. CASE InsertSynthetic
    <3>1. /\ calls' = calls /\ step = "synthetic"
          /\ step' = "catch" \/ (step' = "terminal" /\ log' = log \cup {SyntheticRow})
          /\ log' = log \/ log' = log \cup {SyntheticRow}
      BY <2>5 DEF InsertSynthetic, Goto, Throw, Insert, NoInsert
    <3>2. Cardinality(log) + 1 >= Len(calls)
      BY <3>1 DEF CountInv
    <3>3. SyntheticRow \notin log
      BY <3>1 DEF LogInv, SyntheticRow
    <3>4. /\ IsFiniteSet(log')
          /\ log' = log \cup {SyntheticRow} => Cardinality(log') = Cardinality(log) + 1
      BY <1>0, <3>1, <3>3, FS_AddElement
    <3>5. step' = "terminal" => Cardinality(log') >= Len(calls')
      BY <1>0, <3>1, <3>2, <3>4
    <3> QED BY <1>t, <3>1, <3>4, <3>5 DEF CountInv
  <2> QED BY <1>1, <2>2, <2>3, <2>4, <2>5 DEF Working, Execute
<1>2. CASE Ending
  <2>1. /\ calls' = calls /\ log' = log
        /\ step \in {"terminal", "signals", "commit", "catch", "catchCommit"}
        /\ step' \in {"signals", "commit", "catch", "catchCommit", "end", "gaveUp"}
        /\ step' \in {"signals", "commit"} => step \in {"terminal", "signals"}
    BY <1>2, EndingFrames
  <2>2. step' = "end" /\ ~thrown' => step = "commit"
    BY <2>1, ThrownBy DEF CountInv
  <2> QED BY <1>0, <1>t, <2>1, <2>2 DEF CountInv
<1>3. CASE Aside \/ UNCHANGED vars
  BY <1>3, AsideFrame DEF CountInv
<1>4. CASE Crash
  BY <1>4, CrashFrame DEF CountInv
<1> QED BY <1>1, <1>2, <1>3, <1>4, Cases

------------------------------------------------------------------------------
(* The success behind a COMPLETED row.                                          *)
\* A row may change its status, or everything when an agent is tried.
LEMMA RowEffect ==
  ASSUME TypeOK, Working
  PROVE  row' = row \/ (row'.status = "DISPATCHED" /\ step' \in {"find", "catch"})
<1>1. CASE Select
  <2>1. PICK r \in Ranking : DispatchTo(Head(r), FALSE)
    BY <1>1 DEF Select
  <2>2. /\ row' = [status |-> "DISPATCHED", agent |-> Head(r), fallback |-> FALSE]
        /\ step' \in {"find", "catch"}
    BY <2>1, DispatchEffect
  <2> QED BY <2>2
<1>2. CASE TryFallback
  <2>1. PICK r \in Considered :
          row' = row \/ DispatchTo(Best(r, FallbackCandidates(r)), TRUE)
    BY <1>2 DEF TryFallback
  <2> DEFINE other == Best(r, FallbackCandidates(r))
  <2> HIDE DEF other
  <2>2. \/ row' = row
        \/ /\ row' = [status |-> "DISPATCHED", agent |-> other, fallback |-> TRUE]
           /\ step' \in {"find", "catch"}
    BY <2>1, DispatchEffect DEF other
  <2> QED BY <2>2
<1>3. CASE SelectFails \/ FindAgent \/ Invoke \/ InsertSynthetic
  BY <1>3 DEF SelectFails, FindAgent, Invoke, InsertSynthetic
<1>4. CASE RecordSuccess \/ RecordFailure
  BY <1>4, RecordFailureCases DEF RecordSuccess
<1> QED BY <1>1, <1>2, <1>3, <1>4 DEF Working, Execute

\* Only a success that was recorded makes routeTask's last record a success.
LEMMA WonStep ==
  ASSUME TypeOK, ChoiceInv, RecordInv, CallInv, Working, step' = "terminal", Won'
  PROVE  Backed'
<1> USE DEF Early, Executing
<1>0. records \in Seq(Failure \cup {"SUCCESS"}) /\ exec.outcome \in Failure \cup {"SUCCESS"}
  BY DEF TypeOK
<1>1. CASE RecordSuccess
  <2>1. /\ calls' = calls /\ row' = row /\ step = "record"
    BY <1>1 DEF RecordSuccess
  <2>2. /\ log' = log \cup {ExecRow("SUCCESS")}
    BY <1>1 DEF RecordSuccess, Insert, Goto
  <2>3. /\ ExecRow("SUCCESS").outcome = "SUCCESS" /\ ExecRow("SUCCESS").id = Len(calls)
        /\ ExecRow("SUCCESS").agent = exec.agent
    BY DEF ExecRow, ExecutionId
  <2>4. row.agent = exec.agent
    BY <2>1 DEF ChoiceInv
  <2>5. Len(calls) \in 1..Len(calls)
    BY <2>1 DEF CallInv, TypeOK
  <2>8. calls \in Seq(CallType)
    BY DEF TypeOK, CallType
  <2>6. calls[Len(calls)] \in CallType
    BY <2>5, <2>8
  <2>7. calls[Len(calls)] = [agent |-> exec.agent, outcome |-> "SUCCESS"]
    BY <2>1, <2>6 DEF CallInv, CallType
  <2> QED BY <2>1, <2>2, <2>3, <2>4, <2>5, <2>7 DEF Backed
<1>2. CASE RecordFailure
  <2>1. step = "recordFailure"
    BY <1>2, RecordFailureCases
  <2>2. exec.outcome \in Failure
    BY <2>1 DEF CallInv
  <2>3. records' = Append(records, exec.outcome)
    BY <1>2, RecordFailureCases DEF Returned, Goto, ExecuteThrows, Throw
  <2>4. records'[Len(records')] = exec.outcome
    BY <1>0, <2>3, AppendFacts
  <2> QED BY <2>2, <2>4 DEF Won, Failure
<1>3. CASE TryFallback
  <2>1. records' = records /\ step = "fallback"
    BY <1>3 DEF TryFallback
  <2>3. Len(records) = 1 /\ \A i \in 1..Len(records) : records[i] \in Failure
    BY <2>1 DEF RecordInv
  <2>2. records[Len(records)] \in Failure
    BY <2>3
  <2> QED BY <2>1, <2>2 DEF Won, Failure
<1>4. CASE InsertSynthetic
  <2>1. records' = Append(records, "ERROR")
    BY <1>4 DEF InsertSynthetic, Goto, Throw
  <2>2. records'[Len(records')] = "ERROR"
    BY <1>0, <2>1, AppendFacts DEF Failure
  <2> QED BY <2>2 DEF Won
<1>5. CASE Select \/ SelectFails \/ FindAgent \/ Invoke
  <2>1. CASE Select
    <3>1. PICK r \in Ranking : DispatchTo(Head(r), FALSE)
      BY <2>1 DEF Select
    <3> QED BY <3>1, DispatchEffect
  <2>2. CASE SelectFails \/ FindAgent \/ Invoke
    BY <2>2 DEF SelectFails, FindAgent, Invoke, Throw, Goto, ExecuteThrows
  <2> QED BY <1>5, <2>1, <2>2
<1> QED BY <1>1, <1>2, <1>3, <1>4, <1>5 DEF Working, Execute

LEMMA BackedStep ==
  ASSUME TypeOK, ChoiceInv, RecordInv, CallInv, BackedInv, [Next]_vars
  PROVE  BackedInv'
<1> USE DEF Early, Executing, Chosen
<1>1. CASE Working
  <2>1. row.status # "COMPLETED"
    BY <1>1, WorkingFrame DEF BackedInv
  <2>2. row'.status # "COMPLETED"
    BY <1>1, <2>1, RowEffect
  <2> QED BY <1>1, <2>2, WonStep DEF BackedInv
<1>2. CASE Ending
  <2>1. /\ records' = records /\ log' = log /\ calls' = calls
        /\ step' \in {"signals", "commit", "catch", "catchCommit", "end", "gaveUp"}
        /\ step \in {"terminal", "signals", "commit", "catch", "catchCommit"}
    BY <1>2, EndingFrames
  <2>2. \/ row' = row
        \/ row' = [row EXCEPT !.status = "FAILED"]
        \/ step = "terminal" /\ Won /\ row' = [row EXCEPT !.status = "COMPLETED"]
    BY <1>2, RowEnds
  <2>3. row'.agent = row.agent
    BY <2>2 DEF TypeOK
  <2>4. Backed => Backed'
    BY <2>1, <2>3 DEF Backed
  <2>5. row'.status = "COMPLETED" => row.status = "COMPLETED" \/ (step = "terminal" /\ Won)
    BY <2>2 DEF TypeOK
  <2> QED BY <2>1, <2>4, <2>5 DEF BackedInv
<1>3. CASE Aside \/ UNCHANGED vars
  <2>1. /\ step' = step /\ records' = records /\ row' = row /\ log' = log /\ calls' = calls
    BY <1>3, AsideFrame
  <2> QED BY <2>1 DEF BackedInv, Backed, Won
<1>4. CASE Crash
  <2>1. /\ step' = "dead" /\ records' = records /\ row' = row /\ log' = log /\ calls' = calls
    BY <1>4, CrashFrame
  <2> QED BY <2>1 DEF BackedInv, Backed, Won
<1> QED BY <1>1, <1>2, <1>3, <1>4, Cases

------------------------------------------------------------------------------
(* The records, the log and the signals tell of the same failures.              *)
\* Once routeTask is past the signals, what they were computed from stays.
LEMMA SignalsKept ==
  ASSUME SignalsMatchLog, signals' = signals, log' = log, row'.agent = row.agent,
         selection' = selection
  PROVE  SignalsMatchLog'
  BY DEF SignalsMatchLog

LEMMA NoSignals ==
  ASSUME signals = {}
  PROVE  SignalsMatchLog
  BY DEF SignalsMatchLog

\* Every failure of the last attempt is in the log and among the records.
LEMMA FailuresStep ==
  ASSUME TypeOK, ChoiceInv, RecordInv, CallInv, SignalInv, Working
  PROVE  /\ \A o \in Failure : \A i \in 1..Len(records') :
              records'[i] = o => \E r \in log' : r.outcome = o
         /\ step' \in Early /\ (\E r \in log' : r.outcome \in Failure) =>
              \E i \in 1..Len(records') : records'[i] \in Failure
<1> USE DEF Early, Executing, Chosen
<1>0. /\ records \in Seq(Failure \cup {"SUCCESS"}) /\ exec.outcome \in Failure \cup {"SUCCESS"}
      /\ exec.fallback \in BOOLEAN
  BY DEF TypeOK
<1>1. /\ \A o \in Failure : \A i \in 1..Len(records) : records[i] = o => \E r \in log : r.outcome = o
      /\ (\E r \in log : r.outcome \in Failure) => \E i \in 1..Len(records) : records[i] \in Failure
  BY WorkingFrame DEF SignalInv
<1>2. CASE Select \/ SelectFails \/ FindAgent \/ Invoke \/ TryFallback
  <2>1. records' = records /\ log' = log
    BY <1>2 DEF Select, SelectFails, FindAgent, Invoke, TryFallback
  <2> QED BY <1>1, <2>1
<1>3. CASE RecordSuccess
  <2>1. /\ log' = log \/ log' = log \cup {ExecRow("SUCCESS")}
        /\ records' = records \/ records' = Append(records, "SUCCESS")
    BY <1>3 DEF RecordSuccess, Insert, NoInsert, Returned
  <2>2. ExecRow("SUCCESS").outcome \notin Failure
    BY DEF ExecRow, Failure
  <2>3. /\ Len(records') \in Nat /\ Len(records) <= Len(records') /\ Len(records) \in Nat
        /\ \A i \in 1..Len(records) : records'[i] = records[i]
        /\ \A i \in 1..Len(records') : i \in 1..Len(records) \/ records'[i] = "SUCCESS"
    BY <1>0, <2>1, AppendFacts
  <2> HIDE DEF ExecRow
  <2>4. \A r \in log' : r.outcome \in Failure => r \in log
    BY <2>1, <2>2
  <2>5. \A i \in 1..Len(records') : records'[i] \in Failure =>
          i \in 1..Len(records) /\ records[i] = records'[i]
    BY <2>3 DEF Failure
  <2>6. log \subseteq log' /\ \A i \in 1..Len(records) : i \in 1..Len(records')
    BY <2>1, <2>3
  <2> QED BY <1>1, <2>3, <2>4, <2>5, <2>6
<1>4. CASE RecordFailure
  <2>0. step = "recordFailure" /\ exec.outcome \in Failure
    BY <1>4, RecordFailureCases DEF CallInv
  <2>1. CASE /\ log' = log \cup {FailureRow} /\ FailureRow.outcome = exec.outcome
             /\ records' = Append(records, exec.outcome)
    <3>1. /\ Len(records') = Len(records) + 1 /\ Len(records) \in Nat
          /\ \A i \in 1..Len(records) : records'[i] = records[i]
          /\ records'[Len(records) + 1] = exec.outcome
      BY <1>0, <2>1, AppendFacts
    <3>2. ASSUME NEW o \in Failure, NEW i \in 1..Len(records'), records'[i] = o
          PROVE  \E r \in log' : r.outcome = o
      <4>1. CASE i \in 1..Len(records)
        BY <1>1, <2>1, <3>1, <3>2, <4>1
      <4>2. CASE i = Len(records) + 1
        BY <2>1, <3>1, <3>2, <4>2
      <4> QED BY <3>1, <4>1, <4>2
    <3>3. \E i \in 1..Len(records') : records'[i] \in Failure
      BY <2>0, <3>1
    <3> QED BY <3>2, <3>3
  <2>2. CASE /\ log' = log \cup {FailureRow} /\ FailureRow.outcome \notin Failure
             /\ records' = records
    BY <1>1, <2>2
  <2>3. CASE log' = log /\ records' = records
    BY <1>1, <2>3
  <2>4. CASE /\ log' = log \cup {FailureRow} /\ records' = records
             /\ step' = "catch" \/ (step' = "synthetic" /\ exec.fallback)
    <3>1. log \subseteq log'
      BY <2>4
    <3>2. exec.fallback => Len(records) = 1 /\ records[1] \in Failure
      BY <2>0 DEF RecordInv
    <3> QED BY <1>1, <2>4, <3>1, <3>2
  <2>5. FailureRow.outcome = IF LastAttempt THEN exec.outcome ELSE "FALLBACK"
    BY DEF FailureRow, ExecRow
  <2>6. ExecuteThrows => step' = "catch" \/ (step' = "synthetic" /\ exec.fallback)
    BY DEF ExecuteThrows, Goto, Throw
  <2>7. \/ log' = log /\ records' = records
        \/ /\ log' = log \cup {FailureRow}
           /\ \/ LastAttempt /\ records' = Append(records, exec.outcome)
              \/ ~LastAttempt /\ records' = records
              \/ ExecuteThrows /\ records' = records
    BY <1>4, RecordFailureCases DEF Returned
  <2> QED BY <2>1, <2>2, <2>3, <2>4, <2>5, <2>6, <2>7 DEF Failure
<1>5. CASE InsertSynthetic
  <2>0. SyntheticRow.outcome = "ERROR"
    BY DEF SyntheticRow
  <2> HIDE DEF SyntheticRow
  <2>1. CASE step' = "terminal"
    <3>1. log' = log \cup {SyntheticRow} /\ records' = Append(records, "ERROR")
      BY <1>5, <2>1 DEF InsertSynthetic, Insert, Throw
    <3>2. /\ Len(records') = Len(records) + 1 /\ Len(records) \in Nat
          /\ \A i \in 1..Len(records) : records'[i] = records[i]
          /\ records'[Len(records) + 1] = "ERROR"
      BY <1>0, <3>1, AppendFacts DEF Failure
    <3>3. ASSUME NEW o \in Failure, NEW i \in 1..Len(records'), records'[i] = o
          PROVE  \E r \in log' : r.outcome = o
      <4>1. CASE i \in 1..Len(records)
        BY <1>1, <3>1, <3>2, <3>3, <4>1
      <4>2. CASE i = Len(records) + 1
        BY <2>0, <3>1, <3>2, <3>3, <4>2
      <4> QED BY <3>2, <4>1, <4>2
    <3>4. \E i \in 1..Len(records') : records'[i] \in Failure
      BY <3>2 DEF Failure
    <3> QED BY <3>3, <3>4
  <2>2. CASE step' = "catch"
    <3>1. records' = records /\ log \subseteq log'
      BY <1>5, <2>2 DEF InsertSynthetic, Insert, NoInsert, Goto
    <3> QED BY <1>1, <2>2, <3>1
  <2> QED BY <1>5, <2>1, <2>2 DEF InsertSynthetic, Goto, Throw
<1> QED BY <1>2, <1>3, <1>4, <1>5 DEF Working, Execute

LEMMA SignalStep ==
  ASSUME TypeOK, ChoiceInv, RecordInv, CallInv, SignalInv, [Next]_vars
  PROVE  SignalInv'
<1> USE DEF Early, Executing, Chosen
<1>1. CASE Working
  <2>1. signals' = {}
    BY <1>1, WorkingFrame DEF SignalInv
  <2>2. SignalsMatchLog'
    BY <2>1 DEF SignalsMatchLog
  <2> QED BY <1>1, <2>1, <2>2, FailuresStep DEF SignalInv
<1>2. CASE Ending
  <2>1. /\ records' = records /\ log' = log /\ selection' = selection
        /\ \/ step = "terminal" /\ step' \in {"signals", "catch"} /\ signals' = signals
           \/ step = "signals" /\ step' = "commit" /\ row' = row
           \/ /\ step \in {"commit", "catch", "catchCommit"}
              /\ step' \in {"catch", "catchCommit", "end", "gaveUp"} /\ signals' = signals
    BY <1>2, EndingFrames
  <2>2. \/ row' = row \/ row' = [row EXCEPT !.status = "FAILED"]
                      \/ row' = [row EXCEPT !.status = "COMPLETED"]
    BY <1>2, RowEnds
  <2>3. row'.agent = row.agent
    BY <2>2 DEF TypeOK
  <2>4. CASE signals' = signals
    BY <2>1, <2>3, <2>4, SignalsKept DEF SignalInv
  <2>5. CASE step = "signals" /\ step' = "commit" /\ row' = row /\ signals' # signals
    <3>1. PICK limits \in SUBSET {"limit_exceeded"} : signals' = Signals(limits)
      BY <1>2, <2>5 DEF Ending, WriteTerminal, CollectSignals, RouterCommit, Catch,
                        CatchCommitFails, tables
    <3>2. records \in Seq(Failure \cup {"SUCCESS"})
      BY DEF TypeOK
    <3>3. "clean_execution" \in signals' => Detected(limits) = {}
      BY <3>1 DEF Signals, Detected
    <3>4. "error_occurred" \in signals' => \E i \in 1..Len(records) : records[i] = "ERROR"
      BY <3>1, <3>2 DEF Signals, Detected
    <3>5. "timeout_occurred" \in signals' => \E i \in 1..Len(records) : records[i] = "TIMEOUT"
      BY <3>1, <3>2 DEF Signals, Detected
    <3>6. Detected(limits) = {} =>
            ~row.fallback /\ \A i \in 1..Len(records) : records[i] \notin Failure
      BY <3>2 DEF Detected, Failure
    <3>7. Detected(limits) = {} => \A r \in log : r.outcome \notin Failure
      BY <2>5, <3>6 DEF SignalInv
    <3>8. Detected(limits) = {} => row.agent = Head(selection.rank)
      BY <2>5, <3>6 DEF ChoiceInv, Primary
    <3>9. /\ (\E i \in 1..Len(records) : records[i] = "ERROR") => \E r \in log : r.outcome = "ERROR"
          /\ (\E i \in 1..Len(records) : records[i] = "TIMEOUT") =>
               \E r \in log : r.outcome = "TIMEOUT"
      BY DEF SignalInv, Failure
    <3>10. SignalsMatchLog'
      BY <2>1, <2>5, <3>3, <3>4, <3>5, <3>7, <3>8, <3>9 DEF SignalsMatchLog
    <3> QED BY <2>1, <2>5, <3>10 DEF SignalInv
  <2> QED BY <2>1, <2>4, <2>5
<1>3. CASE Aside \/ UNCHANGED vars
  <2>1. /\ step' = step /\ selection' = selection /\ records' = records
        /\ row' = row /\ log' = log /\ signals' = signals
    BY <1>3, AsideFrame
  <2> QED BY <2>1, SignalsKept DEF SignalInv
<1>4. CASE Crash
  <2>1. /\ step' = "dead" /\ selection' = selection /\ records' = records
        /\ row' = row /\ log' = log /\ signals' = signals
    BY <1>4, CrashFrame
  <2> QED BY <2>1, SignalsKept DEF SignalInv
<1> QED BY <1>1, <1>2, <1>3, <1>4, Cases

------------------------------------------------------------------------------
(* The evaluation.                                                              *)
LEMMA VerdictStep ==
  ASSUME VerdictInv, [Next]_vars
  PROVE  /\ VerdictInv'
         /\ verdict' # verdict => verdict \in {"none", "pending"}
<1> USE DEF Early, Executing, Chosen
<1>1. CASE Working
  BY <1>1, WorkingFrame DEF VerdictInv
<1>2. CASE Ending
  <2>1. /\ verdict' = verdict
        /\ step \in {"terminal", "signals"} \/ step' \notin Early
        /\ step' = "signals" => step = "terminal"
    BY <1>2, EndingFrames
  <2>2. evaluation' = evaluation \/ (step = "signals" /\ step' = "commit")
    BY <1>2 DEF Ending, WriteTerminal, CollectSignals, RouterCommit, Catch, CatchCommitFails, Goto
  <2> QED BY <2>1, <2>2 DEF VerdictInv
<1>3. CASE Aside
  <2>1. step' = step
    BY <1>3, AsideFrame
  <2>2. CASE StartEvaluation
    BY <2>1, <2>2 DEF StartEvaluation, VerdictInv, Evaluating
  <2>3. CASE FinishEvaluation \/ FailEvaluation
    BY <2>1, <2>3 DEF FinishEvaluation, FailEvaluation, Finalize, Evaluating, VerdictInv
  <2>4. CASE CommitEvaluation \/ OtherCommit
    BY <2>1, <2>4 DEF CommitEvaluation, OtherCommit, Evaluating, VerdictInv, tables
  <2>5. CASE Cleanup
    BY <2>1, <2>5 DEF Cleanup, VerdictInv
  <2> QED BY <1>3, <2>2, <2>3, <2>4, <2>5 DEF Aside
<1>4. CASE Crash
  BY <1>4, CrashFrame DEF VerdictInv
<1>5. CASE UNCHANGED vars
  BY <1>5 DEF vars, dispatchVars, tables, VerdictInv
<1> QED BY <1>1, <1>2, <1>3, <1>4, <1>5, Cases

------------------------------------------------------------------------------
(* The theorems.                                                                *)
LEMMA InitInv == Init => IInv
<1> SUFFICES ASSUME Init PROVE IInv
  OBVIOUS
<1> USE DEF Init, Early, Executing, Chosen
<1>1. Len(calls) = 0 /\ Len(records) = 0
  OBVIOUS
<1>2. ChoiceInv
  BY DEF ChoiceInv
<1>3. RecordInv /\ CallInv /\ LogInv
  BY <1>1 DEF RecordInv, CallInv, LogInv
<1>4. CountInv
  BY <1>1, FS_EmptySet DEF CountInv
<1>5. BackedInv /\ VerdictInv
  BY DEF BackedInv, VerdictInv
<1>6. SignalInv
  BY <1>1 DEF SignalInv, SignalsMatchLog
<1> QED BY <1>2, <1>3, <1>4, <1>5, <1>6 DEF IInv

LEMMA InvHolds == Spec => [](TypeOK /\ IInv)
<1>1. Init => TypeOK /\ IInv
  BY InitType, InitInv
<1>2. TypeOK /\ IInv /\ [Next]_vars => (TypeOK /\ IInv)'
  BY TypeStep, ChoiceStep, RecordStep, CallStep, LogStep, CountStep, BackedStep, SignalStep,
     VerdictStep DEF IInv
<1> QED BY <1>1, <1>2, PTL DEF Spec

\* The locals of routeTask and the rows it writes keep their types.
THEOREM TypeOKHolds == Spec => []TypeOK
  BY InvHolds, PTL

\* For any agents and any retry limit, a COMPLETED row names an agent whose successful
\* call is in execution_log (router.ts:293-346).
THEOREM CompletedIsBackedHolds == Spec => []CompletedIsBacked
<1>1. TypeOK /\ IInv => CompletedIsBacked
  BY DEF IInv, BackedInv, Backed, CompletedIsBacked, TypeOK
<1> QED BY <1>1, InvHolds, PTL

\* For any agents and any retry limit, the first agent is called at most
\* retries + 1 times, then at most one other agent once and only if the policy allows
\* a fallback, and none after a success that was recorded (execution.ts:36-91).
THEOREM CallsFollowPolicyHolds == Spec => []CallsFollowPolicy
<1>1. TypeOK /\ IInv => CallsFollowPolicy
  <2> SUFFICES ASSUME TypeOK, IInv PROVE CallsFollowPolicy
    OBVIOUS
  <2>1. DOMAIN calls = 1..Len(calls)
    BY DEF TypeOK
  <2>2. CallInv /\ LogInv
    BY DEF IInv
  <2> QED BY <2>1, <2>2 DEF CallInv, LogInv, CallsFollowPolicy, Primary
<1> QED BY <1>1, InvHolds, PTL

\* The retry count of a row is the number of calls of its agent so far.
LEMMA AttemptCounts ==
  ASSUME TypeOK, CallInv, LogInv, NEW r \in log, r.id # 0
  PROVE  r.attempt = Cardinality({i \in 1..r.id : calls[i].agent = r.agent})
<1> DEFINE S == {i \in 1..r.id : calls[i].agent = r.agent}
<1>1. /\ r.id \in 1..Len(calls) /\ calls[r.id].agent = r.agent /\ Len(calls) \in Nat
      /\ r.attempt = IF r.agent = Primary THEN r.id ELSE 1
  BY DEF LogInv, TypeOK
<1>2. CASE r.agent = Primary
  <2>1. \A i \in 1..r.id : calls[i].agent = Primary
    BY <1>1, <1>2 DEF CallInv
  <2>2. S = 1..r.id
    BY <1>2, <2>1
  <2>3. r.id \in Int /\ r.id >= 1
    BY <1>1
  <2>4. Cardinality(1..r.id) = r.id - 1 + 1
    BY <2>3, FS_Interval
  <2> HIDE DEF S
  <2>5. Cardinality(S) = Cardinality(1..r.id)
    BY <2>2, Zenon
  <2>6. r.attempt = Cardinality(S)
    BY <1>1, <1>2, <2>3, <2>4, <2>5
  <2> QED BY <2>6 DEF S
<1>3. CASE r.agent # Primary
  <2>1. r.id = Len(calls)
    BY <1>1, <1>3 DEF CallInv
  <2>2. \A i \in 1..r.id : i # r.id => calls[i].agent = Primary
    BY <1>1, <2>1 DEF CallInv
  <2>3. S = {r.id}
    BY <1>1, <1>3, <2>2
  <2> QED BY <1>1, <1>3, <2>3, FS_Singleton
<1> QED BY <1>2, <1>3

\* For any agents and any retry limit, execution_log tells of each call at most once,
\* truly and with its retry count, and misses none when routeTask returns
\* (execution.ts:36-91).
THEOREM LogIsTruthfulHolds == Spec => []LogIsTruthful
<1>1. TypeOK /\ IInv => LogIsTruthful
  <2> SUFFICES ASSUME TypeOK, IInv PROVE LogIsTruthful
    OBVIOUS
  <2>1. DOMAIN calls = 1..Len(calls)
    BY DEF TypeOK
  <2>2. \A r \in log : r.id # 0 =>
          r.attempt = Cardinality({i \in 1..r.id : calls[i].agent = r.agent})
    BY AttemptCounts DEF IInv
  <2> QED BY <2>1, <2>2 DEF IInv, LogInv, CountInv, LogIsTruthful
<1> QED BY <1>1, InvHolds, PTL

\* For any agents and any retry limit, the outcome signals agree with the rows of
\* execution_log and with the agent of the row (outcome-collector.ts:44-114).
THEOREM SignalsMatchLogHolds == Spec => []SignalsMatchLog
<1>1. IInv => SignalsMatchLog
  BY DEF IInv, SignalInv
<1> QED BY <1>1, InvHolds, PTL

\* Whatever throws and whoever commits, routeTask does not return with its own rows
\* uncommitted, the evaluation's excepted (router.ts:397-440).
THEOREM RowsAreCommittedHolds == Spec => []RowsAreCommitted
<1>1. Init => RowsAreCommitted
  BY DEF Init, RowsAreCommitted
<1>2. RowsAreCommitted /\ [Next]_vars => RowsAreCommitted'
  <2> SUFFICES ASSUME RowsAreCommitted, [Next]_vars PROVE RowsAreCommitted'
    OBVIOUS
  <2>1. CASE Working
    BY <2>1, WorkingFrame DEF RowsAreCommitted, Chosen, Early, Executing
  <2>2. CASE Ending
    <3>1. step' = "end" => dirty' = {}
      BY <2>2 DEF Ending, WriteTerminal, CollectSignals, RouterCommit, Catch, CatchCommitFails,
                  Goto, Throw, CommitAll
    <3> QED BY <3>1 DEF RowsAreCommitted
  <2>3. CASE Aside
    <3>1. step' = step
      BY <2>3, AsideFrame
    <3>2. dirty' \subseteq dirty \cup {"task_outcome"}
      BY <2>3 DEF Aside, StartEvaluation, FinishEvaluation, FailEvaluation, CommitEvaluation,
                  Cleanup, OtherCommit, Touch, CommitAll
    <3> QED BY <3>1, <3>2 DEF RowsAreCommitted
  <2>4. CASE Crash
    BY <2>4, CrashFrame DEF RowsAreCommitted
  <2>5. CASE UNCHANGED vars
    BY <2>5 DEF vars, dispatchVars, RowsAreCommitted
  <2> QED BY <2>1, <2>2, <2>3, <2>4, <2>5, Cases
<1> QED BY <1>1, <1>2, PTL DEF Spec

\* No step rewrites a final evaluation (task-outcome.ts:89-96).
THEOREM VerdictIsFinalHolds == Spec => VerdictIsFinal
<1>1. TypeOK /\ IInv /\ [Next]_vars => [verdict' # verdict => verdict \in {"none", "pending"}]_vars
  BY VerdictStep DEF IInv
<1> QED BY <1>1, InvHolds, PTL DEF Spec, VerdictIsFinal
------------------------------------------------------------------------------
(* Dispatch implements the abstract job of RouteJob.                            *)
Tried == Executing \cup {"fallback", "synthetic", "terminal"}

\* A statement moves the job on; a throw leaves the row before or after the statement.
LEMMA JobGoes ==
  ASSUME NEW next \in Job!RouteNext(JobAt), JobAt \in Job!RouteStage
  PROVE  /\ JobAt' = next /\ row'.status = Job!Written(next, row.status) => Job!Next
         /\ JobAt' = "catch" /\ row'.status \in {row.status, Job!Written(next, row.status)}
              => Job!Next
<1> HIDE DEF JobAt
<1>1. JobAt' = next /\ row'.status = Job!Written(next, row.status) => Job!Move
  BY DEF Job!Move
<1>2. JobAt' = "catch" /\ row'.status \in {row.status, Job!Written(next, row.status)} => Job!Throw
  BY DEF Job!Throw
<1> QED BY <1>1, <1>2 DEF Job!Next

\* Where the job may go from each of its stages, and what is written on the way.
LEMMA JobPaths ==
  /\ Job!RouteNext("classified") = {"dispatched"}
  /\ Job!RouteNext("dispatched") = {"again", "completed", "failed"}
  /\ Job!RouteNext("again") = {"completed", "failed"}
  /\ Job!RouteNext("completed") = {"done"} /\ Job!RouteNext("failed") = {"done"}
  /\ \A s \in {"dispatched", "again"} : Job!Written(s, row.status) = "DISPATCHED"
  /\ Job!Written("completed", row.status) = "COMPLETED"
  /\ Job!Written("failed", row.status) = "FAILED"
  /\ Job!Written("done", row.status) = row.status
  BY DEF Job!RouteNext, Job!Written

\* The stages of the job by the step of routeTask.
LEMMA JobStages ==
  /\ step = "select" => JobAt = "classified"
  /\ step \in Tried => JobAt = IF exec.fallback THEN "again" ELSE "dispatched"
  /\ step \in {"signals", "commit"} =>
       JobAt = IF row.status = "COMPLETED" THEN "completed" ELSE "failed"
  /\ step = "catch" => JobAt = "catch"
  /\ step \in {"catchCommit", "end", "gaveUp", "dead"} => JobAt = "done"
  BY DEF JobAt, Tried, Executing

\* A step that keeps the row and the stage is a stutter of the job; one that throws out
\* of the try block with the row as it was is its Throw.
LEMMA JobRests ==
  ASSUME row' = row
  PROVE  /\ JobAt' = JobAt => UNCHANGED Job!job
         /\ step \in Tried \cup {"select", "signals", "commit"} /\ step' = "catch" => Job!Next
<1>1. JobAt' = JobAt => UNCHANGED Job!job
  BY DEF Job!job
<1>2. ASSUME step \in Tried \cup {"select", "signals", "commit"}, step' = "catch"
      PROVE  Job!Next
  <2>1. JobAt' = "catch"
    BY <1>2 DEF JobAt
  <2>2. JobAt \in Job!RouteStage \ {"begin"}
    BY <1>2, JobStages DEF Job!RouteStage
  <2>3. PICK next : next \in Job!RouteNext(JobAt)
    BY <2>2, JobPaths DEF Job!RouteStage
  <2> QED BY <2>1, <2>2, <2>3, JobGoes
<1> QED BY <1>1, <1>2

\* The agents are tried: the row is written when an agent is chosen.
LEMMA JobDispatch ==
  ASSUME NEW agent, NEW fallback \in BOOLEAN, DispatchTo(agent, fallback),
         IF fallback THEN step = "fallback" /\ ~exec.fallback ELSE step = "select"
  PROVE  Job!Next
<1> DEFINE next == IF fallback THEN "again" ELSE "dispatched"
<1>1. /\ JobAt \in Job!RouteStage /\ next \in Job!RouteNext(JobAt)
      /\ Job!Written(next, row.status) = "DISPATCHED"
  BY JobStages, JobPaths DEF Tried, Job!RouteStage
<1>2. row'.status = "DISPATCHED" /\ JobAt' \in {next, "catch"}
  BY DispatchEffect DEF JobAt
<1> HIDE DEF next
<1> QED BY <1>1, <1>2, JobGoes

LEMMA JobWorks ==
  ASSUME TypeOK, ChoiceInv, Working
  PROVE  Job!Next \/ UNCHANGED Job!job
<1>1. CASE Select
  <2>1. PICK r \in Ranking : DispatchTo(Head(r), FALSE)
    BY <1>1 DEF Select
  <2>2. step = "select"
    BY <1>1 DEF Select
  <2> QED BY <2>1, <2>2, JobDispatch
<1>2. CASE TryFallback
  <2>1. step = "fallback" /\ ~exec.fallback
    BY <1>2 DEF TryFallback, ChoiceInv
  <2>2. PICK r \in Considered :
          \/ step' = "terminal" /\ exec' = exec /\ row' = row
          \/ DispatchTo(Best(r, FallbackCandidates(r)), TRUE)
    BY <1>2 DEF TryFallback, Goto
  <2>3. CASE step' = "terminal" /\ exec' = exec /\ row' = row
    <3>1. JobAt' = JobAt
      BY <2>1, <2>3 DEF JobAt
    <3> QED BY <2>3, <3>1, JobRests
  <2> DEFINE other == Best(r, FallbackCandidates(r))
  <2> HIDE DEF other
  <2>4. CASE DispatchTo(other, TRUE)
    BY <2>1, <2>4, JobDispatch
  <2> QED BY <2>2, <2>3, <2>4 DEF other
\* The rest keeps the row; the next step is among those that try the same agent.
<1>3. CASE SelectFails \/ Execute \/ InsertSynthetic
  <2>1. /\ row' = row /\ step \in Tried \cup {"select"}
        /\ step' = "catch" \/ (/\ step \in Tried /\ step' \in Tried
                               /\ exec'.fallback = exec.fallback)
    <3>1. CASE SelectFails
      BY <3>1 DEF SelectFails, Throw, Tried
    <3>2. CASE FindAgent
      BY <3>2 DEF FindAgent, Goto, ExecuteThrows, Throw, Tried, Executing
    <3>3. CASE Invoke
      BY <3>3 DEF Invoke, Goto, Tried, Executing, TypeOK
    <3>4. CASE RecordSuccess
      BY <3>4 DEF RecordSuccess, Returned, Goto, Tried, Executing, TypeOK
    <3>5. CASE RecordFailure
      BY <3>5, RecordFailureCases
         DEF Returned, ExecuteThrows, Throw, Goto, Tried, Executing, TypeOK
    <3>6. CASE InsertSynthetic
      BY <3>6 DEF InsertSynthetic, Goto, Throw, Tried
    <3> QED BY <1>3, <3>1, <3>2, <3>3, <3>4, <3>5, <3>6 DEF Execute
  <2>2. CASE step' = "catch"
    BY <2>1, <2>2, JobRests
  <2>3. CASE step \in Tried /\ step' \in Tried /\ exec'.fallback = exec.fallback
    <3>1. JobAt' = JobAt
      BY <2>3 DEF JobAt, Tried, Executing
    <3> QED BY <2>1, <3>1, JobRests
  <2> QED BY <2>1, <2>2, <2>3
<1> QED BY <1>1, <1>2, <1>3 DEF Working

LEMMA JobEnds ==
  ASSUME TypeOK, Ending
  PROVE  Job!Next \/ UNCHANGED Job!job
<1>0. row.status \in {"CLASSIFIED", "DISPATCHED", "COMPLETED", "FAILED"}
  BY DEF TypeOK
<1>1. CASE WriteTerminal
  <2> DEFINE next == IF FinalStatus = "COMPLETED" THEN "completed" ELSE "failed"
  <2>1. step = "terminal" /\ step' \in {"signals", "catch"}
    BY <1>1 DEF WriteTerminal, Goto, Throw
  <2>2. /\ JobAt \in Job!RouteStage /\ next \in Job!RouteNext(JobAt)
        /\ Job!Written(next, row.status) = FinalStatus
    BY <2>1, JobStages, JobPaths DEF Tried, Job!RouteStage, FinalStatus
  <2>3. \/ row' = [row EXCEPT !.status = FinalStatus]
        \/ row' = row /\ step' = "catch"
    BY <1>1 DEF WriteTerminal, Throw
  <2>4. CASE row' = [row EXCEPT !.status = FinalStatus]
    <3>1. row'.status = FinalStatus
      BY <2>4 DEF TypeOK
    <3>2. JobAt' \in {next, "catch"}
      BY <2>1, <3>1 DEF JobAt
    <3> HIDE DEF next
    <3> QED BY <2>2, <3>1, <3>2, JobGoes
  <2>5. CASE row' = row /\ step' = "catch"
    BY <2>1, <2>5, JobRests DEF Tried
  <2> QED BY <2>3, <2>4, <2>5
<1>2. CASE CollectSignals
  <2>1. step = "signals" /\ step' = "commit" /\ row' = row
    BY <1>2 DEF CollectSignals, Goto
  <2>2. JobAt' = JobAt
    BY <2>1 DEF JobAt
  <2> QED BY <2>1, <2>2, JobRests
<1>3. CASE RouterCommit
  <2>1. /\ row' = row
        /\ \/ step = "commit" /\ step' \in {"end", "catch"}
           \/ step = "catchCommit" /\ step' = "end"
    BY <1>3 DEF RouterCommit, Goto, Throw, tables
  <2>2. CASE step = "commit" /\ step' = "end"
    <3>1. /\ JobAt \in Job!RouteStage /\ "done" \in Job!RouteNext(JobAt)
          /\ Job!Written("done", row.status) = row.status
      BY <2>2, JobStages, JobPaths DEF Job!RouteStage
    <3>2. JobAt' = "done"
      BY <2>2 DEF JobAt
    <3> QED BY <2>1, <3>1, <3>2, JobGoes
  <2>3. CASE step = "commit" /\ step' = "catch"
    BY <2>1, <2>3, JobRests
  <2>4. CASE step = "catchCommit" /\ step' = "end"
    <3>1. JobAt' = JobAt
      BY <2>4 DEF JobAt
    <3> QED BY <2>1, <3>1, JobRests
  <2> QED BY <2>1, <2>2, <2>3, <2>4
<1>4. CASE Catch
  <2>1. /\ step = "catch" /\ step' = "catchCommit"
        /\ row' = row \/ row' = [row EXCEPT !.status = "FAILED"]
    BY <1>4 DEF Catch, Goto
  <2>2. row'.status \in {row.status, "FAILED"}
    BY <2>1 DEF TypeOK
  <2>3. JobAt = "catch" /\ JobAt' = "done"
    BY <2>1 DEF JobAt
  <2> QED BY <2>2, <2>3 DEF Job!Catch, Job!Next
<1>5. CASE CatchCommitFails
  <2>1. step = "catchCommit" /\ step' = "gaveUp" /\ row' = row
    BY <1>5 DEF CatchCommitFails, Goto, tables
  <2>2. JobAt' = JobAt
    BY <2>1 DEF JobAt
  <2> QED BY <2>1, <2>2, JobRests
<1> QED BY <1>1, <1>2, <1>3, <1>4, <1>5 DEF Ending

LEMMA JobStep ==
  ASSUME TypeOK, ChoiceInv, [Next]_vars
  PROVE  [Job!Next]_(Job!job)
<1>1. CASE Working
  BY <1>1, JobWorks
<1>2. CASE Ending
  BY <1>2, JobEnds
<1>3. CASE Aside \/ UNCHANGED vars
  <2>1. row' = row /\ step' = step /\ exec' = exec
    BY <1>3, AsideFrame
  <2>2. JobAt' = JobAt
    BY <2>1 DEF JobAt
  <2> QED BY <2>1, <2>2, JobRests
<1>4. CASE Crash
  <2>1. row' = row /\ JobAt' = "done"
    BY <1>4, CrashFrame DEF JobAt
  <2> QED BY <2>1 DEF Job!Die, Job!Next
<1> QED BY <1>1, <1>2, <1>3, <1>4, Cases

\* For any agents and any retry limit, routeTask with its attempts, its fallback and its
\* throws does to the row of its task only what the job of TaskWorker does: it writes
\* the statuses in that order, and a throw or a crash leaves the row before or after a
\* statement (router.ts:190-471).
THEOREM JobImplemented == Spec => ImplementsJob
<1>1. Init => Job!Init
  BY DEF Init, Job!Init, JobAt
<1>2. TypeOK /\ IInv /\ [Next]_vars => [Job!Next]_(Job!job)
  BY JobStep DEF IInv
<1> QED BY <1>1, <1>2, InvHolds, PTL DEF Spec, Job!Spec, ImplementsJob
==============================================================================
