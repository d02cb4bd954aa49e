------------------------------ MODULE TaskIntake ------------------------------
(* POST /tasks (src/api/routes/tasks.ts): check for room, INSERT the QUEUED row, *)
(* hand the job to the worker, and take the row back when the worker refuses.    *)
(* Each request has its own task id, so a handler is named by its task.          *)
EXTENDS TaskWorker

VARIABLE client    \* client[t]: where the handler of t is, then what it answered

Handling == {"insert", "enqueue", "refuse"}
Answer   == {"busy",       \* 429 before any row exists
             "accepted",   \* 202
             "error",      \* the INSERT threw: the generic error response
             "refused",    \* 429/503 with status FAILED
             "warned",     \* 429/503 with status QUEUED and the warning
             "lost"}       \* the process died first
Client   == {"none"} \cup Handling \cup Answer

HandlerFrame == UNCHANGED <<inflight, slot, stopping, drain, turn, runs>>
Handler(t, at) == turn = "idle" /\ client[t] = at
Answers(t, a)  == client' = [client EXCEPT ![t] = a]

\* canAccept() is the pre-flight check; the INSERT is issued in the same turn.
Post(t) ==
  /\ Handler(t, "none")
  /\ Answers(t, IF CanAccept THEN "insert" ELSE "busy")
  /\ UNCHANGED <<row, queue, tracked, pumpDue, faults>> /\ HandlerFrame

Insert(t) ==
  /\ Handler(t, "insert")
  /\ \/ NoFault /\ CreateQueued(t) /\ Answers(t, "enqueue")
     \/ Fault /\ Answers(t, "error") /\ (UNCHANGED row \/ CreateQueued(t))
  /\ UNCHANGED <<queue, tracked, pumpDue>> /\ HandlerFrame

\* The continuation after the INSERT; another turn may have run since.
HandOver(t) ==
  /\ Handler(t, "enqueue")
  /\ Enqueue(t)
  /\ Answers(t, IF EnqueueResult(t) = "ok" THEN "accepted" ELSE "refuse")
  /\ UNCHANGED <<row, faults>> /\ HandlerFrame

\* Mark the refused row FAILED; when that fails too, answer with the warning.
Refuse(t) ==
  /\ Handler(t, "refuse")
  /\ \/ NoFault /\ RecordWorkerError(t) /\ Answers(t, "refused")
     \/ Fault /\ Answers(t, "warned") /\ (UNCHANGED row \/ RecordWorkerError(t))
  /\ UNCHANGED <<queue, tracked, pumpDue>> /\ HandlerFrame

HandlerStep(t) == Insert(t) \/ HandOver(t) \/ Refuse(t)
NoHandler == \A t \in Task : client[t] \notin Handling

IntakeReset == client' = [t \in Task |-> IF client[t] \in Handling THEN "lost" ELSE client[t]]
IntakeTypeOK == client \in [Task -> Client]
IntakeInit  == client = [t \in Task |-> "none"]
==============================================================================
