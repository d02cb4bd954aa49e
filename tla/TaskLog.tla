------------------------------- MODULE TaskLog -------------------------------
(* The task_log table, reduced to the columns that decide who may run a task    *)
(* and what a poller reads (src/repositories/task-log.ts).  Every statement is  *)
(* one SQL UPDATE or INSERT, hence one step of the database.                    *)
EXTENDS Naturals, FiniteSets

CONSTANTS NumTasks,   \* bound: how many tasks there can be
          PageSize    \* queuedPageSize(): rows per findQueuedPage

ASSUME TaskAssumption     == NumTasks \in Nat \ {0}
ASSUME PageSizeAssumption == PageSize \in Nat \ {0}

\* The ids in (created_at, task_id) order, the order of the index and of paging.
Task == 1..NumTasks

VARIABLE row    \* row[t]: the task_log row of t

InFlight == {"RECEIVED", "CLASSIFIED", "DISPATCHED"}
Terminal == {"COMPLETED", "FAILED"}
Status   == {"QUEUED"} \cup InFlight \cup Terminal

\* prompt: the column is not NULL.
\* stale: worker_started_at lies further back than the recovery age.
Row == [status : Status \cup {"absent"}, prompt : BOOLEAN, stale : BOOLEAN]

NoRow == [status |-> "absent", prompt |-> FALSE, stale |-> FALSE]

Exists(t)   == row[t].status # "absent"
Queued(t)   == row[t].status = "QUEUED"
Running(t)  == row[t].status \in InFlight
Done(t)     == row[t].status \in Terminal    \* what GET /tasks/:id reports as done

\* The WHERE clause of findStale.  Mutant: a row stranded before dispatch is missed.
IsStaleDispatched(t) == row[t].status = "DISPATCHED" /\ row[t].stale
IsStale(t) == Running(t) /\ row[t].stale

\* The WHERE clause of claimQueued.  Mutant: WHERE task_id = ? alone.
ClaimableAny(t) == Exists(t)
Claimable(t) == Queued(t)

------------------------------------------------------------------------------
CreateQueued(t) ==
  row' = [row EXCEPT ![t] = [status |-> "QUEUED", prompt |-> TRUE, stale |-> FALSE]]

\* The SET clause of claimQueued.
PickUp(t) == row' = [row EXCEPT ![t].status = "RECEIVED", ![t].stale = FALSE]

\* No writer below looks at the status it replaces: WHERE task_id = ? only.
SetStatus(t, s)      == row' = [row EXCEPT ![t].status = s]
MarkFailed(t)        == SetStatus(t, "FAILED")

RecordWorkerError(t) == SetStatus(t, "FAILED")

\* Keyset paging: the first PageSize QUEUED rows behind the cursor.
FindQueuedPage(after) ==
  LET behind == {t \in Task : Queued(t) /\ t > after}
  IN  {t \in behind : Cardinality({u \in behind : u < t}) < PageSize}

\* Mutant: no age condition, every row in flight is taken for a crashed one.
FindStaleAnyAge == {t \in Task : Running(t)}
FindStale == {t \in Task : IsStale(t)}

\* prompt = NULL for the rows of old; status is not consulted.
PurgeExpiredPrompts(old) ==
  row' = [t \in Task |-> IF t \in old THEN [row[t] EXCEPT !.prompt = FALSE] ELSE row[t]]

LogTypeOK == row \in [Task -> Row]

LogInit == row = [t \in Task |-> NoRow]
==============================================================================
