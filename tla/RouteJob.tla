------------------------------ MODULE RouteJob ------------------------------
(* One routeTask as whoever reads task_log sees it: where it stands and the      *)
(* status of its row.  The jobs of TaskWorker take these steps by definition;    *)
(* Dispatch and SessionMemory, which say what happens between the statements,    *)
(* implement them.                                                               *)
EXTENDS RouteSteps

CONSTANT JobsMayOutliveAge  \* may a live job run longer than the recovery age?

VARIABLES at, status
job == <<at, status>>

Final == {"COMPLETED", "FAILED"}
Init  == <<at, status>> \in {<<"begin", "RECEIVED">>, <<"classified", "CLASSIFIED">>}

\* A statement on the row, or the final commit.
Move ==
  /\ at \in RouteStage
  /\ at' \in RouteNext(at) /\ status' = Written(at', status)

\* An awaited call throws, its statement applied or not.
Throw ==
  /\ at \in RouteStage /\ at' = "catch"
  /\ status' \in {status} \cup {Written(next, status) : next \in RouteNext(at)}

\* markFailed in the catch block, best-effort.
Catch == at = "catch" /\ at' = "done" /\ status' \in {status, "FAILED"}

\* The process dies; later the reaper fails the row it left in flight.  Once jobs
\* outlive the recovery age it fails the row of a live job as well, and late: the
\* UPDATE does not look at the status again (recordWorkerError).
Die  == at' = "done" /\ UNCHANGED status
Reap ==
  /\ JobsMayOutliveAge \/ (at = "done" /\ status \notin Final)
  /\ status' = "FAILED" /\ UNCHANGED at

Next == Move \/ Throw \/ Catch \/ Die \/ Reap
Spec == Init /\ [][Next]_job
==============================================================================
