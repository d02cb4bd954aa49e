------------------------------ MODULE RouteSteps ------------------------------
(* The statements that one routeTask makes on the row of its task, and their     *)
(* order (src/router/router.ts).  A stage is named after the last of them that    *)
(* has returned, like the local variable status of the code.                      *)

\* Inside the try block; "again": the row was dispatched to a fallback agent.
RouteStage == {"begin", "classified", "dispatched", "again", "completed", "failed"}
\* "catch" is the catch block, "done" stands for having returned.
LiveStage  == RouteStage \cup {"catch"}

\* What may come next.  The calls to the providers in between write no row.
\* Mutant: a failure without a fallback agent returns without markFailed.
RouteNextForgetsFailure(stage) ==
  CASE stage = "begin"                   -> {"classified"}
    [] stage = "classified"              -> {"dispatched"}
    [] stage = "dispatched"              -> {"again", "completed", "done"}
    [] stage = "again"                   -> {"completed", "failed"}
    [] stage \in {"completed", "failed"} -> {"done"}
RouteNext(stage) ==
  CASE stage = "begin"                   -> {"classified"}
    [] stage = "classified"              -> {"dispatched"}
    [] stage = "dispatched"              -> {"again", "completed", "failed"}
    [] stage = "again"                   -> {"completed", "failed"}
    [] stage \in {"completed", "failed"} -> {"done"}

\* The status of the row after the statement that leads to next; the last step,
\* routerCommit, leaves it as it was.
Written(next, status) ==
  CASE next = "classified"              -> "CLASSIFIED"
    [] next \in {"dispatched", "again"} -> "DISPATCHED"
    [] next = "completed"               -> "COMPLETED"
    [] next = "failed"                  -> "FAILED"
    [] OTHER                            -> status
==============================================================================
