------------------------------ MODULE TaskReaper ------------------------------
(* The crash-recovery sweep (src/services/task-reaper.ts): offer every QUEUED    *)
(* row to the worker page by page, fail the rows stuck in flight, null expired   *)
(* prompts.  setInterval does not wait for a sweep, so sweeps may overlap.       *)
EXTENDS TaskWorker

CONSTANTS Sweep,      \* sweeps that can be running at the same time
          Retention   \* promptRetentionDays() is not null

VARIABLE sweep    \* sweep[w]: the local state of the sweep w

SweepStage == {"off", "page", "rows", "blank", "findStale", "markStale", "purge"}
\* rows: rows of the page not yet visited; blank: those read with a NULL prompt;
\* full: the page had PageSize rows; cursor: its last id;
\* draining: the worker has taken every row offered; stale: findStale's ids.
SweepState == [at : SweepStage, rows : SUBSET Task, blank : SUBSET Task,
               full : BOOLEAN, cursor : Nat, draining : BOOLEAN, stale : SUBSET Task]
SweepOff == [at |-> "off", rows |-> {}, blank |-> {}, full |-> FALSE,
             cursor |-> 0, draining |-> TRUE, stale |-> {}]

\* The first phase is over; d is the value of draining.
FindStaleNext(w, d) ==
  sweep' = [sweep EXCEPT ![w] = [SweepOff EXCEPT !.at = "findStale", !.draining = d]]
SweepFrame == UNCHANGED <<inflight, slot, stopping, drain, runs>>
QueueFrame == UNCHANGED <<queue, tracked, pumpDue>>
SweepAt(w, stage) == turn = "idle" /\ sweep[w].at = stage
SweepGoto(w, stage) == sweep' = [sweep EXCEPT ![w].at = stage]
FirstOf(S) == CHOOSE t \in S : \A u \in S : t <= u
LastOf(S)  == CHOOSE t \in S : \A u \in S : u <= t

SweepStart(w) ==
  /\ SweepAt(w, "off")
  /\ sweep' = [sweep EXCEPT ![w] = [SweepOff EXCEPT !.at = "page"]]
  /\ UNCHANGED <<row, turn, faults>> /\ QueueFrame /\ SweepFrame

\* findQueuedPage: the page is a snapshot, visited in a later turn.
SweepPage(w) ==
  /\ SweepAt(w, "page")
  /\ \/ /\ NoFault
        /\ LET page == FindQueuedPage(sweep[w].cursor)
           IN  IF page = {} THEN FindStaleNext(w, TRUE)
               ELSE sweep' = [sweep EXCEPT ![w] =
                      [@ EXCEPT !.at = "rows", !.rows = page,
                                !.blank = {t \in page : ~row[t].prompt},
                                !.full = (Cardinality(page) >= PageSize),
                                !.cursor = LastOf(page)]]
     \/ Fault /\ FindStaleNext(w, TRUE)
  /\ UNCHANGED <<row, turn>> /\ QueueFrame /\ SweepFrame

\* One iteration of the for loop over the page.  The loop keeps the thread until
\* it awaits (a row without prompt), stops early or ends.
SweepRow(w) ==
  LET t == FirstOf(sweep[w].rows) IN
  /\ turn \in {"idle", w} /\ sweep[w].at = "rows" /\ sweep[w].rows # {}
  /\ \/ /\ t \in sweep[w].blank
        /\ SweepGoto(w, "blank")
        /\ turn' = "idle"
        /\ QueueFrame
     \/ /\ t \notin sweep[w].blank /\ ~CanAccept
        /\ FindStaleNext(w, FALSE)
        /\ turn' = "idle"
        /\ QueueFrame
     \/ /\ t \notin sweep[w].blank /\ CanAccept
        /\ Enqueue(t)
        /\ sweep' = [sweep EXCEPT ![w].rows = @ \ {t}]
        /\ turn' = w
  /\ UNCHANGED <<row, faults>> /\ SweepFrame

\* recordWorkerError(queued_without_prompt), best-effort, for the row of the page.
SweepBlank(w) ==
  LET t == FirstOf(sweep[w].rows) IN
  /\ SweepAt(w, "blank") /\ sweep[w].rows # {}
  /\ \/ NoFault /\ RecordWorkerError(t)
     \/ Fault /\ UNCHANGED row
  /\ sweep' = [sweep EXCEPT ![w].at = "rows", ![w].rows = @ \ {t}]
  /\ UNCHANGED turn /\ QueueFrame /\ SweepFrame

\* After the loop: a short page ends the first phase, a full one asks for more.
\* Mutant: one page per sweep.
MorePagesNever(w) == FALSE
MorePages(w) == sweep[w].full
SweepPageEnd(w) ==
  /\ turn \in {"idle", w} /\ sweep[w].at = "rows" /\ sweep[w].rows = {}
  /\ IF MorePages(w) THEN SweepGoto(w, "page") ELSE FindStaleNext(w, TRUE)
  /\ turn' = "idle"
  /\ UNCHANGED <<row, faults>> /\ QueueFrame /\ SweepFrame

SweepFindStale(w) ==
  /\ SweepAt(w, "findStale")
  /\ \/ NoFault /\ sweep' = [sweep EXCEPT ![w] = [@ EXCEPT !.at = "markStale", !.stale = FindStale]]
     \/ Fault /\ SweepGoto(w, "markStale")
  /\ UNCHANGED <<row, turn>> /\ QueueFrame /\ SweepFrame

\* recordWorkerError(worker_crashed) for one id; an error only skips the id.
SweepMarkStale(w, t) ==
  /\ SweepAt(w, "markStale") /\ t \in sweep[w].stale
  /\ \/ NoFault /\ RecordWorkerError(t)
     \/ Fault /\ UNCHANGED row
  /\ sweep' = [sweep EXCEPT ![w].stale = @ \ {t}]
  /\ UNCHANGED turn /\ QueueFrame /\ SweepFrame

\* Branch pruning is not modelled here; purging is skipped when disabled.
SweepStaleDone(w) ==
  /\ SweepAt(w, "markStale") /\ sweep[w].stale = {}
  /\ sweep' = [sweep EXCEPT ![w] = IF Retention THEN [SweepOff EXCEPT !.at = "purge"] ELSE SweepOff]
  /\ UNCHANGED <<row, turn, faults>> /\ QueueFrame /\ SweepFrame

\* purgeExpiredPrompts: the rows past the retention window are the oldest ones.
SweepPurge(w) ==
  /\ SweepAt(w, "purge")
  /\ \E oldest \in Task \cup {0} :
       PurgeExpiredPrompts({t \in Task : t <= oldest /\ Exists(t)})
  /\ sweep' = [sweep EXCEPT ![w] = SweepOff]
  /\ UNCHANGED <<turn, faults>> /\ QueueFrame /\ SweepFrame

SweepStep(w) ==
  \/ SweepPage(w) \/ SweepRow(w) \/ SweepBlank(w) \/ SweepPageEnd(w)
  \/ SweepFindStale(w) \/ (\E t \in Task : SweepMarkStale(w, t))
  \/ SweepStaleDone(w) \/ SweepPurge(w)

SweepsOff   == \A w \in Sweep : sweep[w].at = "off"
ReaperReset == sweep' = [w \in Sweep |-> SweepOff]
ReaperTypeOK == sweep \in [Sweep -> SweepState]
ReaperInit  == sweep = [w \in Sweep |-> SweepOff]
==============================================================================
