------------------------------- MODULE Migrate -------------------------------
(* runMigrations (src/db/migrate.ts): execute the migration files that           *)
(* migrations_applied does not list, in order, and list each one.  DDL commits   *)
(* by itself, so a run can end between any two statements; the operator starts   *)
(* the next one.  Files change only between two runs.                            *)
EXTENDS Naturals

CONSTANTS NumFiles,         \* bound: how many migration files there will ever be
          NumStmts,         \* statements per file
          MaxVersion,       \* bound: contents a file can have, one SHA-256 each
          Plain,            \* statements <<f, i>> that fail when executed again
          Tolerated,        \* TOLERATED_DRIFT: pairs <<f, old version>>
          Legacy,           \* file counts of databases older than the tracking
          MaxFailures,      \* bound: crashes and failing statements
          FirstFileFails,   \* may a run end with 001's table there, nothing tracked?
          UpgradeAddsFiles  \* may an old database meet files it has not applied?

File    == 1..NumFiles      \* in the order of sort()
Stmt    == 1..NumStmts
Version == 1..MaxVersion
None    == 0                \* no such file or no such row

ASSUME MigrateAssumption ==
  /\ NumFiles \in Nat \ {0} /\ NumStmts \in Nat \ {0} /\ MaxVersion \in Nat \ {0}
  /\ Plain \subseteq File \X Stmt /\ Tolerated \subseteq File \X Version
  /\ Legacy \subseteq 0..NumFiles /\ MaxFailures \in Nat
  /\ FirstFileFails \in BOOLEAN /\ UpgradeAddsFiles \in BOOLEAN

VARIABLES disk,      \* disk[f]: the version of f in MIGRATIONS_DIR, or None
          done,      \* done[f]: the statements of f whose effect is in the schema
          tracked,   \* tracked[f]: the version migrations_applied records, or None
          run,       \* the local variables of the run in progress
          failures   \* runs that have ended early

vars == <<disk, done, tracked, run, failures>>
dbVars == <<done, tracked>>

OnDisk == {f \in File : disk[f] # None}
NothingTracked == \A f \in File : tracked[f] = None
\* agent_registry exists, the table of the first statement of 001.
LegacySchemaExists == 1 \in done[1]
OldDatabase == NothingTracked /\ LegacySchemaExists

\* at: the next awaited call; applied: what loadAppliedRows returned;
\* file, stmt: where the loops stand.
Stage  == {"off", "load", "legacy", "backfill", "file", "rehash", "exec", "record", "ok", "drifted"}
RunOff == [at |-> "off", applied |-> [f \in File |-> None], file |-> 1, stmt |-> 1]
RunFrame == UNCHANGED <<disk, failures>>
Goto(stage) == run' = [run EXCEPT !.at = stage]
NextFile == run' = [run EXCEPT !.at = "file", !.file = @ + 1]

------------------------------------------------------------------------------
\* readdir, then CREATE TABLE IF NOT EXISTS migrations_applied.
Begin ==
  /\ run.at = "off"
  /\ Goto("load")
  /\ UNCHANGED dbVars /\ RunFrame

LoadAppliedRows ==
  /\ run.at = "load"
  /\ run' = [run EXCEPT !.applied = tracked, !.at = IF NothingTracked THEN "legacy" ELSE "file"]
  /\ UNCHANGED dbVars /\ RunFrame

CheckLegacy ==
  /\ run.at = "legacy"
  /\ Goto(IF LegacySchemaExists THEN "backfill" ELSE "file")
  /\ UNCHANGED dbVars /\ RunFrame

\* One multi-row INSERT stamps every file on disk.  Mutant: row by row, the
\* failure of a later row leaving the earlier ones.
BackfillRowsSome == {[f \in File |-> IF f \in S THEN disk[f] ELSE None] : S \in SUBSET OnDisk}
BackfillRows == {disk}
Backfill ==
  /\ run.at = "backfill"
  /\ tracked' \in BackfillRows
  /\ Goto("ok")
  /\ UNCHANGED done /\ RunFrame

\* What the loop does with a file.  Mutant: every edit is tolerated.
VerdictTolerant(f) ==
  CASE run.applied[f] = None    -> "exec"
    [] run.applied[f] = disk[f] -> "skip"
    [] OTHER                    -> "rehash"
Verdict(f) ==
  CASE run.applied[f] = None    -> "exec"
    [] run.applied[f] = disk[f] -> "skip"
    [] OTHER -> IF <<f, run.applied[f]>> \in Tolerated THEN "rehash" ELSE "drifted"

\* Top of the loop, for the file it stands at.
VisitFile ==
  /\ run.at = "file" /\ run.file \in File
  /\ IF run.file \notin OnDisk \/ Verdict(run.file) = "skip" THEN NextFile
     ELSE run' = [run EXCEPT !.at = Verdict(run.file), !.stmt = 1]
  /\ UNCHANGED dbVars /\ RunFrame

AllVisited ==
  /\ run.at = "file" /\ run.file \notin File
  /\ Goto("ok")
  /\ UNCHANGED dbVars /\ RunFrame

\* UPDATE migrations_applied SET sha256 of a tolerated edit.
Rehash ==
  /\ run.at = "rehash"
  /\ tracked' = [tracked EXCEPT ![run.file] = disk[run.file]]
  /\ NextFile
  /\ UNCHANGED done /\ RunFrame

\* Executing a statement again fails with a duplicate-table, -column or -key error
\* when it is a plain one.  Mutant: the error is not caught.
SkipsDuplicatesNever == FALSE
SkipsDuplicates == TRUE
\* The loop over the statements of a file ends.  Mutant: after the first one.
EndOfFileEarly == TRUE
EndOfFile == run.stmt = NumStmts
NextStmt == run' = IF EndOfFile THEN [run EXCEPT !.at = "record", !.stmt = 1]
                                ELSE [run EXCEPT !.stmt = @ + 1]
ExecStatement ==
  /\ run.at = "exec"
  /\ done' = [done EXCEPT ![run.file] = @ \cup {run.stmt}]
  /\ IF run.stmt \in done[run.file] /\ <<run.file, run.stmt>> \in Plain /\ ~SkipsDuplicates
     THEN run' = RunOff ELSE NextStmt
  /\ UNCHANGED tracked /\ RunFrame

\* INSERT INTO migrations_applied.
Record ==
  /\ run.at = "record"
  /\ tracked' = [tracked EXCEPT ![run.file] = disk[run.file]]
  /\ NextFile
  /\ UNCHANGED done /\ RunFrame

\* runMigrations returned or threw the drift error: the process exits.
Return ==
  /\ run.at \in {"ok", "drifted"}
  /\ run' = RunOff
  /\ UNCHANGED dbVars /\ RunFrame

\* A crash, or a statement that fails, applied or not: the run ends.
AfterFailure == RunOff
Fail ==
  /\ run.at \notin {"off", "ok", "drifted"} /\ failures < MaxFailures
  /\ OldDatabase /\ run.at \in {"exec", "record"} => FirstFileFails
  /\ run' = AfterFailure /\ failures' = failures + 1
  /\ UNCHANGED <<disk, done, tracked>>

RunStep == \/ LoadAppliedRows \/ CheckLegacy \/ Backfill \/ VisitFile \/ AllVisited
           \/ Rehash \/ ExecStatement \/ Record \/ Return

------------------------------------------------------------------------------
(* What developers do to the directory while no run is in progress.              *)
Known(f) == disk[f] # None \/ tracked[f] # None
Between  == run.at = "off" /\ UNCHANGED <<dbVars, run, failures>>

\* A new migration gets the next number.
AddFile(f) ==
  /\ OldDatabase => UpgradeAddsFiles
  /\ \A g \in File : Known(g) <=> g < f
  /\ disk' = [disk EXCEPT ![f] = 1]
  /\ Between

EditFile(f) ==
  /\ disk[f] # None
  /\ \E v \in Version \ {disk[f]} : disk' = [disk EXCEPT ![f] = v]
  /\ Between

\* An applied migration is archived: the run only warns.
RemoveFile(f) ==
  /\ disk[f] # None /\ tracked[f] # None
  /\ disk' = [disk EXCEPT ![f] = None]
  /\ Between

\* An empty database, or one that applied the first k files before migrations were tracked.
Init ==
  /\ \E k \in Legacy :
       /\ done = [f \in File |-> IF f <= k THEN Stmt ELSE {}]
       /\ \E n \in File : /\ k <= n /\ (k \in {0, n} \/ UpgradeAddsFiles)
                          /\ disk = [f \in File |-> IF f <= n THEN 1 ELSE None]
  /\ tracked = [f \in File |-> None]
  /\ run = RunOff /\ failures = 0

Next == \/ Begin \/ RunStep \/ Fail
        \/ \E f \in File : AddFile(f) \/ EditFile(f) \/ RemoveFile(f)

Spec == Init /\ [][Next]_vars
\* The operator, or a deployment, keeps running the migrations; calls return.
FairSpec == Spec /\ WF_vars(Begin) /\ WF_vars(RunStep)

------------------------------------------------------------------------------
\* The types of the directory, the two tables and the run.
TypeOK ==
  /\ disk \in [File -> Version \cup {None}]
  /\ done \in [File -> SUBSET Stmt]
  /\ tracked \in [File -> Version \cup {None}]
  /\ run \in [at : Stage, applied : [File -> Version \cup {None}],
              file : 1..(NumFiles + 1), stmt : Stmt]
  /\ failures \in Nat

\* A migration that migrations_applied lists is in the schema, all of it: no
\* backfill and no failed run leaves a file behind that will never be executed
\* (migrate.ts:201-208, 263-269).
RecordedIsApplied == \A f \in File : tracked[f] # None => done[f] = Stmt

\* A run that succeeds leaves every file on disk recorded with its present hash.
SuccessIsConsistent ==
  run.at = "ok" => \A f \in OnDisk : tracked[f] = disk[f]

\* A recorded file is not executed again, and its hash is replaced only for an
\* edit on the list of tolerated ones.
HashIsPinned ==
  [][\A f \in File : tracked[f] # None =>
       /\ done'[f] = done[f] /\ ~(run.at = "exec" /\ run.file = f /\ run' # run)
       /\ tracked'[f] # tracked[f] => <<f, tracked[f]>> \in Tolerated]_vars

\* No failure wedges the database: once the directory stays as it is, the schema
\* catches up with it, or every run from then on reports the drift.
Converges ==
  <>[][disk' = disk]_vars =>
    \/ <>[](\A f \in OnDisk : tracked[f] = disk[f] /\ done[f] = Stmt)
    \/ []<>(run.at = "drifted")
==============================================================================
