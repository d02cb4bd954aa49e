---------------------------- MODULE MigrateProofs ----------------------------
(* Proofs about runMigrations, for any number of files, statements and versions. *)
EXTENDS Migrate, TLAPS

Visiting == {"file", "rehash", "exec", "record"}

\* applied, read once at the start of the run, still agrees with the table where
\* the loop has not been: the run itself is the only writer.
SnapshotInv ==
  /\ run.at \in {"legacy", "backfill"} =>
       run.applied = tracked /\ NothingTracked /\ run.file = 1
  /\ run.at \in Visiting =>
       \A f \in File : f >= run.file => run.applied[f] = tracked[f]

\* Where the loop has been, the table agrees with the directory.
VisitedInv ==
  /\ run.at \in Visiting =>
       \A f \in OnDisk : f < run.file => tracked[f] = disk[f]
  /\ SuccessIsConsistent

\* What the run knows of the file it works on.
FileInv ==
  /\ run.at \in {"rehash", "exec", "record"} => run.file \in OnDisk
  /\ run.at = "rehash" =>
       tracked[run.file] # None /\ <<run.file, tracked[run.file]>> \in Tolerated
  /\ run.at \in {"exec", "record"} => tracked[run.file] = None
  /\ run.at = "off" => run = RunOff
  /\ run.at = "load" => run.file = 1

RunInv == TypeOK /\ SnapshotInv /\ VisitedInv /\ FileInv

------------------------------------------------------------------------------
LEMMA Versions ==
  Version \subseteq Nat /\ None \notin Version /\ 1 \in Version /\ 1 \in File
  /\ 1 \in Stmt /\ File \subseteq Nat
BY MigrateAssumption DEF Version, None, File, Stmt

LEMMA RunOffType == RunOff \in [at : Stage, applied : [File -> Version \cup {None}],
                                file : 1..(NumFiles + 1), stmt : Stmt]
BY Versions, MigrateAssumption DEF RunOff, Stage, None, Stmt

LEMMA InitRunInv == Init => RunInv
<1> SUFFICES ASSUME Init PROVE RunInv
  OBVIOUS
<1>1. PICK k \in Legacy :
        /\ done = [f \in File |-> IF f <= k THEN Stmt ELSE {}]
        /\ \E n \in File : /\ k <= n /\ (k \in {0, n} \/ UpgradeAddsFiles)
                           /\ disk = [f \in File |-> IF f <= n THEN 1 ELSE None]
  BY DEF Init
<1>2. PICK n \in File : disk = [f \in File |-> IF f <= n THEN 1 ELSE None]
  BY <1>1
<1>3. TypeOK
  BY <1>1, <1>2, Versions, RunOffType DEF Init, TypeOK, None
<1> QED
  BY <1>3 DEF Init, RunInv, RunOff, SnapshotInv, VisitedInv, FileInv,
     SuccessIsConsistent, Visiting

------------------------------------------------------------------------------
LEMMA BeginStep == RunInv /\ Begin => RunInv'
<1> SUFFICES ASSUME RunInv, Begin PROVE RunInv'
  OBVIOUS
<1>1. TypeOK'
  BY DEF RunInv, TypeOK, Begin, Goto, RunFrame, dbVars, Stage
<1>2. run'.at = "load" /\ run'.file = 1
  BY Versions DEF RunInv, TypeOK, FileInv, Begin, Goto, RunOff
<1> QED
  BY <1>1, <1>2 DEF RunInv, SnapshotInv, VisitedInv, FileInv, SuccessIsConsistent,
     Visiting

LEMMA LoadStep == RunInv /\ LoadAppliedRows => RunInv'
<1> SUFFICES ASSUME RunInv, LoadAppliedRows PROVE RunInv'
  OBVIOUS
<1>1. UNCHANGED <<disk, done, tracked, failures>> /\ run.file = 1
  BY DEF LoadAppliedRows, RunFrame, dbVars, RunInv, FileInv
<1>2. /\ run'.at = IF NothingTracked THEN "legacy" ELSE "file"
      /\ run'.applied = tracked /\ run'.file = 1
  BY <1>1 DEF LoadAppliedRows, RunInv, TypeOK
<1>3. TypeOK'
  BY <1>1 DEF LoadAppliedRows, RunInv, TypeOK, Stage
<1>4. SnapshotInv'
  BY <1>1, <1>2 DEF SnapshotInv, Visiting, NothingTracked
<1>5. \A f \in OnDisk' : ~(f < 1)
  BY DEF OnDisk, File
<1> QED
  BY <1>2, <1>3, <1>4, <1>5 DEF RunInv, VisitedInv, FileInv, SuccessIsConsistent, Visiting

LEMMA LegacyStep == RunInv /\ CheckLegacy => RunInv'
<1> SUFFICES ASSUME RunInv, CheckLegacy PROVE RunInv'
  OBVIOUS
<1>1. /\ UNCHANGED <<disk, done, tracked, failures>>
      /\ run.file = 1 /\ run.applied = tracked /\ NothingTracked
  BY DEF CheckLegacy, RunFrame, dbVars, RunInv, SnapshotInv
<1>2. /\ run'.at = IF LegacySchemaExists THEN "backfill" ELSE "file"
      /\ run'.applied = tracked /\ run'.file = 1
  BY <1>1 DEF CheckLegacy, Goto, RunInv, TypeOK
<1>3. TypeOK'
  BY <1>1 DEF CheckLegacy, Goto, RunInv, TypeOK, Stage
<1>4. SnapshotInv'
  BY <1>1, <1>2 DEF SnapshotInv, Visiting, NothingTracked
<1>5. \A f \in OnDisk' : ~(f < 1)
  BY DEF OnDisk, File
<1> QED
  BY <1>2, <1>3, <1>4, <1>5 DEF RunInv, VisitedInv, FileInv, SuccessIsConsistent, Visiting

LEMMA BackfillStep == RunInv /\ Backfill => RunInv'
<1> SUFFICES ASSUME RunInv, Backfill PROVE RunInv'
  OBVIOUS
<1>1. TypeOK'
  BY DEF Backfill, BackfillRows, Goto, RunInv, TypeOK, RunFrame, Stage
<1>2. run'.at = "ok" /\ tracked' = disk /\ disk' = disk
  BY DEF Backfill, BackfillRows, Goto, RunInv, TypeOK, RunFrame
<1> QED
  BY <1>1, <1>2 DEF RunInv, SnapshotInv, VisitedInv, FileInv, SuccessIsConsistent,
     Visiting, OnDisk

LEMMA NextFileType ==
  TypeOK /\ run.file \in File /\ NextFile =>
    run' \in [at : Stage, applied : [File -> Version \cup {None}],
              file : 1..(NumFiles + 1), stmt : Stmt]
<1> SUFFICES ASSUME TypeOK, run.file \in File, NextFile
             PROVE  run' \in [at : Stage, applied : [File -> Version \cup {None}],
                              file : 1..(NumFiles + 1), stmt : Stmt]
  OBVIOUS
<1>1. run.file + 1 \in 1..(NumFiles + 1)
  BY MigrateAssumption DEF File
<1> QED
  BY <1>1 DEF TypeOK, NextFile, Stage

LEMMA VisitStep == RunInv /\ VisitFile => RunInv'
<1> SUFFICES ASSUME RunInv, VisitFile PROVE RunInv'
  OBVIOUS
<1> DEFINE f == run.file
<1>1. f \in File /\ run.applied[f] = tracked[f]
  BY Versions DEF VisitFile, RunInv, TypeOK, SnapshotInv, Visiting
<1>2. CASE f \notin OnDisk
  <2>1. UNCHANGED <<disk, done, tracked, failures>> /\ NextFile
    BY <1>2 DEF VisitFile, RunFrame, dbVars
  <2> QED
    BY <1>1, <1>2, <2>1, NextFileType DEF NextFile, RunInv, SnapshotInv, VisitedInv,
       FileInv, TypeOK, SuccessIsConsistent, Visiting, OnDisk, VisitFile, File
<1>3. CASE f \in OnDisk /\ Verdict(f) = "skip"
  <2>1. tracked[f] = disk[f]
    BY <1>1, <1>3 DEF Verdict
  <2>2. UNCHANGED <<disk, done, tracked, failures>> /\ NextFile
    BY <1>3 DEF VisitFile, RunFrame, dbVars
  <2> QED
    BY <1>1, <2>1, <2>2, NextFileType DEF NextFile, RunInv, SnapshotInv, VisitedInv,
       FileInv, TypeOK, SuccessIsConsistent, Visiting, OnDisk, VisitFile, File
<1>4. CASE f \in OnDisk /\ Verdict(f) # "skip"
  <2>1. \/ Verdict(f) = "exec" /\ tracked[f] = None
        \/ Verdict(f) = "rehash" /\ tracked[f] # None /\ <<f, tracked[f]>> \in Tolerated
        \/ Verdict(f) = "drifted"
    BY <1>1, <1>4 DEF Verdict
  <2>2. run' = [run EXCEPT !.at = Verdict(f), !.stmt = 1]
    BY <1>4 DEF VisitFile
  <2> QED
    BY <1>1, <1>4, <2>1, <2>2, Versions DEF VisitFile, RunInv, TypeOK, SnapshotInv,
       VisitedInv, FileInv,
     SuccessIsConsistent, Visiting, OnDisk, RunFrame, dbVars, Stage, None, NothingTracked
<1> QED
  BY <1>2, <1>3, <1>4

LEMMA AllVisitedStep == RunInv /\ AllVisited => RunInv'
<1> SUFFICES ASSUME RunInv, AllVisited PROVE RunInv'
  OBVIOUS
<1>1. \A f \in File : f < run.file
  BY MigrateAssumption DEF AllVisited, RunInv, TypeOK, File
<1>2. \A f \in OnDisk : tracked[f] = disk[f]
  BY <1>1 DEF AllVisited, RunInv, VisitedInv, Visiting, OnDisk
<1> QED
  BY <1>2, Versions DEF AllVisited, Goto, RunFrame, dbVars, Stage, None, RunInv,
     TypeOK, SnapshotInv, VisitedInv, FileInv,
     SuccessIsConsistent, Visiting, OnDisk, NothingTracked

\* Rehash and Record: the file's row gets the version on disk, and the loop goes on.
LEMMA RowStep == RunInv /\ (Rehash \/ Record) => RunInv'
<1> SUFFICES ASSUME RunInv, Rehash \/ Record PROVE RunInv'
  OBVIOUS
<1> DEFINE f == run.file
<1>1. /\ f \in OnDisk /\ f \in File /\ disk[f] \in Version
      /\ tracked' = [tracked EXCEPT ![f] = disk[f]] /\ NextFile
      /\ UNCHANGED done /\ RunFrame
  BY DEF Rehash, Record, RunInv, FileInv, OnDisk, TypeOK
<1>2. TypeOK'
  BY <1>1, NextFileType DEF RunInv, TypeOK, RunFrame
<1>3. run'.at = "file" /\ run'.file = f + 1 /\ run'.applied = run.applied
  BY <1>1 DEF NextFile, RunInv, TypeOK
<1>4. SnapshotInv'
  BY <1>1, <1>3, Versions DEF Rehash, Record, RunInv, TypeOK, SnapshotInv, Visiting
<1>5. VisitedInv'
  BY <1>1, <1>3, Versions DEF Rehash, Record, RunInv, TypeOK, VisitedInv, Visiting,
     SuccessIsConsistent, OnDisk, RunFrame
<1>6. FileInv'
  BY <1>3 DEF FileInv
<1> QED
  BY <1>2, <1>4, <1>5, <1>6 DEF RunInv

LEMMA ExecStep == RunInv /\ ExecStatement => RunInv'
<1> SUFFICES ASSUME RunInv, ExecStatement PROVE RunInv'
  OBVIOUS
<1> DEFINE f == run.file
<1>1. f \in File /\ f \in OnDisk /\ NextStmt
  BY DEF ExecStatement, SkipsDuplicates, RunInv, FileInv, OnDisk
<1>2. /\ run'.at \in {"exec", "record"} /\ run'.file = f /\ run'.applied = run.applied
      /\ run' \in [at : Stage, applied : [File -> Version \cup {None}],
                  file : 1..(NumFiles + 1), stmt : Stmt]
  <2>1. run.stmt # NumStmts => run.stmt + 1 \in Stmt
    BY MigrateAssumption DEF RunInv, TypeOK, Stmt
  <2> QED
    BY <1>1, <2>1, Versions DEF NextStmt, EndOfFile, RunInv, TypeOK, Stage, ExecStatement
<1>3. TypeOK'
  BY <1>1, <1>2 DEF ExecStatement, RunInv, TypeOK, RunFrame
<1> QED
  BY <1>1, <1>2, <1>3 DEF ExecStatement, RunFrame, RunInv, SnapshotInv, VisitedInv,
     FileInv,
     SuccessIsConsistent, Visiting, OnDisk

LEMMA EndStep == RunInv /\ (Return \/ Fail) => RunInv'
<1> SUFFICES ASSUME RunInv, Return \/ Fail PROVE RunInv'
  OBVIOUS
<1>1. run' = RunOff /\ UNCHANGED <<disk, done, tracked>> /\ failures' \in Nat
  BY DEF Return, Fail, AfterFailure, RunFrame, dbVars, RunInv, TypeOK
<1>2. TypeOK'
  BY <1>1, RunOffType DEF RunInv, TypeOK
<1> QED
  BY <1>1, <1>2 DEF RunOff, RunInv, SnapshotInv, VisitedInv, FileInv,
     SuccessIsConsistent, Visiting

LEMMA DirectoryStep ==
  ASSUME RunInv, NEW f \in File, AddFile(f) \/ EditFile(f) \/ RemoveFile(f)
  PROVE  RunInv'
<1>1. /\ run.at = "off" /\ UNCHANGED <<done, tracked, run, failures>>
      /\ disk' \in [File -> Version \cup {None}]
  BY Versions DEF AddFile, EditFile, RemoveFile, Between, dbVars, RunInv, TypeOK
<1> QED
  BY <1>1 DEF RunInv, TypeOK, SnapshotInv, VisitedInv, FileInv, SuccessIsConsistent,
     Visiting

LEMMA StutterStep == RunInv /\ UNCHANGED vars => RunInv'
BY DEF vars, RunInv, TypeOK, SnapshotInv, VisitedInv, FileInv, SuccessIsConsistent,
   Visiting,
   OnDisk, NothingTracked

\* SnapshotInv and FileInv are inductive together with the other two parts.
LEMMA RunInvStep == RunInv /\ [Next]_vars => RunInv'
BY BeginStep, LoadStep, LegacyStep, BackfillStep, VisitStep, AllVisitedStep, RowStep,
   ExecStep,
   EndStep, DirectoryStep, StutterStep DEF Next, RunStep

LEMMA RunInvHolds == Spec => []RunInv
<1>1. Init => RunInv
  BY InitRunInv
<1>2. RunInv /\ [Next]_vars => RunInv'
  BY RunInvStep
<1> QED
  BY <1>1, <1>2, PTL DEF Spec

\* The directory, the two tables and the run keep their types (runMigrations).
THEOREM MigrateTypeCorrect == Spec => []TypeOK
<1>1. RunInv => TypeOK
  BY DEF RunInv
<1> QED
  BY <1>1, RunInvHolds, PTL

\* When runMigrations returns without an error, every file in the directory is
\* recorded with the hash it has now, whatever was backfilled, skipped, re-hashed
\* or executed on the way.
THEOREM SuccessIsConsistentHolds == Spec => []SuccessIsConsistent
<1>1. RunInv => SuccessIsConsistent
  BY DEF RunInv, VisitedInv
<1> QED
  BY <1>1, RunInvHolds, PTL

------------------------------------------------------------------------------
\* What a step may do to a file that has a row.
Pinned(f) ==
  tracked[f] # None =>
    /\ done'[f] = done[f] /\ ~(run.at = "exec" /\ run.file = f /\ run' # run)
    /\ tracked'[f] # tracked[f] => <<f, tracked[f]>> \in Tolerated

LEMMA PinnedStep == RunInv /\ [Next]_vars => \A f \in File : Pinned(f)
<1> SUFFICES ASSUME RunInv, [Next]_vars, NEW f \in File, tracked[f] # None PROVE Pinned(f)
  BY DEF Pinned
<1>1. run.at = "exec" => run.file # f
  BY DEF RunInv, FileInv
<1>2. done'[f] = done[f]
  <2>1. CASE ExecStatement
    BY <2>1, <1>1 DEF ExecStatement, RunInv, TypeOK
  <2>2. CASE ~ExecStatement
    BY <2>2 DEF Next, RunStep, vars, dbVars, Begin, LoadAppliedRows, CheckLegacy,
       Backfill, VisitFile,
       AllVisited, Rehash, Record, Return, Fail, AddFile, EditFile, RemoveFile, Between
  <2> QED
    BY <2>1, <2>2
<1>3. tracked'[f] # tracked[f] => <<f, tracked[f]>> \in Tolerated
  <2>1. CASE Rehash
    BY <2>1 DEF Rehash, RunInv, FileInv, TypeOK
  <2>2. CASE Record
    BY <2>2 DEF Record, RunInv, FileInv, TypeOK
  <2>3. ~Backfill
    BY DEF Backfill, RunInv, SnapshotInv, NothingTracked
  <2>4. CASE ~Rehash /\ ~Record
    BY <2>3, <2>4 DEF Next, RunStep, vars, dbVars, Begin, LoadAppliedRows, CheckLegacy,
       VisitFile,
       AllVisited, ExecStatement, Return, Fail, AddFile, EditFile, RemoveFile, Between
  <2> QED
    BY <2>1, <2>2, <2>4
<1> QED
  BY <1>1, <1>2, <1>3 DEF Pinned

\* A file that has a row is never executed again, and its hash is replaced only for
\* an edit that TOLERATED_DRIFT lists (migrate.ts:224-246).
THEOREM HashIsPinnedHolds == Spec => HashIsPinned
<1>1. RunInv /\ [Next]_vars => [\A f \in File : Pinned(f)]_vars
  BY PinnedStep
<1>2. [\A f \in File : Pinned(f)]_vars <=>
        [\A f \in File : tracked[f] # None =>
           /\ done'[f] = done[f] /\ ~(run.at = "exec" /\ run.file = f /\ run' # run)
           /\ tracked'[f] # tracked[f] => <<f, tracked[f]>> \in Tolerated]_vars
  BY DEF Pinned
<1> QED
  BY <1>1, <1>2, RunInvHolds, PTL DEF Spec, HashIsPinned

------------------------------------------------------------------------------
(* Without the two known defects, nothing is recorded that is not applied.       *)
CleanHistory == ~FirstFileFails /\ ~UpgradeAddsFiles

\* The statements the run has already executed of its file, and what makes the
\* multi-row INSERT of the backfill right: an old database applied all it has on disk,
\* except while the first migration is being executed.
AppliedInv ==
  /\ RecordedIsApplied
  /\ run.at = "backfill" => LegacySchemaExists
  /\ run.at = "exec" => \A i \in Stmt : i < run.stmt => i \in done[run.file]
  /\ run.at = "record" => done[run.file] = Stmt
  /\ OldDatabase /\ run.at \notin {"exec", "record"} => \A f \in OnDisk : done[f] = Stmt

IInv == RunInv /\ AppliedInv

LEMMA InitApplied == CleanHistory /\ Init => AppliedInv
<1> SUFFICES ASSUME CleanHistory, Init PROVE AppliedInv
  OBVIOUS
<1>1. PICK k \in Legacy, n \in File :
        /\ done = [f \in File |-> IF f <= k THEN Stmt ELSE {}]
        /\ k \in {0, n} /\ disk = [f \in File |-> IF f <= n THEN 1 ELSE None]
  BY DEF Init, CleanHistory
<1>2. LegacySchemaExists => \A f \in OnDisk : done[f] = Stmt
  <2>1. LegacySchemaExists => k = n
    BY <1>1, Versions DEF LegacySchemaExists, File
  <2> QED
    BY <1>1, <2>1 DEF OnDisk, None
<1> QED
  BY <1>2 DEF Init, RunOff, AppliedInv, RecordedIsApplied, OldDatabase

\* A step that leaves the database and the directory alone, and starts neither a
\* backfill nor a file.
LEMMA QuietApplied ==
  ASSUME IInv, UNCHANGED <<disk, done, tracked>>, run'.at \notin {"backfill", "exec", "record"},
         run.at \in {"exec", "record"} => ~OldDatabase
  PROVE  AppliedInv'
BY DEF IInv, AppliedInv, RecordedIsApplied, OldDatabase, NothingTracked,
   LegacySchemaExists, OnDisk

LEMMA ReadApplied == IInv
/\ (Begin \/ LoadAppliedRows \/ AllVisited \/ Return) => AppliedInv'
<1> SUFFICES ASSUME IInv, Begin \/ LoadAppliedRows \/ AllVisited \/ Return PROVE AppliedInv'
  OBVIOUS
<1>1. UNCHANGED <<disk, done, tracked>> /\ run.at \notin {"exec", "record"}
  BY DEF Begin, LoadAppliedRows, AllVisited, Return, RunFrame, dbVars
<1>2. run \in [at : Stage, applied : [File -> Version \cup {None}],
               file : 1..(NumFiles + 1), stmt : Stmt]
  BY DEF IInv, RunInv, TypeOK
<1>3. run'.at \in {"off", "load", "legacy", "file", "ok"}
  <2>1. CASE Begin
    BY <1>2, <2>1 DEF Begin, Goto
  <2>2. CASE LoadAppliedRows
    BY <1>2, <2>2 DEF LoadAppliedRows
  <2>3. CASE AllVisited
    BY <1>2, <2>3 DEF AllVisited, Goto
  <2>4. CASE Return
    BY <2>4 DEF Return, RunOff
  <2> QED
    BY <2>1, <2>2, <2>3, <2>4
<1> QED
  BY <1>1, <1>3, QuietApplied

LEMMA LegacyApplied == IInv /\ CheckLegacy => AppliedInv'
<1> SUFFICES ASSUME IInv, CheckLegacy PROVE AppliedInv'
  OBVIOUS
<1>1. UNCHANGED <<disk, done, tracked>> /\ run.at = "legacy"
  BY DEF CheckLegacy, RunFrame, dbVars
<1>2. run'.at = IF LegacySchemaExists THEN "backfill" ELSE "file"
  BY DEF CheckLegacy, Goto, IInv, RunInv, TypeOK
<1> QED
  BY <1>1, <1>2 DEF IInv, AppliedInv, RecordedIsApplied, OldDatabase, NothingTracked,
     LegacySchemaExists, OnDisk

LEMMA BackfillApplied == IInv /\ Backfill => AppliedInv'
<1> SUFFICES ASSUME IInv, Backfill PROVE AppliedInv'
  OBVIOUS
<1>1. OldDatabase
  BY DEF Backfill, IInv, RunInv, SnapshotInv, AppliedInv, OldDatabase
<1>2. \A f \in OnDisk : done[f] = Stmt
  BY <1>1 DEF Backfill, IInv, AppliedInv
<1>3. run'.at = "ok" /\ tracked' = disk /\ UNCHANGED <<disk, done>>
  BY DEF Backfill, BackfillRows, Goto, IInv, RunInv, TypeOK, RunFrame
<1> QED
  BY <1>2, <1>3 DEF AppliedInv, RecordedIsApplied, OnDisk

LEMMA VisitApplied == IInv /\ VisitFile => AppliedInv'
<1> SUFFICES ASSUME IInv, VisitFile PROVE AppliedInv'
  OBVIOUS
<1>1. UNCHANGED <<disk, done, tracked>> /\ run.at = "file"
  BY DEF VisitFile, RunFrame, dbVars
<1>2. /\ run'.at \in {"file", "rehash", "exec", "drifted"}
      /\ run'.at = "exec" => run'.stmt = 1
  BY DEF VisitFile, Verdict, NextFile, IInv, RunInv, TypeOK
<1>3. \A i \in Stmt : ~(i < 1)
  BY DEF Stmt
<1> QED
  BY <1>1, <1>2, <1>3 DEF IInv, AppliedInv, RecordedIsApplied, OldDatabase,
     NothingTracked, LegacySchemaExists, OnDisk

\* The row is written after the last statement, and is only replaced afterwards.
LEMMA RowApplied == IInv /\ (Rehash \/ Record) => AppliedInv'
<1> SUFFICES ASSUME IInv, Rehash \/ Record PROVE AppliedInv'
  OBVIOUS
<1> DEFINE f == run.file
<1>1. /\ f \in OnDisk /\ f \in File /\ disk[f] # None
      /\ tracked' = [tracked EXCEPT ![f] = disk[f]]
      /\ UNCHANGED <<disk, done>> /\ run'.at = "file"
  BY DEF Rehash, Record, NextFile, RunFrame, IInv, RunInv, FileInv, OnDisk, TypeOK
<1>2. done[f] = Stmt
  BY <1>1 DEF Rehash, Record, IInv, RunInv, FileInv, AppliedInv, RecordedIsApplied
<1>3. RecordedIsApplied'
  BY <1>1, <1>2 DEF IInv, RunInv, TypeOK, AppliedInv, RecordedIsApplied
<1>4. ~NothingTracked'
  BY <1>1 DEF IInv, RunInv, TypeOK, NothingTracked
<1> QED
  BY <1>1, <1>3, <1>4 DEF AppliedInv, OldDatabase

LEMMA ExecApplied == IInv /\ ExecStatement => AppliedInv'
<1> SUFFICES ASSUME IInv, ExecStatement PROVE AppliedInv'
  OBVIOUS
<1> DEFINE f == run.file
<1>1. /\ f \in File /\ NextStmt /\ UNCHANGED <<disk, tracked>>
      /\ done' = [done EXCEPT ![f] = @ \cup {run.stmt}]
  BY DEF ExecStatement, SkipsDuplicates, RunFrame, IInv, RunInv, FileInv, OnDisk
<1>2. tracked[f] = None /\ run.stmt \in Stmt /\ done \in [File -> SUBSET Stmt]
  BY DEF ExecStatement, IInv, RunInv, FileInv, TypeOK
<1>3. done'[f] = done[f] \cup {run.stmt} /\ \A g \in File : g # f => done'[g] = done[g]
  BY <1>1, <1>2
<1>4. RecordedIsApplied'
  BY <1>1, <1>2, <1>3 DEF IInv, AppliedInv, RecordedIsApplied
<1>5. \A i \in Stmt : i < run.stmt => i \in done[f]
  BY DEF ExecStatement, IInv, AppliedInv
<1>6. CASE EndOfFile
  <2>1. run'.at = "record" /\ run'.file = f
    BY <1>1, <1>6 DEF NextStmt, IInv, RunInv, TypeOK
  <2>2. \A i \in Stmt : i \in done'[f]
    <3> TAKE i \in Stmt
    <3>1. i < run.stmt \/ i = run.stmt
      BY <1>6, MigrateAssumption DEF EndOfFile, Stmt
    <3> QED
      BY <1>3, <1>5, <3>1
  <2>3. done'[f] \subseteq Stmt
    <3>1. done[f] \subseteq Stmt
      BY <1>1, <1>2
    <3> QED
      BY <1>2, <1>3, <3>1
  <2>4. done'[f] = Stmt
    BY <2>2, <2>3
  <2> QED
    BY <1>4, <2>1, <2>4 DEF AppliedInv
<1>7. CASE ~EndOfFile
  <2>1. run'.at = "exec" /\ run'.file = f /\ run'.stmt = run.stmt + 1
    BY <1>1, <1>7 DEF NextStmt, ExecStatement, IInv, RunInv, TypeOK
  <2>2. \A i \in Stmt : i < run.stmt + 1 => i \in done'[f]
    BY <1>2, <1>3, <1>5 DEF Stmt
  <2> QED
    BY <1>4, <2>1, <2>2 DEF AppliedInv
<1> QED
  BY <1>6, <1>7

LEMMA FailApplied == CleanHistory /\ IInv /\ Fail => AppliedInv'
<1> SUFFICES ASSUME CleanHistory, IInv, Fail PROVE AppliedInv'
  OBVIOUS
<1>1. UNCHANGED <<disk, done, tracked>> /\ (run.at \in {"exec", "record"} => ~OldDatabase)
  BY DEF Fail, CleanHistory
<1>2. run'.at = "off"
  BY DEF Fail, AfterFailure, RunOff
<1> QED
  BY <1>1, <1>2, QuietApplied

LEMMA DirectoryApplied ==
  ASSUME CleanHistory, IInv, NEW f \in File, AddFile(f) \/ EditFile(f) \/ RemoveFile(f)
  PROVE  AppliedInv'
<1>1. run.at = "off" /\ run' = run /\ UNCHANGED <<done, tracked>>
  BY DEF AddFile, EditFile, RemoveFile, Between, dbVars
<1>2. OldDatabase => OnDisk' = OnDisk
  BY DEF AddFile, EditFile, RemoveFile, CleanHistory, OldDatabase, NothingTracked,
     OnDisk, IInv,
     RunInv, TypeOK, None, Version
<1> QED
  BY <1>1, <1>2 DEF IInv, AppliedInv, RecordedIsApplied, OldDatabase, NothingTracked,
     LegacySchemaExists

LEMMA AppliedStep == CleanHistory /\ IInv /\ [Next]_vars => IInv'
<1> SUFFICES ASSUME CleanHistory, IInv, [Next]_vars PROVE AppliedInv'
  BY RunInvStep DEF IInv
<1>1. CASE UNCHANGED vars
  BY <1>1 DEF vars, IInv, AppliedInv, RecordedIsApplied, OldDatabase, NothingTracked,
     LegacySchemaExists, OnDisk
<1> QED
  BY <1>1, ReadApplied, LegacyApplied, BackfillApplied, VisitApplied, RowApplied,
     ExecApplied, FailApplied,
     DirectoryApplied DEF Next, RunStep

\* Every migration that migrations_applied lists is completely in the schema, after
\* any sequence of crashes, failed statements, edits, archived and added files:
\* provided that no run ends between the first table of 001 and its row, and that a
\* database older than the tracking has applied every file it finds.
THEOREM RecordedIsAppliedHolds ==
  ASSUME ~FirstFileFails, ~UpgradeAddsFiles
  PROVE  Spec => []RecordedIsApplied
<1>1. CleanHistory
  BY DEF CleanHistory
<1>2. Init => IInv
  BY <1>1, InitRunInv, InitApplied DEF IInv
<1>3. IInv /\ [Next]_vars => IInv'
  BY <1>1, AppliedStep
<1>4. IInv => RecordedIsApplied
  BY DEF IInv, AppliedInv
<1> QED
  BY <1>2, <1>3, <1>4, PTL DEF Spec
==============================================================================
