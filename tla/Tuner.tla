-------------------------------- MODULE Tuner --------------------------------
(* Tuning runs (src/services/routing-tuner): tune() reads the routing log and    *)
(* writes new rules and utterances.  The advisory lock that serialises the runs  *)
(* belongs to a session of the pool; every other statement takes any connection. *)
(* A run may be started by every POST /tune, so several overlap.                 *)
EXTENDS ConnPool

CONSTANTS Run, Task,
          Logged,      \* Logged[t]: the routing_log row of t and what its outcome says
          MinFrequency, MaxRules, MaxPromotions,
          MaxMishaps   \* statements that fail, sessions that end and crashes, in a behaviour

ASSUME TunerAssumption ==
  /\ Run \subseteq User \ Branch /\ IsFiniteSet(Task)
  /\ \A n \in {MinFrequency, MaxRules, MaxPromotions} : n \in Nat \ {0}
  /\ MaxMishaps \in Nat

VARIABLES pc, run,        \* the local variables of tune(), by run
          lock,           \* GET_LOCK("haol_tuner"): the session that has it, how often
          tuning,         \* the rows of tuning_run
          rules, utterances,  \* the rows the runs inserted
          purged,         \* the tasks whose prompt retention deleted
          mishaps,
          leaked,         \* history: a RELEASE_LOCK failed on a living session
          dropped         \* history: a run lost the session of its lock

tables  == <<tuning, rules, utterances>>
history == <<mishaps, leaked, dropped>>
vars == <<poolVars, pc, run, lock, tables, purged, history>>

Texts(S) == {Logged[t].text : t \in S}
Tiers(S) == {Logged[t].tier : t \in S}
OfTier(S, tier) == {t \in S : Logged[t].tier = tier}

\* findSuccessfulEscalations and findSuccessfulFallbacks: the rows of a layer whose task
\* has a positive signal; an escalation also needs the confidence.
Escalations == {t \in Task : Logged[t].layer = "escalation" /\ Logged[t].positive /\ Logged[t].sure}
Fallbacks   == {t \in Task : Logged[t].layer = "fallback" /\ Logged[t].positive}

\* extractKeyPhrases: the words, stop words and short ones left out, of enough prompts.
Count(word, S) == Cardinality({t \in S : word \in Logged[t].words})
KeyPhrases(S) == {w \in UNION {Logged[t].words : t \in S} : Count(w, S) >= MinFrequency}
\* The most frequent of them; the order of equal ones is that of the rows.
TopPhrases(S) ==
  {W \in SUBSET KeyPhrases(S) :
     /\ Cardinality(W) <= MaxRules
     /\ Cardinality(W) < MaxRules => W = KeyPhrases(S)
     /\ \A w \in W, v \in KeyPhrases(S) \ W : Count(w, S) >= Count(v, S)}

\* existingContainsPatterns: a rule an operator disabled does not count.
\* Mutant: no rule is found.
ExistingPatternsNone == {p \in {<<r.tier, r.pattern>> : r \in rules} : FALSE}
ExistingPatterns == {<<r.tier, r.pattern>> : r \in {x \in rules : x.enabled}}
ExistingTexts == {u.text : u \in utterances}

\* routing_rules and routing_utterances have no unique key but their own id.
CreatedBy(r) == {x \in rules : x.by = r}
AddedBy(r)   == {x \in utterances : x.by = r}

Idle == [dry |-> FALSE, stale |-> {}, rows |-> {}, nul |-> {}, known |-> {}, texts |-> {},
         tiers |-> {}, todo |-> {}, made |-> 0, added |-> 0]
NoRow == [status |-> "none", old |-> FALSE, rules |-> 0, utterances |-> 0]
LockFree == [on |-> Nobody, depth |-> 0]

\* GET_LOCK is re-entrant in a session; a session that ends gives it up.
\* Mutant: the answer of GET_LOCK is not read.
GrantableAlways(c) == c \in Conn
Grantable(c) == lock.depth = 0 \/ lock.on = c
Without(c) == IF lock.depth > 0 /\ lock.on = c THEN LockFree ELSE lock

Goto(r, s) == pc' = [pc EXCEPT ![r] = s]
Becomes(r, local) == run' = [run EXCEPT ![r] = local]
Alive(r) == HeldBy(r) # {}  \* its session
Mishap == mishaps < MaxMishaps /\ mishaps' = mishaps + 1
Fault  == Mishap /\ UNCHANGED <<leaked, dropped>>

\* A statement on any connection of the pool: it runs, it fails, or it runs and its
\* answer is lost (a failure for the caller).
Pooled == Free # {}
\* The catch block of tune() comes next.
Throw(r) == Goto(r, IF run[r].dry THEN "over" ELSE "fail")
ReadFails(r) == Fault /\ Throw(r) /\ UNCHANGED <<run, tables>>
WriteFails(r) == Fault /\ Throw(r) /\ UNCHANGED run
ByPool == UNCHANGED <<poolVars, lock, purged>>

------------------------------------------------------------------------------
(* acquireTunerLock, on a connection of its own.                                  *)
\* POST /tune, or the command line: a dry run takes no lock.
Start(r) ==
  /\ pc[r] = "idle"
  /\ \E dry \in BOOLEAN : Becomes(r, [Idle EXCEPT !.dry = dry]) /\ Goto(r, IF dry THEN "read" ELSE "connect")
  /\ UNCHANGED <<poolVars, lock, tables, purged, history>>

Connect(r) ==
  /\ pc[r] = "connect" /\ Goto(r, "lock")
  /\ \E c \in Conn : Borrow(c, r)
  /\ UNCHANGED <<op, spoiled, run, lock, tables, purged, history>>

\* Mutant: a run that is refused keeps its connection.
GetLockKeeps(r) ==
  /\ pc[r] = "lock"
  /\ \/ \E c \in HeldBy(r) :
          \/ /\ Grantable(c) /\ lock' = [on |-> c, depth |-> lock.depth + 1]
             /\ Goto(r, "stale") /\ UNCHANGED <<conn, history>>
          \/ ~Grantable(c) /\ Goto(r, "over") /\ UNCHANGED <<conn, lock, history>>
     \/ ~Alive(r) /\ Goto(r, "over") /\ UNCHANGED <<conn, lock, history>>
  /\ UNCHANGED <<op, spoiled, run, tables, purged>>
\* A refusal and an error both return the connection and throw to the caller.
GetLock(r) ==
  /\ pc[r] = "lock"
  /\ \/ \E c \in HeldBy(r) :
          \/ /\ Grantable(c) /\ lock' = [on |-> c, depth |-> lock.depth + 1]
             /\ Goto(r, "stale") /\ UNCHANGED <<conn, history>>
          \/ ~Grantable(c) /\ Release(c) /\ Goto(r, "over") /\ UNCHANGED <<lock, history>>
          \/ Fault /\ Release(c) /\ Goto(r, "over") /\ UNCHANGED lock
     \/ ~Alive(r) /\ Goto(r, "over") /\ UNCHANGED <<conn, lock, history>>
  /\ UNCHANGED <<op, spoiled, run, tables, purged>>

\* The rest of the setup runs on the same session; an error releases the lock.
SetupFrame == UNCHANGED <<poolVars, lock, rules, utterances, purged>>
SetupFails(r) ==
  /\ Goto(r, "unlock")
  /\ \/ ~Alive(r) /\ UNCHANGED history
     \/ Alive(r) /\ Fault

Stale == {q \in Run : tuning[q].status = "running" /\ tuning[q].old}
FindStale(r) ==
  /\ pc[r] = "stale" /\ UNCHANGED tuning
  /\ \/ Alive(r) /\ Goto(r, "mark") /\ Becomes(r, [run[r] EXCEPT !.stale = Stale]) /\ UNCHANGED history
     \/ SetupFails(r) /\ UNCHANGED run
  /\ SetupFrame

\* One UPDATE for each row found, by its run_id alone.
MarkStale(r) ==
  /\ pc[r] = "mark" /\ run[r].stale # {}
  /\ \/ /\ Alive(r)
        /\ \E q \in run[r].stale :
             /\ tuning' = [tuning EXCEPT ![q].status = "failed"]
             /\ \/ Becomes(r, [run[r] EXCEPT !.stale = @ \ {q}]) /\ UNCHANGED <<pc, history>>
                \/ SetupFails(r) /\ UNCHANGED run
     \/ SetupFails(r) /\ UNCHANGED <<run, tuning>>
  /\ SetupFrame

InsertRun(r) ==
  /\ pc[r] = "mark" /\ run[r].stale = {} /\ UNCHANGED run
  /\ \/ /\ Alive(r)
        /\ \/ Goto(r, "read") /\ UNCHANGED history
           \/ SetupFails(r)
        /\ tuning' = [tuning EXCEPT ![r] = [NoRow EXCEPT !.status = "running"]]
     \/ SetupFails(r) /\ UNCHANGED tuning
  /\ SetupFrame

------------------------------------------------------------------------------
(* tune(): each await is a step; statements of other runs come between.           *)
\* The outcome aggregates and the escalations: with too few of them, no rule.
Read(r) ==
  /\ pc[r] = "read" /\ Pooled
  /\ \/ /\ Becomes(r, [run[r] EXCEPT !.rows = Escalations, !.nul = Escalations \cap purged])
        /\ Goto(r, IF Cardinality(Escalations) < MinFrequency THEN "fallbacks" ELSE "existing")
        /\ UNCHANGED <<tables, history>>
     \/ ReadFails(r)
  /\ ByPool

\* crystallizeRules: the enabled patterns, once, and the tiers with enough prompts.
Existing(r) ==
  /\ pc[r] = "existing" /\ Pooled
  /\ \/ /\ Becomes(r, [run[r] EXCEPT !.known = ExistingPatterns,
                         !.tiers = {i \in Tiers(run[r].rows) :
                                      Cardinality(OfTier(run[r].rows, i)) >= MinFrequency}])
        /\ Goto(r, "tiers") /\ UNCHANGED <<tables, history>>
     \/ ReadFails(r)
  /\ ByPool

\* The next tier: a prompt that retention set to NULL throws; what is known is skipped
\* after the top phrases are taken.
NextTier(r) ==
  /\ pc[r] = "tiers" /\ run[r].todo = {} /\ run[r].tiers # {}
  /\ \E i \in run[r].tiers :
       LET S == OfTier(run[r].rows, i) IN
       IF S \cap run[r].nul # {} THEN Throw(r) /\ UNCHANGED run
       ELSE /\ \E W \in TopPhrases(S) :
                 Becomes(r, [run[r] EXCEPT !.tiers = @ \ {i},
                               !.todo = {<<i, w>> : w \in W} \ run[r].known])
            /\ UNCHANGED pc
  /\ ByPool /\ UNCHANGED <<tables, history>>

\* Mutant: a dry run inserts too.
CrystallizeDry(r) ==
  /\ pc[r] = "tiers" /\ run[r].todo # {} /\ Pooled
  /\ \E p \in run[r].todo :
       /\ rules' = rules \cup {[tier |-> p[1], pattern |-> p[2], by |-> r, enabled |-> TRUE]}
       /\ Becomes(r, [run[r] EXCEPT !.todo = @ \ {p}, !.made = @ + 1])
  /\ ByPool /\ UNCHANGED <<tuning, utterances, pc, history>>
\* lookupCapabilitiesForPattern and INSERT IGNORE: a rule is counted once it is in.
Crystallize(r) ==
  /\ pc[r] = "tiers" /\ run[r].todo # {} /\ Pooled
  /\ \E p \in run[r].todo :
       LET rule == [tier |-> p[1], pattern |-> p[2], by |-> r, enabled |-> TRUE]
           insert == rules' = IF run[r].dry THEN rules ELSE rules \cup {rule} IN
       \/ /\ insert /\ Becomes(r, [run[r] EXCEPT !.todo = @ \ {p}, !.made = @ + 1])
          /\ UNCHANGED <<pc, history>>
       \/ (insert \/ UNCHANGED rules) /\ WriteFails(r)
  /\ ByPool /\ UNCHANGED <<tuning, utterances>>

TiersDone(r) ==
  /\ pc[r] = "tiers" /\ run[r].todo = {} /\ run[r].tiers = {} /\ Goto(r, "fallbacks")
  /\ Becomes(r, [Idle EXCEPT !.dry = run[r].dry, !.made = run[r].made])
  /\ UNCHANGED <<tables, history>> /\ ByPool

\* promoteUtterances: the newest of the fallbacks; a NULL prompt among them throws, short
\* ones are left out.
ReadFallbacks(r) ==
  /\ pc[r] = "fallbacks" /\ Pooled
  /\ \/ \E S \in SUBSET Fallbacks :
          /\ Cardinality(S) <= MaxPromotions /\ (Cardinality(S) < MaxPromotions => S = Fallbacks)
          /\ IF S \cap purged # {} THEN Throw(r) /\ UNCHANGED run
             ELSE LET long == {t \in S : Logged[t].long} IN
                  /\ Becomes(r, [run[r] EXCEPT !.rows = long])
                  /\ Goto(r, IF long = {} THEN "finalize" ELSE "known")
          /\ UNCHANGED <<tables, history>>
     \/ ReadFails(r)
  /\ ByPool

KnownTexts(r) ==
  /\ pc[r] = "known" /\ Pooled
  /\ \/ /\ Becomes(r, [run[r] EXCEPT !.texts = ExistingTexts \cap Texts(run[r].rows)])
        /\ Goto(r, "promote") /\ UNCHANGED <<tables, history>>
     \/ ReadFails(r)
  /\ ByPool

\* The utterance is counted before it is inserted; a text comes once in a run.
Promote(r) ==
  /\ pc[r] = "promote" /\ run[r].rows # {} /\ Pooled
  /\ \E t \in run[r].rows :
       LET text == Logged[t].text
           row  == [text |-> text, tier |-> Logged[t].tier, source |-> t, by |-> r]
           insert == utterances' = IF run[r].dry THEN utterances ELSE utterances \cup {row} IN
       \/ /\ text \in run[r].texts
          /\ Becomes(r, [run[r] EXCEPT !.rows = @ \ {t}]) /\ UNCHANGED <<utterances, pc, history>>
       \/ /\ text \notin run[r].texts /\ insert
          /\ Becomes(r, [run[r] EXCEPT !.rows = @ \ {t}, !.texts = @ \cup {text}, !.added = @ + 1])
          /\ UNCHANGED <<pc, history>>
       \/ text \notin run[r].texts /\ (insert \/ UNCHANGED utterances) /\ WriteFails(r)
  /\ ByPool /\ UNCHANGED <<tuning, rules>>
PromoteDone(r) ==
  /\ pc[r] = "promote" /\ run[r].rows = {} /\ Goto(r, "finalize")
  /\ Becomes(r, [run[r] EXCEPT !.texts = {}])
  /\ UNCHANGED <<tables, history>> /\ ByPool

\* finalizeTuningRun: the counts of the run, by run_id alone; a dry run returns.
Finalize(r) ==
  /\ pc[r] = "finalize"
  /\ LET write == tuning' = [tuning EXCEPT ![r].status = "completed", ![r].rules = run[r].made,
                                            ![r].utterances = run[r].added] IN
     \/ run[r].dry /\ Goto(r, "over") /\ Becomes(r, Idle) /\ UNCHANGED <<tuning, history>>
     \/ ~run[r].dry /\ Pooled /\ write /\ Goto(r, "commit") /\ UNCHANGED <<run, history>>
     \/ ~run[r].dry /\ Pooled /\ (write \/ UNCHANGED tuning) /\ WriteFails(r)
  /\ ByPool /\ UNCHANGED <<rules, utterances>>

\* The Dolt commit is best effort.
Commit(r) ==
  /\ pc[r] = "commit" /\ Pooled /\ Goto(r, "unlock")
  /\ UNCHANGED <<run, tables, history>> /\ ByPool

\* recordTunerFailure, best effort.
RecordFailure(r) ==
  /\ pc[r] = "fail" /\ Pooled /\ Goto(r, "unlock")
  /\ \/ tuning' = [tuning EXCEPT ![r].status = "failed"] /\ UNCHANGED history
     \/ UNCHANGED tuning /\ Fault
  /\ UNCHANGED <<run, rules, utterances>> /\ ByPool

\* Mutant: RELEASE_LOCK runs on another connection of the pool and does nothing.
UnlockElsewhere(r) ==
  /\ pc[r] = "unlock" /\ Goto(r, "over") /\ Becomes(r, Idle)
  /\ \/ \E c \in HeldBy(r) : Release(c)
     \/ ~Alive(r) /\ UNCHANGED conn
  /\ UNCHANGED <<op, spoiled, lock, tables, purged, history>>
\* releaseTunerLock: RELEASE_LOCK on the session of the lock, its error swallowed, and the
\* connection back to the pool.
Unlock(r) ==
  /\ pc[r] = "unlock" /\ Goto(r, "over") /\ Becomes(r, Idle)
  /\ \/ \E c \in HeldBy(r) :
          /\ Release(c)
          /\ \/ lock' = (IF lock.on # c \/ lock.depth = 0 THEN lock
                        ELSE IF lock.depth = 1 THEN LockFree ELSE [lock EXCEPT !.depth = @ - 1])
                /\ UNCHANGED history
             \/ Mishap /\ leaked' = TRUE /\ UNCHANGED <<lock, dropped>>
     \/ ~Alive(r) /\ UNCHANGED <<conn, lock, history>>
  /\ UNCHANGED <<op, spoiled, tables, purged>>

RunStep(r) ==
  \/ Connect(r) \/ GetLock(r) \/ FindStale(r) \/ MarkStale(r) \/ InsertRun(r)
  \/ Read(r) \/ Existing(r) \/ NextTier(r) \/ Crystallize(r) \/ TiersDone(r)
  \/ ReadFallbacks(r) \/ KnownTexts(r) \/ Promote(r) \/ PromoteDone(r)
  \/ Finalize(r) \/ Commit(r) \/ RecordFailure(r) \/ Unlock(r)

------------------------------------------------------------------------------
(* The rest of the system, the operator and the server.                           *)
BranchUser(o) == (OpBegin(o) \/ OpWork(o) \/ OpEnd(o)) /\ UNCHANGED <<pc, run, lock, tables, purged, history>>

\* Retention deletes the text of the prompts, which a longer window still reads.
PurgeTexts ==
  /\ purged # Task /\ purged' = Task
  /\ UNCHANGED <<poolVars, pc, run, lock, tables, history>>

\* An operator disables a rule; an hour passes since a run began, with a run to come that
\* will look.
Disable(x) ==
  /\ x \in rules /\ x.enabled /\ rules' = (rules \ {x}) \cup {[x EXCEPT !.enabled = FALSE]}
  /\ UNCHANGED <<poolVars, pc, run, lock, tuning, utterances, purged, history>>
Age(r) ==
  /\ tuning[r].status = "running" /\ ~tuning[r].old
  /\ \E q \in Run : pc[q] \in {"idle", "connect", "lock", "stale"}
  /\ tuning' = [tuning EXCEPT ![r].old = TRUE]
  /\ UNCHANGED <<poolVars, pc, run, lock, rules, utterances, purged, history>>

LockedStates == {"stale", "mark", "read", "existing", "tiers", "fallbacks", "known", "promote",
                 "finalize", "commit", "fail", "unlock"}
HasLock(r) == pc[r] \in LockedStates /\ ~run[r].dry

Lose(c) ==
  /\ Mishap /\ LoseConnection(c) /\ lock' = Without(c)
  /\ dropped' = (dropped \/ \E r \in Run : HasLock(r) /\ c \in HeldBy(r))
  /\ UNCHANGED <<pc, run, tables, purged, leaked>>
Crash ==
  /\ Mishap /\ PoolCrash /\ lock' = LockFree
  /\ pc' = [r \in Run |-> IF pc[r] = "idle" THEN "idle" ELSE "over"]
  /\ run' = [r \in Run |-> Idle]
  /\ UNCHANGED <<tables, purged, leaked, dropped>>

Init ==
  /\ PoolInit
  /\ pc = [r \in Run |-> "idle"] /\ run = [r \in Run |-> Idle]
  /\ lock = LockFree
  /\ tuning = [r \in Run |-> NoRow] /\ rules = {} /\ utterances = {}
  /\ purged = {} /\ mishaps = 0 /\ leaked = FALSE /\ dropped = FALSE

Next ==
  \/ \E r \in Run : Start(r) \/ RunStep(r) \/ Age(r)
  \/ \E o \in Branch : BranchUser(o)
  \/ \E x \in rules : Disable(x)
  \/ \E c \in Conn : Lose(c)
  \/ PurgeTexts \/ Crash

Spec == Init /\ [][Next]_vars

\* A call that was started goes on; the pool serves who waits first come, first served,
\* so nobody who waits for a connection waits for ever (strong fairness); a callback ends.
Fairness ==
  /\ \A r \in Run : SF_vars(RunStep(r))
  /\ \A o \in Branch : WF_vars(OpEnd(o) /\ UNCHANGED <<pc, run, lock, tables, purged, history>>)
FairSpec == Spec /\ Fairness

------------------------------------------------------------------------------
Pattern == {<<Logged[t].tier, w>> : t \in Task, w \in UNION {Logged[u].words : u \in Task}}
Local == [dry : BOOLEAN, stale : SUBSET Run, rows : SUBSET Task, nul : SUBSET Task, known : SUBSET Pattern,
          texts : SUBSET Texts(Task), tiers : SUBSET Tiers(Task), todo : SUBSET Pattern, made : Nat, added : Nat]
\* The variables have their types.
TypeOK ==
  /\ PoolTypeOK
  /\ pc \in [Run -> {"idle", "connect", "lock", "over"} \cup LockedStates]
  /\ \A r \in Run : run[r] \in Local
  /\ lock \in [on : Conn \cup {Nobody}, depth : Nat]
  /\ tuning \in [Run -> [status : {"none", "running", "completed", "failed"}, old : BOOLEAN,
                         rules : Nat, utterances : Nat]]
  /\ purged \subseteq Task

\* The lock is where the code believes it is: a run past GET_LOCK whose session lives has
\* it, so there is one at most; and it is taken only on behalf of such a run, unless a
\* RELEASE_LOCK failed on a session that went back to the pool.
LockIsExact ==
  /\ \A r \in Run : HasLock(r) => \A c \in HeldBy(r) : lock.on = c /\ lock.depth > 0
  /\ lock.depth > 0 /\ ~leaked => \E r \in Run : HasLock(r) /\ lock.on \in HeldBy(r)

\* As long as no run lost the session of its lock, no pattern is enabled twice for a tier
\* and no utterance is stored twice: the tables have no key that would refuse it.
NoDuplicates ==
  ~dropped => /\ \A x, y \in rules :
                   x.enabled /\ y.enabled /\ x.tier = y.tier /\ x.pattern = y.pattern => x = y
              /\ \A x, y \in utterances : x.text = y.text => x = y

\* The row of a completed run counts exactly what the run wrote, and nothing is written
\* by a run without a row (a dry run, or one whose setup failed).
RecordsAreTrue ==
  /\ \A r \in Run : tuning[r].status = "completed" =>
       tuning[r].rules = Cardinality(CreatedBy(r)) /\ tuning[r].utterances = Cardinality(AddedBy(r))
  /\ \A x \in rules \cup utterances : tuning[x.by].status # "none"

\* A row becomes "failed" by the run it belongs to, or because that run is over without
\* having closed it: the clean-up after a crash spares a run that only takes long, and a
\* completed run is not reported as failed, unless the session of a lock was lost.
StaleIsOver ==
  [][\A r \in Run : tuning[r].status # "failed" /\ tuning'[r].status = "failed"
       => dropped \/ pc[r] = "fail" \/ (pc[r] = "over" /\ tuning[r].status = "running")]_vars

\* Every run that was started ends.
RunsEnd == \A r \in Run : (pc[r] # "idle") ~> (pc[r] = "over")
==============================================================================
