---------------------------- MODULE TunerProofs ----------------------------
(* What the pool and the tuner promise, for any number of connections, runs,      *)
(* branch users, tasks and mishaps.                                               *)
EXTENDS Tuner, FiniteSetTheorems, TLAPS

------------------------------------------------------------------------------
(* The pool.  What makes the skipped resets harmless: the notes of a connection   *)
(* that was never spoiled say what its session is, and a session nobody took note *)
(* of is fresh.                                                                   *)
Session == [user : User \cup {Nobody}, off : BOOLEAN, manual : BOOLEAN,
            tracked : BOOLEAN, notedOff : BOOLEAN, notedManual : BOOLEAN]
Honest(k) == /\ k.manual = k.notedManual /\ k.off = k.notedOff
             /\ ~k.tracked => ~k.manual /\ ~k.off
             /\ k.user \notin Branch => ~k.manual /\ ~k.off
PoolInv ==
  /\ conn \in [Conn -> Session] /\ spoiled \subseteq Conn
  /\ \A c \in Conn \ spoiled : Honest(conn[c])

LEMMA RunsAreUsers == /\ Run \subseteq User /\ Nobody \notin Run /\ Nobody \notin Branch
                      /\ \A r \in Run : r \notin Branch
  BY TunerAssumption, ConnAssumption

LEMMA FreshIsHonest == Fresh \in Session /\ Honest(Fresh) /\ Fresh.user = Nobody
  BY ConnAssumption DEF Fresh, Session, Honest

LEMMA PoolStarts == PoolInit => PoolInv
  BY FreshIsHonest DEF PoolInit, PoolInv

\* Handing a connection out or back changes nothing but its user.
LEMMA UserChanges ==
  ASSUME PoolInv, NEW c \in Conn, NEW u \in User \cup {Nobody}, conn' = [conn EXCEPT ![c].user = u],
         conn[c].user \notin Branch, UNCHANGED spoiled
  PROVE  /\ PoolInv' /\ conn'[c].user = u
         /\ \A d \in Conn : d # c => conn'[d] = conn[d]
  <1>1. conn[c] \in Session  BY DEF PoolInv
  <1> DEFINE k == [conn[c] EXCEPT !.user = u]
  <1>2. k \in Session /\ k.user = u /\ (Honest(conn[c]) => Honest(k))
    BY <1>1 DEF Session, Honest
  <1>3. conn' = [conn EXCEPT ![c] = k]  OBVIOUS
  <1> HIDE DEF k
  <1> QED  BY <1>2, <1>3 DEF PoolInv

\* What the callback of withBranchConnection does is noted.
LEMMA WorkIsNoted ==
  ASSUME PoolInv, NEW o \in Branch, OpWork(o)
  PROVE  /\ PoolInv'
         /\ \A d \in Conn : conn'[d].user = conn[d].user
  <1>1. PICK c \in HeldBy(o), b \in BOOLEAN :
          conn' \in {[conn EXCEPT ![c] = NoteAutocommit(@, b)], [conn EXCEPT ![c] = NoteBranch(@, b)]}
    BY DEF OpWork
  <1>2. c \in Conn /\ conn[c].user = o /\ conn[c] \in Session  BY DEF HeldBy, PoolInv
  <1>3. PICK k : conn' = [conn EXCEPT ![c] = k] /\ k \in {NoteAutocommit(conn[c], b), NoteBranch(conn[c], b)}
    BY <1>1
  <1>4. k \in Session /\ k.user = o /\ (Honest(conn[c]) => Honest(k))
    BY <1>2, <1>3 DEF Session, Honest, NoteAutocommit, NoteBranch
  <1> QED  BY <1>2, <1>3, <1>4 DEF PoolInv, OpWork

\* The end of it: a reset that was skipped was not needed.
LEMMA EndResets ==
  ASSUME PoolInv, NEW o \in Branch, OpEnd(o)
  PROVE  /\ PoolInv'
         /\ \A d \in Conn : conn'[d].user = conn[d].user \/ (conn[d].user = o /\ conn'[d].user = Nobody)
  <1>1. CASE HeldBy(o) = {} /\ UNCHANGED <<conn, spoiled>>  BY <1>1 DEF PoolInv
  <1>2. ASSUME NEW c \in HeldBy(o), NEW k \in Resets(conn[c]),
               conn' = [conn EXCEPT ![c] = [Clean(k) EXCEPT !.user = Nobody]],
               spoiled' = IF ResetFailed(k) THEN spoiled \cup {c} ELSE spoiled
        PROVE  /\ PoolInv'
               /\ \A d \in Conn : conn'[d].user = conn[d].user \/ (conn[d].user = o /\ conn'[d].user = Nobody)
    <2>1. c \in Conn /\ conn[c].user = o /\ conn[c] \in Session  BY DEF HeldBy, PoolInv
    <2> DEFINE e == [Clean(k) EXCEPT !.user = Nobody]
    <2> DEFINE M == IF NeedsAutocommit(conn[c]) THEN {FALSE, conn[c].manual} ELSE {conn[c].manual}
               F == IF NeedsCheckout(conn[c]) THEN {FALSE, conn[c].off} ELSE {conn[c].off}
    <2>a. /\ conn[c].manual \in BOOLEAN /\ conn[c].off \in BOOLEAN
          /\ M = {FALSE, conn[c].manual} \/ M = {conn[c].manual}
          /\ F = {FALSE, conn[c].off} \/ F = {conn[c].off}
      BY <2>1 DEF Session
    <2>b. Resets(conn[c]) = {Undone(conn[c], m, f) : m \in M, f \in F}  BY DEF Resets
    <2>2. PICK m \in M, f \in F : k = Undone(conn[c], m, f)
      <3> HIDE DEF M, F
      <3> QED  BY <2>b
    <2>c. m \in BOOLEAN /\ f \in BOOLEAN
      <3> HIDE DEF M, F
      <3> QED  BY <2>a, <2>2
    <2>3. /\ k \in Session /\ k.manual = m /\ k.off = f
          /\ k.tracked = conn[c].tracked /\ k.notedManual = conn[c].notedManual
          /\ k.notedOff = conn[c].notedOff
      BY <2>1, <2>2, <2>c DEF Session, Undone
    <2>4. /\ e \in Session /\ e.user = Nobody /\ e.manual = m /\ e.off = f /\ e.tracked
          /\ e.notedManual = FALSE /\ e.notedOff = FALSE
      BY <2>3, <2>c DEF Session, Clean
    <2>5. Honest(conn[c]) /\ ~ResetFailed(k) => m = FALSE /\ f = FALSE
      <3>1. ResetFailed(k) <=> \/ NeedsAutocommit(conn[c]) /\ m
                               \/ NeedsCheckout(conn[c]) /\ f
        BY <2>3 DEF ResetFailed, NeedsAutocommit, NeedsCheckout
      <3>2. Honest(conn[c]) /\ ~NeedsAutocommit(conn[c]) => m = FALSE
        BY <2>1, <2>2, <2>a DEF Honest, NeedsAutocommit, Session
      <3>3. Honest(conn[c]) /\ ~NeedsCheckout(conn[c]) => f = FALSE
        BY <2>1, <2>2, <2>a DEF Honest, NeedsCheckout, Session
      <3> HIDE DEF M, F
      <3> QED  BY <2>c, <3>1, <3>2, <3>3
    <2>6. Honest(conn[c]) /\ ~ResetFailed(k) => Honest(e)
      BY <2>4, <2>5 DEF Honest
    <2>7. conn' = [conn EXCEPT ![c] = e]  BY <1>2
    <2> HIDE DEF e
    <2> QED  BY <1>2, <2>1, <2>4, <2>6, <2>7 DEF PoolInv
  <1> QED  BY <1>1, <1>2 DEF OpEnd

LEMMA LostIsFresh ==
  ASSUME PoolInv, NEW c \in Conn, LoseConnection(c)
  PROVE  /\ PoolInv' /\ conn'[c].user = Nobody
         /\ \A d \in Conn : d # c => conn'[d] = conn[d]
  BY FreshIsHonest DEF LoseConnection, PoolInv

LEMMA CrashIsFresh ==
  ASSUME PoolCrash
  PROVE  PoolInv' /\ \A d \in Conn : conn'[d].user = Nobody
  BY FreshIsHonest DEF PoolCrash, PoolInv

------------------------------------------------------------------------------
(* The runs and their lock.                                                       *)
Fields == DOMAIN Idle
Late   == LockedStates \ {"stale", "mark"}
Open   == {"read", "existing", "tiers", "fallbacks", "known", "promote", "finalize"}

Shape ==
  /\ DOMAIN pc = Run /\ DOMAIN run = Run /\ DOMAIN tuning = Run
  /\ \A r \in Run : run[r].dry \in BOOLEAN /\ Fields \subseteq DOMAIN run[r]
                    /\ DOMAIN NoRow \subseteq DOMAIN tuning[r]

\* A run has at most one connection, from "lock" on, and a dry run none.
HoldInv ==
  /\ \A c, d \in Conn : conn[c].user \in Run /\ conn[c].user = conn[d].user => c = d
  /\ \A c \in Conn : conn[c].user \in Run =>
        run[conn[c].user].dry = FALSE /\ pc[conn[c].user] \in LockedStates \cup {"lock"}
  /\ \A r \in Run : run[r].dry => pc[r] \in Open \cup {"over"}

\* The lock is on the connection of a run past GET_LOCK, and taken once.
LockInv ==
  /\ lock.depth \in Nat /\ {"on", "depth"} \subseteq DOMAIN lock
  /\ \A c \in Conn : conn[c].user \in Run /\ pc[conn[c].user] \in LockedStates
                       => lock.on = c /\ lock.depth > 0
  /\ lock.depth > 0 /\ ~leaked =>
        /\ lock.depth = 1 /\ lock.on \in Conn /\ conn[lock.on].user \in Run
        /\ pc[conn[lock.on].user] \in LockedStates

\* Who has a row is past its insertion; who believes in its lock still has its session,
\* unless one was lost; what a run is about to mark as stale is over and will stay so.
RowInv ==
  /\ \A r \in Run : tuning[r].status # "none" => pc[r] \in Late \cup {"over"} /\ run[r].dry = FALSE
  /\ ~dropped => \A r \in Run : HasLock(r) => \E c \in Conn : conn[c].user = r
  /\ \A r \in Run : pc[r] = "mark" => \A q \in run[r].stale :
        /\ q \in Run /\ tuning[q].status # "none"
        /\ ~dropped => pc[q] = "over" /\ tuning[q].status = "running"

Inv == PoolInv /\ Shape /\ HoldInv /\ LockInv /\ RowInv

LEMMA TunerStarts == Init => Inv
  <1> SUFFICES ASSUME Init PROVE Inv  OBVIOUS
  <1>1. PoolInv  BY PoolStarts DEF Init
  <1>2. Shape  BY DEF Init, Shape, Idle, NoRow, Fields
  <1>3. \A c \in Conn : conn[c].user \notin Run
    BY RunsAreUsers, FreshIsHonest DEF Init, PoolInit
  <1>4. \A r \in Run : pc[r] = "idle" /\ run[r].dry = FALSE /\ tuning[r].status = "none"
    BY DEF Init, Idle, NoRow
  <1>5. HoldInv  BY <1>3, <1>4 DEF HoldInv
  <1>6. LockInv  BY <1>3 DEF Init, LockInv, LockFree
  <1>7. RowInv  BY <1>4 DEF RowInv, HasLock, LockedStates
  <1> QED  BY <1>1, <1>2, <1>5, <1>6, <1>7 DEF Inv

\* Two runs that believe in the lock and have their sessions are one run.
LEMMA LockExcludes ==
  ASSUME Inv, NEW r \in Run, NEW q \in Run, HasLock(r), HasLock(q),
         NEW c \in Conn, conn[c].user = r, NEW d \in Conn, conn[d].user = q
  PROVE  r = q
  BY DEF Inv, LockInv, HasLock

------------------------------------------------------------------------------
(* The steps of tune(): no connection, no lock.                                   *)
\* What a step of run r leaves of the others, and of itself.
Others(r) ==
  /\ DOMAIN pc' = Run /\ DOMAIN run' = Run /\ DOMAIN tuning' = Run
  /\ \A q \in Run : q # r => pc'[q] = pc[q] /\ run'[q] = run[q] /\ tuning'[q] = tuning[q]
  /\ Fields \subseteq DOMAIN run'[r] /\ DOMAIN NoRow \subseteq DOMAIN tuning'[r]
Apart == UNCHANGED <<poolVars, lock, leaked, dropped>>

LEMMA RunWorks ==
  ASSUME Inv, NEW r \in Run, pc[r] \in Late, Others(r), Apart,
         \/ tuning'[r].status = tuning[r].status
         \/ run[r].dry = FALSE /\ tuning'[r].status # "none",
         \/ /\ pc'[r] \in Late /\ run'[r].dry = run[r].dry
            /\ run[r].dry => pc'[r] \in Open
         \/ pc'[r] = "over" /\ run[r].dry /\ run'[r].dry \in BOOLEAN
  PROVE  Inv'
  <1> USE DEF Inv
  <1>0. /\ DOMAIN pc' = Run /\ \A q \in Run : q # r => pc'[q] = pc[q]
        /\ DOMAIN run' = Run /\ \A q \in Run : q # r => run'[q] = run[q]
        /\ DOMAIN tuning' = Run /\ \A q \in Run : q # r => tuning'[q] = tuning[q]
        /\ Fields \subseteq DOMAIN run'[r] /\ DOMAIN NoRow \subseteq DOMAIN tuning'[r]
        /\ UNCHANGED <<conn, spoiled, lock, leaked, dropped>>
    BY DEF Others, Apart, poolVars
  <1>1. PoolInv'  BY <1>0 DEF PoolInv
  <1>2. Shape'  BY <1>0 DEF Shape
  <1>a. run[r].dry \in BOOLEAN  BY DEF Shape
  <1>b. "over" \notin LockedStates /\ Late \subseteq LockedStates /\ "mark" \notin Late
        /\ "stale" \notin Late /\ "over" \notin Late
    BY DEF Late, LockedStates
  <1>c. \A c \in Conn : conn[c].user = r => run[r].dry = FALSE  BY DEF HoldInv
  <1>3. HoldInv'
    <2>1. \A c \in Conn : conn[c].user \in Run =>
            run'[conn[c].user].dry = FALSE /\ pc'[conn[c].user] \in LockedStates \cup {"lock"}
      BY <1>0, <1>a, <1>b, <1>c DEF HoldInv
    <2>2. \A q \in Run : run'[q].dry => pc'[q] \in Open \cup {"over"}
      BY <1>0, <1>a DEF HoldInv
    <2> QED  BY <1>0, <2>1, <2>2 DEF HoldInv
  <1>4. LockInv'  BY <1>0, <1>b, <1>c DEF LockInv
  <1>5. RowInv'
    <2>1. ASSUME NEW q \in Run, tuning'[q].status # "none"
          PROVE  pc'[q] \in Late \cup {"over"} /\ run'[q].dry = FALSE
      BY <1>0, <1>a, <2>1 DEF RowInv
    <2>2. ASSUME ~dropped', NEW q \in Run, HasLock(q)' PROVE \E c \in Conn : conn'[c].user = q
      BY <1>0, <1>b, <2>2 DEF RowInv, HasLock
    <2>3. ASSUME NEW q \in Run, pc'[q] = "mark", NEW z \in run'[q].stale
          PROVE  /\ z \in Run /\ tuning'[z].status # "none"
                 /\ ~dropped' => pc'[z] = "over" /\ tuning'[z].status = "running"
      <3>1. q # r  BY <1>0, <1>b, <2>3
      <3>2. /\ z \in Run /\ tuning[z].status # "none"
            /\ ~dropped => pc[z] = "over" /\ tuning[z].status = "running"
        BY <1>0, <2>3, <3>1 DEF RowInv
      <3>3. ~dropped => z # r  BY <1>b, <3>2
      <3> QED  BY <1>0, <3>2, <3>3
    <2> QED  BY <2>1, <2>2, <2>3 DEF RowInv
  <1> QED  BY <1>1, <1>2, <1>3, <1>4, <1>5

\* The catch block of tune().
LEMMA ThrowKeeps ==
  ASSUME Inv, NEW r \in Run, pc[r] \in Late, Throw(r), Apart, UNCHANGED <<run, tuning>>
  PROVE  Inv'
  <1>1. Others(r)  BY DEF Inv, Shape, Throw, Goto, Others
  <1>2. CASE run[r].dry
    <2>1. pc'[r] = "over" /\ run'[r].dry \in BOOLEAN  BY <1>2 DEF Inv, Shape, Throw, Goto
    <2> QED  BY <1>1, <1>2, <2>1, RunWorks
  <1>3. CASE ~run[r].dry
    <2>1. pc'[r] \in Late  BY <1>3 DEF Inv, Shape, Throw, Goto, Late, LockedStates
    <2> QED  BY <1>1, <1>3, <2>1, RunWorks
  <1> QED  BY <1>2, <1>3

LEMMA WritesFail ==
  ASSUME Inv, NEW r \in Run, pc[r] \in Late, ByPool,
         ReadFails(r) \/ (WriteFails(r) /\ UNCHANGED tuning)
  PROVE  Inv'
  BY ThrowKeeps DEF ReadFails, WriteFails, Fault, ByPool, Apart, tables

\* A step to s with the local variables e, while the rows of tuning_run stay.
LEMMA WorksOn ==
  ASSUME Inv, NEW r \in Run, pc[r] \in Late, NEW s \in Late, NEW e,
         Goto(r, s) \/ (UNCHANGED pc /\ s = pc[r]), Becomes(r, e) \/ (UNCHANGED run /\ e = run[r]),
         Fields \subseteq DOMAIN e, e.dry = run[r].dry, run[r].dry => s \in Open,
         UNCHANGED tuning, ByPool, UNCHANGED history
  PROVE  Inv'
  <1>1. pc'[r] = s /\ run'[r] = e  BY DEF Inv, Shape, Goto, Becomes
  <1>2. Others(r)  BY DEF Inv, Shape, Goto, Becomes, Others
  <1>3. Apart  BY DEF ByPool, history, Apart
  <1> QED  BY <1>1, <1>2, <1>3, RunWorks

LEMMA ReadsKeep ==
  ASSUME Inv, NEW r \in Run, Read(r) \/ Existing(r) \/ ReadFallbacks(r) \/ KnownTexts(r)
  PROVE  Inv'
  <1> USE DEF Late, LockedStates, Open
  <1>0. pc[r] \in Late /\ ByPool  BY DEF Read, Existing, ReadFallbacks, KnownTexts
  <1>1. Fields \subseteq DOMAIN run[r]  BY DEF Inv, Shape
  <1>2. CASE ReadFails(r)  BY <1>0, <1>2, WritesFail
  <1>3. CASE Read(r) /\ ~ReadFails(r)
    <2> DEFINE e == [run[r] EXCEPT !.rows = Escalations, !.nul = Escalations \cap purged]
    <2>1. Fields \subseteq DOMAIN e /\ e.dry = run[r].dry  BY <1>1 DEF Fields, Idle
    <2>2. Becomes(r, e) /\ UNCHANGED <<tables, history>>  BY <1>3 DEF Read
    <2>3. \E s \in Late : Goto(r, s) /\ s \in Open  BY <1>3 DEF Read
    <2> HIDE DEF e
    <2> QED  BY <1>0, <2>1, <2>2, <2>3, WorksOn DEF tables
  <1>4. CASE Existing(r) /\ ~ReadFails(r)
    <2> DEFINE e == [run[r] EXCEPT !.known = ExistingPatterns,
                         !.tiers = {i \in Tiers(run[r].rows) :
                                      Cardinality(OfTier(run[r].rows, i)) >= MinFrequency}]
    <2>1. Fields \subseteq DOMAIN e /\ e.dry = run[r].dry  BY <1>1 DEF Fields, Idle
    <2>2. Becomes(r, e) /\ Goto(r, "tiers") /\ UNCHANGED <<tables, history>>  BY <1>4 DEF Existing
    <2>3. "tiers" \in Late /\ "tiers" \in Open  OBVIOUS
    <2> HIDE DEF e
    <2> QED  BY <1>0, <2>1, <2>2, <2>3, WorksOn DEF tables
  <1>5. CASE ReadFallbacks(r) /\ ~ReadFails(r)
    <2>1. PICK S \in SUBSET Fallbacks :
            /\ IF S \cap purged # {} THEN Throw(r) /\ UNCHANGED run
               ELSE LET long == {t \in S : Logged[t].long} IN
                    /\ Becomes(r, [run[r] EXCEPT !.rows = long])
                    /\ Goto(r, IF long = {} THEN "finalize" ELSE "known")
            /\ UNCHANGED <<tables, history>>
      BY <1>5 DEF ReadFallbacks
    <2>2. CASE S \cap purged # {}
      BY <1>0, <2>1, <2>2, ThrowKeeps DEF ByPool, tables, history, Apart
    <2>3. CASE S \cap purged = {}
      <3> DEFINE e == [run[r] EXCEPT !.rows = {t \in S : Logged[t].long}]
      <3>1. Fields \subseteq DOMAIN e /\ e.dry = run[r].dry  BY <1>1 DEF Fields, Idle
      <3>2. Becomes(r, e)  BY <2>1, <2>3
      <3>3. \E s \in Late : Goto(r, s) /\ s \in Open  BY <2>1, <2>3
      <3> HIDE DEF e
      <3> QED  BY <1>0, <2>1, <3>1, <3>2, <3>3, WorksOn DEF tables
    <2> QED  BY <2>2, <2>3
  <1>6. CASE KnownTexts(r) /\ ~ReadFails(r)
    <2> DEFINE e == [run[r] EXCEPT !.texts = ExistingTexts \cap Texts(run[r].rows)]
    <2>1. Fields \subseteq DOMAIN e /\ e.dry = run[r].dry  BY <1>1 DEF Fields, Idle
    <2>2. Becomes(r, e) /\ Goto(r, "promote") /\ UNCHANGED <<tables, history>>  BY <1>6 DEF KnownTexts
    <2>3. "promote" \in Late /\ "promote" \in Open  OBVIOUS
    <2> HIDE DEF e
    <2> QED  BY <1>0, <2>1, <2>2, <2>3, WorksOn DEF tables
  <1> QED  BY <1>2, <1>3, <1>4, <1>5, <1>6

LEMMA RulesKeep ==
  ASSUME Inv, NEW r \in Run, NextTier(r) \/ Crystallize(r) \/ TiersDone(r)
  PROVE  Inv'
  <1> USE DEF Late, LockedStates, Open
  <1>0. pc[r] = "tiers" /\ pc[r] \in Late /\ ByPool  BY DEF NextTier, Crystallize, TiersDone
  <1>1. Fields \subseteq DOMAIN run[r]  BY DEF Inv, Shape
  <1>2. CASE NextTier(r)
    <2>1. PICK i \in run[r].tiers :
            IF OfTier(run[r].rows, i) \cap run[r].nul # {} THEN Throw(r) /\ UNCHANGED run
            ELSE /\ \E W \in TopPhrases(OfTier(run[r].rows, i)) :
                      Becomes(r, [run[r] EXCEPT !.tiers = @ \ {i},
                                    !.todo = {<<i, w>> : w \in W} \ run[r].known])
                 /\ UNCHANGED pc
      BY <1>2 DEF NextTier
    <2>2. UNCHANGED <<tables, history>>  BY <1>2 DEF NextTier
    <2>3. CASE OfTier(run[r].rows, i) \cap run[r].nul # {}
      BY <1>0, <2>1, <2>2, <2>3, ThrowKeeps DEF ByPool, tables, history, Apart
    <2>4. CASE OfTier(run[r].rows, i) \cap run[r].nul = {}
      <3>1. PICK W : Becomes(r, [run[r] EXCEPT !.tiers = @ \ {i},
                                    !.todo = {<<i, w>> : w \in W} \ run[r].known]) /\ UNCHANGED pc
        BY <2>1, <2>4
      <3> DEFINE e == [run[r] EXCEPT !.tiers = @ \ {i}, !.todo = {<<i, w>> : w \in W} \ run[r].known]
      <3>2. Fields \subseteq DOMAIN e /\ e.dry = run[r].dry  BY <1>1 DEF Fields, Idle
      <3>3. Becomes(r, e) /\ UNCHANGED pc  BY <3>1
      <3> HIDE DEF e
      <3> QED  BY <1>0, <2>2, <3>2, <3>3, WorksOn DEF tables
    <2> QED  BY <2>3, <2>4
  <1>3. CASE Crystallize(r)
    <2>1. PICK p \in run[r].todo :
            \/ Becomes(r, [run[r] EXCEPT !.todo = @ \ {p}, !.made = @ + 1]) /\ UNCHANGED <<pc, history>>
            \/ WriteFails(r)
      BY <1>3 DEF Crystallize
    <2>2. UNCHANGED tuning  BY <1>3 DEF Crystallize
    <2>3. CASE WriteFails(r)  BY <1>0, <2>2, <2>3, WritesFail
    <2>4. CASE ~WriteFails(r)
      <3> DEFINE e == [run[r] EXCEPT !.todo = @ \ {p}, !.made = @ + 1]
      <3>1. Fields \subseteq DOMAIN e /\ e.dry = run[r].dry  BY <1>1 DEF Fields, Idle
      <3>2. Becomes(r, e) /\ UNCHANGED <<pc, history>>  BY <2>1, <2>4
      <3> HIDE DEF e
      <3> QED  BY <1>0, <2>2, <3>1, <3>2, WorksOn
    <2> QED  BY <2>3, <2>4
  <1>4. CASE TiersDone(r)
    <2> DEFINE e == [Idle EXCEPT !.dry = run[r].dry, !.made = run[r].made]
    <2>1. Fields \subseteq DOMAIN e /\ e.dry = run[r].dry  BY DEF Fields, Idle
    <2>2. Becomes(r, e) /\ Goto(r, "fallbacks") /\ UNCHANGED <<tables, history>>  BY <1>4 DEF TiersDone
    <2>3. "fallbacks" \in Late /\ "fallbacks" \in Open  OBVIOUS
    <2> HIDE DEF e
    <2> QED  BY <1>0, <2>1, <2>2, <2>3, WorksOn DEF tables
  <1> QED  BY <1>2, <1>3, <1>4

LEMMA PromotesKeep ==
  ASSUME Inv, NEW r \in Run, Promote(r) \/ PromoteDone(r)
  PROVE  Inv'
  <1> USE DEF Late, LockedStates, Open
  <1>0. pc[r] = "promote" /\ pc[r] \in Late /\ ByPool  BY DEF Promote, PromoteDone
  <1>1. Fields \subseteq DOMAIN run[r]  BY DEF Inv, Shape
  <1>2. CASE Promote(r)
    <2>0. UNCHANGED tuning  BY <1>2 DEF Promote
    <2>1. CASE WriteFails(r)  BY <1>0, <2>0, <2>1, WritesFail
    <2>2. CASE ~WriteFails(r)
      <3>1. PICK t \in run[r].rows :
              /\ \/ Becomes(r, [run[r] EXCEPT !.rows = @ \ {t}])
                 \/ Becomes(r, [run[r] EXCEPT !.rows = @ \ {t}, !.texts = @ \cup {Logged[t].text}, !.added = @ + 1])
              /\ UNCHANGED <<pc, history>>
        BY <1>2, <2>2 DEF Promote
      <3>2. ASSUME NEW e, Becomes(r, e), Fields \subseteq DOMAIN e, e.dry = run[r].dry PROVE Inv'
        BY <1>0, <2>0, <3>1, <3>2, WorksOn
      <3> DEFINE e1 == [run[r] EXCEPT !.rows = @ \ {t}]
                 e2 == [run[r] EXCEPT !.rows = @ \ {t}, !.texts = @ \cup {Logged[t].text}, !.added = @ + 1]
      <3>3. Fields \subseteq DOMAIN e1 /\ e1.dry = run[r].dry  BY <1>1 DEF Fields, Idle
      <3>4. Fields \subseteq DOMAIN e2 /\ e2.dry = run[r].dry  BY <1>1 DEF Fields, Idle
      <3>5. Becomes(r, e1) \/ Becomes(r, e2)  BY <3>1
      <3> HIDE DEF e1, e2
      <3> QED  BY <3>2, <3>3, <3>4, <3>5
    <2> QED  BY <2>1, <2>2
  <1>3. CASE PromoteDone(r)
    <2> DEFINE e == [run[r] EXCEPT !.texts = {}]
    <2>1. Fields \subseteq DOMAIN e /\ e.dry = run[r].dry  BY <1>1 DEF Fields, Idle
    <2>2. Becomes(r, e) /\ Goto(r, "finalize") /\ UNCHANGED <<tables, history>>  BY <1>3 DEF PromoteDone
    <2>3. "finalize" \in Late /\ "finalize" \in Open  OBVIOUS
    <2> HIDE DEF e
    <2> QED  BY <1>0, <2>1, <2>2, <2>3, WorksOn DEF tables
  <1> QED  BY <1>2, <1>3

\* finalizeTuningRun, the commit, the record of a failure.
LEMMA ClosesKeep ==
  ASSUME Inv, NEW r \in Run, Finalize(r) \/ Commit(r) \/ RecordFailure(r)
  PROVE  Inv'
  <1> USE DEF Late, LockedStates, Open
  <1>0. pc[r] \in Late /\ ByPool  BY DEF Finalize, Commit, RecordFailure
  <1>1. Fields \subseteq DOMAIN run[r] /\ run[r].dry \in BOOLEAN  BY DEF Inv, Shape
  <1>2. CASE Finalize(r) /\ run[r].dry
    <2>1. Goto(r, "over") /\ Becomes(r, Idle) /\ UNCHANGED <<tuning, history>>  BY <1>2 DEF Finalize
    <2>2. pc'[r] = "over" /\ run'[r].dry \in BOOLEAN  BY <2>1 DEF Inv, Shape, Goto, Becomes, Idle
    <2>3. Others(r)  BY <2>1 DEF Inv, Shape, Goto, Becomes, Others, Fields
    <2> QED  BY <1>0, <1>2, <2>1, <2>2, <2>3, RunWorks DEF ByPool, history, Apart
  <1>3. CASE Finalize(r) /\ ~run[r].dry
    <2>1. /\ pc'[r] \in {"commit", "fail"} /\ UNCHANGED run /\ DOMAIN pc' = Run
          /\ \A q \in Run : q # r => pc'[q] = pc[q]
      BY <1>3 DEF Inv, Shape, Finalize, Goto, WriteFails, Throw
    <2>2. /\ DOMAIN tuning' = Run /\ \A q \in Run : q # r => tuning'[q] = tuning[q]
          /\ DOMAIN NoRow \subseteq DOMAIN tuning'[r]
          /\ tuning'[r].status = tuning[r].status \/ tuning'[r].status # "none"
      BY <1>3 DEF Inv, Shape, Finalize, NoRow
    <2>3. UNCHANGED <<leaked, dropped>>  BY <1>3 DEF Finalize, WriteFails, Fault, history
    <2>4. Others(r) /\ Apart  BY <1>0, <1>1, <2>1, <2>2, <2>3 DEF Inv, Shape, Others, Apart, ByPool
    <2> QED  BY <1>0, <1>1, <1>3, <2>1, <2>2, <2>4, RunWorks
  <1>4. CASE Commit(r)
    <2>1. Goto(r, "unlock") /\ UNCHANGED <<run, tables, history>>  BY <1>4 DEF Commit
    <2>2. "unlock" \in Late /\ run[r].dry = FALSE  BY <1>1, <1>4 DEF Inv, HoldInv, Commit
    <2> QED  BY <1>0, <1>1, <2>1, <2>2, WorksOn DEF tables
  <1>5. CASE RecordFailure(r)
    <2>1. /\ pc'[r] = "unlock" /\ UNCHANGED run /\ DOMAIN pc' = Run
          /\ \A q \in Run : q # r => pc'[q] = pc[q]
      BY <1>5 DEF Inv, Shape, RecordFailure, Goto
    <2>2. /\ DOMAIN tuning' = Run /\ \A q \in Run : q # r => tuning'[q] = tuning[q]
          /\ DOMAIN NoRow \subseteq DOMAIN tuning'[r]
          /\ tuning'[r].status = tuning[r].status \/ tuning'[r].status # "none"
      BY <1>5 DEF Inv, Shape, RecordFailure, NoRow
    <2>3. UNCHANGED <<leaked, dropped>>  BY <1>5 DEF RecordFailure, Fault, history
    <2>4. Others(r) /\ Apart  BY <1>0, <1>1, <2>1, <2>2, <2>3 DEF Inv, Shape, Others, Apart, ByPool
    <2>5. run[r].dry = FALSE  BY <1>1, <1>5 DEF Inv, HoldInv, RecordFailure
    <2> QED  BY <1>0, <2>1, <2>2, <2>4, <2>5, RunWorks
  <1> QED  BY <1>0, <1>1, <1>2, <1>3, <1>4, <1>5

------------------------------------------------------------------------------
(* acquireTunerLock and releaseTunerLock.                                         *)
LEMMA StartKeeps ==
  ASSUME Inv, NEW r \in Run, Start(r)
  PROVE  Inv'
  <1> USE DEF Inv
  <1>0. PICK dry \in BOOLEAN : Becomes(r, [Idle EXCEPT !.dry = dry]) /\ Goto(r, IF dry THEN "read" ELSE "connect")
    BY DEF Start
  <1>1. pc[r] = "idle" /\ UNCHANGED <<conn, op, spoiled, lock, tuning, leaked, dropped>>
    BY DEF Start, poolVars, tables, history
  <1>2. /\ DOMAIN pc' = Run /\ pc'[r] = (IF dry THEN "read" ELSE "connect")
        /\ \A q \in Run : q # r => pc'[q] = pc[q]
        /\ DOMAIN run' = Run /\ run'[r].dry = dry /\ Fields \subseteq DOMAIN run'[r]
        /\ \A q \in Run : q # r => run'[q] = run[q]
    BY <1>0 DEF Shape, Goto, Becomes, Fields, Idle
  <1>3. PoolInv'  BY <1>1 DEF PoolInv
  <1>4. Shape'  BY <1>1, <1>2 DEF Shape
  <1>5. \A c \in Conn : conn[c].user # r  BY <1>1 DEF HoldInv, LockedStates
  <1>6. HoldInv'  BY <1>1, <1>2, <1>5 DEF HoldInv, Open
  <1>7. LockInv'  BY <1>1, <1>2, <1>5 DEF LockInv
  <1>8. tuning[r].status = "none"  BY <1>1 DEF RowInv, Late, LockedStates
  <1>9. RowInv'
    <2>1. ASSUME NEW q \in Run, tuning'[q].status # "none"
          PROVE  pc'[q] \in Late \cup {"over"} /\ run'[q].dry = FALSE
      BY <1>1, <1>2, <1>8, <2>1 DEF RowInv
    <2>2. ASSUME ~dropped', NEW q \in Run, HasLock(q)' PROVE \E c \in Conn : conn'[c].user = q
      BY <1>1, <1>2, <2>2 DEF RowInv, HasLock, LockedStates
    <2>3. ASSUME NEW q \in Run, pc'[q] = "mark", NEW z \in run'[q].stale
          PROVE  /\ z \in Run /\ tuning'[z].status # "none"
                 /\ ~dropped' => pc'[z] = "over" /\ tuning'[z].status = "running"
      BY <1>1, <1>2, <2>3 DEF RowInv
    <2> QED  BY <2>1, <2>2, <2>3 DEF RowInv
  <1> QED  BY <1>3, <1>4, <1>6, <1>7, <1>9

LEMMA ConnectKeeps ==
  ASSUME Inv, NEW r \in Run, Connect(r)
  PROVE  Inv'
  <1> USE DEF Inv
  <1>0. PICK c \in Conn : c \in Free /\ conn' = [conn EXCEPT ![c].user = r]  BY DEF Connect, Borrow
  <1>1. /\ pc[r] = "connect" /\ UNCHANGED <<op, spoiled, run, lock, tuning, leaked, dropped>>
        /\ conn[c].user = Nobody
    BY <1>0 DEF Connect, tables, history, Free
  <1>2. /\ DOMAIN pc' = Run /\ pc'[r] = "lock" /\ \A q \in Run : q # r => pc'[q] = pc[q]
    BY DEF Connect, Shape, Goto
  <1>3. PoolInv' /\ conn'[c].user = r /\ \A d \in Conn : d # c => conn'[d] = conn[d]
    BY <1>0, <1>1, RunsAreUsers, UserChanges
  <1>4. Shape'  BY <1>1, <1>2 DEF Shape
  <1>5. /\ \A d \in Conn : conn[d].user # r
        /\ run[r].dry = FALSE
    BY <1>1 DEF HoldInv, LockedStates, Open, Shape
  <1>6. HoldInv'  BY <1>1, <1>2, <1>3, <1>5 DEF HoldInv
  <1>7. "lock" \notin LockedStates /\ Nobody \notin Run  BY RunsAreUsers DEF LockedStates
  <1>8. LockInv'  BY <1>1, <1>2, <1>3, <1>5, <1>7 DEF LockInv
  <1>9. RowInv'
    <2>1. ASSUME NEW q \in Run, tuning'[q].status # "none"
          PROVE  pc'[q] \in Late \cup {"over"} /\ run'[q].dry = FALSE
      BY <1>1, <1>2, <2>1 DEF RowInv, Late, LockedStates
    <2>2. ASSUME ~dropped', NEW q \in Run, HasLock(q)' PROVE \E d \in Conn : conn'[d].user = q
      <3>1. q # r  BY <1>2, <1>7, <2>2 DEF HasLock
      <3>2. PICK d \in Conn : conn[d].user = q  BY <1>1, <1>2, <2>2, <3>1 DEF RowInv, HasLock
      <3>3. d # c  BY <1>1, <1>7, <3>2
      <3> QED  BY <1>3, <3>2, <3>3
    <2>3. ASSUME NEW q \in Run, pc'[q] = "mark", NEW z \in run'[q].stale
          PROVE  /\ z \in Run /\ tuning'[z].status # "none"
                 /\ ~dropped' => pc'[z] = "over" /\ tuning'[z].status = "running"
      BY <1>1, <1>2, <2>3 DEF RowInv
    <2> QED  BY <2>1, <2>2, <2>3 DEF RowInv
  <1> QED  BY <1>3, <1>4, <1>6, <1>8, <1>9

\* A run that is over, with its connection back in the pool (Gone) and the lock left as it
\* is, or given back by the run that had it.
LEMMA RunLeaves ==
  ASSUME Inv, NEW r \in Run, pc[r] \in {"lock", "unlock"},
         DOMAIN pc' = Run, pc'[r] = "over", \A q \in Run : q # r => pc'[q] = pc[q],
         DOMAIN run' = Run, run'[r].dry = FALSE, Fields \subseteq DOMAIN run'[r],
         \A q \in Run : q # r => run'[q] = run[q],
         PoolInv', \A d \in Conn : (conn[d].user # r /\ conn'[d] = conn[d]) \/ (conn[d].user = r /\ conn'[d].user = Nobody),
         leaked => leaked', UNCHANGED <<tuning, dropped>>,
         \/ pc[r] = "lock" /\ lock' = lock
         \/ pc[r] = "unlock" /\ lock' = lock /\ (leaked' \/ \A d \in Conn : conn[d].user # r)
         \/ /\ pc[r] = "unlock" /\ lock'.depth \in Nat /\ {"on", "depth"} \subseteq DOMAIN lock'
            /\ \E d \in Conn : conn[d].user = r
            /\ lock'.depth = lock.depth - 1
  PROVE  Inv'
  <1> USE DEF Inv
  <1>0. /\ Nobody \notin Run /\ "over" \notin LockedStates /\ "lock" \notin LockedStates /\ "unlock" \in LockedStates
        /\ "over" \notin Open /\ "over" \notin Late
    BY RunsAreUsers DEF LockedStates, Open, Late
  <1>1. Shape'  BY DEF Shape
  <1>2. \A d \in Conn : conn'[d].user \in Run => conn'[d] = conn[d] /\ conn[d].user # r  BY <1>0
  <1>3. HoldInv'  BY <1>0, <1>2 DEF HoldInv
  <1>4. LockInv'
    <2>1. lock'.depth \in Nat /\ {"on", "depth"} \subseteq DOMAIN lock'  BY DEF LockInv
    <2>2. ASSUME NEW c \in Conn, conn'[c].user \in Run, pc'[conn'[c].user] \in LockedStates
          PROVE  lock'.on = c /\ lock'.depth > 0
      <3>1. lock.on = c /\ lock.depth > 0 /\ conn[c].user # r  BY <1>0, <1>2, <2>2 DEF LockInv
      <3>2. pc[r] = "unlock" => \A d \in Conn : conn[d].user # r  BY <1>0, <3>1 DEF LockInv
      <3> QED  BY <3>1, <3>2
    <2>3. ASSUME lock'.depth > 0, ~leaked'
          PROVE  /\ lock'.depth = 1 /\ lock'.on \in Conn /\ conn'[lock'.on].user \in Run
                 /\ pc'[conn'[lock'.on].user] \in LockedStates
      <3>1. lock' = lock  BY <2>3 DEF LockInv
      <3>2. /\ lock.depth = 1 /\ lock.on \in Conn /\ conn[lock.on].user \in Run
            /\ pc[conn[lock.on].user] \in LockedStates
        BY <2>3, <3>1 DEF LockInv
      <3>3. conn[lock.on].user # r  BY <1>0, <2>3, <3>1, <3>2
      <3> QED  BY <3>1, <3>2, <3>3
    <2> QED  BY <2>1, <2>2, <2>3 DEF LockInv
  <1>5. RowInv'
    <2>0. pc[r] = "lock" => tuning[r].status = "none"  BY <1>0 DEF RowInv, Late
    <2>1. ASSUME NEW q \in Run, tuning'[q].status # "none"
          PROVE  pc'[q] \in Late \cup {"over"} /\ run'[q].dry = FALSE
      BY <1>0, <2>0, <2>1 DEF RowInv
    <2>2. ASSUME ~dropped', NEW q \in Run, HasLock(q)' PROVE \E d \in Conn : conn'[d].user = q
      <3>1. q # r  BY <1>0, <2>2 DEF HasLock
      <3>2. PICK d \in Conn : conn[d].user = q  BY <2>2, <3>1 DEF RowInv, HasLock
      <3> QED  BY <3>1, <3>2
    <2>3. ASSUME NEW q \in Run, pc'[q] = "mark", NEW z \in run'[q].stale
          PROVE  /\ z \in Run /\ tuning'[z].status # "none"
                 /\ ~dropped' => pc'[z] = "over" /\ tuning'[z].status = "running"
      BY <2>3 DEF RowInv
    <2> QED  BY <2>1, <2>2, <2>3 DEF RowInv
  <1> QED  BY <1>1, <1>3, <1>4, <1>5

LEMMA GrantKeeps ==
  ASSUME Inv, NEW r \in Run, GetLock(r)
  PROVE  Inv'
  <1> USE DEF Inv
  <1>0. /\ pc[r] = "lock" /\ UNCHANGED <<op, spoiled, run, tuning>>
        /\ "lock" \notin LockedStates /\ r \in User \cup {Nobody} /\ r \notin Branch /\ Nobody \notin Run
    BY RunsAreUsers DEF GetLock, tables, LockedStates
  <1>1. run[r].dry = FALSE /\ DOMAIN run = Run /\ Fields \subseteq DOMAIN run[r]
    BY <1>0 DEF HoldInv, Shape, Open
  <1>2. \A c, d \in Conn : conn[c].user = r /\ conn[d].user = r => c = d  BY DEF HoldInv
  \* Refused, or failed.
  <1>3. ASSUME NEW c \in HeldBy(r), Release(c), Goto(r, "over"), UNCHANGED <<lock, leaked, dropped>>
        PROVE  Inv'
    <2>1. c \in Conn /\ conn[c].user = r  BY DEF HeldBy
    <2>2. PoolInv' /\ conn'[c].user = Nobody /\ \A d \in Conn : d # c => conn'[d] = conn[d]
      BY <1>0, <1>3, <2>1, UserChanges DEF Release
    <2>3. \A d \in Conn : \/ conn[d].user # r /\ conn'[d] = conn[d]
                          \/ conn[d].user = r /\ conn'[d].user = Nobody
      BY <1>2, <2>1, <2>2
    <2>4. DOMAIN pc' = Run /\ pc'[r] = "over" /\ \A q \in Run : q # r => pc'[q] = pc[q]
      BY <1>3 DEF Shape, Goto
    <2> QED  BY <1>0, <1>1, <1>3, <2>2, <2>3, <2>4, RunLeaves
  <1>4. CASE ~Alive(r) /\ Goto(r, "over") /\ UNCHANGED <<conn, lock, history>>
    <2>1. DOMAIN pc' = Run /\ pc'[r] = "over" /\ \A q \in Run : q # r => pc'[q] = pc[q]
      BY <1>4 DEF Shape, Goto
    <2>2. \A d \in Conn : conn[d].user # r /\ conn'[d] = conn[d]  BY <1>4 DEF Alive, HeldBy
    <2>3. PoolInv'  BY <1>0, <1>4 DEF PoolInv
    <2> QED  BY <1>0, <1>1, <1>4, <2>1, <2>2, <2>3, RunLeaves DEF history
  \* Granted.
  <1>5. ASSUME NEW c \in HeldBy(r), Grantable(c), lock' = [on |-> c, depth |-> lock.depth + 1],
               Goto(r, "stale"), UNCHANGED <<conn, history>>
        PROVE  Inv'
    <2>1. c \in Conn /\ conn[c].user = r  BY DEF HeldBy
    <2>2. /\ DOMAIN pc' = Run /\ pc'[r] = "stale" /\ \A q \in Run : q # r => pc'[q] = pc[q]
          /\ UNCHANGED <<conn, leaked, dropped>>
      BY <1>5 DEF Shape, Goto, history
    <2>3. "stale" \in LockedStates /\ "stale" \notin Open  BY DEF LockedStates, Open
    <2>4. PoolInv'  BY <1>0, <2>2 DEF PoolInv
    <2>5. Shape'  BY <1>0, <2>2 DEF Shape
    <2>6. HoldInv'  BY <1>0, <1>1, <2>2, <2>3 DEF HoldInv
    <2>7. lock.depth \in Nat  BY DEF LockInv
    <2>8. \A d \in Conn : conn[d].user \in Run /\ pc[conn[d].user] \in LockedStates => FALSE
      <3> SUFFICES ASSUME NEW d \in Conn, conn[d].user \in Run, pc[conn[d].user] \in LockedStates PROVE FALSE
        OBVIOUS
      <3>1. lock.on = d /\ lock.depth > 0  BY DEF LockInv
      <3>2. d = c  BY <1>5, <3>1, <2>7 DEF Grantable
      <3> QED  BY <1>0, <2>1, <3>2
    <2>9. ~leaked => lock.depth = 0  BY <2>7, <2>8 DEF LockInv
    <2>10. lock'.depth = lock.depth + 1 /\ lock'.on = c /\ {"on", "depth"} \subseteq DOMAIN lock'
      BY <1>5
    <2>11. LockInv'
      <3>1. ASSUME NEW d \in Conn, conn'[d].user \in Run, pc'[conn'[d].user] \in LockedStates
            PROVE  lock'.on = d /\ lock'.depth > 0
        <4>1. conn[d].user = r  BY <2>2, <2>8, <3>1
        <4> QED  BY <1>2, <2>1, <2>7, <2>10, <4>1
      <3>2. ASSUME lock'.depth > 0, ~leaked'
            PROVE  /\ lock'.depth = 1 /\ lock'.on \in Conn /\ conn'[lock'.on].user \in Run
                   /\ pc'[conn'[lock'.on].user] \in LockedStates
        BY <2>1, <2>2, <2>3, <2>9, <2>10, <3>2
      <3> QED  BY <2>7, <2>10, <3>1, <3>2 DEF LockInv
    <2>12. RowInv'
      <3>0. tuning[r].status = "none"  BY <1>0 DEF RowInv, Late
      <3>1. ASSUME NEW q \in Run, tuning'[q].status # "none"
            PROVE  pc'[q] \in Late \cup {"over"} /\ run'[q].dry = FALSE
        BY <1>0, <2>2, <3>0, <3>1 DEF RowInv
      <3>2. ASSUME ~dropped', NEW q \in Run, HasLock(q)' PROVE \E d \in Conn : conn'[d].user = q
        BY <1>0, <2>1, <2>2, <3>2 DEF RowInv, HasLock
      <3>3. ASSUME NEW q \in Run, pc'[q] = "mark", NEW z \in run'[q].stale
            PROVE  /\ z \in Run /\ tuning'[z].status # "none"
                   /\ ~dropped' => pc'[z] = "over" /\ tuning'[z].status = "running"
        BY <1>0, <2>2, <3>3 DEF RowInv
      <3> QED  BY <3>1, <3>2, <3>3 DEF RowInv
    <2> QED  BY <2>4, <2>5, <2>6, <2>11, <2>12
  <1>6. \/ \E c \in HeldBy(r) :
             \/ /\ Grantable(c) /\ lock' = [on |-> c, depth |-> lock.depth + 1]
                /\ Goto(r, "stale") /\ UNCHANGED <<conn, history>>
             \/ Release(c) /\ Goto(r, "over") /\ UNCHANGED <<lock, leaked, dropped>>
        \/ ~Alive(r) /\ Goto(r, "over") /\ UNCHANGED <<conn, lock, history>>
    BY DEF GetLock, Fault, history
  <1> QED  BY <1>3, <1>4, <1>5, <1>6

LEMMA UnlockKeeps ==
  ASSUME Inv, NEW r \in Run, Unlock(r)
  PROVE  Inv'
  <1> USE DEF Inv
  <1>0. /\ pc[r] = "unlock" /\ UNCHANGED <<op, spoiled, tuning>>
        /\ "unlock" \in LockedStates /\ r \in User \cup {Nobody} /\ r \notin Branch /\ Nobody \notin Run
    BY RunsAreUsers DEF Unlock, tables, LockedStates
  <1>1. /\ DOMAIN pc' = Run /\ pc'[r] = "over" /\ \A q \in Run : q # r => pc'[q] = pc[q]
        /\ DOMAIN run' = Run /\ run'[r].dry = FALSE /\ Fields \subseteq DOMAIN run'[r]
        /\ \A q \in Run : q # r => run'[q] = run[q]
    BY DEF Unlock, Shape, Goto, Becomes, Idle, Fields
  <1>2. CASE ~Alive(r) /\ UNCHANGED <<conn, lock, history>>
    <2>1. \A d \in Conn : conn[d].user # r /\ conn'[d] = conn[d]  BY <1>2 DEF Alive, HeldBy
    <2>2. PoolInv'  BY <1>0, <1>2 DEF PoolInv
    <2> QED  BY <1>0, <1>1, <1>2, <2>1, <2>2, RunLeaves DEF history
  <1>3. ASSUME NEW c \in HeldBy(r), Release(c),
               \/ /\ lock' = (IF lock.on # c \/ lock.depth = 0 THEN lock
                              ELSE IF lock.depth = 1 THEN LockFree ELSE [lock EXCEPT !.depth = @ - 1])
                  /\ UNCHANGED history
               \/ Mishap /\ leaked' = TRUE /\ UNCHANGED <<lock, dropped>>
        PROVE  Inv'
    <2>1. c \in Conn /\ conn[c].user = r  BY DEF HeldBy
    <2>2. PoolInv' /\ conn'[c].user = Nobody /\ \A d \in Conn : d # c => conn'[d] = conn[d]
      BY <1>0, <1>3, <2>1, UserChanges DEF Release
    <2>3. \A d \in Conn : \/ conn[d].user # r /\ conn'[d] = conn[d]
                          \/ conn[d].user = r /\ conn'[d].user = Nobody
      BY <2>1, <2>2 DEF HoldInv
    <2>4. lock.on = c /\ lock.depth > 0 /\ lock.depth \in Nat /\ {"on", "depth"} \subseteq DOMAIN lock
      BY <1>0, <2>1 DEF LockInv
    <2>5. \/ /\ lock'.depth \in Nat /\ {"on", "depth"} \subseteq DOMAIN lock' /\ lock'.depth = lock.depth - 1
             /\ UNCHANGED <<leaked, dropped>>
          \/ leaked' /\ UNCHANGED <<lock, dropped>>
      BY <1>3, <2>4 DEF LockFree, history
    <2>6. CASE lock'.depth = lock.depth - 1 /\ UNCHANGED leaked
      BY <1>0, <1>1, <1>3, <2>1, <2>2, <2>3, <2>5, <2>6, RunLeaves DEF history
    <2>7. CASE leaked' /\ lock' = lock
      BY <1>0, <1>1, <1>3, <2>1, <2>2, <2>3, <2>5, <2>7, RunLeaves DEF history
    <2> QED  BY <2>5, <2>6, <2>7
  <1> QED  BY <1>2, <1>3 DEF Unlock

\* The rest of the setup.  What marks a row as stale read it as left behind by a run that
\* is over: with the lock, no other run can be past it.
LEMMA SetupKeeps ==
  ASSUME Inv, NEW r \in Run, pc[r] \in {"stale", "mark"}, SetupFrame, UNCHANGED <<leaked, dropped>>,
         DOMAIN pc' = Run, \A q \in Run : q # r => pc'[q] = pc[q],
         DOMAIN run' = Run, run'[r].dry = run[r].dry, Fields \subseteq DOMAIN run'[r],
         \A q \in Run : q # r => run'[q] = run[q],
         DOMAIN tuning' = Run, \A q \in Run : DOMAIN NoRow \subseteq DOMAIN tuning'[q],
         \/ /\ pc'[r] = "unlock" /\ UNCHANGED tuning
         \/ /\ pc'[r] = "mark" /\ UNCHANGED tuning /\ Alive(r)
            /\ \/ run'[r].stale \subseteq Stale /\ pc[r] = "stale"
               \/ run'[r].stale \subseteq run[r].stale /\ pc[r] = "mark"
         \/ /\ pc[r] = "mark" /\ Alive(r)
            /\ \E q \in run[r].stale :
                 /\ tuning' = [tuning EXCEPT ![q].status = "failed"]
                 /\ pc'[r] = "unlock" \/ (pc'[r] = "mark" /\ run'[r].stale = run[r].stale \ {q})
         \/ /\ pc'[r] \in {"read", "unlock"} /\ Alive(r)
            /\ tuning' = [tuning EXCEPT ![r] = [NoRow EXCEPT !.status = "running"]]
  PROVE  Inv'
  <1> USE DEF Inv
  <1>0. /\ {"stale", "mark", "unlock", "read"} \subseteq LockedStates /\ "read" \in Late /\ "unlock" \in Late
        /\ "stale" \notin Late \cup Open \cup {"over"} /\ "mark" \notin Late \cup Open \cup {"over"}
        /\ "over" \notin LockedStates /\ Late \subseteq LockedStates
    BY DEF LockedStates, Late, Open
  <1>1. /\ pc[r] \in LockedStates /\ pc'[r] \in LockedStates /\ run[r].dry = FALSE /\ HasLock(r)
        /\ tuning[r].status = "none" /\ UNCHANGED <<conn, spoiled, lock>>
    BY <1>0 DEF Shape, HoldInv, RowInv, HasLock, SetupFrame, poolVars
  <1>2. PoolInv'  BY <1>1 DEF PoolInv
  <1>3. Shape'  BY <1>1 DEF Shape
  <1>4. HoldInv'  BY <1>1 DEF HoldInv
  <1>5. LockInv'  BY <1>1 DEF LockInv
  <1>6. ASSUME ~dropped, Alive(r), NEW q \in Run, q # r PROVE ~HasLock(q)
    <2>1. PICK c \in Conn : conn[c].user = r  BY <1>6 DEF Alive, HeldBy
    <2>2. HasLock(q) => \E d \in Conn : conn[d].user = q  BY <1>6 DEF RowInv
    <2> QED  BY <1>1, <1>6, <2>1, <2>2, LockExcludes
  <1>7. RowInv'
    <2>1. ASSUME NEW q \in Run, tuning'[q].status # "none"
          PROVE  pc'[q] \in Late \cup {"over"} /\ run'[q].dry = FALSE
      <3>1. CASE pc'[r] \in {"read", "unlock"} /\ tuning' = [tuning EXCEPT ![r] = [NoRow EXCEPT !.status = "running"]]
        <4>1. CASE q = r  BY <1>0, <1>1, <3>1, <4>1
        <4>2. CASE q # r  BY <2>1, <3>1, <4>2 DEF RowInv, Shape
        <4> QED  BY <4>1, <4>2
      <3>2. CASE UNCHANGED tuning  BY <1>1, <2>1, <3>2 DEF RowInv
      <3>3. ASSUME pc[r] = "mark", NEW z \in run[r].stale, tuning' = [tuning EXCEPT ![z].status = "failed"]
            PROVE  pc'[q] \in Late \cup {"over"} /\ run'[q].dry = FALSE
        <4>1. z \in Run /\ tuning[z].status # "none"  BY <3>3 DEF RowInv
        <4>2. CASE q = z  BY <1>1, <4>1, <4>2 DEF RowInv
        <4>3. CASE q # z  BY <1>1, <2>1, <3>3, <4>3 DEF RowInv, Shape
        <4> QED  BY <4>2, <4>3
      <3> QED  BY <3>1, <3>2, <3>3
    <2>2. ASSUME ~dropped', NEW q \in Run, HasLock(q)' PROVE \E d \in Conn : conn'[d].user = q
      BY <1>1, <2>2 DEF RowInv, HasLock
    <2>3. ASSUME NEW q \in Run, pc'[q] = "mark", NEW z \in run'[q].stale
          PROVE  /\ z \in Run /\ tuning'[z].status # "none"
                 /\ ~dropped' => pc'[z] = "over" /\ tuning'[z].status = "running"
      <3> DEFINE Told == /\ z \in Run /\ tuning[z].status # "none"
                         /\ ~dropped => pc[z] = "over" /\ tuning[z].status = "running"
      <3>1. CASE q = r /\ pc[r] = "mark"
        <4>1. z \in run[r].stale  BY <1>0, <2>3, <3>1
        <4>2. Told  BY <3>1, <4>1 DEF RowInv
        <4>3. z # r  BY <1>1, <4>2
        <4>4. tuning'[z] = tuning[z]  BY <1>0, <2>3, <3>1, <4>2, <4>3 DEF Shape
        <4> QED  BY <4>2, <4>3, <4>4
      <3>2. CASE q = r /\ pc[r] = "stale"
        <4>1. UNCHANGED tuning /\ Alive(r) /\ z \in Stale  BY <1>0, <2>3, <3>2
        <4>2. z \in Run /\ tuning[z].status = "running" /\ z # r  BY <1>1, <4>1 DEF Stale
        <4>3. ~dropped => pc[z] = "over"
          BY <1>0, <1>6, <4>1, <4>2 DEF RowInv, HasLock
        <4> QED  BY <4>1, <4>2, <4>3
      <3>3. CASE q # r
        <4>1. pc[q] = "mark" /\ z \in run[q].stale /\ Told  BY <2>3, <3>3 DEF RowInv
        <4>2. z # r  BY <1>1, <4>1
        <4>3. run[q].dry = FALSE /\ HasLock(q)  BY <1>0, <4>1 DEF HoldInv, Shape, HasLock
        <4>4. ~dropped => tuning'[z] = tuning[z]  BY <1>6, <3>3, <4>1, <4>2, <4>3 DEF Shape
        <4>5. tuning'[z].status # "none"  BY <4>1, <4>2 DEF Shape, NoRow
        <4> QED  BY <4>1, <4>2, <4>4, <4>5
      <3> QED  BY <3>1, <3>2, <3>3
    <2> QED  BY <2>1, <2>2, <2>3 DEF RowInv
  <1> QED  BY <1>2, <1>3, <1>4, <1>5, <1>7

LEMMA SetupStepsKeep ==
  ASSUME Inv, NEW r \in Run, FindStale(r) \/ MarkStale(r) \/ InsertRun(r)
  PROVE  Inv'
  <1>0. /\ pc[r] \in {"stale", "mark"} /\ SetupFrame
        /\ Fields \subseteq DOMAIN run[r] /\ DOMAIN run = Run /\ DOMAIN pc = Run /\ DOMAIN tuning = Run
        /\ \A q \in Run : DOMAIN NoRow \subseteq DOMAIN tuning[q]
    BY DEF FindStale, MarkStale, InsertRun, Inv, Shape
  <1>1. UNCHANGED <<leaked, dropped>>
    BY DEF FindStale, MarkStale, InsertRun, SetupFails, Fault, history
  <1>2. CASE SetupFails(r) /\ UNCHANGED <<run, tuning>>
    BY <1>0, <1>1, <1>2, SetupKeeps DEF SetupFails, Goto
  <1>3. CASE FindStale(r) /\ ~(SetupFails(r) /\ UNCHANGED <<run, tuning>>)
    <2>1. /\ pc[r] = "stale" /\ UNCHANGED tuning /\ Alive(r)
          /\ Goto(r, "mark") /\ run' = [run EXCEPT ![r] = [run[r] EXCEPT !.stale = Stale]]
      BY <1>3 DEF FindStale, Becomes
    <2>2. /\ DOMAIN run' = Run /\ run'[r].dry = run[r].dry /\ Fields \subseteq DOMAIN run'[r]
          /\ run'[r].stale = Stale /\ \A q \in Run : q # r => run'[q] = run[q]
      BY <1>0, <2>1 DEF Fields, Idle
    <2>3. DOMAIN pc' = Run /\ pc'[r] = "mark" /\ \A q \in Run : q # r => pc'[q] = pc[q]
      BY <1>0, <2>1 DEF Goto
    <2> QED  BY <1>0, <1>1, <2>1, <2>2, <2>3, SetupKeeps
  <1>4. CASE MarkStale(r) /\ ~(SetupFails(r) /\ UNCHANGED <<run, tuning>>)
    <2>1. pc[r] = "mark" /\ Alive(r)  BY <1>4 DEF MarkStale
    <2>2. PICK q \in run[r].stale :
            /\ tuning' = [tuning EXCEPT ![q].status = "failed"]
            /\ \/ run' = [run EXCEPT ![r] = [run[r] EXCEPT !.stale = @ \ {q}]] /\ UNCHANGED pc
               \/ Goto(r, "unlock") /\ UNCHANGED run
      BY <1>4 DEF MarkStale, Becomes, SetupFails
    <2>4. DOMAIN tuning' = Run /\ \A z \in Run : DOMAIN NoRow \subseteq DOMAIN tuning'[z]
      BY <1>0, <2>2
    <2>5. CASE run' = [run EXCEPT ![r] = [run[r] EXCEPT !.stale = @ \ {q}]] /\ UNCHANGED pc
      <3>1. /\ DOMAIN run' = Run /\ run'[r].dry = run[r].dry /\ Fields \subseteq DOMAIN run'[r]
            /\ run'[r].stale = run[r].stale \ {q} /\ \A z \in Run : z # r => run'[z] = run[z]
        BY <1>0, <2>5 DEF Fields, Idle
      <3>2. DOMAIN pc' = Run /\ pc'[r] = "mark" /\ \A z \in Run : pc'[z] = pc[z]  BY <1>0, <2>1, <2>5
      <3>3. q \in run[r].stale /\ tuning' = [tuning EXCEPT ![q].status = "failed"]  BY <2>2
      <3>4. \E z \in run[r].stale :
              /\ tuning' = [tuning EXCEPT ![z].status = "failed"]
              /\ pc'[r] = "unlock" \/ (pc'[r] = "mark" /\ run'[r].stale = run[r].stale \ {z})
        BY <3>1, <3>2, <3>3
      <3>5. \A z \in Run : z # r => pc'[z] = pc[z]  BY <3>2
      <3>6. DOMAIN pc' = Run  BY <3>2
      <3> QED  BY <1>0, <1>1, <2>1, <2>4, <3>1, <3>4, <3>5, <3>6, SetupKeeps
    <2>6. CASE Goto(r, "unlock") /\ UNCHANGED run
      <3>1. DOMAIN pc' = Run /\ pc'[r] = "unlock" /\ \A z \in Run : z # r => pc'[z] = pc[z]
        BY <1>0, <2>6 DEF Goto
      <3> QED  BY <1>0, <1>1, <2>1, <2>2, <2>4, <2>6, <3>1, SetupKeeps
    <2> QED  BY <2>2, <2>5, <2>6
  <1>5. CASE InsertRun(r) /\ ~(SetupFails(r) /\ UNCHANGED <<run, tuning>>)
    <2>1. /\ Alive(r) /\ UNCHANGED run /\ (Goto(r, "read") \/ Goto(r, "unlock"))
          /\ tuning' = [tuning EXCEPT ![r] = [NoRow EXCEPT !.status = "running"]]
      BY <1>5 DEF InsertRun, SetupFails
    <2>2. DOMAIN tuning' = Run /\ \A z \in Run : DOMAIN NoRow \subseteq DOMAIN tuning'[z]
      BY <1>0, <2>1 DEF NoRow
    <2>3. DOMAIN pc' = Run /\ pc'[r] \in {"read", "unlock"} /\ \A q \in Run : q # r => pc'[q] = pc[q]
      BY <1>0, <2>1 DEF Goto
    <2> QED  BY <1>0, <1>1, <2>1, <2>2, <2>3, SetupKeeps
  <1> QED  BY <1>2, <1>3, <1>4, <1>5

------------------------------------------------------------------------------
(* The others.                                                                    *)
\* A step of somebody else's: whom the connections of the runs belong to stays.
LEMMA OthersKeep ==
  ASSUME Inv, PoolInv', UNCHANGED <<pc, run, lock, leaked, dropped>>,
         \A c \in Conn : \/ conn'[c].user = conn[c].user
                         \/ conn[c].user \notin Run /\ conn'[c].user \notin Run,
         DOMAIN tuning' = Run,
         \A r \in Run : tuning'[r].status = tuning[r].status /\ DOMAIN NoRow \subseteq DOMAIN tuning'[r]
  PROVE  Inv'
  <1> USE DEF Inv
  <1>1. Shape'  BY DEF Shape
  <1>2. HoldInv'  BY DEF HoldInv
  <1>3. LockInv'
    <2>1. \A c \in Conn : conn'[c].user \in Run <=> conn[c].user \in Run  OBVIOUS
    <2>2. \A c \in Conn : conn'[c].user \in Run => conn'[c].user = conn[c].user  OBVIOUS
    <2> QED  BY <2>1, <2>2 DEF LockInv
  <1>4. RowInv'  BY DEF RowInv, HasLock
  <1> QED  BY <1>1, <1>2, <1>3, <1>4

LEMMA BranchUserKeeps ==
  ASSUME Inv, NEW o \in Branch, BranchUser(o)
  PROVE  Inv'
  <1>0. /\ UNCHANGED <<pc, run, lock, tuning, leaked, dropped>>
        /\ DOMAIN tuning = Run /\ \A r \in Run : DOMAIN NoRow \subseteq DOMAIN tuning[r]
    BY DEF BranchUser, tables, history, Inv, Shape
  <1>1. o \notin Run /\ Nobody \notin Run /\ Nobody \notin Branch /\ o \in User
    BY RunsAreUsers, ConnAssumption
  <1>2. CASE OpBegin(o)
    <2>1. PICK c \in Conn : c \in Free /\ conn' = [conn EXCEPT ![c].user = o]  BY <1>2 DEF OpBegin, Borrow
    <2>2. conn[c].user = Nobody /\ UNCHANGED spoiled  BY <1>2, <2>1 DEF Free, OpBegin
    <2>3. PoolInv' /\ conn'[c].user = o /\ \A d \in Conn : d # c => conn'[d] = conn[d]
      BY <1>1, <2>1, <2>2, UserChanges DEF Inv
    <2> QED  BY <1>0, <1>1, <2>2, <2>3, OthersKeep
  <1>3. CASE OpWork(o)  BY <1>0, <1>3, WorkIsNoted, OthersKeep DEF Inv
  <1>4. CASE OpEnd(o)
    <2>1. PoolInv'  BY <1>4, EndResets DEF Inv
    <2>2. \A c \in Conn : \/ conn'[c].user = conn[c].user
                          \/ conn[c].user \notin Run /\ conn'[c].user \notin Run
      BY <1>1, <1>4, EndResets DEF Inv
    <2> QED  BY <1>0, <2>1, <2>2, OthersKeep
  <1> QED  BY <1>2, <1>3, <1>4 DEF BranchUser

LEMMA TablesKeep ==
  ASSUME Inv, \/ PurgeTexts \/ (\E x \in rules : Disable(x)) \/ (\E r \in Run : Age(r))
  PROVE  Inv'
  <1>0. UNCHANGED <<conn, spoiled, pc, run, lock, leaked, dropped>>
    BY DEF PurgeTexts, Disable, Age, history, poolVars
  <1>1. PoolInv'  BY <1>0 DEF Inv, PoolInv
  <1>2. /\ DOMAIN tuning' = Run
        /\ \A r \in Run : tuning'[r].status = tuning[r].status /\ DOMAIN NoRow \subseteq DOMAIN tuning'[r]
    BY DEF PurgeTexts, Disable, Age, tables, Inv, Shape, NoRow
  <1> QED  BY <1>0, <1>1, <1>2, OthersKeep

\* A session that ends takes its lock along.
LEMMA LoseKeeps ==
  ASSUME Inv, NEW c \in Conn, Lose(c)
  PROVE  Inv'
  <1> USE DEF Inv
  <1>1. PoolInv' /\ conn'[c].user = Nobody /\ \A d \in Conn : d # c => conn'[d] = conn[d]
    BY LostIsFresh DEF Lose
  <1>2. /\ lock' = Without(c) /\ UNCHANGED <<pc, run, tuning, leaked>>
        /\ dropped' = (dropped \/ \E r \in Run : HasLock(r) /\ c \in HeldBy(r))
    BY DEF Lose, tables
  <1>3. Nobody \notin Run  BY RunsAreUsers
  <1>4. Shape'  BY <1>2 DEF Shape
  <1>5. HoldInv'  BY <1>1, <1>2, <1>3 DEF HoldInv
  <1>6. LockInv'
    <2>1. CASE lock.depth > 0 /\ lock.on = c
      <3>1. lock' = LockFree  BY <1>2, <2>1 DEF Without
      <3>2. lock'.depth = 0 /\ {"on", "depth"} \subseteq DOMAIN lock'  BY <3>1 DEF LockFree
      <3>3. ASSUME NEW d \in Conn, conn'[d].user \in Run, pc'[conn'[d].user] \in LockedStates PROVE FALSE
        <4>1. d # c /\ conn'[d] = conn[d]  BY <1>1, <1>3, <3>3
        <4> QED  BY <1>2, <2>1, <3>3, <4>1 DEF LockInv
      <3> QED  BY <3>2, <3>3 DEF LockInv
    <2>2. CASE ~(lock.depth > 0 /\ lock.on = c)
      <3>1. lock' = lock  BY <1>2, <2>2 DEF Without
      <3> QED  BY <1>1, <1>2, <1>3, <2>2, <3>1 DEF LockInv
    <2> QED  BY <2>1, <2>2
  <1>7. RowInv'
    <2>1. ASSUME ~dropped', NEW q \in Run, HasLock(q)' PROVE \E d \in Conn : conn'[d].user = q
      <3>1. ~dropped /\ HasLock(q) /\ c \notin HeldBy(q)  BY <1>2, <2>1 DEF HasLock
      <3>2. PICK d \in Conn : conn[d].user = q  BY <3>1 DEF RowInv
      <3>3. d # c  BY <3>1, <3>2 DEF HeldBy
      <3> QED  BY <1>1, <3>2, <3>3
    <2>2. ~dropped' => ~dropped  BY <1>2
    <2> QED  BY <1>2, <2>1, <2>2 DEF RowInv
  <1> QED  BY <1>1, <1>4, <1>5, <1>6, <1>7

\* A new process has no run, no session and no lock.
LEMMA CrashKeeps ==
  ASSUME Inv, Crash
  PROVE  Inv'
  <1> USE DEF Inv
  <1>1. PoolInv' /\ \A c \in Conn : conn'[c].user = Nobody  BY CrashIsFresh DEF Crash
  <1>2. /\ lock' = LockFree /\ UNCHANGED <<tuning, leaked, dropped>> /\ Nobody \notin Run
        /\ DOMAIN pc' = Run /\ \A r \in Run : pc'[r] = (IF pc[r] = "idle" THEN "idle" ELSE "over")
        /\ DOMAIN run' = Run /\ \A r \in Run : run'[r] = Idle
    BY RunsAreUsers DEF Crash, tables
  <1>3. Idle.dry = FALSE  BY DEF Idle
  <1>4. Shape'  BY <1>2, <1>3 DEF Shape, Fields
  <1>5. HoldInv'  BY <1>1, <1>2, <1>3 DEF HoldInv
  <1>6. lock'.depth = 0 /\ {"on", "depth"} \subseteq DOMAIN lock'  BY <1>2 DEF LockFree
  <1>7. LockInv'  BY <1>1, <1>2, <1>6 DEF LockInv
  <1>8. \A r \in Run : pc'[r] \notin LockedStates  BY <1>2 DEF LockedStates
  <1>9. RowInv'
    <2>1. \A r \in Run : tuning[r].status # "none" => pc[r] # "idle"  BY DEF RowInv, Late, LockedStates
    <2> QED  BY <1>2, <1>3, <1>8, <2>1 DEF RowInv, HasLock, LockedStates
  <1> QED  BY <1>1, <1>4, <1>5, <1>7, <1>9

------------------------------------------------------------------------------
LEMMA StuttersKeep ==
  ASSUME Inv, UNCHANGED vars
  PROVE  Inv'
  <1>1. /\ UNCHANGED <<conn, spoiled, pc, run, lock, leaked, dropped, tuning>>
        /\ DOMAIN tuning = Run /\ \A r \in Run : DOMAIN NoRow \subseteq DOMAIN tuning[r]
    BY DEF vars, poolVars, tables, history, Inv, Shape
  <1>2. PoolInv'  BY <1>1 DEF Inv, PoolInv
  <1> QED  BY <1>1, <1>2, OthersKeep

LEMMA NextKeeps ==
  ASSUME Inv, [Next]_vars
  PROVE  Inv'
  <1>1. ASSUME NEW r \in Run, Start(r) \/ RunStep(r) \/ Age(r) PROVE Inv'
    BY <1>1, StartKeeps, ConnectKeeps, GrantKeeps, SetupStepsKeep, ReadsKeep, RulesKeep, PromotesKeep,
       ClosesKeep, UnlockKeeps, TablesKeep DEF RunStep
  <1>2. ASSUME NEW o \in Branch, BranchUser(o) PROVE Inv'  BY <1>2, BranchUserKeeps
  <1>3. ASSUME NEW x \in rules, Disable(x) PROVE Inv'  BY <1>3, TablesKeep
  <1>4. ASSUME NEW c \in Conn, Lose(c) PROVE Inv'  BY <1>4, LoseKeeps
  <1>5. CASE PurgeTexts \/ Crash  BY <1>5, TablesKeep, CrashKeeps
  <1>6. CASE UNCHANGED vars  BY <1>6, StuttersKeep
  <1> QED  BY <1>1, <1>2, <1>3, <1>4, <1>5, <1>6 DEF Next

THEOREM InvHolds == Spec => []Inv
  <1>1. Init => Inv  BY TunerStarts
  <1>2. Inv /\ [Next]_vars => Inv'  BY NextKeeps
  <1> QED  BY <1>1, <1>2, PTL DEF Spec

\* Whoever borrows a connection finds it on the default branch with autocommit, although
\* withBranchConnection skips the resets its notes make needless; a reset that failed and
\* was swallowed is the one way to break it (connection.ts).
THEOREM PoolIsCleanHolds == Spec => []PoolIsClean
  <1>1. Inv => PoolIsClean
    <2> SUFFICES ASSUME Inv, NEW c \in Free \ spoiled PROVE ~conn[c].off /\ ~conn[c].manual
      BY DEF PoolIsClean
    <2>1. c \in Conn /\ conn[c].user = Nobody /\ Honest(conn[c])  BY DEF Free, Inv, PoolInv
    <2> QED  BY <2>1, RunsAreUsers DEF Honest
  <1> QED  BY <1>1, InvHolds, PTL

\* The advisory lock is held by the session of a run that is past GET_LOCK and by nothing
\* else, however many runs overlap, connections are lost or processes end (lock.ts).
THEOREM LockIsExactHolds == Spec => []LockIsExact
  <1>1. Inv => LockIsExact
    <2> SUFFICES ASSUME Inv PROVE LockIsExact  OBVIOUS
    <2>1. ASSUME NEW r \in Run, HasLock(r), NEW c \in HeldBy(r) PROVE lock.on = c /\ lock.depth > 0
      BY <2>1 DEF Inv, LockInv, HasLock, HeldBy
    <2>2. ASSUME lock.depth > 0, ~leaked PROVE \E r \in Run : HasLock(r) /\ lock.on \in HeldBy(r)
      <3>1. /\ lock.on \in Conn /\ conn[lock.on].user \in Run /\ pc[conn[lock.on].user] \in LockedStates
            /\ run[conn[lock.on].user].dry = FALSE
        BY <2>2 DEF Inv, LockInv, HoldInv
      <3> QED  BY <3>1 DEF HasLock, HeldBy
    <2> QED  BY <2>1, <2>2 DEF LockIsExact
  <1> QED  BY <1>1, InvHolds, PTL

\* The clean-up of a run that takes the lock marks as failed what a run that is over left
\* "running", never a run at work and never a completed one (cleanupStaleRuns).
THEOREM StaleIsOverHolds == Spec => StaleIsOver
  <1> DEFINE Falls(r) == tuning[r].status # "failed" /\ tuning'[r].status = "failed"
                           => dropped \/ pc[r] = "fail" \/ (pc[r] = "over" /\ tuning[r].status = "running")
  <1>1. ASSUME Inv, [Next]_vars PROVE [\A r \in Run : Falls(r)]_vars
    <2> SUFFICES ASSUME NEW z \in Run, tuning[z].status # "failed", tuning'[z].status = "failed", ~dropped
                 PROVE  pc[z] = "fail" \/ (pc[z] = "over" /\ tuning[z].status = "running")
      OBVIOUS
    <2>0. DOMAIN tuning = Run /\ \A q \in Run : "status" \in DOMAIN tuning[q]  BY <1>1 DEF Inv, Shape, NoRow
    <2>1. ASSUME NEW r \in Run, MarkStale(r) PROVE pc[z] = "over" /\ tuning[z].status = "running"
      <3>1. PICK q \in run[r].stale : tuning' = [tuning EXCEPT ![q].status = "failed"]
        BY <2>1 DEF MarkStale
      <3>2. z = q  BY <2>0, <3>1
      <3> QED  BY <1>1, <2>1, <3>2 DEF Inv, RowInv, MarkStale
    <2>2. ASSUME NEW r \in Run, InsertRun(r) PROVE FALSE  BY <2>0, <2>2 DEF InsertRun, NoRow
    <2>3. ASSUME NEW r \in Run, Finalize(r) PROVE FALSE  BY <2>0, <2>3 DEF Finalize
    <2>4. ASSUME NEW r \in Run, RecordFailure(r) PROVE pc[z] = "fail"
      BY <2>0, <2>4 DEF RecordFailure
    <2>5. ASSUME NEW r \in Run, Age(r) PROVE FALSE  BY <2>0, <2>5 DEF Age
    <2>6. ASSUME UNCHANGED tuning PROVE FALSE  BY <2>6
    <2>7. ASSUME NEW r \in Run, Start(r) \/ RunStep(r) \/ Age(r)
          PROVE  \/ UNCHANGED tuning \/ MarkStale(r) \/ InsertRun(r) \/ Finalize(r) \/ RecordFailure(r) \/ Age(r)
      BY <2>7 DEF RunStep, Start, Connect, GetLock, FindStale, Read, Existing, NextTier, Crystallize, TiersDone,
           ReadFallbacks, KnownTexts, Promote, PromoteDone, Commit, Unlock, tables, ReadFails
    <2>8. (\E o \in Branch : BranchUser(o)) \/ (\E x \in rules : Disable(x)) \/ (\E c \in Conn : Lose(c))
             \/ PurgeTexts \/ Crash \/ UNCHANGED vars => UNCHANGED tuning
      BY DEF BranchUser, Disable, Lose, PurgeTexts, Crash, vars, tables
    <2> QED  BY <1>1, <2>1, <2>2, <2>3, <2>4, <2>5, <2>6, <2>7, <2>8 DEF Next
  <1>2. Spec => [][\A r \in Run : Falls(r)]_vars  BY <1>1, InvHolds, PTL DEF Spec
  <1> QED  BY <1>2 DEF StaleIsOver

------------------------------------------------------------------------------
(* What the tuning runs write, for any number of runs, tasks and mishaps: the     *)
(* second invariant, on top of the one above.                                     *)
Early    == {"idle", "connect", "lock", "stale", "mark", "read", "existing"}
OnCourse == Open \cup {"commit"}

Key(x)  == <<x.tier, x.pattern>>
IsRule(x) == /\ {"tier", "pattern", "by", "enabled"} \subseteq DOMAIN x
             /\ x.by \in Run /\ x.enabled \in BOOLEAN /\ tuning[x.by].status # "none"
IsUtterance(u) == u.by \in Run /\ tuning[u.by].status # "none"

\* The rows that bear the name of r: none before r writes, each counted once, and none
\* that r is about to write again.
RunRows(r) ==
  /\ pc[r] \in Early => run[r].made = 0 /\ run[r].todo = {} /\ CreatedBy(r) = {}
  /\ pc[r] \in Early \cup {"tiers", "fallbacks", "known"} => run[r].added = 0 /\ AddedBy(r) = {}
  /\ pc[r] = "tiers" =>
       /\ \A x \in CreatedBy(r) : x.tier \notin run[r].tiers /\ Key(x) \notin run[r].todo
       /\ \A p \in run[r].todo : p = <<p[1], p[2]>> /\ p[1] \notin run[r].tiers
  /\ pc[r] = "promote" => \A u \in AddedBy(r) : u.text \in run[r].texts
  /\ \A x, y \in CreatedBy(r) : Key(x) = Key(y) => x = y
  /\ pc[r] \in OnCourse /\ run[r].dry = FALSE =>
       /\ run[r].made = Cardinality(CreatedBy(r)) /\ run[r].added = Cardinality(AddedBy(r))
       /\ tuning[r].status # "none"
  /\ tuning[r].status = "completed" =>
       /\ pc[r] \in {"commit", "fail", "unlock", "over"}
       /\ tuning[r].rules = Cardinality(CreatedBy(r)) /\ tuning[r].utterances = Cardinality(AddedBy(r))

\* What the run with the lock read of the tables is still true of what it will write.
StillNew(r) ==
  /\ pc[r] = "tiers" => \A x \in rules : x.enabled =>
       Key(x) \notin run[r].todo /\ (x.tier \in run[r].tiers => Key(x) \in run[r].known)
  /\ pc[r] = "promote" => \A u \in utterances :
       u.text \in Texts(run[r].rows) => u.text \in run[r].texts

Typed == /\ IsFiniteSet(rules) /\ IsFiniteSet(utterances)
         /\ (\A x \in rules : IsRule(x)) /\ (\A u \in utterances : IsUtterance(u))
Single == /\ \A x, y \in rules : x.enabled /\ y.enabled /\ Key(x) = Key(y) => x = y
          /\ \A u, v \in utterances : u.text = v.text => u = v

RowsInv ==
  /\ Typed /\ \A r \in Run : RunRows(r)
  /\ ~dropped => Single /\ \A r \in Run : HasLock(r) => StillNew(r)

LEMMA RowsStart == Init => RowsInv
  <1> SUFFICES ASSUME Init PROVE RowsInv  OBVIOUS
  <1>1. /\ rules = {} /\ utterances = {}
        /\ \A r \in Run : pc[r] = "idle" /\ run[r].made = 0 /\ run[r].added = 0 /\ run[r].todo = {}
                          /\ tuning[r].status = "none"
    BY DEF Init, Idle, NoRow
  <1>2. Typed  BY <1>1, FS_EmptySet DEF Typed
  <1>3. \A r \in Run : RunRows(r)
    BY <1>1 DEF RunRows, CreatedBy, AddedBy, Early, OnCourse, Open
  <1>4. Single  BY <1>1 DEF Single
  <1>5. \A r \in Run : ~HasLock(r)  BY <1>1 DEF HasLock, LockedStates
  <1> QED  BY <1>2, <1>3, <1>4, <1>5 DEF RowsInv

\* Two runs do not both believe in the lock, unless a session was lost.
LEMMA OneAtATime ==
  ASSUME Inv, ~dropped, NEW r \in Run, NEW q \in Run, HasLock(r), HasLock(q)
  PROVE  r = q
  <1>1. PICK c \in Conn : conn[c].user = r  BY DEF Inv, RowInv
  <1>2. PICK d \in Conn : conn[d].user = q  BY DEF Inv, RowInv
  <1> QED  BY <1>1, <1>2, LockExcludes

------------------------------------------------------------------------------
(* Steps that write no rule and no utterance: what a run may do meanwhile.        *)
Stays(q) == /\ pc'[q] = pc[q] /\ run'[q] = run[q]
            /\ \/ tuning'[q].status = tuning[q].status /\ tuning'[q].rules = tuning[q].rules
                  /\ tuning'[q].utterances = tuning[q].utterances
               \/ tuning'[q].status = "failed"
Prepares(q) == /\ pc[q] \in Early /\ pc'[q] \in Early /\ tuning'[q].status # "completed"
               /\ run'[q].made = 0 /\ run'[q].added = 0 /\ run'[q].todo = {}
               /\ pc'[q] \in OnCourse /\ run'[q].dry = FALSE => tuning'[q].status # "none"
Ends(q) == /\ pc'[q] \in {"fail", "unlock", "over"}
           /\ \/ tuning'[q].status = tuning[q].status /\ tuning'[q].rules = tuning[q].rules
                 /\ tuning'[q].utterances = tuning[q].utterances
              \/ tuning'[q].status \in {"running", "failed"}

LEMMA NothingWritten ==
  ASSUME RowsInv, UNCHANGED <<rules, utterances>>, dropped => dropped',
         \A q \in Run : Stays(q) \/ Prepares(q) \/ Ends(q),
         \A q \in Run : tuning[q].status # "none" => tuning'[q].status # "none"
  PROVE  RowsInv'
  <1> USE DEF RowsInv
  <1>0. \A q \in Run : CreatedBy(q)' = CreatedBy(q) /\ AddedBy(q)' = AddedBy(q)
    BY DEF CreatedBy, AddedBy
  <1>1. Typed'  BY DEF Typed, IsRule, IsUtterance
  <1>2. ASSUME NEW q \in Run PROVE RunRows(q)'
    <2>1. CASE Stays(q)  BY <1>0, <2>1 DEF Stays, RunRows
    <2>2. CASE Prepares(q)
      <3>1. /\ CreatedBy(q)' = {} /\ AddedBy(q)' = {} /\ Cardinality({}) = 0
        BY <1>0, <2>2, FS_EmptySet DEF RunRows, Prepares
      <3>2. pc'[q] \notin {"tiers", "fallbacks", "known", "promote"}  BY <2>2 DEF Prepares, Early
      <3> QED  BY <2>2, <3>1, <3>2 DEF Prepares, RunRows
    <2>3. CASE Ends(q)
      <3>1. pc'[q] \in {"fail", "unlock", "over"} /\ pc'[q] \notin Early /\ pc'[q] \notin OnCourse
        BY <2>3 DEF Ends, Early, OnCourse, Open
      <3> QED  BY <1>0, <2>3, <3>1 DEF Ends, RunRows
    <2> QED  BY <2>1, <2>2, <2>3
  <1>3. ASSUME ~dropped' PROVE Single'  BY <1>3 DEF Single
  <1>4. ASSUME ~dropped', NEW q \in Run, HasLock(q)' PROVE StillNew(q)'
    <2>1. CASE Stays(q)  BY <1>4, <2>1 DEF Stays, StillNew, HasLock
    <2>2. CASE Prepares(q)  BY <2>2 DEF Prepares, Early, StillNew
    <2>3. CASE Ends(q)  BY <2>3 DEF Ends, StillNew
    <2> QED  BY <2>1, <2>2, <2>3
  <1> QED  BY <1>1, <1>2, <1>3, <1>4

\* One run moves and writes nothing.
LEMMA Moves ==
  ASSUME Inv, RowsInv, NEW r \in Run, Others(r), UNCHANGED <<rules, utterances, dropped>>,
         tuning[r].status # "none" => tuning'[r].status # "none",
         RunRows(r)', ~dropped /\ HasLock(r)' => StillNew(r)'
  PROVE  RowsInv'
  <1> USE DEF RowsInv
  <1>0. \A q \in Run : q # r => pc'[q] = pc[q] /\ run'[q] = run[q] /\ tuning'[q] = tuning[q]
    BY DEF Others
  <1>a. \A q \in Run : CreatedBy(q)' = CreatedBy(q) /\ AddedBy(q)' = AddedBy(q)
    BY DEF CreatedBy, AddedBy
  <1>1. Typed'  BY <1>0 DEF Typed, IsRule, IsUtterance
  <1>2. ASSUME NEW q \in Run PROVE RunRows(q)'
    <2>1. CASE q = r  BY <2>1
    <2>2. CASE q # r  BY <1>0, <1>a, <2>2 DEF RunRows
    <2> QED  BY <2>1, <2>2
  <1>3. ASSUME ~dropped' PROVE Single'  BY <1>3 DEF Single
  <1>4. ASSUME ~dropped', NEW q \in Run, HasLock(q)' PROVE StillNew(q)'
    <2>1. CASE q = r  BY <1>4, <2>1
    <2>2. CASE q # r  BY <1>0, <1>4, <2>2 DEF StillNew, HasLock
    <2> QED  BY <2>1, <2>2
  <1> QED  BY <1>1, <1>2, <1>3, <1>4

\* A step of r alone that ends it, or prepares it.
LEMMA MovesAlone ==
  ASSUME RowsInv, NEW r \in Run, Others(r), UNCHANGED <<rules, utterances>>, dropped => dropped',
         tuning[r].status # "none" => tuning'[r].status # "none",
         Stays(r) \/ Prepares(r) \/ Ends(r)
  PROVE  RowsInv'
  BY NothingWritten DEF Others, Stays

LEMMA ThrowEnds ==
  ASSUME Inv, RowsInv, NEW r \in Run, Throw(r), UNCHANGED <<run, tuning, rules, utterances, dropped>>
  PROVE  RowsInv'
  <1>1. Others(r)  BY DEF Inv, Shape, Throw, Goto, Others
  <1>2. Ends(r)  BY DEF Inv, Shape, Throw, Goto, Ends
  <1> QED  BY <1>1, <1>2, MovesAlone

LEMMA LockStepsWriteNothing ==
  ASSUME Inv, RowsInv, NEW r \in Run,
         Start(r) \/ Connect(r) \/ GetLock(r) \/ FindStale(r) \/ InsertRun(r) \/ Commit(r)
           \/ RecordFailure(r) \/ Unlock(r)
  PROVE  RowsInv'
  <1> USE DEF Early, OnCourse, Open
  <1>0. /\ DOMAIN pc = Run /\ DOMAIN run = Run /\ DOMAIN tuning = Run /\ run[r].dry \in BOOLEAN
        /\ Fields \subseteq DOMAIN run[r] /\ DOMAIN NoRow \subseteq DOMAIN tuning[r]
    BY DEF Inv, Shape
  <1>1. UNCHANGED <<rules, utterances, dropped>>
    BY DEF Start, Connect, GetLock, FindStale, InsertRun, Commit, RecordFailure, Unlock, tables, history,
           SetupFrame, SetupFails, Fault
  <1>2. pc[r] \in Early => /\ run[r].made = 0 /\ run[r].todo = {} /\ run[r].added = 0
                           /\ tuning[r].status # "completed"
    BY DEF RowsInv, RunRows
  <1>3. CASE Start(r)
    <2>1. PICK dry \in BOOLEAN : Becomes(r, [Idle EXCEPT !.dry = dry]) /\ Goto(r, IF dry THEN "read" ELSE "connect")
      BY <1>3 DEF Start
    <2>2. UNCHANGED tuning /\ pc[r] = "idle"  BY <1>3 DEF Start, tables
    <2>3. Others(r)  BY <1>0, <2>1, <2>2 DEF Inv, Shape, Goto, Becomes, Others, Fields, Idle
    <2>4. /\ pc'[r] \in {"read", "connect"} /\ (run'[r].dry = FALSE => pc'[r] = "connect")
          /\ run'[r].made = 0 /\ run'[r].added = 0 /\ run'[r].todo = {}
      BY <1>0, <2>1 DEF Goto, Becomes, Idle
    <2>5. Prepares(r)  BY <1>2, <2>2, <2>4 DEF Prepares
    <2> QED  BY <1>1, <2>2, <2>3, <2>5, MovesAlone
  <1>4. CASE Connect(r)
    <2>1. pc[r] = "connect" /\ Goto(r, "lock") /\ UNCHANGED <<run, tuning>>  BY <1>4 DEF Connect, tables
    <2>2. Others(r)  BY <2>1 DEF Inv, Shape, Goto, Others
    <2>3. Prepares(r)  BY <1>0, <1>2, <2>1 DEF Prepares, Goto
    <2> QED  BY <1>1, <2>1, <2>2, <2>3, MovesAlone
  <1>5. CASE GetLock(r)
    <2>2. UNCHANGED <<run, tuning>>  BY <1>5 DEF GetLock, tables
    <2>3. pc[r] = "lock" /\ pc'[r] \in {"stale", "over"} /\ DOMAIN pc' = Run
          /\ \A q \in Run : q # r => pc'[q] = pc[q]
      BY <1>0, <1>5 DEF GetLock, Goto
    <2>4. Others(r)  BY <2>2, <2>3 DEF Inv, Shape, Others
    <2>5. CASE pc'[r] = "stale"
      <3>1. Prepares(r)  BY <1>0, <1>2, <2>2, <2>3, <2>5 DEF Prepares
      <3> QED  BY <1>1, <2>2, <2>4, <3>1, MovesAlone
    <2>6. CASE pc'[r] = "over"
      <3>1. Ends(r)  BY <2>2, <2>6 DEF Ends
      <3> QED  BY <1>1, <2>2, <2>4, <3>1, MovesAlone
    <2> QED  BY <2>3, <2>5, <2>6
  <1>6. CASE FindStale(r)
    <2>1. /\ pc[r] = "stale" /\ UNCHANGED tuning
          /\ \/ Goto(r, "mark") /\ Becomes(r, [run[r] EXCEPT !.stale = Stale])
             \/ Goto(r, "unlock") /\ UNCHANGED run
      BY <1>6 DEF FindStale, SetupFails
    <2>2. CASE Goto(r, "mark") /\ Becomes(r, [run[r] EXCEPT !.stale = Stale])
      <3>1. Others(r)  BY <1>0, <2>1, <2>2 DEF Inv, Shape, Goto, Becomes, Others, Fields, Idle
      <3>2. Prepares(r)  BY <1>0, <1>2, <2>1, <2>2 DEF Prepares, Goto, Becomes, Fields, Idle
      <3> QED  BY <1>1, <2>1, <3>1, <3>2, MovesAlone
    <2>3. CASE Goto(r, "unlock") /\ UNCHANGED run
      <3>1. Others(r) /\ Ends(r)  BY <1>0, <2>1, <2>3 DEF Inv, Shape, Goto, Others, Ends
      <3> QED  BY <1>1, <2>1, <3>1, MovesAlone
    <2> QED  BY <2>1, <2>2, <2>3
  <1>7. CASE InsertRun(r)
    <2>1. /\ pc[r] = "mark" /\ UNCHANGED run
          /\ \/ Goto(r, "read") /\ tuning' = [tuning EXCEPT ![r] = [NoRow EXCEPT !.status = "running"]]
             \/ Goto(r, "unlock") /\ (\/ tuning' = [tuning EXCEPT ![r] = [NoRow EXCEPT !.status = "running"]]
                                     \/ UNCHANGED tuning)
      BY <1>7 DEF InsertRun, SetupFails
    <2>2. CASE Goto(r, "read") /\ tuning' = [tuning EXCEPT ![r] = [NoRow EXCEPT !.status = "running"]]
      <3>1. Others(r)  BY <1>0, <2>1, <2>2 DEF Inv, Shape, Goto, Others, NoRow
      <3>2. tuning'[r].status = "running"  BY <1>0, <2>2 DEF NoRow
      <3>3. Prepares(r)  BY <1>0, <1>2, <2>1, <2>2, <3>2 DEF Prepares, Goto
      <3> QED  BY <1>1, <3>1, <3>2, <3>3, MovesAlone
    <2>3. CASE Goto(r, "unlock")
      <3>1. Others(r)  BY <1>0, <2>1, <2>3 DEF Inv, Shape, Goto, Others, NoRow
      <3>2. tuning'[r] = tuning[r] \/ tuning'[r].status = "running"  BY <1>0, <2>1, <2>3 DEF NoRow
      <3>3. Ends(r)  BY <1>0, <2>1, <2>3, <3>2 DEF Goto, Ends
      <3>4. tuning[r].status # "none" => tuning'[r].status # "none"  BY <3>2
      <3> QED  BY <1>1, <3>1, <3>3, <3>4, MovesAlone
    <2> QED  BY <2>1, <2>2, <2>3
  <1>8. CASE Commit(r)
    <2>1. Goto(r, "unlock") /\ UNCHANGED <<run, tuning>>  BY <1>8 DEF Commit, tables
    <2>2. Others(r) /\ Ends(r)  BY <1>0, <2>1 DEF Inv, Shape, Goto, Others, Ends
    <2> QED  BY <1>1, <2>1, <2>2, MovesAlone
  <1>9. CASE RecordFailure(r)
    <2>1. /\ Goto(r, "unlock") /\ UNCHANGED run
          /\ tuning' = [tuning EXCEPT ![r].status = "failed"] \/ UNCHANGED tuning
      BY <1>9 DEF RecordFailure
    <2>2. Others(r) /\ Ends(r)  BY <1>0, <2>1 DEF Inv, Shape, Goto, Others, Ends, NoRow
    <2>3. tuning[r].status # "none" => tuning'[r].status # "none"  BY <1>0, <2>1 DEF NoRow
    <2> QED  BY <1>1, <2>2, <2>3, MovesAlone
  <1>10. CASE Unlock(r)
    <2>1. Goto(r, "over") /\ Becomes(r, Idle) /\ UNCHANGED tuning  BY <1>10 DEF Unlock, tables
    <2>2. Others(r) /\ Ends(r)  BY <1>0, <2>1 DEF Inv, Shape, Goto, Becomes, Others, Ends, Fields
    <2> QED  BY <1>1, <2>1, <2>2, MovesAlone
  <1> QED  BY <1>3, <1>4, <1>5, <1>6, <1>7, <1>8, <1>9, <1>10

LEMMA MarkStaleWritesNothing ==
  ASSUME Inv, RowsInv, NEW r \in Run, MarkStale(r)
  PROVE  RowsInv'
  <1> USE DEF Early, OnCourse, Open
  <1>0. /\ DOMAIN pc = Run /\ DOMAIN run = Run /\ DOMAIN tuning = Run
        /\ Fields \subseteq DOMAIN run[r] /\ \A q \in Run : DOMAIN NoRow \subseteq DOMAIN tuning[q]
    BY DEF Inv, Shape
  <1>1. /\ UNCHANGED <<rules, utterances, dropped>> /\ pc[r] = "mark"
    BY DEF MarkStale, SetupFails, SetupFrame, Fault, history
  <1>2. CASE Goto(r, "unlock") /\ UNCHANGED <<run, tuning>>
    <2>1. Others(r) /\ Ends(r)  BY <1>0, <1>2 DEF Inv, Shape, Goto, Others, Ends
    <2> QED  BY <1>1, <1>2, <2>1, MovesAlone
  <1>3. ASSUME UNCHANGED pc, NEW z \in run[r].stale, tuning' = [tuning EXCEPT ![z].status = "failed"],
               Becomes(r, [run[r] EXCEPT !.stale = @ \ {z}])
        PROVE  RowsInv'
    <2>1. \A q \in Run : \/ tuning'[q] = tuning[q]
                         \/ tuning'[q].status = "failed"
      BY <1>0, <1>3 DEF NoRow
    <2>2. /\ run'[r].made = run[r].made /\ run'[r].added = run[r].added /\ run'[r].todo = run[r].todo
          /\ \A q \in Run : q # r => run'[q] = run[q]
      BY <1>0, <1>3 DEF Becomes, Fields, Idle
    <2>3. \A q \in Run : q # r => Stays(q)  BY <1>3, <2>1, <2>2 DEF Stays
    <2>4. Prepares(r)  BY <1>1, <1>3, <2>1, <2>2 DEF Prepares, RowsInv, RunRows
    <2>5. \A q \in Run : tuning[q].status # "none" => tuning'[q].status # "none"  BY <2>1
    <2> QED  BY <1>1, <2>3, <2>4, <2>5, NothingWritten
  <1>4. ASSUME Goto(r, "unlock"), UNCHANGED run, NEW z \in run[r].stale,
               tuning' = [tuning EXCEPT ![z].status = "failed"]
        PROVE  RowsInv'
    <2>1. \A q \in Run : tuning'[q] = tuning[q] \/ tuning'[q].status = "failed"  BY <1>0, <1>4 DEF NoRow
    <2>2. \A q \in Run : q # r => Stays(q)  BY <1>0, <1>4, <2>1 DEF Stays, Goto
    <2>3. Ends(r)  BY <1>0, <1>4, <2>1 DEF Goto, Ends
    <2>4. \A q \in Run : tuning[q].status # "none" => tuning'[q].status # "none"  BY <2>1
    <2> QED  BY <1>1, <2>2, <2>3, <2>4, NothingWritten
  <1> QED  BY <1>2, <1>3, <1>4 DEF MarkStale, SetupFails

LEMMA OthersWriteNothing ==
  ASSUME Inv, RowsInv,
         \/ \E o \in Branch : BranchUser(o)
         \/ PurgeTexts \/ (\E r \in Run : Age(r)) \/ (\E c \in Conn : Lose(c)) \/ UNCHANGED vars
  PROVE  RowsInv'
  <1>1. UNCHANGED <<pc, run, rules, utterances>> /\ (dropped => dropped')
    <2>1. CASE \E c \in Conn : Lose(c)  BY <2>1 DEF Lose, tables
    <2>2. CASE ~\E c \in Conn : Lose(c)
      BY <2>2 DEF BranchUser, PurgeTexts, Age, vars, tables, history
    <2> QED  BY <2>1, <2>2
  <1>2. DOMAIN tuning = Run /\ \A q \in Run : DOMAIN NoRow \subseteq DOMAIN tuning[q]
    BY DEF Inv, Shape
  <1>3. \A q \in Run : /\ tuning'[q].status = tuning[q].status /\ tuning'[q].rules = tuning[q].rules
                       /\ tuning'[q].utterances = tuning[q].utterances
    BY <1>2 DEF BranchUser, PurgeTexts, Age, Lose, vars, tables, NoRow
  <1>4. \A q \in Run : Stays(q)  BY <1>1, <1>3 DEF Stays
  <1> QED  BY <1>1, <1>3, <1>4, NothingWritten

LEMMA CrashWritesNothing ==
  ASSUME Inv, RowsInv, Crash
  PROVE  RowsInv'
  <1>1. /\ UNCHANGED <<tuning, rules, utterances, dropped>>
        /\ \A q \in Run : run'[q] = Idle /\ pc'[q] = (IF pc[q] = "idle" THEN "idle" ELSE "over")
    BY DEF Crash, tables
  <1>2. ASSUME NEW q \in Run PROVE Prepares(q) \/ Ends(q)
    <2>1. CASE pc[q] = "idle"
      <3>1. tuning[q].status # "completed"  BY <2>1 DEF RowsInv, RunRows
      <3> QED  BY <1>1, <2>1, <3>1 DEF Prepares, Early, Idle, OnCourse, Open
    <2>2. CASE pc[q] # "idle"  BY <1>1, <2>2 DEF Ends
    <2> QED  BY <2>1, <2>2
  <1> QED  BY <1>1, <1>2, NothingWritten

------------------------------------------------------------------------------
(* tune() between its writes.                                                     *)
\* A step of r to s with the local variables e, nothing written.
LEMMA MovesOn ==
  ASSUME Inv, RowsInv, NEW r \in Run, NEW s, NEW e, ByPool, UNCHANGED <<tables, history>>,
         Goto(r, s) \/ (UNCHANGED pc /\ s = pc[r]), Becomes(r, e), Fields \subseteq DOMAIN e
  PROVE  /\ Others(r) /\ pc'[r] = s /\ run'[r] = e /\ UNCHANGED <<rules, utterances, dropped, tuning>>
         /\ CreatedBy(r)' = CreatedBy(r) /\ AddedBy(r)' = AddedBy(r)
         /\ (RunRows(r)' /\ (~dropped /\ HasLock(r)' => StillNew(r)') => RowsInv')
  <1>1. UNCHANGED <<rules, utterances, dropped, tuning>>  BY DEF tables, history
  <1>2. Others(r) /\ pc'[r] = s /\ run'[r] = e  BY <1>1 DEF Inv, Shape, Goto, Becomes, Others
  <1>3. CreatedBy(r)' = CreatedBy(r) /\ AddedBy(r)' = AddedBy(r)  BY <1>1 DEF CreatedBy, AddedBy
  <1>4. ASSUME RunRows(r)', ~dropped /\ HasLock(r)' => StillNew(r)' PROVE RowsInv'
    BY <1>1, <1>2, <1>4, Moves
  <1> QED  BY <1>1, <1>2, <1>3, <1>4

LEMMA ReadsWriteNothing ==
  ASSUME Inv, RowsInv, NEW r \in Run,
         Read(r) \/ Existing(r) \/ ReadFallbacks(r) \/ KnownTexts(r) \/ PromoteDone(r)
  PROVE  RowsInv'
  <1> USE DEF Early, OnCourse, Open
  <1>0. ByPool /\ Fields \subseteq DOMAIN run[r] /\ RunRows(r)
    BY DEF Read, Existing, ReadFallbacks, KnownTexts, PromoteDone, Inv, Shape, RowsInv
  <1>1. CASE ReadFails(r)
    BY <1>1, ThrowEnds DEF ReadFails, Fault, tables
  <1>2. CASE Read(r) /\ ~ReadFails(r)
    <2> DEFINE e == [run[r] EXCEPT !.rows = Escalations, !.nul = Escalations \cap purged]
    <2>1. /\ Fields \subseteq DOMAIN e /\ e.dry = run[r].dry /\ e.made = run[r].made /\ e.added = run[r].added
          /\ e.todo = run[r].todo
      BY <1>0 DEF Fields, Idle
    <2>2. Becomes(r, e) /\ UNCHANGED <<tables, history>> /\ pc[r] = "read"  BY <1>2 DEF Read
    <2>3. PICK s \in {"fallbacks", "existing"} : Goto(r, s)  BY <1>2 DEF Read
    <2> HIDE DEF e
    <2>4. RunRows(r)'
      <3>1. /\ pc'[r] = s /\ run'[r] = e /\ UNCHANGED <<rules, utterances, tuning>>
            /\ CreatedBy(r)' = CreatedBy(r) /\ AddedBy(r)' = AddedBy(r)
        BY <1>0, <2>1, <2>2, <2>3, MovesOn
      <3> QED  BY <1>0, <2>1, <2>2, <2>3, <3>1 DEF RunRows
    <2>5. StillNew(r)'  BY <1>0, <2>1, <2>2, <2>3, MovesOn DEF StillNew
    <2> QED  BY <1>0, <2>1, <2>2, <2>3, <2>4, <2>5, MovesOn
  <1>3. CASE Existing(r) /\ ~ReadFails(r)
    <2> DEFINE e == [run[r] EXCEPT !.known = ExistingPatterns,
                         !.tiers = {i \in Tiers(run[r].rows) :
                                      Cardinality(OfTier(run[r].rows, i)) >= MinFrequency}]
    <2>1. /\ Fields \subseteq DOMAIN e /\ e.dry = run[r].dry /\ e.made = run[r].made /\ e.added = run[r].added
          /\ e.todo = run[r].todo /\ e.known = ExistingPatterns
      BY <1>0 DEF Fields, Idle
    <2>2. Becomes(r, e) /\ UNCHANGED <<tables, history>> /\ pc[r] = "existing" /\ Goto(r, "tiers")
      BY <1>3 DEF Existing
    <2> HIDE DEF e
    <2>3. e.todo = {}  BY <1>0, <2>1, <2>2 DEF RunRows
    <2>4. RunRows(r)'
      <3>1. /\ pc'[r] = "tiers" /\ run'[r] = e /\ UNCHANGED <<rules, utterances, tuning>>
            /\ CreatedBy(r)' = CreatedBy(r) /\ AddedBy(r)' = AddedBy(r)
        BY <1>0, <2>1, <2>2, <2>3, MovesOn
      <3> QED  BY <1>0, <2>1, <2>2, <2>3, <3>1 DEF RunRows
    <2>5. StillNew(r)'
      <3>1. \A x \in rules : x.enabled => Key(x) \in ExistingPatterns  BY DEF ExistingPatterns, Key
      <3> QED  BY <1>0, <2>1, <2>2, <2>3, <3>1, MovesOn DEF StillNew
    <2> QED  BY <1>0, <2>1, <2>2, <2>4, <2>5, MovesOn
  <1>4. CASE ReadFallbacks(r) /\ ~ReadFails(r)
    <2>1. PICK S \in SUBSET Fallbacks :
            /\ IF S \cap purged # {} THEN Throw(r) /\ UNCHANGED run
               ELSE LET long == {t \in S : Logged[t].long} IN
                    /\ Becomes(r, [run[r] EXCEPT !.rows = long])
                    /\ Goto(r, IF long = {} THEN "finalize" ELSE "known")
            /\ UNCHANGED <<tables, history>>
      BY <1>4 DEF ReadFallbacks
    <2>2. CASE S \cap purged # {}
      BY <2>1, <2>2, ThrowEnds DEF tables, history
    <2>3. CASE S \cap purged = {}
      <3> DEFINE e == [run[r] EXCEPT !.rows = {t \in S : Logged[t].long}]
      <3>1. /\ Fields \subseteq DOMAIN e /\ e.dry = run[r].dry /\ e.made = run[r].made /\ e.added = run[r].added
        BY <1>0 DEF Fields, Idle
      <3>2. Becomes(r, e) /\ UNCHANGED <<tables, history>> /\ pc[r] = "fallbacks"
        BY <1>4, <2>1, <2>3 DEF ReadFallbacks
      <3>3. PICK s \in {"finalize", "known"} : Goto(r, s)  BY <2>1, <2>3
      <3> HIDE DEF e
      <3>4. RunRows(r)'
        <4>1. /\ pc'[r] = s /\ run'[r] = e /\ UNCHANGED <<rules, utterances, tuning>>
              /\ CreatedBy(r)' = CreatedBy(r) /\ AddedBy(r)' = AddedBy(r)
          BY <1>0, <3>1, <3>2, <3>3, MovesOn
        <4> QED  BY <1>0, <3>1, <3>2, <3>3, <4>1 DEF RunRows
      <3>5. StillNew(r)'  BY <1>0, <3>1, <3>2, <3>3, MovesOn DEF StillNew
      <3> QED  BY <1>0, <3>1, <3>2, <3>3, <3>4, <3>5, MovesOn
    <2> QED  BY <2>2, <2>3
  <1>5. CASE KnownTexts(r) /\ ~ReadFails(r)
    <2> DEFINE e == [run[r] EXCEPT !.texts = ExistingTexts \cap Texts(run[r].rows)]
    <2>1. /\ Fields \subseteq DOMAIN e /\ e.dry = run[r].dry /\ e.made = run[r].made /\ e.added = run[r].added
          /\ e.rows = run[r].rows /\ e.texts = ExistingTexts \cap Texts(run[r].rows)
      BY <1>0 DEF Fields, Idle
    <2>2. Becomes(r, e) /\ UNCHANGED <<tables, history>> /\ pc[r] = "known" /\ Goto(r, "promote")
      BY <1>5 DEF KnownTexts
    <2> HIDE DEF e
    <2>3. RunRows(r)'
      <3>1. /\ pc'[r] = "promote" /\ run'[r] = e /\ UNCHANGED <<rules, utterances, tuning>>
            /\ CreatedBy(r)' = CreatedBy(r) /\ AddedBy(r)' = AddedBy(r)
        BY <1>0, <2>1, <2>2, MovesOn
      <3> QED  BY <1>0, <2>1, <2>2, <3>1 DEF RunRows
    <2>4. StillNew(r)'
      <3>1. \A u \in utterances : u.text \in ExistingTexts  BY DEF ExistingTexts
      <3>2. pc'[r] = "promote" /\ run'[r] = e /\ UNCHANGED utterances  BY <1>0, <2>1, <2>2, MovesOn
      <3>3. \A u \in utterances' : u.text \in Texts(run'[r].rows) => u.text \in run'[r].texts
        BY <2>1, <3>1, <3>2
      <3> QED  BY <3>2, <3>3 DEF StillNew
    <2> QED  BY <1>0, <2>1, <2>2, <2>3, <2>4, MovesOn
  <1>6. CASE PromoteDone(r)
    <2> DEFINE e == [run[r] EXCEPT !.texts = {}]
    <2>1. /\ Fields \subseteq DOMAIN e /\ e.dry = run[r].dry /\ e.made = run[r].made /\ e.added = run[r].added
      BY <1>0 DEF Fields, Idle
    <2>2. Becomes(r, e) /\ UNCHANGED <<tables, history>> /\ pc[r] = "promote" /\ Goto(r, "finalize")
      BY <1>6 DEF PromoteDone
    <2> HIDE DEF e
    <2>3. RunRows(r)'
      <3>1. /\ pc'[r] = "finalize" /\ run'[r] = e /\ UNCHANGED <<rules, utterances, tuning>>
            /\ CreatedBy(r)' = CreatedBy(r) /\ AddedBy(r)' = AddedBy(r)
        BY <1>0, <2>1, <2>2, MovesOn
      <3> QED  BY <1>0, <2>1, <2>2, <3>1 DEF RunRows
    <2>4. StillNew(r)'  BY <1>0, <2>1, <2>2, MovesOn DEF StillNew
    <2> QED  BY <1>0, <2>1, <2>2, <2>3, <2>4, MovesOn
  <1> QED  BY <1>1, <1>2, <1>3, <1>4, <1>5, <1>6

LEMMA TiersWriteNothing ==
  ASSUME Inv, RowsInv, NEW r \in Run, NextTier(r) \/ TiersDone(r)
  PROVE  RowsInv'
  <1> USE DEF Early, OnCourse, Open
  <1>0. /\ ByPool /\ Fields \subseteq DOMAIN run[r] /\ RunRows(r) /\ UNCHANGED <<tables, history>>
        /\ pc[r] = "tiers"
    BY DEF NextTier, TiersDone, Inv, Shape, RowsInv
  <1>1. CASE NextTier(r)
    <2>1. PICK i \in run[r].tiers :
            IF OfTier(run[r].rows, i) \cap run[r].nul # {} THEN Throw(r) /\ UNCHANGED run
            ELSE /\ \E W \in TopPhrases(OfTier(run[r].rows, i)) :
                      Becomes(r, [run[r] EXCEPT !.tiers = @ \ {i},
                                    !.todo = {<<i, w>> : w \in W} \ run[r].known])
                 /\ UNCHANGED pc
      BY <1>1 DEF NextTier
    <2>2. CASE OfTier(run[r].rows, i) \cap run[r].nul # {}
      BY <1>0, <2>1, <2>2, ThrowEnds DEF tables, history
    <2>3. CASE OfTier(run[r].rows, i) \cap run[r].nul = {}
      <3>1. PICK W : Becomes(r, [run[r] EXCEPT !.tiers = @ \ {i},
                                    !.todo = {<<i, w>> : w \in W} \ run[r].known]) /\ UNCHANGED pc
        BY <2>1, <2>3
      <3> DEFINE e == [run[r] EXCEPT !.tiers = @ \ {i}, !.todo = {<<i, w>> : w \in W} \ run[r].known]
      <3>2. /\ Fields \subseteq DOMAIN e /\ e.dry = run[r].dry /\ e.made = run[r].made /\ e.added = run[r].added
            /\ e.tiers = run[r].tiers \ {i} /\ e.known = run[r].known
            /\ e.todo = {<<i, w>> : w \in W} \ run[r].known
        BY <1>0 DEF Fields, Idle
      <3>3. Becomes(r, e) /\ UNCHANGED pc  BY <3>1
      <3> HIDE DEF e
      <3>4. /\ pc'[r] = "tiers" /\ run'[r] = e /\ UNCHANGED <<rules, utterances, dropped, tuning>>
            /\ CreatedBy(r)' = CreatedBy(r) /\ AddedBy(r)' = AddedBy(r)
        BY <1>0, <3>2, <3>3, MovesOn
      <3>5. \A p \in e.todo : p = <<p[1], p[2]>> /\ p[1] = i  BY <3>2
      <3>6. \A x \in CreatedBy(r) : x.tier \notin e.tiers /\ Key(x) \notin e.todo
        <4> SUFFICES ASSUME NEW x \in CreatedBy(r) PROVE x.tier \notin e.tiers /\ Key(x) \notin e.todo
          OBVIOUS
        <4>1. x.tier \notin run[r].tiers  BY <1>0 DEF RunRows
        <4>2. Key(x)[1] = x.tier  BY DEF Key
        <4> QED  BY <3>2, <3>5, <4>1, <4>2
      <3>7. RunRows(r)'  BY <1>0, <3>2, <3>4, <3>5, <3>6 DEF RunRows
      <3>8. ~dropped /\ HasLock(r)' => StillNew(r)'
        <4> SUFFICES ASSUME ~dropped, HasLock(r)', NEW x \in rules, x.enabled
                     PROVE  Key(x) \notin e.todo /\ (x.tier \in e.tiers => Key(x) \in e.known)
          BY <3>4 DEF StillNew
        <4>1. HasLock(r)  BY <1>0, <3>2, <3>4 DEF HasLock
        <4>2. x.tier \in run[r].tiers => Key(x) \in run[r].known  BY <1>0, <4>1 DEF RowsInv, StillNew
        <4>3. Key(x)[1] = x.tier  BY DEF Key
        <4> QED  BY <3>2, <3>5, <4>2, <4>3
      <3> QED  BY <1>0, <3>2, <3>3, <3>7, <3>8, MovesOn
    <2> QED  BY <2>2, <2>3
  <1>2. CASE TiersDone(r)
    <2> DEFINE e == [Idle EXCEPT !.dry = run[r].dry, !.made = run[r].made]
    <2>1. Fields \subseteq DOMAIN e /\ e.dry = run[r].dry /\ e.made = run[r].made /\ e.added = 0
      BY DEF Fields, Idle
    <2>2. Becomes(r, e) /\ Goto(r, "fallbacks")  BY <1>2 DEF TiersDone
    <2> HIDE DEF e
    <2>3. RunRows(r)'
      <3>1. /\ pc'[r] = "fallbacks" /\ run'[r] = e /\ UNCHANGED <<rules, utterances, tuning>>
            /\ CreatedBy(r)' = CreatedBy(r) /\ AddedBy(r)' = AddedBy(r)
        BY <1>0, <2>1, <2>2, MovesOn
      <3> QED  BY <1>0, <2>1, <2>2, <3>1 DEF RunRows
    <2>4. StillNew(r)'  BY <1>0, <2>1, <2>2, MovesOn DEF StillNew
    <2> QED  BY <1>0, <2>1, <2>2, <2>3, <2>4, MovesOn
  <1> QED  BY <1>1, <1>2

\* The row that closes a run carries its counts.
LEMMA FinalizeCounts ==
  ASSUME Inv, RowsInv, NEW r \in Run, Finalize(r)
  PROVE  RowsInv'
  <1> USE DEF Early, OnCourse, Open
  <1>0. /\ ByPool /\ Fields \subseteq DOMAIN run[r] /\ RunRows(r) /\ pc[r] = "finalize"
        /\ run[r].dry \in BOOLEAN /\ UNCHANGED <<rules, utterances>>
        /\ DOMAIN tuning = Run /\ DOMAIN NoRow \subseteq DOMAIN tuning[r] /\ DOMAIN run = Run /\ DOMAIN pc = Run
    BY DEF Finalize, Inv, Shape, RowsInv
  <1>1. UNCHANGED dropped  BY DEF Finalize, WriteFails, Fault, history
  <1>2. CASE run[r].dry
    <2>1. Goto(r, "over") /\ Becomes(r, Idle) /\ UNCHANGED tuning  BY <1>2 DEF Finalize
    <2>2. Others(r) /\ Ends(r)  BY <1>0, <2>1 DEF Inv, Shape, Goto, Becomes, Others, Ends, Fields
    <2> QED  BY <1>0, <1>1, <2>1, <2>2, MovesAlone
  <1>3. CASE run[r].dry = FALSE
    <2>1. /\ UNCHANGED run /\ pc'[r] \in {"commit", "fail"} /\ DOMAIN pc' = Run
          /\ \A q \in Run : q # r => pc'[q] = pc[q]
          /\ \/ tuning' = [tuning EXCEPT ![r].status = "completed", ![r].rules = run[r].made,
                                         ![r].utterances = run[r].added]
             \/ UNCHANGED tuning /\ pc'[r] = "fail"
      BY <1>0, <1>3 DEF Finalize, WriteFails, Throw, Goto
    <2>2. Others(r)  BY <1>0, <2>1 DEF Inv, Shape, Others, NoRow
    <2>3. CreatedBy(r)' = CreatedBy(r) /\ AddedBy(r)' = AddedBy(r)  BY <1>0 DEF CreatedBy, AddedBy
    <2>4. StillNew(r)'  BY <2>1 DEF StillNew
    <2>5. CASE tuning' = [tuning EXCEPT ![r].status = "completed", ![r].rules = run[r].made,
                                        ![r].utterances = run[r].added]
      <3>1. /\ tuning'[r].status = "completed" /\ tuning'[r].rules = run[r].made
            /\ tuning'[r].utterances = run[r].added
        BY <1>0, <2>5 DEF NoRow
      <3>2. RunRows(r)'  BY <1>0, <1>3, <2>1, <2>3, <3>1 DEF RunRows
      <3> QED  BY <1>0, <1>1, <2>2, <2>4, <3>1, <3>2, Moves
    <2>6. CASE UNCHANGED tuning /\ pc'[r] = "fail"
      <3>1. Ends(r)  BY <2>6 DEF Ends
      <3> QED  BY <1>0, <1>1, <2>2, <2>6, <3>1, MovesAlone
    <2> QED  BY <2>1, <2>5, <2>6
  <1> QED  BY <1>0, <1>2, <1>3

------------------------------------------------------------------------------
(* The writes.                                                                    *)
\* What a run may write is nobody's yet: its own rows it counted, and with the lock no
\* other run has written since it looked.
LEMMA CrystallizeWrites ==
  ASSUME Inv, RowsInv, NEW r \in Run, Crystallize(r)
  PROVE  RowsInv'
  <1> USE DEF Early, OnCourse, Open
  <1>0. /\ ByPool /\ Fields \subseteq DOMAIN run[r] /\ RunRows(r) /\ pc[r] = "tiers"
        /\ run[r].dry \in BOOLEAN /\ UNCHANGED <<tuning, utterances>>
        /\ DOMAIN run = Run /\ DOMAIN pc = Run /\ DOMAIN tuning = Run
        /\ DOMAIN NoRow \subseteq DOMAIN tuning[r]
    BY DEF Crystallize, Inv, Shape, RowsInv
  <1>1. PICK p \in run[r].todo :
          LET rule == [tier |-> p[1], pattern |-> p[2], by |-> r, enabled |-> TRUE]
              insert == rules' = IF run[r].dry THEN rules ELSE rules \cup {rule} IN
          \/ /\ insert /\ Becomes(r, [run[r] EXCEPT !.todo = @ \ {p}, !.made = @ + 1])
             /\ UNCHANGED <<pc, history>>
          \/ (insert \/ UNCHANGED rules) /\ WriteFails(r)
    BY DEF Crystallize
  <1> DEFINE rule == [tier |-> p[1], pattern |-> p[2], by |-> r, enabled |-> TRUE]
             e == [run[r] EXCEPT !.todo = @ \ {p}, !.made = @ + 1]
  <1>2. /\ Key(rule) = p /\ rule.tier = p[1] /\ rule.by = r /\ rule.enabled = TRUE
        /\ {"tier", "pattern", "by", "enabled"} \subseteq DOMAIN rule
    BY <1>0 DEF Key, RunRows
  <1>3. /\ Fields \subseteq DOMAIN e /\ e.dry = run[r].dry /\ e.made = run[r].made + 1 /\ e.added = run[r].added
        /\ e.tiers = run[r].tiers /\ e.known = run[r].known /\ e.todo = run[r].todo \ {p}
    BY <1>0 DEF Fields, Idle
  <1>4. \/ Becomes(r, e) /\ UNCHANGED <<pc, dropped>>
           /\ \/ run[r].dry = FALSE /\ rules' = rules \cup {rule}
              \/ run[r].dry /\ UNCHANGED rules
        \/ UNCHANGED <<run, dropped>> /\ Throw(r)
           /\ \/ run[r].dry = FALSE /\ rules' = rules \cup {rule}
              \/ UNCHANGED rules
    BY <1>0, <1>1 DEF WriteFails, Fault, history
  <1> HIDE DEF e, rule
  <1>5. Others(r) /\ UNCHANGED dropped
    BY <1>0, <1>3, <1>4 DEF Inv, Shape, Becomes, Throw, Goto, Others
  <1>6. CASE UNCHANGED rules
    <2>1. CASE Throw(r) /\ UNCHANGED <<run, dropped>>  BY <1>0, <1>6, <2>1, ThrowEnds
    <2>2. CASE Becomes(r, e) /\ UNCHANGED <<pc, dropped>> /\ run[r].dry
      <3>1. pc'[r] = "tiers" /\ run'[r] = e  BY <1>0, <2>2 DEF Becomes
      <3>2. CreatedBy(r)' = CreatedBy(r) /\ AddedBy(r)' = AddedBy(r)  BY <1>0, <1>6 DEF CreatedBy, AddedBy
      <3>a. run'[r].dry # FALSE  BY <1>3, <2>2, <3>1
      <3>b. /\ \A x \in CreatedBy(r) : x.tier \notin e.tiers /\ Key(x) \notin e.todo
            /\ \A z \in e.todo : z = <<z[1], z[2]>> /\ z[1] \notin e.tiers
            /\ e.added = 0 /\ AddedBy(r) = {}
        BY <1>0, <1>3 DEF RunRows
      <3>c. tuning[r].status # "completed" /\ \A x, y \in CreatedBy(r) : Key(x) = Key(y) => x = y
        BY <1>0 DEF RunRows
      <3>3. RunRows(r)'
        <4>1. /\ pc'[r] = "tiers" /\ run'[r] = e /\ tuning' = tuning
              /\ CreatedBy(r)' = CreatedBy(r) /\ AddedBy(r)' = AddedBy(r)
          BY <1>0, <3>1, <3>2
        <4> QED  BY <3>a, <3>b, <3>c, <4>1 DEF RunRows
      <3>4. ~HasLock(r)'  BY <1>3, <2>2, <3>1 DEF HasLock
      <3> QED  BY <1>0, <1>5, <1>6, <3>3, <3>4, Moves
    <2>3. CASE Becomes(r, e) /\ UNCHANGED <<pc, dropped>> /\ run[r].dry = FALSE /\ rules' = rules \cup {rule}
      <3>1. rule \in CreatedBy(r)  BY <1>2, <1>6, <2>3 DEF CreatedBy
      <3>2. FALSE  BY <1>0, <1>2, <3>1 DEF RunRows
      <3> QED  BY <3>2
    <2> QED  BY <1>4, <2>1, <2>2, <2>3
  <1>7. CASE run[r].dry = FALSE /\ rules' = rules \cup {rule}
    <2>1. HasLock(r) /\ tuning[r].status # "none" /\ tuning[r].status # "completed"
      BY <1>0, <1>7 DEF HasLock, LockedStates, RunRows
    <2>2. /\ CreatedBy(r)' = CreatedBy(r) \cup {rule}
          /\ \A q \in Run : q # r => CreatedBy(q)' = CreatedBy(q)
          /\ \A q \in Run : AddedBy(q)' = AddedBy(q)
      BY <1>0, <1>2, <1>7 DEF CreatedBy, AddedBy
    <2>3. \A x \in CreatedBy(r) : Key(x) # p  BY <1>0 DEF RunRows
    <2>4. rule \notin CreatedBy(r) /\ IsFiniteSet(CreatedBy(r))
      BY <1>2, <2>3, FS_Subset DEF RowsInv, Typed, CreatedBy
    <2>5. Cardinality(CreatedBy(r) \cup {rule}) = Cardinality(CreatedBy(r)) + 1
      BY <2>4, FS_AddElement
    <2>6. Typed'
      <3>1. IsFiniteSet(rules')  BY <1>7, FS_AddElement DEF RowsInv, Typed
      <3>2. \A x \in rules' : IsRule(x)'  BY <1>0, <1>2, <1>7, <2>1 DEF RowsInv, Typed, IsRule
      <3> QED  BY <1>0, <3>1, <3>2 DEF RowsInv, Typed, IsUtterance
    <2>7. ASSUME NEW q \in Run PROVE RunRows(q)'
      <3>1. CASE q # r
        <4>1. pc'[q] = pc[q] /\ run'[q] = run[q] /\ tuning'[q] = tuning[q]  BY <1>5, <3>1 DEF Others
        <4>2. RunRows(q) /\ CreatedBy(q)' = CreatedBy(q) /\ AddedBy(q)' = AddedBy(q)
          BY <2>2, <3>1 DEF RowsInv
        <4> QED  BY <4>1, <4>2 DEF RunRows
      <3>2. CASE q = r
        <4>1. \A x, y \in CreatedBy(r) \cup {rule} : Key(x) = Key(y) => x = y
          BY <1>0, <1>2, <2>3 DEF RunRows
        <4>2. CASE Becomes(r, e) /\ UNCHANGED pc
          <5>1. pc'[r] = "tiers" /\ run'[r] = e  BY <1>0, <4>2 DEF Becomes
          <5>2. \A x \in CreatedBy(r) \cup {rule} : x.tier \notin e.tiers /\ Key(x) \notin e.todo
            BY <1>0, <1>2, <1>3, <2>3 DEF RunRows
          <5>3. /\ \A z \in e.todo : z = <<z[1], z[2]>> /\ z[1] \notin e.tiers
                /\ e.added = 0 /\ AddedBy(r) = {}
                /\ e.made = Cardinality(CreatedBy(r)) + 1 /\ e.added = Cardinality(AddedBy(r))
            BY <1>0, <1>3, <1>7 DEF RunRows
          <5> QED  BY <1>0, <2>1, <2>2, <2>5, <3>2, <4>1, <5>1, <5>2, <5>3 DEF RunRows
        <4>3. CASE Throw(r)
          <5>1. pc'[r] = "fail"  BY <1>0, <1>7, <4>3 DEF Throw, Goto
          <5> QED  BY <1>0, <2>1, <2>2, <3>2, <4>1, <5>1 DEF RunRows
        <4> QED  BY <1>4, <4>2, <4>3
      <3> QED  BY <3>1, <3>2
    <2>8. ASSUME ~dropped' PROVE Single' /\ \A q \in Run : HasLock(q)' => StillNew(q)'
      <3>1. ~dropped /\ Single /\ StillNew(r)  BY <1>5, <2>1, <2>8 DEF RowsInv
      <3>2. \A x \in rules : x.enabled => Key(x) # p  BY <1>0, <3>1 DEF StillNew
      <3>3. Single'  BY <1>0, <1>2, <1>7, <3>1, <3>2 DEF Single
      <3>4. ASSUME NEW q \in Run, HasLock(q)', q # r PROVE FALSE
        <4>1. HasLock(q)  BY <1>5, <3>4 DEF Others, HasLock
        <4> QED  BY <2>1, <3>1, <3>4, <4>1, OneAtATime
      <3>5. StillNew(r)'
        <4>1. CASE Becomes(r, e) /\ UNCHANGED pc
          <5>1. pc'[r] = "tiers" /\ run'[r] = e  BY <1>0, <4>1 DEF Becomes
          <5>2. p[1] \notin e.tiers  BY <1>0, <1>3 DEF RunRows
          <5>3. \A x \in rules : x.enabled =>
                  Key(x) \notin e.todo /\ (x.tier \in e.tiers => Key(x) \in e.known)
            BY <1>0, <1>3, <3>1 DEF StillNew
          <5>4. Key(rule) \notin e.todo /\ rule.tier \notin e.tiers  BY <1>2, <1>3, <5>2
          <5> QED  BY <1>7, <5>1, <5>3, <5>4 DEF StillNew
        <4>2. CASE Throw(r)
          <5>1. pc'[r] = "fail"  BY <1>0, <1>7, <4>2 DEF Throw, Goto
          <5> QED  BY <5>1 DEF StillNew
        <4> QED  BY <1>4, <4>1, <4>2
      <3> QED  BY <3>3, <3>4, <3>5
    <2> QED  BY <2>6, <2>7, <2>8 DEF RowsInv
  <1> QED  BY <1>4, <1>6, <1>7

LEMMA PromoteWrites ==
  ASSUME Inv, RowsInv, NEW r \in Run, Promote(r)
  PROVE  RowsInv'
  <1> USE DEF Early, OnCourse, Open
  <1>0. /\ ByPool /\ Fields \subseteq DOMAIN run[r] /\ RunRows(r) /\ pc[r] = "promote"
        /\ run[r].dry \in BOOLEAN /\ UNCHANGED <<tuning, rules>>
        /\ DOMAIN run = Run /\ DOMAIN pc = Run /\ DOMAIN tuning = Run
        /\ DOMAIN NoRow \subseteq DOMAIN tuning[r]
    BY DEF Promote, Inv, Shape, RowsInv
  <1>1. PICK t \in run[r].rows :
          LET text == Logged[t].text
              row  == [text |-> text, tier |-> Logged[t].tier, source |-> t, by |-> r]
              insert == utterances' = IF run[r].dry THEN utterances ELSE utterances \cup {row} IN
          \/ /\ text \in run[r].texts
             /\ Becomes(r, [run[r] EXCEPT !.rows = @ \ {t}]) /\ UNCHANGED <<utterances, pc, history>>
          \/ /\ text \notin run[r].texts /\ insert
             /\ Becomes(r, [run[r] EXCEPT !.rows = @ \ {t}, !.texts = @ \cup {text}, !.added = @ + 1])
             /\ UNCHANGED <<pc, history>>
          \/ text \notin run[r].texts /\ (insert \/ UNCHANGED utterances) /\ WriteFails(r)
    BY DEF Promote
  <1> DEFINE text == Logged[t].text
             row == [text |-> text, tier |-> Logged[t].tier, source |-> t, by |-> r]
             skip == [run[r] EXCEPT !.rows = @ \ {t}]
             e == [run[r] EXCEPT !.rows = @ \ {t}, !.texts = @ \cup {text}, !.added = @ + 1]
  <1>2. row.text = text /\ row.by = r  OBVIOUS
  <1>3. /\ Fields \subseteq DOMAIN e /\ e.dry = run[r].dry /\ e.made = run[r].made /\ e.added = run[r].added + 1
        /\ e.rows = run[r].rows \ {t} /\ e.texts = run[r].texts \cup {text}
    BY <1>0 DEF Fields, Idle
  <1>s. /\ Fields \subseteq DOMAIN skip /\ skip.dry = run[r].dry /\ skip.made = run[r].made
        /\ skip.added = run[r].added /\ skip.rows = run[r].rows \ {t} /\ skip.texts = run[r].texts
    BY <1>0 DEF Fields, Idle
  <1>t. /\ text \in Texts(run[r].rows)
        /\ \A x : x \in Texts(run[r].rows \ {t}) => x \in Texts(run[r].rows)
    BY DEF Texts
  <1>4. \/ Becomes(r, skip) /\ UNCHANGED <<utterances, pc, dropped>>
        \/ Becomes(r, e) /\ UNCHANGED <<pc, dropped>> /\ text \notin run[r].texts
           /\ \/ run[r].dry = FALSE /\ utterances' = utterances \cup {row}
              \/ run[r].dry = TRUE /\ UNCHANGED utterances
        \/ UNCHANGED <<run, dropped>> /\ Throw(r) /\ text \notin run[r].texts
           /\ \/ run[r].dry = FALSE /\ utterances' = utterances \cup {row}
              \/ UNCHANGED utterances
    BY <1>0, <1>1 DEF WriteFails, Fault, history
  <1> HIDE DEF e, row, skip, text
  <1>5. Others(r) /\ UNCHANGED dropped
    BY <1>0, <1>3, <1>4, <1>s DEF Inv, Shape, Becomes, Throw, Goto, Others
  <1>a. \A q \in Run : CreatedBy(q)' = CreatedBy(q)  BY <1>0 DEF CreatedBy
  <1>6. CASE Becomes(r, skip) /\ UNCHANGED <<utterances, pc, dropped>>
    <2>1. pc'[r] = "promote" /\ run'[r] = skip  BY <1>0, <1>6 DEF Becomes
    <2>2. AddedBy(r)' = AddedBy(r)  BY <1>6 DEF AddedBy
    <2>3. RunRows(r)'  BY <1>0, <1>a, <1>s, <2>1, <2>2 DEF RunRows
    <2>4. ~dropped /\ HasLock(r)' => StillNew(r)'
      <3>1. HasLock(r)' => HasLock(r)  BY <1>0, <1>s, <2>1 DEF HasLock
      <3> QED  BY <1>0, <1>6, <1>s, <1>t, <2>1, <3>1 DEF RowsInv, StillNew
    <2> QED  BY <1>0, <1>5, <1>6, <2>3, <2>4, Moves
  <1>7. CASE Throw(r) /\ UNCHANGED <<run, dropped, utterances>>  BY <1>0, <1>7, ThrowEnds
  <1>8. CASE Becomes(r, e) /\ UNCHANGED <<pc, dropped, utterances>> /\ run[r].dry = TRUE
    <2>1. pc'[r] = "promote" /\ run'[r] = e  BY <1>0, <1>8 DEF Becomes
    <2>2. AddedBy(r)' = AddedBy(r)  BY <1>8 DEF AddedBy
    <2>3. run'[r].dry # FALSE  BY <1>3, <1>8, <2>1
    <2>a. /\ tuning[r].status # "completed" /\ \A x, y \in CreatedBy(r) : Key(x) = Key(y) => x = y
          /\ \A u \in AddedBy(r) : u.text \in e.texts
      BY <1>0, <1>3 DEF RunRows
    <2>4. RunRows(r)'
      <3>1. /\ "promote" \notin {"idle", "connect", "lock", "stale", "mark", "read", "existing"}
            /\ "promote" \notin {"tiers", "fallbacks", "known"} /\ "promote" # "tiers"
        OBVIOUS
      <3>2. tuning'[r].status # "completed" /\ CreatedBy(r)' = CreatedBy(r)  BY <1>0, <1>a, <2>a
      <3> HIDE DEF Early, OnCourse, Open
      <3> QED  BY <2>1, <2>2, <2>3, <2>a, <3>1, <3>2 DEF RunRows, Early
    <2>5. ~HasLock(r)'  BY <1>3, <1>8, <2>1 DEF HasLock
    <2> QED  BY <1>0, <1>5, <1>8, <2>4, <2>5, Moves
  <1>9. CASE run[r].dry = FALSE /\ utterances' = utterances \cup {row} /\ text \notin run[r].texts
    <2>1. HasLock(r) /\ tuning[r].status # "none" /\ tuning[r].status # "completed"
      BY <1>0, <1>9 DEF HasLock, LockedStates, RunRows
    <2>2. /\ AddedBy(r)' = AddedBy(r) \cup {row}
          /\ \A q \in Run : q # r => AddedBy(q)' = AddedBy(q)
      BY <1>2, <1>9 DEF AddedBy
    <2>3. \A u \in AddedBy(r) : u.text # text  BY <1>0, <1>9 DEF RunRows
    <2>4. row \notin AddedBy(r) /\ IsFiniteSet(AddedBy(r))
      BY <1>2, <2>3, FS_Subset DEF RowsInv, Typed, AddedBy
    <2>5. Cardinality(AddedBy(r) \cup {row}) = Cardinality(AddedBy(r)) + 1
      BY <2>4, FS_AddElement
    <2>6. Typed'
      <3>1. IsFiniteSet(utterances')  BY <1>9, FS_AddElement DEF RowsInv, Typed
      <3>2. \A u \in utterances' : IsUtterance(u)'
        BY <1>0, <1>2, <1>9, <2>1 DEF RowsInv, Typed, IsUtterance
      <3> QED  BY <1>0, <3>1, <3>2 DEF RowsInv, Typed, IsRule
    <2>7. ASSUME NEW q \in Run PROVE RunRows(q)'
      <3>1. CASE q # r
        <4>1. pc'[q] = pc[q] /\ run'[q] = run[q] /\ tuning'[q] = tuning[q]  BY <1>5, <3>1 DEF Others
        <4>2. RunRows(q) /\ CreatedBy(q)' = CreatedBy(q) /\ AddedBy(q)' = AddedBy(q)
          BY <1>a, <2>2, <3>1 DEF RowsInv
        <4> QED  BY <4>1, <4>2 DEF RunRows
      <3>2. CASE q = r
        <4>1. \A x, y \in CreatedBy(r) : Key(x) = Key(y) => x = y  BY <1>0 DEF RunRows
        <4>2. CASE Becomes(r, e) /\ UNCHANGED pc
          <5>1. pc'[r] = "promote" /\ run'[r] = e  BY <1>0, <4>2 DEF Becomes
          <5>2. \A u \in AddedBy(r) \cup {row} : u.text \in e.texts
            BY <1>0, <1>2, <1>3 DEF RunRows
          <5>3. e.made = Cardinality(CreatedBy(r)) /\ e.added = Cardinality(AddedBy(r)) + 1
            BY <1>0, <1>3, <1>9 DEF RunRows
          <5> QED  BY <1>0, <1>a, <2>1, <2>2, <2>5, <3>2, <4>1, <5>1, <5>2, <5>3 DEF RunRows
        <4>3. CASE Throw(r)
          <5>1. pc'[r] = "fail"  BY <1>0, <1>9, <4>3 DEF Throw, Goto
          <5> QED  BY <1>0, <1>a, <2>1, <2>2, <3>2, <4>1, <5>1 DEF RunRows
        <4>4. CASE Becomes(r, skip) /\ UNCHANGED <<utterances, pc>>
          <5>1. FALSE  BY <1>9, <2>2, <2>4, <4>4 DEF AddedBy
          <5> QED  BY <5>1
        <4> QED  BY <1>4, <4>2, <4>3, <4>4
      <3> QED  BY <3>1, <3>2
    <2>8. ASSUME ~dropped' PROVE Single' /\ \A q \in Run : HasLock(q)' => StillNew(q)'
      <3>1. ~dropped /\ Single /\ StillNew(r)  BY <1>5, <2>1, <2>8 DEF RowsInv
      <3>2. \A u \in utterances : u.text # text  BY <1>0, <1>9, <1>t, <3>1 DEF StillNew
      <3>3. Single'  BY <1>0, <1>2, <1>9, <3>1, <3>2 DEF Single
      <3>4. ASSUME NEW q \in Run, HasLock(q)', q # r PROVE FALSE
        <4>1. HasLock(q)  BY <1>5, <3>4 DEF Others, HasLock
        <4> QED  BY <2>1, <3>1, <3>4, <4>1, OneAtATime
      <3>5. StillNew(r)'
        <4>1. CASE Becomes(r, e) /\ UNCHANGED pc
          <5>1. pc'[r] = "promote" /\ run'[r] = e  BY <1>0, <4>1 DEF Becomes
          <5>2. \A u \in utterances : u.text \in Texts(e.rows) => u.text \in e.texts
            BY <1>0, <1>3, <1>t, <3>1 DEF StillNew
          <5>3. row.text \in e.texts  BY <1>2, <1>3
          <5> QED  BY <1>9, <5>1, <5>2, <5>3 DEF StillNew
        <4>2. CASE Throw(r)
          <5>1. pc'[r] = "fail"  BY <1>0, <1>9, <4>2 DEF Throw, Goto
          <5> QED  BY <5>1 DEF StillNew
        <4>3. CASE Becomes(r, skip) /\ UNCHANGED <<utterances, pc>>
          <5>1. FALSE  BY <1>9, <2>2, <2>4, <4>3 DEF AddedBy
          <5> QED  BY <5>1
        <4> QED  BY <1>4, <4>1, <4>2, <4>3
      <3> QED  BY <3>3, <3>4, <3>5
    <2> QED  BY <2>6, <2>7, <2>8 DEF RowsInv
  <1> QED  BY <1>4, <1>6, <1>7, <1>8, <1>9

\* A rule an operator disables is still the rule its run created, and counted once.
LEMMA DisableKeepsCounts ==
  ASSUME Inv, RowsInv, NEW x \in rules, Disable(x)
  PROVE  RowsInv'
  <1> DEFINE y == [x EXCEPT !.enabled = FALSE]
  <1>0. /\ rules' = (rules \ {x}) \cup {y} /\ x.enabled
        /\ UNCHANGED <<pc, run, tuning, utterances, dropped>>
    BY DEF Disable, history
  <1>1. IsRule(x)  BY DEF RowsInv, Typed
  <1>2. /\ Key(y) = Key(x) /\ y.tier = x.tier /\ y.by = x.by /\ y.enabled = FALSE /\ x # y /\ x.by \in Run
        /\ {"tier", "pattern", "by", "enabled"} \subseteq DOMAIN y
    <2>1. /\ DOMAIN y = DOMAIN x /\ y.tier = x.tier /\ y.pattern = x.pattern /\ y.by = x.by
          /\ y.enabled = FALSE
      BY <1>1 DEF IsRule
    <2> HIDE DEF y
    <2> QED  BY <1>0, <1>1, <2>1 DEF IsRule, Key
  <1> HIDE DEF y
  <1>3. Typed'
    <2>1. IsFiniteSet(rules \ {x})  BY FS_Subset DEF RowsInv, Typed
    <2>2. IsFiniteSet(rules')  BY <1>0, <2>1, FS_AddElement
    <2>3. \A z \in rules' : IsRule(z)'  BY <1>0, <1>1, <1>2 DEF RowsInv, Typed, IsRule
    <2> QED  BY <1>0, <2>2, <2>3 DEF RowsInv, Typed, IsUtterance
  <1>4. ASSUME NEW q \in Run PROVE RunRows(q)'
    <2>0. RunRows(q) /\ AddedBy(q)' = AddedBy(q)  BY <1>0 DEF RowsInv, AddedBy
    <2>1. CASE q # x.by
      <3>1. CreatedBy(q)' = CreatedBy(q)  BY <1>0, <1>2, <2>1 DEF CreatedBy
      <3> QED  BY <1>0, <2>0, <3>1 DEF RunRows
    <2>2. CASE q = x.by
      <3>1. x \in CreatedBy(q) /\ CreatedBy(q)' = (CreatedBy(q) \ {x}) \cup {y}
        BY <1>0, <1>2, <2>2 DEF CreatedBy
      <3>2. y \notin CreatedBy(q)  BY <1>2, <2>0, <3>1 DEF RunRows
      <3>3. IsFiniteSet(CreatedBy(q))  BY FS_Subset DEF RowsInv, Typed, CreatedBy
      <3>4. /\ Cardinality(CreatedBy(q) \ {x}) = Cardinality(CreatedBy(q)) - 1
            /\ IsFiniteSet(CreatedBy(q) \ {x}) /\ Cardinality(CreatedBy(q)) \in Nat
        BY <3>1, <3>3, FS_RemoveElement, FS_CardinalityType
      <3>5. Cardinality((CreatedBy(q) \ {x}) \cup {y}) = Cardinality(CreatedBy(q) \ {x}) + 1
        BY <3>2, <3>4, FS_AddElement
      <3>6. Cardinality(CreatedBy(q)') = Cardinality(CreatedBy(q))  BY <3>1, <3>4, <3>5
      <3>7. \A z, v \in CreatedBy(q)' : Key(z) = Key(v) => z = v
        BY <1>2, <2>0, <3>1 DEF RunRows
      <3>8. \A z \in CreatedBy(q)' : \E v \in CreatedBy(q) : Key(z) = Key(v) /\ z.tier = v.tier
        BY <1>2, <3>1
      <3>9. CreatedBy(q) # {}  BY <3>1
      <3>10. pc[q] = "tiers" => \A z \in CreatedBy(q)' : z.tier \notin run[q].tiers /\ Key(z) \notin run[q].todo
        BY <2>0, <3>8 DEF RunRows
      <3> QED  BY <1>0, <2>0, <3>6, <3>7, <3>9, <3>10 DEF RunRows
    <2> QED  BY <2>1, <2>2
  <1>5. ASSUME ~dropped' PROVE Single'  BY <1>0, <1>2, <1>5 DEF RowsInv, Single
  <1>6. ASSUME ~dropped', NEW q \in Run, HasLock(q)' PROVE StillNew(q)'
    <2>1. StillNew(q)  BY <1>0, <1>6 DEF RowsInv, HasLock
    <2> QED  BY <1>0, <1>2, <2>1 DEF StillNew
  <1> QED  BY <1>3, <1>4, <1>5, <1>6 DEF RowsInv

------------------------------------------------------------------------------
LEMMA RowsKeep ==
  ASSUME Inv, RowsInv, [Next]_vars
  PROVE  RowsInv'
  <1>1. ASSUME NEW r \in Run, Start(r) \/ RunStep(r) \/ Age(r) PROVE RowsInv'
    BY <1>1, LockStepsWriteNothing, MarkStaleWritesNothing, ReadsWriteNothing, TiersWriteNothing, FinalizeCounts,
       CrystallizeWrites, PromoteWrites, OthersWriteNothing DEF RunStep
  <1>2. ASSUME NEW x \in rules, Disable(x) PROVE RowsInv'  BY <1>2, DisableKeepsCounts
  <1>3. CASE \/ \E o \in Branch : BranchUser(o)
             \/ PurgeTexts \/ (\E c \in Conn : Lose(c)) \/ UNCHANGED vars
    BY <1>3, OthersWriteNothing
  <1>4. CASE Crash  BY <1>4, CrashWritesNothing
  <1> QED  BY <1>1, <1>2, <1>3, <1>4 DEF Next

THEOREM RowsInvHolds == Spec => []RowsInv
  <1>1. Init => RowsInv  BY RowsStart
  <1>2. Inv /\ RowsInv /\ [Next]_vars => RowsInv'  BY RowsKeep
  <1> QED  BY <1>1, <1>2, InvHolds, PTL DEF Spec

\* As long as no run lost the session of its lock, no pattern is enabled twice for a tier
\* and no utterance is stored twice, although the runs check and insert in separate
\* statements (rule-crystallizer.ts, utterance-promoter.ts).
THEOREM NoDuplicatesHolds == Spec => []NoDuplicates
  <1>1. RowsInv => NoDuplicates  BY DEF RowsInv, Single, Key, NoDuplicates
  <1> QED  BY <1>1, RowsInvHolds, PTL

\* A completed run's row counts what the run wrote, and nothing is written by a run
\* without a row (finalizeTuningRun).
THEOREM RecordsAreTrueHolds == Spec => []RecordsAreTrue
  <1>1. RowsInv => RecordsAreTrue
    BY DEF RowsInv, RunRows, Typed, IsRule, IsUtterance, RecordsAreTrue
  <1> QED  BY <1>1, RowsInvHolds, PTL
==============================================================================
