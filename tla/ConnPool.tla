------------------------------- MODULE ConnPool -------------------------------
(* The pool of database connections (src/db/connection.ts): connections are      *)
(* handed out and returned, the session state of one (its branch, its autocommit *)
(* flag) outlives the borrower, and withBranchConnection undoes what its callback *)
(* did, as far as the tracking of connection.ts knows of it.                     *)
EXTENDS Naturals, FiniteSets

CONSTANTS Conn,    \* connectionLimit connections
          User,    \* who borrows connections with getConnection
          Branch,  \* those of them that run withBranchConnection
          Nobody

ASSUME ConnAssumption == Conn # {} /\ Branch \subseteq User /\ Nobody \notin User

VARIABLES conn,    \* the connections
          op,      \* where each withBranchConnection is
          spoiled  \* history: live connections given back after a failed reset

poolVars == <<conn, op, spoiled>>

\* off, manual: the session is off the default branch, without autocommit.  The note is
\* the record of branchConnState, if there is one.  A new session has autocommit: the
\* handler of 'connection' sets it, or destroys the session.
Fresh == [user |-> Nobody, off |-> FALSE, manual |-> FALSE,
          tracked |-> FALSE, notedOff |-> FALSE, notedManual |-> FALSE]
Free == {c \in Conn : conn[c].user = Nobody}
HeldBy(user) == {c \in Conn : conn[c].user = user}

\* getConnection and release: the session keeps its state.
Borrow(c, user) == c \in Free /\ conn' = [conn EXCEPT ![c].user = user]
Release(c) == conn' = [conn EXCEPT ![c].user = Nobody]

\* setAutocommit and noteConnectionBranch (called by doltCheckout) record what they did.
\* Mutant: setAutocommit notes nothing.
NoteNoAutocommit(k, on) == [k EXCEPT !.tracked = TRUE, !.manual = ~on]
NoteAutocommit(k, on) == [k EXCEPT !.tracked = TRUE, !.manual = ~on, !.notedManual = ~on]
NoteBranch(k, off) == [k EXCEPT !.tracked = TRUE, !.off = off, !.notedOff = off]

\* connectionNeedsReset and markConnectionClean.
NeedsAutocommit(k) == ~k.tracked \/ k.notedManual
NeedsCheckout(k)   == ~k.tracked \/ k.notedOff
Clean(k) == [k EXCEPT !.tracked = TRUE, !.notedOff = FALSE, !.notedManual = FALSE]

------------------------------------------------------------------------------
(* withBranchConnection: its callback switches autocommit and branch in any       *)
(* order through the tracked helpers, and ends or throws at any point.            *)
OpBegin(o) ==
  /\ op[o] = "idle" /\ op' = [op EXCEPT ![o] = "callback"]
  /\ \E c \in Conn : Borrow(c, o)
  /\ UNCHANGED spoiled
OpWork(o) ==
  /\ op[o] = "callback"
  /\ \E c \in HeldBy(o) :
       \E b \in BOOLEAN : conn' \in {[conn EXCEPT ![c] = NoteAutocommit(@, b)],
                                     [conn EXCEPT ![c] = NoteBranch(@, b)]}
  /\ UNCHANGED <<op, spoiled>>
\* The finally block, on a connection nobody else sees: each reset is skipped, done, or
\* failed and swallowed; then markConnectionClean, whatever they did, and release.
Undone(k, m, f) == [k EXCEPT !.manual = m, !.off = f]
Resets(k) ==
  {Undone(k, m, f) :
     m \in (IF NeedsAutocommit(k) THEN {FALSE, k.manual} ELSE {k.manual}),
     f \in (IF NeedsCheckout(k) THEN {FALSE, k.off} ELSE {k.off})}
ResetFailed(k) == (NeedsAutocommit(k) /\ k.manual) \/ (NeedsCheckout(k) /\ k.off)
OpEnd(o) ==
  /\ op[o] = "callback" /\ op' = [op EXCEPT ![o] = "idle"]
  /\ \/ HeldBy(o) = {} /\ UNCHANGED <<conn, spoiled>>
     \/ \E c \in HeldBy(o) : \E k \in Resets(conn[c]) :
          /\ conn' = [conn EXCEPT ![c] = [Clean(k) EXCEPT !.user = Nobody]]
          /\ spoiled' = IF ResetFailed(k) THEN spoiled \cup {c} ELSE spoiled

\* The server or the network ends a session: the pool drops it (its borrower keeps an
\* object that only throws) and opens another when one is asked for.
LoseConnection(c) ==
  /\ conn' = [conn EXCEPT ![c] = Fresh] /\ spoiled' = spoiled \ {c}
  /\ UNCHANGED op

\* The process ends and starts again with an empty pool.
PoolCrash ==
  /\ conn' = [c \in Conn |-> Fresh]
  /\ op' = [o \in Branch |-> "idle"] /\ spoiled' = {}

PoolInit ==
  /\ conn = [c \in Conn |-> Fresh]
  /\ op = [o \in Branch |-> "idle"] /\ spoiled = {}

PoolTypeOK ==
  /\ conn \in [Conn -> [user : User \cup {Nobody}, off : BOOLEAN, manual : BOOLEAN,
                        tracked : BOOLEAN, notedOff : BOOLEAN, notedManual : BOOLEAN]]
  /\ op \in [Branch -> {"idle", "callback"}]
  /\ spoiled \subseteq Conn

\* A connection in the pool is on the default branch and commits each statement
\* (the invariant stated in withBranchConnection), although the resets are skipped
\* whenever the tracking says so; only a reset that failed breaks it.
PoolIsClean == \A c \in Free \ spoiled : ~conn[c].off /\ ~conn[c].manual
==============================================================================
