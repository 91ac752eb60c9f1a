------------------------------ MODULE ConnPool ------------------------------
(***************************************************************************)
(* The pool of SQLite connections under the handlers: each db.Exec and     *)
(* db.Query takes a connection and gives it back, the four statements of   *)
(* /delete-account are one Exec, and the rows of /pins.csv stay open until *)
(* the client has read them.                                               *)
(*                                                                         *)
(* The pool (database/sql) and the locks (SQLite with a rollback journal)  *)
(* are external.  A connection reads under a shared lock; one at a time is *)
(* reserved for writing; to commit it waits, pending, until no other has a *)
(* lock, and while it does nobody begins to read.  Inside a transaction a  *)
(* lock is kept until the transaction ends, also when it was for reading.  *)
(* Who waits too long gets SQLITE_BUSY: a single statement is rolled back, *)
(* an open transaction stays open.  A closed connection is rolled back.    *)
(***************************************************************************)
EXTENDS Naturals, FiniteSets

CONSTANTS
  Users,    \* user ids
  Calls,    \* calls of Exec and Query in progress
  Conns,    \* connections
  MaxIdle,  \* idle connections the pool keeps (2 by default)
  None      \* no user, no connection

ASSUME PoolAssumption ==
  /\ MaxIdle \in Nat
  /\ None \notin Users \cup Conns

VARIABLES
  disk,   \* the committed rows, as <<kind, user>>
  rows,   \* what each connection has written and not committed
  tx,     \* connections inside an explicit transaction
  lock,   \* the lock of each connection
  idle,   \* the pool
  calls,  \* each call in progress
  (* history *)
  deleted,  \* accounts whose deletion returned no error
  pinned,   \* users whose pin was set without error
  inside    \* those of them whose update ran in somebody else's transaction

connState == <<rows, tx, lock>>
history == <<deleted, pinned, inside>>
vars == <<disk, connState, idle, calls, history>>

-----------------------------------------------------------------------------

Kinds == {"user", "session", "pin"}
Rows == Kinds \X Users
RowsOf(u) == Kinds \X {u}

\* The statement a call runs next.
Steps == {"none", "query", "stream", "update", "flush",
          "begin", "users", "sessions", "commit"}

Call == [pc : Steps, user : Users \cup {None}, conn : Conns \cup {None}]
NoCall == [pc |-> "none", user |-> None, conn |-> None]

Used == {calls[x].conn : x \in Calls} \ {None}
\* Those in use are taken for closed.
NotIdle == Conns \ idle

Closed == Conns \ (Used \cup idle)
Others(c) == Conns \ {c}

Readable(c) == lock[c] # "none" \/ \A d \in Others(c) : lock[d] # "pending"
Writable(c) == \A d \in Others(c) : lock[d] \notin {"reserved", "pending"}
Alone(c)    == \A d \in Others(c) : lock[d] = "none"

Writing(c) == lock[c] \in {"reserved", "pending"}
Seen(c) == IF Writing(c) THEN rows[c] ELSE disk

Init ==
  /\ disk = {"user", "session"} \X Users
  /\ rows = [c \in Conns |-> {}] /\ tx = {}
  /\ lock = [c \in Conns |-> "none"]
  /\ idle = {}
  /\ calls = [x \in Calls |-> NoCall]
  /\ deleted = {} /\ pinned = {} /\ inside = {}

-----------------------------------------------------------------------------
(* database/sql. *)

\* An idle connection if there is one, else a new one.
Take(x, first, u) ==
  /\ calls[x].pc = "none"
  /\ \E c \in IF idle # {} THEN idle ELSE Closed :
       /\ calls' = [calls EXCEPT ![x] = [pc |-> first, user |-> u, conn |-> c]]
       /\ idle' = idle \ {c}
  /\ UNCHANGED <<disk, connState, history>>

GoOn(x, next) ==
  /\ calls' = [calls EXCEPT ![x].pc = next]
  /\ UNCHANGED idle

\* The call returns.  Its connection, left with this lock, these uncommitted rows
\* and inside a transaction or not, goes back to the pool or is closed.
Return(x, held, written, open) ==
  LET c == calls[x].conn
      kept == Cardinality(idle) < MaxIdle
  IN
  /\ calls' = [calls EXCEPT ![x] = NoCall]
  /\ idle' = IF kept THEN idle \cup {c} ELSE idle
  /\ lock' = [lock EXCEPT ![c] = IF kept THEN held ELSE "none"]
  /\ rows' = [rows EXCEPT ![c] = IF kept THEN written ELSE {}]
  /\ tx' = IF kept /\ open THEN tx ELSE tx \ {c}

ReturnAsIs(x) ==
  LET c == calls[x].conn IN Return(x, lock[c], rows[c], TRUE)

-----------------------------------------------------------------------------
(* /pins.csv. *)

\* Each line is read by itself.
ReadsUnlocked(c) == lock[c]

ReadLock(c) == IF lock[c] = "none" THEN "shared" ELSE lock[c]

Query(x) ==
  LET c == calls[x].conn IN
  /\ calls[x].pc = "query"
  /\ Readable(c)
  /\ lock' = [lock EXCEPT ![c] = ReadLock(c)]
  /\ GoOn(x, "stream")
  /\ UNCHANGED <<disk, rows, tx, history>>

\* The lock of a connection whose rows are closed: that of its transaction, if it
\* is inside one.
AfterRows(c) == IF c \in tx THEN lock[c] ELSE "none"

\* defer rows.Close(): when the client has read the last line, or is gone.
CloseRows(x) ==
  LET c == calls[x].conn IN
  /\ calls[x].pc = "stream"
  /\ Return(x, AfterRows(c), rows[c], TRUE)
  /\ UNCHANGED <<disk, history>>

-----------------------------------------------------------------------------
(* /pin: one statement, which commits itself unless the connection is inside *)
(* a transaction.                                                            *)

WithPin(u, held) == IF <<"user", u>> \in held THEN held \cup {<<"pin", u>>} ELSE held

\* The update returns before it is on disk.
AlwaysInside(c) == TRUE
InTransaction(c) == c \in tx

Update(x) ==
  LET c == calls[x].conn
      u == calls[x].user
  IN
  /\ calls[x].pc = "update"
  /\ Writable(c)
  /\ IF InTransaction(c)
     THEN /\ Return(x, IF Writing(c) THEN lock[c] ELSE "reserved",
                    WithPin(u, Seen(c)), TRUE)
          /\ pinned' = pinned \cup {u}
          /\ inside' = IF c \in tx THEN inside \cup {u} ELSE inside
     ELSE /\ rows' = [rows EXCEPT ![c] = WithPin(u, disk)]
          /\ lock' = [lock EXCEPT ![c] = "reserved"]
          /\ GoOn(x, "flush")
          /\ UNCHANGED <<tx, pinned, inside>>
  /\ UNCHANGED <<disk, deleted>>

Flush(x) ==
  LET c == calls[x].conn IN
  /\ calls[x].pc = "flush"
  /\ Alone(c)
  /\ disk' = rows[c]
  /\ pinned' = pinned \cup {calls[x].user}
  /\ Return(x, "none", {}, FALSE)
  /\ UNCHANGED <<deleted, inside>>

-----------------------------------------------------------------------------
(* /delete-account: begin, delete, delete, commit in one Exec. *)

NeverNested(c) == TRUE

\* SQLite refuses a transaction within a transaction.
MayBegin(c) == c \notin tx

Begin(x) ==
  LET c == calls[x].conn IN
  /\ calls[x].pc = "begin"
  /\ IF MayBegin(c)
     THEN tx' = tx \cup {c} /\ GoOn(x, "users") /\ UNCHANGED <<rows, lock>>
     ELSE ReturnAsIs(x)
  /\ UNCHANGED <<disk, history>>

\* The second delete is missing.
CommitNext == "commit"

AfterUsers == "sessions"

DeleteFrom(x, here, next, kinds) ==
  LET c == calls[x].conn IN
  /\ calls[x].pc = here
  /\ Writable(c)
  /\ rows' = [rows EXCEPT ![c] = Seen(c) \ (kinds \X {calls[x].user})]
  /\ lock' = [lock EXCEPT ![c] = IF Writing(c) THEN @ ELSE "reserved"]
  /\ GoOn(x, next)
  /\ UNCHANGED <<disk, tx, history>>

DeleteUser(x) == DeleteFrom(x, "users", AfterUsers, {"user", "pin"})
DeleteSessions(x) == DeleteFrom(x, "sessions", "commit", {"session"})

Commit(x) ==
  LET c == calls[x].conn IN
  /\ calls[x].pc = "commit"
  /\ Alone(c)
  /\ disk' = rows[c]
  /\ deleted' = deleted \cup {calls[x].user}
  /\ Return(x, "none", {}, FALSE)
  /\ UNCHANGED <<pinned, inside>>

-----------------------------------------------------------------------------
(* SQLite: a writer that cannot commit yet keeps new readers out, and a call *)
(* that has waited too long fails.                                           *)

Await(x) ==
  LET c == calls[x].conn IN
  /\ calls[x].pc \in {"flush", "commit"}
  /\ lock[c] = "reserved" /\ ~Alone(c)
  /\ lock' = [lock EXCEPT ![c] = "pending"]
  /\ UNCHANGED <<disk, rows, tx, idle, calls, history>>

Blocked(x) ==
  LET c == calls[x].conn IN
  \/ calls[x].pc = "query" /\ ~Readable(c)
  \/ calls[x].pc \in {"update", "users", "sessions"} /\ ~Writable(c)
  \/ calls[x].pc \in {"flush", "commit"} /\ ~Alone(c)

\* Only writers give up.
ReaderWaits(x) == Blocked(x) /\ calls[x].pc # "query"

TimesOut(x) == Blocked(x)

\* The handlers answer 500, or panic over the missing rows; nobody rolls back.
Busy(x) ==
  /\ TimesOut(x)
  /\ IF calls[x].pc = "flush" THEN Return(x, "none", {}, FALSE) ELSE ReturnAsIs(x)
  /\ UNCHANGED <<disk, history>>

\* The process stops; the journal undoes what was not committed.
Restart ==
  /\ tx' = {}
  /\ lock' = [c \in Conns |-> "none"] /\ rows' = [c \in Conns |-> {}]
  /\ idle' = {} /\ calls' = [x \in Calls |-> NoCall]
  /\ UNCHANGED <<disk, history>>

-----------------------------------------------------------------------------

Step(x) ==
  \/ Query(x) \/ CloseRows(x)
  \/ Update(x) \/ Flush(x)
  \/ Begin(x) \/ DeleteUser(x) \/ DeleteSessions(x) \/ Commit(x)
  \/ Busy(x)

Next ==
  \/ \E x \in Calls :
       \/ Take(x, "query", None)
       \/ \E u \in Users : Take(x, "update", u) \/ Take(x, "begin", u)
       \/ Step(x) \/ Await(x)
  \/ Restart

Spec == Init /\ [][Next]_vars

\* Goroutines run, SQLite's wait is bounded (5 seconds), and a client that
\* reads pins.csv finishes or goes away.
FairSpec == Spec /\ \A x \in Calls : WF_vars(Step(x))

-----------------------------------------------------------------------------
(* Properties. *)

\* The last line says that a connection is idle or used by one call.
TypeOK ==
  /\ disk \subseteq Rows
  /\ rows \in [Conns -> SUBSET Rows]
  /\ tx \subseteq Conns
  /\ lock \in [Conns -> {"none", "shared", "reserved", "pending"}]
  /\ idle \subseteq Conns
  /\ calls \in [Calls -> Call]
  /\ deleted \subseteq Users /\ pinned \subseteq Users /\ inside \subseteq pinned
  /\ \A x, y \in Calls : calls[x].conn = calls[y].conn /\ x # y => calls[x].conn = None
  /\ Used \cap idle = {}

\* Inside a transaction, and not that of a call in progress.
Abandoned(c) ==
  /\ c \in tx
  /\ \A x \in Calls : calls[x].conn = c =>
       calls[x].pc \notin {"users", "sessions", "commit"}

\* /delete-account returns no error exactly when the account is gone for good,
\* although its transaction may be left open by a commit that was refused, be
\* met by other calls on the same connection, and be rolled back much later.
AnsweredAsDone == \A u \in Users : u \in deleted <=> <<"user", u>> \notin disk

\* Account and sessions are on disk together or not at all.
DeletedWhole == \A u \in Users : <<"user", u>> \in disk <=> <<"session", u>> \in disk

\* A pin that was set without error is on disk as long as its account is, unless
\* its update ran inside a transaction that somebody else had left open.
LostOnlyIfInside ==
  \A u \in pinned \ inside : <<"user", u>> \in disk => <<"pin", u>> \in disk

\* However slowly a client reads pins.csv, and whoever writes meanwhile, it gets the
\* rows of one instant, and those that are committed, unless its connection was
\* left inside somebody else's transaction.
ListedAtOnce ==
  [][\A x \in Calls :
       LET c == calls[x].conn IN
       calls[x].pc = "stream" =>
         /\ Seen(c) = disk \/ Abandoned(c)
         /\ calls'[x].pc = "stream" => Seen(c)' = Seen(c)]_vars

\* Every call returns, whoever holds the database: nobody waits in a circle.
CallsEnd == \A x \in Calls : calls[x].pc # "none" ~> calls[x].pc = "none"

-----------------------------------------------------------------------------
(* What these rest on. *)

\* What a call in progress has written with its connection is the disk's rows and
\* its own changes.
CallFits(x) ==
  LET c == calls[x].conn
      u == calls[x].user
      pc == calls[x].pc
  IN
  /\ pc = "none" <=> c = None
  /\ pc \notin {"none", "query", "stream"} => u \in Users
  /\ pc = "stream" => lock[c] # "none"
  /\ pc = "flush" => Writing(c) /\ c \notin tx /\ rows[c] = WithPin(u, disk)
  /\ pc \in {"users", "sessions", "commit"} => c \in tx
  /\ pc = "users" => ~Writing(c)
  /\ pc = "sessions" => Writing(c) /\ rows[c] = disk \ ({"user", "pin"} \X {u})
  /\ pc = "commit" => Writing(c) /\ rows[c] = disk \ RowsOf(u)

\* A closed connection holds nothing; an open one has a lock inside a transaction, or
\* to read for a client of pins.csv, or to set one pin.
ConnFits(c) ==
  /\ c \in Closed => lock[c] = "none" /\ c \notin tx
  /\ lock[c] = "shared" =>
       c \in tx \/ \E x \in Calls : calls[x].pc = "stream" /\ calls[x].conn = c
  /\ Writing(c) =>
       c \in tx \/ \E x \in Calls : calls[x].pc = "flush" /\ calls[x].conn = c

OneWriter == \A c, d \in Conns : Writing(c) /\ Writing(d) => c = d

Disciplined ==
  /\ \A x \in Calls : CallFits(x)
  /\ \A c \in Conns : ConnFits(c)
  /\ OneWriter

IInv == TypeOK /\ Disciplined /\ AnsweredAsDone /\ DeletedWhole /\ LostOnlyIfInside

\* The database does what SessionFlow takes for one step in one step.
Account == INSTANCE AccountRows WITH rows <- disk
ImplementsAccountRows == Account!Spec
=============================================================================
