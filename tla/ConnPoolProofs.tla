--------------------------- MODULE ConnPoolProofs ---------------------------
(***************************************************************************)
(* The safety of the pool's transactions, for any number of users, calls   *)
(* and connections, and that it implements AccountRows.                    *)
(***************************************************************************)
EXTENDS ConnPool, TLAPS

Locks == {"none", "shared", "reserved", "pending"}

\* What a step of one call changes least: the disk and what was answered.
Answers == AnsweredAsDone /\ DeletedWhole /\ LostOnlyIfInside

\* The variables of a call's own state and its connection's.
Frame ==
  /\ rows \in [Conns -> SUBSET Rows]
  /\ tx \subseteq Conns
  /\ lock \in [Conns -> Locks]
  /\ idle \subseteq Conns
  /\ calls \in [Calls -> Call]
  /\ \A x, y \in Calls : calls[x].conn = calls[y].conn /\ x # y => calls[x].conn = None
  /\ Used \cap idle = {}
  /\ Disciplined

Record ==
  /\ disk \subseteq Rows
  /\ deleted \subseteq Users /\ pinned \subseteq Users /\ inside \subseteq pinned
  /\ Answers

-----------------------------------------------------------------------------

\* The invariant in two parts, of which most steps leave the second alone.
LEMMA Parts == IInv <=> Frame /\ Record
BY DEF IInv, TypeOK, Frame, Record, Answers, Locks

\* The same of the next state.
LEMMA PartsNext == Frame' /\ Record' => IInv'
BY DEF IInv, TypeOK, Frame, Record, Answers, Locks

\* The second part depends on the disk and on what was answered alone.
LEMMA RecordKept ==
  ASSUME Record, UNCHANGED <<disk, history>>
  PROVE  Record'
BY DEF Record, Answers, history, AnsweredAsDone, DeletedWhole, LostOnlyIfInside

\* A call that has begun has a connection that is nobody else's.
LEMMA OwnConn ==
  ASSUME Frame, NEW x \in Calls, calls[x].pc # "none"
  PROVE  /\ calls[x].conn \in Conns
         /\ calls[x].conn \notin idle
         /\ \A y \in Calls : y # x => calls[y].conn # calls[x].conn
         /\ calls[x].conn \in Used
         /\ calls[x] \in Call
<1>1. calls[x] \in Call
  BY DEF Frame
<1>2. calls[x].conn # None
  BY DEF Frame, Disciplined, CallFits
<1>3. calls[x].conn \in Conns
  BY <1>1, <1>2 DEF Call
<1>4. calls[x].conn \in Used
  BY <1>2 DEF Used
<1>5. \A y \in Calls : y # x => calls[y].conn # calls[x].conn
  BY <1>2 DEF Frame
<1>6. QED
  BY <1>1, <1>3, <1>4, <1>5 DEF Frame

\* What holds of a call stays true while its connection is left alone.
LEMMA CallKept ==
  ASSUME NEW y \in Calls, CallFits(y), NEW d, d = calls[y].conn,
         calls'[y] = calls[y], rows'[d] = rows[d], d \in tx' <=> d \in tx,
         Writing(d)' <=> Writing(d), lock'[d] = "none" => lock[d] = "none", UNCHANGED disk
  PROVE  CallFits(y)'
<1>1. PICK u, pc : u = calls[y].user /\ pc = calls[y].pc
  OBVIOUS
<1>2. /\ calls'[y].conn = d /\ calls'[y].user = u /\ calls'[y].pc = pc
      /\ WithPin(u, disk)' = WithPin(u, disk)
  BY <1>1 DEF WithPin
<1>3. /\ pc = "none" <=> d = None
      /\ pc \notin {"none", "query", "stream"} => u \in Users
      /\ pc = "stream" => lock'[d] # "none"
      /\ pc = "flush" => Writing(d)' /\ d \notin tx' /\ rows'[d] = WithPin(u, disk)'
      /\ pc \in {"users", "sessions", "commit"} => d \in tx'
      /\ pc = "users" => ~Writing(d)'
      /\ pc = "sessions" => Writing(d)' /\ rows'[d] = disk' \ ({"user", "pin"} \X {u})
      /\ pc = "commit" => Writing(d)' /\ rows'[d] = disk' \ RowsOf(u)
  BY <1>1, <1>2 DEF CallFits
<1>4. QED
  BY <1>2, <1>3 DEF CallFits

\* A step of one call on its own connection: the others need only that it writes
\* alone, and that the disk changes when it alone has a lock.
LEMMA OneCall ==
  ASSUME Frame, NEW x \in Calls, NEW c \in Conns,
         calls[x].conn = c, c \notin idle,
         \A y \in Calls : y # x => calls[y].conn # c,
         NEW new \in Call, new.conn \in {c, None},
         NEW l \in Locks, NEW r \in SUBSET Rows,
         calls' = [calls EXCEPT ![x] = new],
         lock' = [lock EXCEPT ![c] = l],
         rows' = [rows EXCEPT ![c] = r],
         tx' \subseteq Conns, \A d \in Others(c) : d \in tx' <=> d \in tx,
         idle' = idle \/ (idle' = idle \cup {c} /\ new.conn = None),
         disk' = disk \/ Alone(c),
         CallFits(x)', ConnFits(c)',
         l \in {"reserved", "pending"} => \A d \in Others(c) : ~Writing(d)
  PROVE  Frame'
<1>1. /\ rows' \in [Conns -> SUBSET Rows]
      /\ lock' \in [Conns -> Locks]
      /\ calls' \in [Calls -> Call]
      /\ calls'[x] = new /\ lock'[c] = l
      /\ \A y \in Calls : y # x => calls'[y] = calls[y]
      /\ \A d \in Conns : d # c => lock'[d] = lock[d] /\ rows'[d] = rows[d]
      /\ c # None
  BY PoolAssumption DEF Frame
<1>2. \A y, z \in Calls : calls'[y].conn = calls'[z].conn /\ y # z => calls'[y].conn = None
  BY <1>1 DEF Frame
<1>3. \A d \in Conns : d # c => (d \in Used' <=> d \in Used)
  BY <1>1 DEF Used
<1>4. c \in Used' => new.conn = c
  BY <1>1 DEF Used
<1>5. (Used \cap idle = {})' /\ idle' \subseteq Conns
  <2>1. Used' \subseteq Conns
    BY <1>1 DEF Used, Call
  <2>2. \A d \in Used' : d \notin idle'
    BY <1>1, <1>3, <1>4, <2>1 DEF Frame
  <2>3. QED
    BY <2>2 DEF Frame
<1>6. \A d \in Conns : d # c =>
        /\ Writing(d)' <=> Writing(d)
        /\ d \in Closed' => d \in Closed
        /\ d \in tx' <=> d \in tx
  BY <1>1, <1>3 DEF Writing, Closed, Others
<1>7. OneWriter'
  <2>1. Writing(c)' => l \in {"reserved", "pending"}
    BY <1>1 DEF Writing
  <2>2. \A d, e \in Conns : d # c /\ e # c /\ Writing(d)' /\ Writing(e)' => d = e
    BY <1>6 DEF Frame, Disciplined, OneWriter
  <2>3. QED
    BY <1>6, <2>1, <2>2 DEF OneWriter, Others
<1>8. ASSUME NEW d \in Conns
      PROVE  ConnFits(d)'
  <2>1. CASE d = c
    BY <2>1
  <2>2. CASE d # c
    <3>1. ConnFits(d)
      BY DEF Frame, Disciplined
    <3>2. d \in Closed' => lock'[d] = "none" /\ d \notin tx'
      BY <1>1, <1>6, <2>2, <3>1 DEF ConnFits
    <3>3. ASSUME NEW y \in Calls, calls[y].conn = d
          PROVE  calls'[y] = calls[y]
      BY <1>1, <2>2, <3>3
    <3>4. lock'[d] = "shared" =>
            d \in tx' \/ \E y \in Calls : calls'[y].pc = "stream" /\ calls'[y].conn = d
      BY <1>1, <1>6, <2>2, <3>1, <3>3 DEF ConnFits
    <3>5. Writing(d)' =>
            d \in tx' \/ \E y \in Calls : calls'[y].pc = "flush" /\ calls'[y].conn = d
      BY <1>6, <2>2, <3>1, <3>3 DEF ConnFits
    <3>6. QED
      BY <3>2, <3>4, <3>5 DEF ConnFits
  <2>3. QED
    BY <2>1, <2>2
<1>9. ASSUME NEW y \in Calls
      PROVE  CallFits(y)'
  <2>1. CASE y = x
    BY <2>1
  <2>2. CASE y # x
    <3>0. PICK d : d = calls[y].conn
      OBVIOUS
    <3>1. CallFits(y) /\ calls'[y] = calls[y]
      BY <1>1, <2>2 DEF Frame, Disciplined
    <3>2. CASE d = None
      <4>1. calls[y].pc = "none"
        BY <3>0, <3>1, <3>2 DEF CallFits
      <4>2. QED
        BY <3>0, <3>1, <3>2, <4>1 DEF CallFits
    <3>3. CASE d # None
      <4>1. d \in Conns /\ d # c
        BY <2>2, <3>0, <3>3 DEF Frame, Call
      <4>2. lock'[d] = lock[d] /\ rows'[d] = rows[d] /\ (d \in tx' <=> d \in tx)
            /\ (Writing(d)' <=> Writing(d))
        BY <1>1, <1>6, <4>1
      <4>3. CASE Writing(d)
        <5>1. disk' = disk
          BY <4>1, <4>3 DEF Writing, Alone, Others
        <5>2. QED
          BY <3>0, <3>1, <4>2, <5>1, CallKept
      <4>4. CASE ~Writing(d)
        <5>1. calls[y].pc \notin {"flush", "sessions", "commit"}
          BY <3>0, <3>1, <4>4 DEF CallFits
        <5>2. QED
          BY <3>0, <3>1, <4>2, <4>4, <5>1 DEF CallFits
      <4>5. QED
        BY <4>3, <4>4
    <3>4. QED
      BY <3>2, <3>3
  <2>3. QED
    BY <2>1, <2>2
<1>10. QED
  BY <1>1, <1>2, <1>5, <1>7, <1>8, <1>9 DEF Frame, Disciplined

-----------------------------------------------------------------------------

\* A call that returns leaves a lock only in an open transaction.
LEMMA ReturnFrame ==
  ASSUME Frame, NEW x \in Calls, calls[x].pc # "none",
         NEW held \in Locks, NEW written \in SUBSET Rows,
         NEW open \in BOOLEAN, Return(x, held, written, open),
         held # "none" => open /\ calls[x].conn \in tx,
         held \in {"reserved", "pending"} =>
           \A d \in Others(calls[x].conn) : ~Writing(d),
         disk' = disk \/ Alone(calls[x].conn)
  PROVE  Frame'
<1>1. PICK c \in Conns : c = calls[x].conn
  BY OwnConn
<1>2. /\ c \notin idle /\ \A y \in Calls : y # x => calls[y].conn # c
      /\ c # None
  BY <1>1, OwnConn, PoolAssumption
<1>3. NoCall \in Call /\ NoCall.pc = "none" /\ NoCall.conn = None
  BY DEF NoCall, Call, Steps
<1>4. PICK l \in Locks, r \in SUBSET Rows :
        /\ lock' = [lock EXCEPT ![c] = l] /\ rows' = [rows EXCEPT ![c] = r]
        /\ l = IF Cardinality(idle) < MaxIdle THEN held ELSE "none"
  <2>1. held \in Locks /\ "none" \in Locks /\ {} \in SUBSET Rows
    BY DEF Locks
  <2>2. CASE Cardinality(idle) < MaxIdle
    BY <1>1, <2>1, <2>2 DEF Return
  <2>3. CASE ~(Cardinality(idle) < MaxIdle)
    BY <1>1, <2>1, <2>3 DEF Return
  <2>4. QED
    BY <2>2, <2>3
<1>5. /\ calls' = [calls EXCEPT ![x] = NoCall]
      /\ tx' \subseteq Conns /\ \A d \in Others(c) : d \in tx' <=> d \in tx
      /\ idle' = idle \/ idle' = idle \cup {c}
  BY <1>1 DEF Return, Others, Frame
<1>6. calls'[x] = NoCall /\ lock'[c] = l
  BY <1>4, <1>5 DEF Frame
<1>7. CallFits(x)'
  BY <1>3, <1>6 DEF CallFits
<1>8. l # "none" => c \in tx' /\ held = l
  BY <1>1, <1>4 DEF Return
<1>9. c \in Closed' => l = "none" /\ c \notin tx'
  BY <1>1, <1>4 DEF Return, Closed
<1>10. ConnFits(c)'
  BY <1>6, <1>8, <1>9 DEF ConnFits, Writing
<1>11. QED
  <2>1. l \in {"reserved", "pending"} => \A d \in Others(c) : ~Writing(d)
    BY <1>1, <1>8
  <2>2. NoCall.conn \in {c, None} /\ (disk' = disk \/ Alone(c))
    BY <1>1, <1>3
  <2>3. idle' = idle \/ (idle' = idle \cup {c} /\ NoCall.conn = None)
    BY <1>3, <1>5
  <2>4. QED
    BY <1>1, <1>2, <1>3, <1>4, <1>5, <1>7, <1>10, <2>1, <2>2, <2>3, OneCall

\* A call that returns and leaves nothing.
LEMMA ReturnEmpty ==
  ASSUME Frame, NEW x \in Calls, calls[x].pc # "none", Return(x, "none", {}, FALSE),
         disk' = disk \/ Alone(calls[x].conn)
  PROVE  Frame'
<1>1. "none" \in Locks /\ "none" \notin {"reserved", "pending"}
  BY DEF Locks
<1>2. {} \in SUBSET Rows /\ FALSE \in BOOLEAN
  OBVIOUS
<1>3. QED
  BY <1>1, <1>2, ReturnFrame

\* One call that goes on keeps its connection.
LEMMA GoOnFrame ==
  ASSUME Frame, NEW x \in Calls, calls[x].pc # "none",
         NEW next \in Steps \ {"none"}, NEW l \in Locks, NEW r \in SUBSET Rows,
         NEW c \in Conns, c = calls[x].conn,
         calls[x].user \in Users \/ next = "stream",
         GoOn(x, next),
         lock' = [lock EXCEPT ![c] = l], rows' = [rows EXCEPT ![c] = r],
         tx' \subseteq Conns, \A d \in Others(c) : d \in tx' <=> d \in tx,
         UNCHANGED disk,
         l = "shared" => c \in tx' \/ next = "stream",
         next = "stream" => l # "none",
         l \in {"reserved", "pending"} =>
           /\ \A d \in Others(c) : ~Writing(d)
           /\ c \in tx' \/ next = "flush",
         next = "flush" =>
           l \in {"reserved", "pending"} /\ c \notin tx'
             /\ r = WithPin(calls[x].user, disk),
         next \in {"users", "sessions", "commit"} => c \in tx',
         next = "users" => l \notin {"reserved", "pending"},
         next = "sessions" => l \in {"reserved", "pending"}
             /\ r = disk \ ({"user", "pin"} \X {calls[x].user}),
         next = "commit" => l \in {"reserved", "pending"}
             /\ r = disk \ RowsOf(calls[x].user)
  PROVE  Frame'
<1>1. /\ c \notin idle /\ \A y \in Calls : y # x => calls[y].conn # c
      /\ c # None /\ calls[x] \in Call
  BY OwnConn, PoolAssumption
<1>2. PICK new : new = [calls[x] EXCEPT !.pc = next]
  OBVIOUS
<1>3. /\ new \in Call /\ new.conn = c /\ new.pc = next /\ new.user = calls[x].user
      /\ calls' = [calls EXCEPT ![x] = new]
  BY <1>1, <1>2 DEF Call, GoOn
<1>4. calls'[x] = new /\ lock'[c] = l /\ rows'[c] = r /\ idle' = idle
  BY <1>3 DEF Frame, GoOn
<1>5. CallFits(x)'
  <2>1. PICK u : u = calls[x].user
    OBVIOUS
  <2>2. /\ calls'[x].conn = c /\ calls'[x].user = u /\ calls'[x].pc = next
        /\ WithPin(u, disk)' = WithPin(u, disk)
        /\ Writing(c)' <=> l \in {"reserved", "pending"}
    BY <1>3, <1>4, <2>1 DEF WithPin, Writing
  <2>3. /\ next # "none" /\ c # None
        /\ next \notin {"none", "query", "stream"} => u \in Users
        /\ next = "stream" => lock'[c] # "none"
        /\ next = "flush" => Writing(c)' /\ c \notin tx' /\ rows'[c] = WithPin(u, disk)'
        /\ next \in {"users", "sessions", "commit"} => c \in tx'
        /\ next = "users" => ~Writing(c)'
        /\ next = "sessions" => Writing(c)' /\ rows'[c] = disk' \ ({"user", "pin"} \X {u})
        /\ next = "commit" => Writing(c)' /\ rows'[c] = disk' \ RowsOf(u)
    BY <1>1, <1>4, <2>1, <2>2
  <2>4. QED
    BY <2>2, <2>3 DEF CallFits
<1>6. ConnFits(c)'
  <2>1. c \notin Closed'
    BY <1>3, <1>4, <1>1 DEF Closed, Used
  <2>2. QED
    BY <1>3, <1>4, <2>1 DEF ConnFits, Writing
<1>7. QED
  <2>1. new.conn \in {c, None} /\ (idle' = idle \/ (idle' = idle \cup {c} /\ new.conn = None))
    BY <1>3, <1>4
  <2>2. l \in {"reserved", "pending"} => \A d \in Others(c) : ~Writing(d)
    OBVIOUS
  <2>3. QED
    BY <1>1, <1>3, <1>5, <1>6, <2>1, <2>2, OneCall

-----------------------------------------------------------------------------
(* Each action.  What it knows of its call and its connection first. *)

\* The connection of a call, what the call knows of it, and what it may do there.
LEMMA Known ==
  ASSUME Frame, NEW x \in Calls, calls[x].pc # "none"
  PROVE  \E c \in Conns :
           /\ c = calls[x].conn /\ CallFits(x) /\ ConnFits(c)
           /\ lock \in [Conns -> Locks] /\ lock[c] \in Locks
           /\ rows \in [Conns -> SUBSET Rows] /\ rows[c] \in SUBSET Rows
           /\ tx \subseteq Conns
           /\ calls[x].pc \notin {"query", "stream"} => calls[x].user \in Users
           /\ lock[c] = "shared" => c \in tx \/ calls[x].pc = "stream"
           /\ calls[x].pc = "stream" => lock[c] # "none"
           /\ Writing(c) => \A d \in Others(c) : ~Writing(d)
           /\ Writable(c) => \A d \in Others(c) : ~Writing(d)
           /\ Alone(c) => \A d \in Others(c) : ~Writing(d)
           /\ Writing(c) => c \in tx \/ calls[x].pc = "flush"
<1>1. calls[x].conn \in Conns /\ \A y \in Calls : y # x => calls[y].conn # calls[x].conn
  BY OwnConn
<1>2. PICK c \in Conns : c = calls[x].conn
  BY <1>1
<1>3. /\ CallFits(x) /\ ConnFits(c) /\ OneWriter
      /\ lock \in [Conns -> Locks] /\ rows \in [Conns -> SUBSET Rows] /\ tx \subseteq Conns
  BY DEF Frame, Disciplined
<1>4. lock[c] \in Locks /\ rows[c] \in SUBSET Rows
  BY <1>3
<1>5. calls[x].pc \notin {"query", "stream"} => calls[x].user \in Users
  BY <1>3 DEF CallFits
<1>6. /\ lock[c] = "shared" => c \in tx \/ calls[x].pc = "stream"
      /\ calls[x].pc = "stream" => lock[c] # "none"
      /\ Writing(c) => c \in tx \/ calls[x].pc = "flush"
  BY <1>1, <1>2, <1>3 DEF ConnFits, CallFits
<1>7. /\ Writing(c) => \A d \in Others(c) : ~Writing(d)
      /\ Writable(c) => \A d \in Others(c) : ~Writing(d)
      /\ Alone(c) => \A d \in Others(c) : ~Writing(d)
  BY <1>3 DEF OneWriter, Writable, Alone, Writing, Others
<1>8. QED
  BY <1>2, <1>3, <1>4, <1>5, <1>6, <1>7

\* Initially no connection is open.
LEMMA InitIInv == Init => IInv
<1> SUFFICES ASSUME Init PROVE IInv
  OBVIOUS
<1>1. NoCall \in Call /\ NoCall.pc = "none" /\ NoCall.conn = None
  BY DEF NoCall, Call, Steps
<1>2. Used = {}
  BY <1>1 DEF Init, Used
<1>3. Disciplined
  BY <1>1 DEF Init, Disciplined, CallFits, ConnFits, OneWriter, Writing
<1>4. Frame
  BY <1>1, <1>2, <1>3 DEF Init, Frame, Locks
<1>5. Record
  BY DEF Init, Record, Answers, Rows, Kinds, AnsweredAsDone, DeletedWhole, LostOnlyIfInside
<1>6. QED
  BY <1>4, <1>5, Parts

\* A call takes an idle connection, or opens one.
LEMMA TakeIInv ==
  ASSUME IInv, NEW x \in Calls, NEW first \in {"query", "update", "begin"},
         NEW u \in Users \cup {None}, first # "query" => u \in Users, Take(x, first, u)
  PROVE  IInv'
<1>1. Frame /\ Record
  BY Parts
<1>2. PICK c \in Conns :
        /\ c \in idle \/ c \in Closed
        /\ calls' = [calls EXCEPT ![x] = [pc |-> first, user |-> u, conn |-> c]]
        /\ idle' = idle \ {c}
  BY <1>1 DEF Take, Frame, Closed
<1>3. calls[x].pc = "none" /\ UNCHANGED <<disk, rows, tx, lock, deleted, pinned, inside>>
  BY DEF Take, connState, history
<1>4. PICK new \in Call : new = [pc |-> first, user |-> u, conn |-> c]
  BY DEF Call, Steps
<1>5. /\ calls' \in [Calls -> Call] /\ calls'[x] = new
      /\ new.conn = c /\ new.pc = first /\ new.user = u
      /\ \A y \in Calls : y # x => calls'[y] = calls[y]
      /\ c # None
  BY <1>1, <1>2, <1>4, PoolAssumption DEF Frame
<1>6. calls[x].conn = None /\ c \notin Used
  BY <1>1, <1>2, <1>3 DEF Frame, Disciplined, CallFits, Closed
<1>7. Used' = Used \cup {c}
  BY <1>5, <1>6 DEF Used
<1>8. \A y \in Calls : y # x => calls[y].conn # c
  BY <1>5, <1>6 DEF Used
<1>9. /\ \A d \in Conns : Writing(d)' <=> Writing(d)
      /\ \A y \in Calls, d \in Conns : calls[y].conn = d /\ calls[y].pc # "none" =>
           calls'[y] = calls[y]
  BY <1>3, <1>5 DEF Writing
<1>10. ASSUME NEW d \in Conns
       PROVE  ConnFits(d)'
  <2>1. ConnFits(d) /\ (d \in Closed' => d \in Closed)
    BY <1>1, <1>2, <1>7 DEF Frame, Disciplined, Closed
  <2>2. QED
    BY <1>3, <1>9, <2>1 DEF ConnFits
<1>11. ASSUME NEW y \in Calls
       PROVE  CallFits(y)'
  <2>1. CASE y = x
    BY <1>5, <2>1 DEF CallFits
  <2>2. CASE y # x
    <3>1. CallFits(y) /\ calls'[y] = calls[y]
      BY <1>1, <1>5, <2>2 DEF Frame, Disciplined
    <3>2. QED
      BY <1>3, <3>1 DEF CallFits, Writing, WithPin, RowsOf, Kinds
  <2>3. QED
    BY <2>1, <2>2
<1>12. OneWriter'
  BY <1>1, <1>9 DEF Frame, Disciplined, OneWriter
<1>13. \A y, z \in Calls : calls'[y].conn = calls'[z].conn /\ y # z => calls'[y].conn = None
  BY <1>1, <1>5, <1>8 DEF Frame
<1>14. Frame'
  BY <1>1, <1>2, <1>3, <1>5, <1>7, <1>10, <1>11, <1>12, <1>13 DEF Frame, Disciplined
<1>15. QED
  BY <1>1, <1>3, <1>14, RecordKept, PartsNext DEF history

\* A reader takes a shared lock, unless its connection already has one.
LEMMA QueryIInv ==
  ASSUME IInv, NEW x \in Calls, Query(x)
  PROVE  IInv'
<1>1. Frame /\ Record /\ calls[x].pc = "query"
  BY Parts DEF Query
<1>2. PICK c \in Conns :
        /\ c = calls[x].conn /\ CallFits(x)
        /\ lock \in [Conns -> Locks] /\ lock[c] \in Locks
        /\ rows \in [Conns -> SUBSET Rows] /\ rows[c] \in SUBSET Rows
        /\ tx \subseteq Conns
        /\ Writing(c) => \A d \in Others(c) : ~Writing(d)
        /\ lock[c] = "shared" => c \in tx \/ calls[x].pc = "stream"
        /\ Writing(c) => c \in tx \/ calls[x].pc = "flush"
  BY <1>1, Known
<1>3. PICK l \in Locks :
        /\ lock' = [lock EXCEPT ![c] = l]
        /\ l = IF lock[c] = "none" THEN "shared" ELSE lock[c]
  BY <1>2 DEF Query, ReadLock, Locks
<1>4. /\ GoOn(x, "stream") /\ UNCHANGED <<disk, rows, tx, history>>
      /\ rows' = [rows EXCEPT ![c] = rows[c]]
  BY <1>2 DEF Query
<1>5. "stream" \in Steps \ {"none"}
  BY DEF Steps
<1>6. l \in {"reserved", "pending"} <=> Writing(c)
  BY <1>3 DEF Writing
<1>7. Frame'
  BY <1>1, <1>2, <1>3, <1>4, <1>5, <1>6, GoOnFrame
<1>8. QED
  BY <1>1, <1>4, <1>7, RecordKept, PartsNext

\* A call that returns and leaves its connection as it found it.
LEMMA ReturnAsIsFrame ==
  ASSUME Frame, NEW x \in Calls, calls[x].pc \notin {"none", "stream", "flush"},
         ReturnAsIs(x), UNCHANGED disk
  PROVE  Frame'
<1>1. PICK c \in Conns :
        /\ c = calls[x].conn
        /\ lock[c] \in Locks /\ rows[c] \in SUBSET Rows
        /\ lock[c] = "shared" => c \in tx \/ calls[x].pc = "stream"
        /\ Writing(c) => \A d \in Others(c) : ~Writing(d)
        /\ Writing(c) => c \in tx \/ calls[x].pc = "flush"
  BY Known
<1>2. /\ lock[c] # "none" => c \in tx
      /\ lock[c] \in {"reserved", "pending"} => Writing(c)
  BY <1>1 DEF Locks, Writing
<1>3. Return(x, lock[c], rows[c], TRUE)
  BY <1>1 DEF ReturnAsIs
<1>4. QED
  BY <1>1, <1>2, <1>3, ReturnFrame

\* The rows are closed: what is left is the lock of an open transaction, or none.
LEMMA CloseRowsIInv ==
  ASSUME IInv, NEW x \in Calls, CloseRows(x)
  PROVE  IInv'
<1>1. Frame /\ Record /\ calls[x].pc = "stream" /\ UNCHANGED <<disk, history>>
  BY Parts DEF CloseRows
<1>2. PICK c \in Conns :
        /\ c = calls[x].conn
        /\ lock[c] \in Locks /\ rows[c] \in SUBSET Rows
        /\ Writing(c) => \A d \in Others(c) : ~Writing(d)
  BY <1>1, Known
<1>3. /\ AfterRows(c) \in Locks
      /\ AfterRows(c) # "none" => c \in tx
      /\ AfterRows(c) \in {"reserved", "pending"} => Writing(c)
  BY <1>2 DEF AfterRows, Writing, Locks
<1>4. Return(x, AfterRows(c), rows[c], TRUE)
  BY <1>2 DEF CloseRows
<1>5. Frame'
  BY <1>1, <1>2, <1>3, <1>4, ReturnFrame
<1>6. QED
  BY <1>1, <1>5, RecordKept, PartsNext

\* A pin is set in an open transaction, which answers as if it were on disk, or is
\* about to be flushed.
LEMMA UpdateIInv ==
  ASSUME IInv, NEW x \in Calls, Update(x)
  PROVE  IInv'
<1>1. Frame /\ Record /\ calls[x].pc = "update" /\ UNCHANGED <<disk, deleted>>
  BY Parts DEF Update
<1>2. PICK c \in Conns :
        /\ c = calls[x].conn /\ calls[x].user \in Users
        /\ lock \in [Conns -> Locks] /\ lock[c] \in Locks
        /\ rows \in [Conns -> SUBSET Rows] /\ rows[c] \in SUBSET Rows
        /\ tx \subseteq Conns
        /\ Writable(c) => \A d \in Others(c) : ~Writing(d)
        /\ Writing(c) => c \in tx \/ calls[x].pc = "flush"
  BY <1>1, Known
<1>3. PICK u \in Users : u = calls[x].user
  BY <1>2
<1>4. \A d \in Others(c) : ~Writing(d)
  BY <1>2 DEF Update
<1>5. /\ \A held \in SUBSET Rows : WithPin(u, held) \in SUBSET Rows
      /\ Seen(c) \in SUBSET Rows /\ disk \in SUBSET Rows
  BY <1>1, <1>2 DEF WithPin, Rows, Kinds, Seen, Record
<1>6. CASE c \in tx
  <2>1. PICK held \in Locks : held = IF Writing(c) THEN lock[c] ELSE "reserved"
    BY DEF Writing, Locks
  <2>2. Return(x, held, WithPin(u, Seen(c)), TRUE)
    BY <1>2, <1>3, <1>6, <2>1 DEF Update, InTransaction
  <2>3. pinned' = pinned \cup {u} /\ inside' = inside \cup {u}
    BY <1>2, <1>3, <1>6 DEF Update, InTransaction
  <2>4. Frame'
    BY <1>1, <1>2, <1>4, <1>5, <1>6, <2>2, ReturnFrame
  <2>5. Record'
    BY <1>1, <2>3 DEF Record, Answers, AnsweredAsDone, DeletedWhole, LostOnlyIfInside
  <2>6. QED
    BY <2>4, <2>5, PartsNext
<1>7. CASE c \notin tx
  <2>1. /\ rows' = [rows EXCEPT ![c] = WithPin(u, disk)]
        /\ lock' = [lock EXCEPT ![c] = "reserved"]
        /\ GoOn(x, "flush") /\ UNCHANGED <<tx, pinned, inside>>
    BY <1>2, <1>3, <1>7 DEF Update, InTransaction
  <2>2. "flush" \in Steps \ {"none"} /\ "reserved" \in Locks
    BY DEF Steps, Locks
  <2>3. Frame'
    BY <1>1, <1>2, <1>3, <1>4, <1>5, <1>7, <2>1, <2>2, GoOnFrame
  <2>4. QED
    BY <1>1, <2>1, <2>3, RecordKept, PartsNext DEF history
<1>8. QED
  BY <1>6, <1>7

\* The pin is on disk when the handler is told so.
LEMMA FlushIInv ==
  ASSUME IInv, NEW x \in Calls, Flush(x)
  PROVE  IInv'
<1>1. Frame /\ Record /\ calls[x].pc = "flush" /\ UNCHANGED <<deleted, inside>>
  BY Parts DEF Flush
<1>2. PICK c \in Conns : c = calls[x].conn /\ CallFits(x) /\ calls[x].user \in Users
  BY <1>1, Known
<1>3. PICK u \in Users : u = calls[x].user
  BY <1>2
<1>4. /\ Alone(c) /\ disk' = WithPin(u, disk) /\ pinned' = pinned \cup {u}
      /\ Return(x, "none", {}, FALSE)
  BY <1>1, <1>2, <1>3 DEF Flush, CallFits
<1>5. Frame'
  BY <1>1, <1>2, <1>4, ReturnEmpty
<1>6. Record'
  <2>1. \/ disk' = disk
        \/ disk' = disk \cup {<<"pin", u>>} /\ <<"user", u>> \in disk
    BY <1>4 DEF WithPin
  <2>2. disk' \subseteq Rows
    BY <1>1, <2>1 DEF Record, Rows, Kinds
  <2>3. \A v \in Users :
          /\ <<"user", v>> \in disk' <=> <<"user", v>> \in disk
          /\ <<"session", v>> \in disk' <=> <<"session", v>> \in disk
          /\ <<"pin", v>> \in disk => <<"pin", v>> \in disk'
    BY <2>1
  <2>4. <<"user", u>> \in disk' => <<"pin", u>> \in disk'
    BY <1>4, <2>3 DEF WithPin
  <2>5. AnsweredAsDone' /\ DeletedWhole'
    BY <1>1, <2>3 DEF Record, Answers, AnsweredAsDone, DeletedWhole
  <2>6. LostOnlyIfInside'
    BY <1>1, <1>4, <2>3, <2>4 DEF Record, Answers, LostOnlyIfInside
  <2>7. QED
    BY <1>1, <1>3, <1>4, <2>2, <2>5, <2>6 DEF Record, Answers
<1>7. QED
  BY <1>5, <1>6, PartsNext

\* A transaction begins, unless the connection is already inside one.
LEMMA BeginIInv ==
  ASSUME IInv, NEW x \in Calls, Begin(x)
  PROVE  IInv'
<1>1. Frame /\ Record /\ calls[x].pc = "begin" /\ UNCHANGED <<disk, history>>
  BY Parts DEF Begin
<1>2. PICK c \in Conns :
        /\ c = calls[x].conn /\ calls[x].user \in Users
        /\ lock \in [Conns -> Locks] /\ lock[c] \in Locks
        /\ rows \in [Conns -> SUBSET Rows] /\ rows[c] \in SUBSET Rows
        /\ tx \subseteq Conns
        /\ lock[c] = "shared" => c \in tx \/ calls[x].pc = "stream"
        /\ Writing(c) => c \in tx \/ calls[x].pc = "flush"
  BY <1>1, Known
<1>3. CASE c \notin tx
  <2>1. tx' = tx \cup {c} /\ GoOn(x, "users") /\ UNCHANGED <<rows, lock>>
    BY <1>2, <1>3 DEF Begin, MayBegin
  <2>2. lock[c] = "none"
    BY <1>1, <1>2, <1>3 DEF Writing, Locks
  <2>3. /\ "users" \in Steps \ {"none"}
        /\ lock' = [lock EXCEPT ![c] = "none"] /\ rows' = [rows EXCEPT ![c] = rows[c]]
        /\ tx' \subseteq Conns /\ \A d \in Others(c) : d \in tx' <=> d \in tx
        /\ c \in tx' /\ "none" \in Locks
    BY <1>2, <2>1, <2>2 DEF Steps, Others, Locks
  <2>4. Frame'
    BY <1>1, <1>2, <2>1, <2>3, GoOnFrame
  <2>5. QED
    BY <1>1, <2>4, RecordKept, PartsNext
<1>4. CASE c \in tx
  <2>1. ReturnAsIs(x)
    BY <1>2, <1>4 DEF Begin, MayBegin
  <2>2. Frame'
    BY <1>1, <2>1, ReturnAsIsFrame
  <2>3. QED
    BY <1>1, <2>2, RecordKept, PartsNext
<1>5. QED
  BY <1>3, <1>4

\* One of the two deletes.
LEMMA DeleteFromIInv ==
  ASSUME IInv, NEW x \in Calls,
         NEW here \in {"users", "sessions"}, NEW next \in {"sessions", "commit"},
         NEW kinds \in SUBSET Kinds,
         here = "users" => next = "sessions" /\ kinds = {"user", "pin"},
         here = "sessions" => next = "commit" /\ kinds = {"session"},
         DeleteFrom(x, here, next, kinds)
  PROVE  IInv'
<1>1. Frame /\ Record /\ calls[x].pc = here /\ UNCHANGED <<disk, tx, history>>
      /\ GoOn(x, next)
  BY Parts DEF DeleteFrom
<1>2. PICK c \in Conns :
        /\ c = calls[x].conn /\ CallFits(x) /\ calls[x].user \in Users
        /\ lock \in [Conns -> Locks] /\ lock[c] \in Locks
        /\ rows \in [Conns -> SUBSET Rows] /\ rows[c] \in SUBSET Rows
        /\ tx \subseteq Conns
        /\ Writable(c) => \A d \in Others(c) : ~Writing(d)
  BY <1>1, Known
<1>3. PICK u \in Users : u = calls[x].user
  BY <1>2
<1>4. /\ \A d \in Others(c) : ~Writing(d)
      /\ c \in tx
  BY <1>1, <1>2 DEF DeleteFrom, CallFits
<1>5. PICK r : r = Seen(c) \ (kinds \X {u})
  OBVIOUS
<1>6. /\ rows' = [rows EXCEPT ![c] = r] /\ r \in SUBSET Rows
      /\ here = "users" => r = disk \ ({"user", "pin"} \X {u})
      /\ here = "sessions" => r = disk \ RowsOf(u)
  <2>1. rows' = [rows EXCEPT ![c] = r]
    BY <1>2, <1>3, <1>5 DEF DeleteFrom
  <2>2. Seen(c) \in SUBSET Rows
    BY <1>1, <1>2 DEF Seen, Record
  <2>3. here = "users" => Seen(c) = disk
    BY <1>1, <1>2 DEF CallFits, Seen
  <2>4. here = "sessions" => Seen(c) = disk \ ({"user", "pin"} \X {u})
    BY <1>1, <1>2, <1>3 DEF CallFits, Seen
  <2>5. (disk \ ({"user", "pin"} \X {u})) \ ({"session"} \X {u}) = disk \ RowsOf(u)
    BY DEF RowsOf, Kinds
  <2>6. QED
    BY <1>5, <2>1, <2>2, <2>3, <2>4, <2>5
<1>7. PICK l \in {"reserved", "pending"} : lock' = [lock EXCEPT ![c] = l]
  <2>1. CASE Writing(c)
    BY <1>2, <2>1 DEF DeleteFrom, Writing
  <2>2. CASE ~Writing(c)
    BY <1>2, <2>2 DEF DeleteFrom
  <2>3. QED
    BY <2>1, <2>2
<1>8. /\ next \in Steps \ {"none"} /\ l \in Locks
      /\ \A d \in Others(c) : d \in tx' <=> d \in tx
      /\ tx' \subseteq Conns /\ c \in tx'
  BY <1>1, <1>2, <1>4 DEF Steps, Locks
<1>9. /\ next = "sessions" => r = disk \ ({"user", "pin"} \X {u})
      /\ next = "commit" => r = disk \ RowsOf(u)
  BY <1>6
<1>10. Frame'
  BY <1>1, <1>2, <1>3, <1>4, <1>6, <1>7, <1>8, <1>9, GoOnFrame
<1>11. QED
  BY <1>1, <1>10, RecordKept, PartsNext

\* The account, its pin and its sessions leave the disk together.
LEMMA CommitIInv ==
  ASSUME IInv, NEW x \in Calls, Commit(x)
  PROVE  IInv'
<1>1. Frame /\ Record /\ calls[x].pc = "commit" /\ UNCHANGED <<pinned, inside>>
  BY Parts DEF Commit
<1>2. PICK c \in Conns : c = calls[x].conn /\ CallFits(x) /\ calls[x].user \in Users
  BY <1>1, Known
<1>3. PICK u \in Users : u = calls[x].user
  BY <1>2
<1>4. /\ Alone(c) /\ disk' = disk \ RowsOf(u) /\ deleted' = deleted \cup {u}
      /\ Return(x, "none", {}, FALSE)
  BY <1>1, <1>2, <1>3 DEF Commit, CallFits
<1>5. Frame'
  BY <1>1, <1>2, <1>4, ReturnEmpty
<1>6. Record'
  <2>1. \A v \in Users, kind \in Kinds :
          <<kind, v>> \in disk' <=> v # u /\ <<kind, v>> \in disk
    BY <1>4 DEF RowsOf
  <2>2. \A v \in Users :
          /\ <<"user", v>> \in disk' <=> v # u /\ <<"user", v>> \in disk
          /\ <<"session", v>> \in disk' <=> v # u /\ <<"session", v>> \in disk
          /\ <<"pin", v>> \in disk' <=> v # u /\ <<"pin", v>> \in disk
    BY <2>1 DEF Kinds
  <2>3. QED
    BY <1>1, <1>3, <1>4, <2>2
    DEF Record, Answers, AnsweredAsDone, DeletedWhole, LostOnlyIfInside
<1>7. QED
  BY <1>5, <1>6, PartsNext

\* Who waits to commit keeps what it has written.
LEMMA AwaitIInv ==
  ASSUME IInv, NEW x \in Calls, Await(x)
  PROVE  IInv'
<1>1. /\ Frame /\ Record /\ calls[x].pc \in {"flush", "commit"}
      /\ UNCHANGED <<disk, rows, tx, idle, calls, history>>
  BY Parts DEF Await
<1>2. PICK c \in Conns :
        /\ c = calls[x].conn /\ CallFits(x) /\ ConnFits(c)
        /\ lock \in [Conns -> Locks] /\ lock[c] \in Locks
        /\ rows \in [Conns -> SUBSET Rows] /\ rows[c] \in SUBSET Rows
        /\ tx \subseteq Conns
        /\ Writing(c) => \A d \in Others(c) : ~Writing(d)
        /\ Writing(c) => c \in tx \/ calls[x].pc = "flush"
  BY <1>1, Known
<1>3. lock[c] = "reserved" /\ lock' = [lock EXCEPT ![c] = "pending"]
  BY <1>2 DEF Await
<1>4. /\ Writing(c) /\ Writing(c)' /\ lock'[c] = "pending" /\ "pending" \in Locks
      /\ calls' = [calls EXCEPT ![x] = calls[x]] /\ calls[x] \in Call
      /\ rows' = [rows EXCEPT ![c] = rows[c]]
      /\ calls[x].conn \in {c, None}
  BY <1>1, <1>2, <1>3 DEF Writing, Locks, Frame
<1>5. CallFits(x)'
  BY <1>1, <1>2, <1>4, CallKept
<1>6. ConnFits(c)'
  <2>1. c \notin Closed'
    BY <1>1, <1>2, PoolAssumption DEF Closed, Used
  <2>2. lock'[c] # "shared"
    BY <1>4
  <2>3. c \in tx' \/ \E y \in Calls : calls'[y].pc = "flush" /\ calls'[y].conn = c
    BY <1>1, <1>2, <1>4
  <2>4. QED
    BY <2>1, <2>2, <2>3 DEF ConnFits
<1>7. c \notin idle /\ \A y \in Calls : y # x => calls[y].conn # c
  BY <1>1, <1>2, OwnConn
<1>8. Frame'
  BY <1>1, <1>2, <1>3, <1>4, <1>5, <1>6, <1>7, OneCall
<1>9. QED
  BY <1>1, <1>8, RecordKept, PartsNext

\* A call gives up: a single statement is undone, a transaction stays open.
LEMMA BusyIInv ==
  ASSUME IInv, NEW x \in Calls, Busy(x)
  PROVE  IInv'
<1>1. /\ Frame /\ Record /\ UNCHANGED <<disk, history>>
      /\ calls[x].pc \in {"query", "update", "users", "sessions", "flush", "commit"}
  BY Parts DEF Busy, TimesOut, Blocked
<1>2. CASE calls[x].pc = "flush"
  <2>1. Return(x, "none", {}, FALSE)
    BY <1>2 DEF Busy
  <2>2. Frame'
    BY <1>1, <1>2, <2>1, ReturnEmpty
  <2>3. QED
    BY <1>1, <2>2, RecordKept, PartsNext
<1>3. CASE calls[x].pc # "flush"
  <2>1. ReturnAsIs(x)
    BY <1>3 DEF Busy
  <2>2. Frame'
    BY <1>1, <1>3, <2>1, ReturnAsIsFrame
  <2>3. QED
    BY <1>1, <2>2, RecordKept, PartsNext
<1>4. QED
  BY <1>2, <1>3

\* After a restart no connection is open.
LEMMA RestartIInv ==
  ASSUME IInv, Restart
  PROVE  IInv'
<1>1. Frame /\ Record /\ UNCHANGED <<disk, history>>
  BY Parts DEF Restart
<1>2. NoCall \in Call /\ NoCall.pc = "none" /\ NoCall.conn = None
  BY DEF NoCall, Call, Steps
<1>3. /\ tx' = {} /\ idle' = {} /\ calls' = [x \in Calls |-> NoCall]
      /\ lock' = [c \in Conns |-> "none"] /\ rows' = [c \in Conns |-> {}]
  BY DEF Restart
<1>4. Used' = {}
  BY <1>2, <1>3 DEF Used
<1>5. Disciplined'
  BY <1>2, <1>3 DEF Disciplined, CallFits, ConnFits, OneWriter, Writing
<1>6. Frame'
  BY <1>2, <1>3, <1>4, <1>5 DEF Frame, Locks
<1>7. QED
  BY <1>1, <1>6, RecordKept, PartsNext

-----------------------------------------------------------------------------

\* IInv is inductive.
LEMMA IInvStep == IInv /\ [Next]_vars => IInv'
<1> SUFFICES ASSUME IInv, [Next]_vars PROVE IInv'
  OBVIOUS
<1>1. CASE UNCHANGED vars
  <2>1. /\ UNCHANGED <<disk, rows, tx, lock, idle, calls>>
        /\ UNCHANGED <<deleted, pinned, inside>>
    BY <1>1 DEF vars, connState, history
  <2>2. Frame'
    <3>1. \A c : Writing(c)' <=> Writing(c)
      BY <2>1 DEF Writing
    <3>2. \A x \in Calls : CallFits(x)'
      BY <2>1, <3>1, Parts, CallKept DEF Frame, Disciplined
    <3>3. \A c \in Conns : ConnFits(c)'
      BY <2>1, <3>1, Parts DEF Frame, Disciplined, ConnFits, Closed, Used
    <3>4. OneWriter'
      BY <3>1, Parts DEF Frame, Disciplined, OneWriter
    <3>5. QED
      BY <2>1, <3>2, <3>3, <3>4, Parts DEF Frame, Disciplined, Used
  <2>3. QED
    BY <2>1, <2>2, Parts, RecordKept, PartsNext DEF history
<1>2. ASSUME NEW x \in Calls, Take(x, "query", None)
      PROVE  IInv'
  BY <1>2, TakeIInv
<1>3. ASSUME NEW x \in Calls, NEW u \in Users, Take(x, "update", u) \/ Take(x, "begin", u)
      PROVE  IInv'
  BY <1>3, TakeIInv
<1>4. ASSUME NEW x \in Calls, DeleteUser(x) \/ DeleteSessions(x)
      PROVE  IInv'
  <2>1. {"user", "pin"} \in SUBSET Kinds /\ {"session"} \in SUBSET Kinds
    BY DEF Kinds
  <2>2. CASE DeleteUser(x)
    <3>1. DeleteFrom(x, "users", "sessions", {"user", "pin"})
      BY <2>2 DEF DeleteUser, AfterUsers
    <3>2. QED
      BY <2>1, <3>1, DeleteFromIInv
  <2>3. CASE DeleteSessions(x)
    <3>1. DeleteFrom(x, "sessions", "commit", {"session"})
      BY <2>3 DEF DeleteSessions
    <3>2. QED
      BY <2>1, <3>1, DeleteFromIInv
  <2>4. QED
    BY <1>4, <2>2, <2>3
<1>5. ASSUME NEW x \in Calls, Step(x) \/ Await(x)
      PROVE  IInv'
  BY <1>4, <1>5, QueryIInv, CloseRowsIInv, UpdateIInv, FlushIInv, BeginIInv, CommitIInv,
     BusyIInv, AwaitIInv DEF Step
<1>6. QED
  BY <1>1, <1>2, <1>3, <1>5, RestartIInv DEF Next

\* A step of a call does nothing to the lock and the rows of another's connection, and
\* the disk changes only when nobody else has a lock.
LEMMA StepApart ==
  ASSUME Frame, NEW y \in Calls, NEW c \in Conns, c # calls[y].conn, lock[c] # "none",
         calls[y].pc # "none", Step(y) \/ Await(y)
  PROVE  lock'[c] = lock[c] /\ rows'[c] = rows[c] /\ disk' = disk
<1>1. PICK d \in Conns : d = calls[y].conn /\ d # c
  BY OwnConn
<1>2. \A held, written, open : Return(y, held, written, open) =>
        lock'[c] = lock[c] /\ rows'[c] = rows[c]
  BY <1>1 DEF Return, Frame
<1>3. ~Alone(d)
  BY <1>1 DEF Alone, Others
<1>4. CASE Query(y)
  BY <1>1, <1>4 DEF Query, Frame
<1>5. CASE CloseRows(y)
  BY <1>2, <1>5 DEF CloseRows
<1>6. CASE Update(y)
  BY <1>1, <1>2, <1>6 DEF Update, Frame
<1>7. CASE Flush(y) \/ Commit(y)
  BY <1>1, <1>3, <1>7 DEF Flush, Commit
<1>8. CASE Begin(y)
  BY <1>1, <1>2, <1>8 DEF Begin, ReturnAsIs
<1>9. CASE DeleteUser(y) \/ DeleteSessions(y)
  BY <1>1, <1>9 DEF DeleteUser, DeleteSessions, DeleteFrom, Frame
<1>10. CASE Busy(y)
  BY <1>2, <1>10 DEF Busy, ReturnAsIs
<1>11. CASE Await(y)
  BY <1>1, <1>11 DEF Await, Frame
<1>12. QED
  BY <1>4, <1>5, <1>6, <1>7, <1>8, <1>9, <1>10, <1>11 DEF Step

\* What a client of pins.csv reads from stays as it is while it reads.
LEMMA StreamKept ==
  ASSUME Frame, NEW x \in Calls, NEW c \in Conns, c = calls[x].conn, lock[c] # "none",
         calls[x].pc = "stream", calls'[x].pc = "stream", Next,
         \A y \in Calls : y # x => calls[y].conn # c
  PROVE  Seen(c)' = Seen(c) /\ calls'[x].conn = c
<1>1. SUFFICES /\ lock'[c] = lock[c] /\ rows'[c] = rows[c] /\ disk' = disk
               /\ calls'[x].conn = c
  BY DEF Seen, Writing
<1>2. ~Restart
  BY DEF Restart, NoCall
<1>3. ASSUME NEW y \in Calls, NEW first, NEW u, Take(y, first, u)
      PROVE  lock' = lock /\ rows' = rows /\ disk' = disk /\ calls'[x].conn = c
  BY <1>3 DEF Take, connState, Frame
<1>4. ASSUME NEW y \in Calls, y # x, Step(y) \/ Await(y)
      PROVE  /\ lock'[c] = lock[c] /\ rows'[c] = rows[c] /\ disk' = disk
               /\ calls'[x].conn = c
  <2>1. calls[y].pc # "none"
    BY <1>4 DEF Step, Await, Query, CloseRows, Update, Flush, Begin, DeleteUser,
       DeleteSessions, DeleteFrom, Commit, Busy, TimesOut, Blocked
  <2>2. calls'[x] = calls[x]
    BY <1>4 DEF Step, Await, Query, CloseRows, Update, Flush, Begin, DeleteUser,
       DeleteSessions, DeleteFrom, Commit, Busy, TimesOut, Return, ReturnAsIs, GoOn, Frame
  <2>3. QED
    BY <1>4, <2>1, <2>2, StepApart
<1>5. ~(Step(x) \/ Await(x))
  <2>1. ~CloseRows(x)
    BY DEF CloseRows, Return, NoCall, Frame
  <2>2. QED
    BY <2>1 DEF Step, Await, Query, Update, Flush, Begin, DeleteUser,
       DeleteSessions, DeleteFrom, Commit, Busy, TimesOut, Blocked
<1>6. QED
  BY <1>2, <1>3, <1>4, <1>5 DEF Next

\* Whatever is refused, left open or met by others: what was answered is so, and an
\* account goes whole.
THEOREM PoolInvariance == Spec => []IInv
  BY InitIInv, IInvStep, PTL DEF Spec

\* Between the lines that a client of pins.csv reads, nobody changes what it is read
\* from: not the disk, which would take every lock, and not the connection's own rows.
THEOREM ListedWhole == Spec => ListedAtOnce
<1> DEFINE Listed(x) ==
      LET c == calls[x].conn IN
      calls[x].pc = "stream" =>
        /\ Seen(c) = disk \/ Abandoned(c)
        /\ calls'[x].pc = "stream" => Seen(c)' = Seen(c)
<1>1. IInv /\ [Next]_vars => \A x \in Calls : Listed(x)
  <2> SUFFICES ASSUME IInv, [Next]_vars, NEW x \in Calls, calls[x].pc = "stream"
               PROVE  Listed(x)
    OBVIOUS
  <2>1. Frame
    BY Parts
  <2>2. PICK c \in Conns :
          /\ c = calls[x].conn /\ lock[c] \in Locks /\ lock[c] # "none"
          /\ lock[c] = "shared" => c \in tx \/ calls[x].pc = "stream"
          /\ Writing(c) => c \in tx \/ calls[x].pc = "flush"
    BY <2>1, Known
  <2>3. \A y \in Calls : y # x => calls[y].conn # c
    BY <2>1, <2>2, OwnConn
  <2>4. Seen(c) = disk \/ Abandoned(c)
    BY <2>2, <2>3 DEF Seen, Abandoned
  <2>5. ASSUME calls'[x].pc = "stream"
        PROVE  Seen(c)' = Seen(c) /\ calls'[x].conn = c
    <3>1. CASE UNCHANGED vars
      BY <2>2, <3>1 DEF vars, connState, Seen, Writing
    <3>2. CASE Next
      BY <2>1, <2>2, <2>3, <2>5, <3>2, StreamKept
    <3>3. QED
      BY <3>1, <3>2
  <2>6. QED
    BY <2>2, <2>4, <2>5 DEF Listed
<1>2. QED
  BY PoolInvariance, <1>1, PTL DEF Spec, ListedAtOnce

\* What the handlers take for one step of the database is one step, through locks that
\* are refused, transactions left open and restarts.
THEOREM PoolRefinement == Spec => ImplementsAccountRows
<1>1. Init => Account!Init
  BY DEF Init, Account!Init
<1>2. IInv /\ [Next]_vars => [Account!Next]_disk
  <2> SUFFICES ASSUME IInv, Next PROVE disk' = disk \/ Account!Next
    BY DEF vars
  <2>1. Frame
    BY Parts
  <2>2. ASSUME NEW x \in Calls, Flush(x)
        PROVE  disk' = disk \/ Account!Next
    <3>1. calls[x].pc = "flush"
      BY <2>2 DEF Flush
    <3>2. PICK c \in Conns : c = calls[x].conn /\ CallFits(x) /\ calls[x].user \in Users
      BY <2>1, <3>1, Known
    <3>3. PICK u \in Users : u = calls[x].user
      BY <3>2
    <3>4. disk' = WithPin(u, disk)
      BY <2>2, <3>1, <3>2, <3>3 DEF Flush, CallFits
    <3>5. QED
      BY <3>4 DEF WithPin, Account!Next, Account!SetPin
  <2>3. ASSUME NEW x \in Calls, Commit(x)
        PROVE  Account!Next
    <3>1. calls[x].pc = "commit"
      BY <2>3 DEF Commit
    <3>2. PICK c \in Conns : c = calls[x].conn /\ CallFits(x) /\ calls[x].user \in Users
      BY <2>1, <3>1, Known
    <3>3. disk' = disk \ RowsOf(calls[x].user)
      BY <2>3, <3>1, <3>2 DEF Commit, CallFits
    <3>4. QED
      BY <3>2, <3>3 DEF RowsOf, Kinds, Account!Next, Account!DeleteAccount, Account!RowsOf,
         Account!Kinds
  <2>4. ASSUME NEW x \in Calls, Query(x) \/ CloseRows(x) \/ Update(x) \/ Begin(x)
               \/ DeleteUser(x) \/ DeleteSessions(x) \/ Busy(x) \/ Await(x)
        PROVE  disk' = disk
    BY <2>4 DEF Query, CloseRows, Update, Begin, DeleteUser, DeleteSessions, DeleteFrom,
       Busy, Await
  <2>5. ASSUME NEW x \in Calls, NEW first, NEW u, Take(x, first, u)
        PROVE  disk' = disk
    BY <2>5 DEF Take
  <2>6. Restart => disk' = disk
    BY DEF Restart
  <2>7. QED
    BY <2>2, <2>3, <2>4, <2>5, <2>6 DEF Next, Step
<1>3. QED
  BY PoolInvariance, <1>1, <1>2, PTL DEF Spec, ImplementsAccountRows, Account!Spec
=============================================================================
