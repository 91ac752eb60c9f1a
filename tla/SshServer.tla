------------------------------ MODULE SshServer ------------------------------
(***************************************************************************)
(* The SSH side: one goroutine per TCP connection does the handshake, then *)
(* serves the connection's channels one after the other, and answers the   *)
(* first shell request of each session channel with a sign-in link.        *)
(*                                                                         *)
(* The ssh package (external) runs one more goroutine per connection, the  *)
(* mux: it hands each packet to the Go channel of new channels or to the   *)
(* channel's own Go channel of requests, both with room for Backlog items, *)
(* and while one is full it reads nothing more.                            *)
(*                                                                         *)
(* What the server prints on a channel waits for the client's window, its  *)
(* leave to send; writes to the TCP connection itself are taken not to     *)
(* wait.                                                                   *)
(***************************************************************************)
EXTENDS Naturals, Sequences, FiniteSets

CONSTANTS
  Conns,         \* connections
  Channels,      \* channels a client opens on a connection
  Keys,          \* public keys a client offers
  OversizeKeys,  \* those storeSigninRequest refuses
  None,          \* no key, channel or packet
  Backlog,       \* room in a Go channel of the ssh package
  MaxReqs        \* bound on the requests a client sends on a channel

ASSUME SshAssumption ==
  /\ OversizeKeys \subseteq Keys
  /\ Backlog \in Nat \ {0} /\ MaxReqs \in Nat
  /\ None \notin Keys \cup Channels

VARIABLES
  pc,      \* where the goroutine of each connection is
  tried,   \* the key acceptAnyKey was last called with
  perm,    \* Permissions.Extensions["pubkey"] of the connection
  wire,    \* the packet the mux is handling
  eof,     \* the mux has seen the connection end
  queue,   \* new channels waiting for the goroutine
  cur,     \* the channel whose requests the goroutine reads
  chans,   \* the channels of each connection
  proven,  \* history: the key whose signature the client gave
  issued   \* history: links printed

vars == <<pc, tried, perm, wire, eof, queue, cur, chans, proven, issued>>

ReqTypes == {"shell", "other"}

Packet == [type : {"session", "forwarding", "window", "close"}, ch : Channels]
          \cup [type : ReqTypes, ch : Channels]
          \cup [type : {"bye"}, ch : {None}]

Channel == [state : {"new", "opening", "pending", "open", "closed", "rejected"},
            session : BOOLEAN,
            reqs : Seq(ReqTypes),   \* not yet read by the goroutine
            asked : BOOLEAN,        \* a shell request was read and not yet answered
            room : BOOLEAN,         \* the client's window has room for the answer
            ended : BOOLEAN,        \* no further request will come
            sent : 0..MaxReqs,      \* requests the client has sent
            answers : Nat]          \* links and apologies printed

NewChannel == [state |-> "new", session |-> FALSE, reqs |-> <<>>,
               asked |-> FALSE, room |-> FALSE, ended |-> FALSE, sent |-> 0, answers |-> 0]

Init ==
  /\ pc = [c \in Conns |-> "none"]
  /\ tried = [c \in Conns |-> None]
  /\ perm = [c \in Conns |-> None]
  /\ wire = [c \in Conns |-> None]
  /\ eof = [c \in Conns |-> FALSE]
  /\ queue = [c \in Conns |-> <<>>]
  /\ cur = [c \in Conns |-> None]
  /\ chans = [c \in Conns |-> [h \in Channels |-> NewChannel]]
  /\ proven = [c \in Conns |-> None]
  /\ issued = {}

-----------------------------------------------------------------------------
(* Accept and handshake. *)

Connect(c) ==
  /\ pc[c] = "none"
  /\ pc' = [pc EXCEPT ![c] = "handshake"]
  /\ UNCHANGED <<tried, perm, wire, eof, queue, cur, chans, proven, issued>>

\* The client asks whether a key would do: acceptAnyKey says yes.
Offer(c, key) ==
  /\ pc[c] = "handshake"
  /\ tried' = [tried EXCEPT ![c] = key]
  /\ UNCHANGED <<pc, perm, wire, eof, queue, cur, chans, proven, issued>>

\* The permissions of the first key acceptAnyKey saw.
LastTried(c, key) == IF tried[c] = None THEN key ELSE tried[c]

\* The permissions acceptAnyKey returned for the key that signed; it may have
\* been called with other keys since.
PermittedKey(c, key) == key

Authenticate(c, key) ==
  /\ pc[c] = "handshake"
  /\ perm' = [perm EXCEPT ![c] = PermittedKey(c, key)]
  /\ proven' = [proven EXCEPT ![c] = key]
  /\ pc' = [pc EXCEPT ![c] = "channels"]
  /\ UNCHANGED <<tried, wire, eof, queue, cur, chans, issued>>

HandshakeFails(c) ==
  /\ pc[c] = "handshake"
  /\ pc' = [pc EXCEPT ![c] = "done"]
  /\ UNCHANGED <<tried, perm, wire, eof, queue, cur, chans, proven, issued>>

-----------------------------------------------------------------------------
(* The client sends a packet; the mux delivers it when there is room. *)

Send(c, packet) ==
  /\ pc[c] \in {"channels", "requests"}
  /\ wire[c] = None
  /\ ~eof[c]
  /\ wire' = [wire EXCEPT ![c] = packet]
  /\ UNCHANGED <<pc, tried, perm, eof, queue, cur, proven, issued>>

\* A client may open a channel without a window.
OpenChannel(c, h, type, room) ==
  /\ chans[c][h].state = "new"
  /\ Send(c, [type |-> type, ch |-> h])
  /\ chans' = [chans EXCEPT ![c][h].state = "opening",
                            ![c][h].session = (type = "session"),
                            ![c][h].room = room]

SendRequest(c, h, type) ==
  /\ chans[c][h].state \in {"open", "closed"}
  /\ ~chans[c][h].ended
  /\ chans[c][h].sent < MaxReqs
  /\ Send(c, [type |-> type, ch |-> h])
  /\ chans' = [chans EXCEPT ![c][h].sent = @ + 1]

AdjustWindow(c, h) ==
  /\ chans[c][h].state \in {"open", "closed"}
  /\ ~chans[c][h].ended /\ ~chans[c][h].room
  /\ Send(c, [type |-> "window", ch |-> h])
  /\ UNCHANGED chans

CloseChannel(c, h) ==
  /\ chans[c][h].state \in {"open", "closed"}
  /\ ~chans[c][h].ended
  /\ Send(c, [type |-> "close", ch |-> h])
  /\ UNCHANGED chans

Disconnect(c) == Send(c, [type |-> "bye", ch |-> None]) /\ UNCHANGED chans

Handling(c, types) == wire[c] # None /\ wire[c].type \in types

DeliverOpen(c) ==
  /\ Handling(c, {"session", "forwarding"})
  /\ Len(queue[c]) < Backlog
  /\ queue' = [queue EXCEPT ![c] = Append(@, wire[c].ch)]
  /\ chans' = [chans EXCEPT ![c][wire[c].ch].state = "pending"]
  /\ wire' = [wire EXCEPT ![c] = None]
  /\ UNCHANGED <<pc, tried, perm, eof, cur, proven, issued>>

DeliverRequest(c) ==
  /\ Handling(c, ReqTypes)
  /\ Len(chans[c][wire[c].ch].reqs) < Backlog
  /\ chans' = [chans EXCEPT ![c][wire[c].ch].reqs = Append(@, wire[c].type)]
  /\ wire' = [wire EXCEPT ![c] = None]
  /\ UNCHANGED <<pc, tried, perm, eof, queue, cur, proven, issued>>

DeliverWindow(c) ==
  /\ Handling(c, {"window"})
  /\ chans' = [chans EXCEPT ![c][wire[c].ch].room = TRUE]
  /\ wire' = [wire EXCEPT ![c] = None]
  /\ UNCHANGED <<pc, tried, perm, eof, queue, cur, proven, issued>>

DeliverClose(c) ==
  /\ Handling(c, {"close"})
  /\ chans' = [chans EXCEPT ![c][wire[c].ch].ended = TRUE]
  /\ wire' = [wire EXCEPT ![c] = None]
  /\ UNCHANGED <<pc, tried, perm, eof, queue, cur, proven, issued>>

\* The mux returns: it closes the Go channels, whose contents can still be read.
DeliverBye(c) ==
  /\ Handling(c, {"bye"})
  /\ eof' = [eof EXCEPT ![c] = TRUE]
  /\ chans' = [chans EXCEPT ![c] =
       [h \in Channels |-> [chans[c][h] EXCEPT !.ended = TRUE]]]
  /\ wire' = [wire EXCEPT ![c] = None]
  /\ UNCHANGED <<pc, tried, perm, queue, cur, proven, issued>>

Mux(c) ==
  \/ DeliverOpen(c)
  \/ DeliverRequest(c)
  \/ DeliverWindow(c)
  \/ DeliverClose(c)
  \/ DeliverBye(c)

-----------------------------------------------------------------------------
(* The goroutine: for ch := range channels. *)

RejectChannel(c) ==
  /\ pc[c] = "channels" /\ queue[c] # <<>>
  /\ ~chans[c][Head(queue[c])].session
  /\ chans' = [chans EXCEPT ![c][Head(queue[c])].state = "rejected"]
  /\ queue' = [queue EXCEPT ![c] = Tail(@)]
  /\ UNCHANGED <<pc, tried, perm, wire, eof, cur, proven, issued>>

AcceptChannel(c) ==
  /\ pc[c] = "channels" /\ queue[c] # <<>>
  /\ chans[c][Head(queue[c])].session
  /\ chans' = [chans EXCEPT ![c][Head(queue[c])].state = "open"]
  /\ cur' = [cur EXCEPT ![c] = Head(queue[c])]
  /\ queue' = [queue EXCEPT ![c] = Tail(@)]
  /\ pc' = [pc EXCEPT ![c] = "requests"]
  /\ UNCHANGED <<tried, perm, wire, eof, proven, issued>>

\* Accept writes to the connection, and cannot when it is gone.
AcceptFails(c) ==
  /\ pc[c] = "channels" /\ queue[c] # <<>>
  /\ chans[c][Head(queue[c])].session
  /\ eof[c] \/ Handling(c, {"bye"})
  /\ chans' = [chans EXCEPT ![c][Head(queue[c])].state = "closed"]
  /\ queue' = [queue EXCEPT ![c] = Tail(@)]
  /\ UNCHANGED <<pc, tried, perm, wire, eof, cur, proven, issued>>

(* for req := range requests *)

\* The first request that is not shell ends the channel.
GiveUp == "closed"

\* Requests other than shell (pty-req and env come first) are turned down, and
\* the loop goes on.
AfterOther == "open"

\* The loop goes on after the answer.
NoBreak == "open"

\* break, then channel.Close()
AfterShell == "closed"

\* The break is taken after any request, and nothing closes the channel.
BreakAlways(c, state) ==
  /\ pc' = [pc EXCEPT ![c] = "channels"]
  /\ cur' = [cur EXCEPT ![c] = None]

\* Leave the loop over the requests when the channel is closed.
GoOn(c, state) ==
  /\ pc' = [pc EXCEPT ![c] = IF state = "closed" THEN "channels" ELSE "requests"]
  /\ cur' = [cur EXCEPT ![c] = IF state = "closed" THEN None ELSE @]

NextRequest(c, type) ==
  /\ pc[c] = "requests" /\ ~chans[c][cur[c]].asked
  /\ chans[c][cur[c]].reqs # <<>>
  /\ Head(chans[c][cur[c]].reqs) = type

ReadOther(c) ==
  /\ NextRequest(c, "other")
  /\ chans' = [chans EXCEPT ![c][cur[c]].reqs = Tail(@),
                            ![c][cur[c]].state = AfterOther]
  /\ GoOn(c, AfterOther)
  /\ UNCHANGED <<tried, perm, wire, eof, queue, proven, issued>>

\* hd(pubkey) stores a signin request, or fails.
ReadShell(c) ==
  /\ NextRequest(c, "shell")
  /\ chans' = [chans EXCEPT ![c][cur[c]].reqs = Tail(@),
                            ![c][cur[c]].asked = TRUE]
  /\ UNCHANGED <<pc, cur, tried, perm, wire, eof, queue, proven, issued>>

Answering(c) == pc[c] = "requests" /\ chans[c][cur[c]].asked

\* The link is printed, or, when hd failed (it always does for an oversize key),
\* an apology is.
Answer(c) ==
  /\ Answering(c)
  /\ chans[c][cur[c]].room /\ ~chans[c][cur[c]].ended
  /\ chans' = [chans EXCEPT ![c][cur[c]].asked = FALSE,
                            ![c][cur[c]].answers = @ + 1,
                            ![c][cur[c]].state = AfterShell]
  /\ \/ /\ perm[c] \notin OversizeKeys
        /\ issued' = issued \cup [conn : {c}, ch : {cur[c]}, key : {perm[c]}]
     \/ UNCHANGED issued
  /\ GoOn(c, AfterShell)
  /\ UNCHANGED <<tried, perm, wire, eof, queue, proven>>

\* The client has closed the channel or gone; nobody looks at Fprintln's error.
AnswerFails(c) ==
  /\ Answering(c)
  /\ chans[c][cur[c]].ended
  /\ chans' = [chans EXCEPT ![c][cur[c]].asked = FALSE,
                            ![c][cur[c]].state = AfterShell]
  /\ GoOn(c, AfterShell)
  /\ UNCHANGED <<tried, perm, wire, eof, queue, proven, issued>>

\* The end of the requests goes unnoticed.
Endless(channel) == FALSE

RequestsOver(channel) == channel.ended /\ channel.reqs = <<>>

CloseEnded(c) ==
  /\ pc[c] = "requests" /\ ~chans[c][cur[c]].asked
  /\ RequestsOver(chans[c][cur[c]])
  /\ chans' = [chans EXCEPT ![c][cur[c]].state = "closed"]
  /\ GoOn(c, "closed")
  /\ UNCHANGED <<tried, perm, wire, eof, queue, proven, issued>>

\* The deferred Close of the connection.
Return(c) ==
  /\ pc[c] = "channels"
  /\ eof[c] /\ queue[c] = <<>>
  /\ pc' = [pc EXCEPT ![c] = "done"]
  /\ UNCHANGED <<tried, perm, wire, eof, queue, cur, chans, proven, issued>>

Goroutine(c) ==
  \/ RejectChannel(c)
  \/ AcceptChannel(c)
  \/ AcceptFails(c)
  \/ ReadOther(c)
  \/ ReadShell(c)
  \/ Answer(c)
  \/ AnswerFails(c)
  \/ CloseEnded(c)
  \/ Return(c)

Client(c) ==
  \/ Connect(c)
  \/ \E key \in Keys : Offer(c, key) \/ Authenticate(c, key)
  \/ HandshakeFails(c)
  \/ \E h \in Channels :
       \/ \E type \in {"session", "forwarding"}, room \in BOOLEAN :
            OpenChannel(c, h, type, room)
       \/ \E type \in ReqTypes : SendRequest(c, h, type)
       \/ AdjustWindow(c, h)
       \/ CloseChannel(c, h)
  \/ Disconnect(c)

Next == \E c \in Conns : Client(c) \/ Mux(c) \/ Goroutine(c)

Spec == Init /\ [][Next]_vars

\* Goroutines are scheduled; nothing obliges the client.
FairSpec == Spec /\ \A c \in Conns : WF_vars(Mux(c)) /\ WF_vars(Goroutine(c))

-----------------------------------------------------------------------------
(* Properties. *)

\* The last line: the goroutine reads one open channel at a time.
TypeOK ==
  /\ pc \in [Conns -> {"none", "handshake", "channels", "requests", "done"}]
  /\ tried \in [Conns -> Keys \cup {None}]
  /\ perm \in [Conns -> Keys \cup {None}]
  /\ wire \in [Conns -> Packet \cup {None}]
  /\ eof \in [Conns -> BOOLEAN]
  /\ queue \in [Conns -> Seq(Channels)]
  /\ cur \in [Conns -> Channels \cup {None}]
  /\ chans \in [Conns -> [Channels -> Channel]]
  /\ proven \in [Conns -> Keys \cup {None}]
  /\ issued \subseteq [conn : Conns, ch : Channels, key : Keys]
  /\ \A c \in Conns, h \in Channels :
       chans[c][h].state = "open" <=> pc[c] = "requests" /\ cur[c] = h

\* A client may ask about many keys before it signs with one: each link is for
\* the key that signed, and no link is for a key too large to store.
LinkKeyProven ==
  \A i \in issued : i.key = proven[i.conn] /\ i.key \notin OversizeKeys

\* However many requests a client sends on a channel, it gets one answer, and
\* only on a session channel.
OneAnswerPerChannel ==
  \A c \in Conns, h \in Channels :
    LET channel == chans[c][h] IN
    channel.answers <= IF channel.session THEN 1 ELSE 0

ShellSent(c, h) ==
  \/ \E i \in DOMAIN chans[c][h].reqs : chans[c][h].reqs[i] = "shell"
  \/ wire[c] = [type |-> "shell", ch |-> h]

\* A shell request on the channel being served, whose client leaves room for the
\* answer, is answered whatever requests the client sends before and after it,
\* unless it closes the channel or goes away first.
ShellAnswered ==
  \A c \in Conns, h \in Channels :
    cur[c] = h /\ ShellSent(c, h) /\ chans[c][h].room
      ~> chans[c][h].answers > 0 \/ chans[c][h].ended

\* Nobody reads the requests that follow the shell request, nor the channels
\* behind the one being served; the client sends no more of either than the ssh
\* package has room for.
WithinBacklog ==
  MaxReqs <= Backlog + 1 /\ Cardinality(Channels) <= Backlog + 1

\* When such a client goes away the goroutine returns, though the client never made
\* room for what it is about to print.
HandlerReturns ==
  WithinBacklog => \A c \in Conns : Handling(c, {"bye"}) ~> pc[c] = "done"

\* README.md, lines 14-15: the link is printed "and the server closes the
\* connection".
ServerCloses ==
  \A c \in Conns : (\E i \in issued : i.conn = c) ~> pc[c] = "done"
=============================================================================
