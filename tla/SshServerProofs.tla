--------------------------- MODULE SshServerProofs ---------------------------
(***************************************************************************)
(* The safety of the SSH server, for any number of connections, channels,  *)
(* keys and requests.                                                      *)
(***************************************************************************)
EXTENDS SshServer, TLAPS

Phase == {"none", "handshake", "channels", "requests", "done"}

\* Nothing is printed before the goroutine reads the channel, and once it is the
\* channel is done with.
ChanFits(chan) ==
  /\ chan.state \in {"new", "opening", "pending", "open"} => chan.answers = 0
  /\ chan.state = "open" => chan.session
  /\ chan.answers <= IF chan.session THEN 1 ELSE 0

\* What belongs together in one connection: its phase, keys, packet, queue, current
\* channel and channels.
Fits(phase, permitted, signed, packet, waiting, current, hs) ==
  /\ permitted = signed
  /\ phase \in {"channels", "requests"} => permitted \in Keys
  /\ phase = "requests" => current \in Channels
  /\ \A h \in Channels : hs[h].state = "open" <=> phase = "requests" /\ current = h
  /\ \A h \in Channels : ChanFits(hs[h])
  /\ packet # None /\ packet.type \in {"session", "forwarding"} =>
       hs[packet.ch].state = "opening"
  /\ \A i \in 1..Len(waiting) : hs[waiting[i]].state = "pending"
  /\ \A i, j \in 1..Len(waiting) : waiting[i] = waiting[j] => i = j

ConnsFit ==
  \A c \in Conns :
    Fits(pc[c], perm[c], proven[c], wire[c], queue[c], cur[c], chans[c])

\* No link is printed before the client has signed.
LinksLate == \A i \in issued : pc[i.conn] \notin {"none", "handshake"}

IInv == TypeOK /\ ConnsFit /\ LinkKeyProven /\ LinksLate

\* TypeOK without its last line, which is part of ConnsFit.
Typed ==
  /\ pc \in [Conns -> Phase]
  /\ tried \in [Conns -> Keys \cup {None}]
  /\ perm \in [Conns -> Keys \cup {None}]
  /\ wire \in [Conns -> Packet \cup {None}]
  /\ eof \in [Conns -> BOOLEAN]
  /\ queue \in [Conns -> Seq(Channels)]
  /\ cur \in [Conns -> Channels \cup {None}]
  /\ chans \in [Conns -> [Channels -> Channel]]
  /\ proven \in [Conns -> Keys \cup {None}]

\* A step leaves the other connections alone.
Apart(c) ==
  \A d \in Conns \ {c} :
    /\ pc'[d] = pc[d] /\ perm'[d] = perm[d] /\ proven'[d] = proven[d]
    /\ wire'[d] = wire[d] /\ queue'[d] = queue[d] /\ cur'[d] = cur[d]
    /\ chans'[d] = chans[d]

-----------------------------------------------------------------------------

\* One connection takes a step.
LEMMA ConnStep ==
  ASSUME IInv, NEW c \in Conns, Typed', Apart(c),
         Fits(pc'[c], perm'[c], proven'[c], wire'[c], queue'[c], cur'[c], chans'[c]),
         issued \subseteq issued',
         \A i \in issued' \ issued :
           /\ i \in [conn : Conns, ch : Channels, key : Keys \ OversizeKeys]
           /\ i.conn = c /\ i.key = proven'[c] /\ pc'[c] \notin {"none", "handshake"},
         pc[c] \in {"none", "handshake"}
           \/ (proven'[c] = proven[c] /\ pc'[c] \notin {"none", "handshake"})
  PROVE  IInv'
<1>1. ConnsFit'
  BY DEF IInv, ConnsFit, Apart
<1>2. \A i \in issued : i.conn \in Conns
  BY DEF IInv, TypeOK
<1>3. \A i \in issued :
        i.conn = c => proven'[c] = proven[c] /\ pc'[c] \notin {"none", "handshake"}
  BY DEF IInv, LinksLate
<1>4. \A i \in issued : proven'[i.conn] = proven[i.conn]
                        /\ pc'[i.conn] \notin {"none", "handshake"}
  BY <1>2, <1>3 DEF Apart, IInv, LinksLate
<1>5. \A i \in issued' \ issued : i.key \notin OversizeKeys
  OBVIOUS
<1>6. LinkKeyProven'
  BY <1>4, <1>5 DEF IInv, LinkKeyProven
<1>7. LinksLate'
  BY <1>4 DEF LinksLate
<1>8. \A d \in Conns, h \in Channels :
        chans'[d][h].state = "open" <=> pc'[d] = "requests" /\ cur'[d] = h
  BY <1>1 DEF ConnsFit, Fits
<1>9. issued' \subseteq [conn : Conns, ch : Channels, key : Keys]
  BY DEF IInv, TypeOK
<1>10. TypeOK'
  BY <1>8, <1>9 DEF Typed, TypeOK, Phase
<1>11. QED
  BY <1>1, <1>6, <1>7, <1>10 DEF IInv

\* A step that prints nothing.
LEMMA SilentStep ==
  ASSUME IInv, NEW c \in Conns, Typed', Apart(c),
         Fits(pc'[c], perm'[c], proven'[c], wire'[c], queue'[c], cur'[c], chans'[c]),
         UNCHANGED issued,
         pc[c] \in {"none", "handshake"}
           \/ (proven'[c] = proven[c] /\ pc'[c] \notin {"none", "handshake"})
  PROVE  IInv'
<1>1. issued \subseteq issued' /\ issued' \ issued = {}
  OBVIOUS
<1>2. QED
  BY <1>1, ConnStep

\* What is known of one connection.
LEMMA Known ==
  ASSUME IInv, NEW c \in Conns
  PROVE  /\ Typed
         /\ Fits(pc[c], perm[c], proven[c], wire[c], queue[c], cur[c], chans[c])
BY DEF IInv, ConnsFit, TypeOK, Typed, Phase

\* Nobody has connected.
LEMMA InitIInv == Init => IInv
<1> SUFFICES ASSUME Init PROVE IInv
  OBVIOUS
<1>1. NewChannel \in Channel /\ NewChannel.state = "new" /\ ChanFits(NewChannel)
  BY SshAssumption DEF NewChannel, Channel, ChanFits
<1>2. TypeOK
  BY <1>1 DEF Init, TypeOK
<1>3. ConnsFit
  BY <1>1 DEF Init, ConnsFit, Fits
<1>4. LinkKeyProven /\ LinksLate
  BY DEF Init, LinkKeyProven, LinksLate
<1>5. QED
  BY <1>2, <1>3, <1>4 DEF IInv

-----------------------------------------------------------------------------
(* Accept and handshake. *)

\* A client connects, asks about keys, signs with one or goes away.
LEMMA HandshakeIInv ==
  ASSUME IInv, NEW c \in Conns,
         \/ Connect(c) \/ HandshakeFails(c)
         \/ \E key \in Keys : Offer(c, key) \/ Authenticate(c, key)
  PROVE  IInv'
<1>1. Typed /\ Fits(pc[c], perm[c], proven[c], wire[c], queue[c], cur[c], chans[c])
  BY Known
<1>2. /\ pc[c] \in {"none", "handshake"}
      /\ UNCHANGED <<wire, eof, queue, cur, chans, issued>>
  BY DEF Connect, Offer, Authenticate, HandshakeFails
<1>3. /\ Typed' /\ Apart(c) /\ pc'[c] # "requests"
      /\ perm'[c] = proven'[c] /\ (pc'[c] = "channels" => perm'[c] \in Keys)
  <2>1. CASE Connect(c)
    BY <1>1, <2>1 DEF Connect, Typed, Apart, Phase, Fits
  <2>2. ASSUME NEW key \in Keys, Offer(c, key)
        PROVE  /\ Typed' /\ Apart(c) /\ pc'[c] # "requests"
               /\ perm'[c] = proven'[c] /\ (pc'[c] = "channels" => perm'[c] \in Keys)
    BY <1>1, <2>2 DEF Offer, Typed, Apart, Phase, Fits
  <2>3. ASSUME NEW key \in Keys, Authenticate(c, key)
        PROVE  /\ Typed' /\ Apart(c) /\ pc'[c] # "requests"
               /\ perm'[c] = proven'[c] /\ (pc'[c] = "channels" => perm'[c] \in Keys)
    BY <1>1, <2>3 DEF Authenticate, PermittedKey, Typed, Apart, Phase, Fits
  <2>4. CASE HandshakeFails(c)
    BY <1>1, <2>4 DEF HandshakeFails, Typed, Apart, Phase, Fits
  <2>5. QED
    BY <2>1, <2>2, <2>3, <2>4
<1>4. Fits(pc'[c], perm'[c], proven'[c], wire'[c], queue'[c], cur'[c], chans'[c])
  BY <1>1, <1>2, <1>3 DEF Fits
<1>5. QED
  BY <1>2, <1>3, <1>4, SilentStep

-----------------------------------------------------------------------------
(* The client and the mux. *)

\* One channel of one connection changes.
LEMMA ChanChanged ==
  ASSUME IInv, NEW c \in Conns, NEW h \in Channels, NEW new \in Channel, ChanFits(new),
         chans' = [chans EXCEPT ![c][h] = new]
  PROVE  /\ chans' \in [Conns -> [Channels -> Channel]]
         /\ \A d \in Conns \ {c} : chans'[d] = chans[d]
         /\ chans'[c][h] = new
         /\ \A g \in Channels : g # h => chans'[c][g] = chans[c][g]
         /\ \A g \in Channels : ChanFits(chans'[c][g])
<1>1. chans \in [Conns -> [Channels -> Channel]] /\ \A g \in Channels : ChanFits(chans[c][g])
  BY Known DEF Typed, Fits
<1>2. /\ chans' \in [Conns -> [Channels -> Channel]]
      /\ \A d \in Conns \ {c} : chans'[d] = chans[d]
      /\ chans'[c][h] = new
      /\ \A g \in Channels : g # h => chans'[c][g] = chans[c][g]
  BY <1>1
<1>3. \A g \in Channels : ChanFits(chans'[c][g])
  BY <1>1, <1>2
<1>4. QED
  BY <1>2, <1>3

\* A channel that changes and keeps its place among the others.
LEMMA PlaceKept ==
  ASSUME IInv, NEW c \in Conns, NEW h \in Channels, NEW new \in Channel,
         new.answers = chans[c][h].answers,
         new.state = chans[c][h].state, new.session = chans[c][h].session
  PROVE  ChanFits(new)
BY Known DEF Fits, ChanFits

\* The mux is done with a packet, or has a new one, and the goroutine where it was.
LEMMA TalkStep ==
  ASSUME IInv, NEW c \in Conns, NEW w \in Packet \cup {None}, wire' = [wire EXCEPT ![c] = w],
         chans' \in [Conns -> [Channels -> Channel]],
         \A d \in Conns \ {c} : chans'[d] = chans[d],
         \A g \in Channels : ChanFits(chans'[c][g]),
         \A g \in Channels :
           chans[c][g].state = "open" <=> chans'[c][g].state = "open",
         w # None /\ w.type \in {"session", "forwarding"} =>
           chans'[c][w.ch].state = "opening",
         queue' \in [Conns -> Seq(Channels)],
         \A d \in Conns \ {c} : queue'[d] = queue[d],
         \A i \in 1..Len(queue'[c]) : chans'[c][queue'[c][i]].state = "pending",
         \A i, j \in 1..Len(queue'[c]) : queue'[c][i] = queue'[c][j] => i = j,
         eof' \in [Conns -> BOOLEAN],
         UNCHANGED <<pc, tried, perm, cur, proven, issued>>
  PROVE  IInv'
<1>1. Typed /\ Fits(pc[c], perm[c], proven[c], wire[c], queue[c], cur[c], chans[c])
  BY Known
<1>2. Typed' /\ Apart(c) /\ wire'[c] = w
  <2>1. /\ wire' \in [Conns -> Packet \cup {None}] /\ wire'[c] = w
        /\ \A d \in Conns \ {c} : wire'[d] = wire[d]
    BY <1>1 DEF Typed
  <2>2. Typed'
    BY <1>1, <2>1 DEF Typed
  <2>3. Apart(c)
    BY <2>1 DEF Apart
  <2>4. QED
    BY <2>1, <2>2, <2>3
<1>3. Fits(pc'[c], perm'[c], proven'[c], wire'[c], queue'[c], cur'[c], chans'[c])
  <2>1. pc' = pc /\ perm' = perm /\ cur' = cur /\ proven' = proven
    OBVIOUS
  <2>2. ASSUME NEW g \in Channels
        PROVE  /\ ChanFits(chans'[c][g])
               /\ chans'[c][g].state = "open" <=> pc'[c] = "requests" /\ cur'[c] = g
    <3>1. chans[c][g].state = "open" <=> pc[c] = "requests" /\ cur[c] = g
      BY <1>1 DEF Fits
    <3>2. chans[c][g].state = "open" <=> chans'[c][g].state = "open"
      OBVIOUS
    <3>3. ChanFits(chans'[c][g])
      OBVIOUS
    <3>4. QED
      BY <2>1, <3>1, <3>2, <3>3
  <2>3. /\ perm'[c] = proven'[c]
        /\ pc'[c] \in {"channels", "requests"} => perm'[c] \in Keys
        /\ pc'[c] = "requests" => cur'[c] \in Channels
    BY <1>1, <2>1 DEF Fits
  <2>4. wire'[c] # None /\ wire'[c].type \in {"session", "forwarding"} =>
          chans'[c][wire'[c].ch].state = "opening"
    BY <1>2
  <2>5. QED
    BY <2>2, <2>3, <2>4 DEF Fits
<1>4. QED
  BY <1>2, <1>3, SilentStep

\* The client opens a channel.
LEMMA OpenChannelIInv ==
  ASSUME IInv, NEW c \in Conns, NEW h \in Channels, NEW type \in {"session", "forwarding"},
         NEW room \in BOOLEAN, OpenChannel(c, h, type, room)
  PROVE  IInv'
<1>1. Typed /\ Fits(pc[c], perm[c], proven[c], wire[c], queue[c], cur[c], chans[c])
  BY Known
<1>2. PICK w : w = [type |-> type, ch |-> h]
  OBVIOUS
<1>3. w \in Packet /\ w.ch = h /\ w \in Packet \cup {None}
  BY <1>2 DEF Packet
<1>4. /\ pc[c] \in {"channels", "requests"} /\ chans[c][h].state = "new"
      /\ wire' = [wire EXCEPT ![c] = w]
      /\ UNCHANGED <<pc, tried, perm, eof, queue, cur, proven, issued>>
  BY <1>2 DEF OpenChannel, Send
<1>5. PICK new \in Channel :
        /\ new.state = "opening" /\ new.answers = chans[c][h].answers
        /\ chans' = [chans EXCEPT ![c][h] = new]
  <2>1. PICK new : new = [chans[c][h] EXCEPT !.state = "opening",
                                              !.session = (type = "session"),
                                              !.room = room]
    OBVIOUS
  <2>2. chans[c][h] \in Channel
    BY <1>1 DEF Typed
  <2>3. new \in Channel /\ new.state = "opening" /\ new.answers = chans[c][h].answers
    BY <2>1, <2>2 DEF Channel
  <2>4. chans' = [chans EXCEPT ![c][h] = new]
    BY <1>1, <2>1 DEF OpenChannel, Typed
  <2>5. QED
    BY <2>3, <2>4
<1>6. ChanFits(new)
  BY <1>1, <1>4, <1>5 DEF Fits, ChanFits, Channel
<1>7. /\ chans' \in [Conns -> [Channels -> Channel]]
      /\ \A d \in Conns \ {c} : chans'[d] = chans[d]
      /\ chans'[c][h] = new
      /\ \A g \in Channels : g # h => chans'[c][g] = chans[c][g]
      /\ \A g \in Channels : ChanFits(chans'[c][g])
  BY <1>5, <1>6, ChanChanged
<1>8. \A g \in Channels : chans[c][g].state = "open" <=> chans'[c][g].state = "open"
  BY <1>4, <1>5, <1>7
<1>9. \A i \in 1..Len(queue'[c]) : chans'[c][queue'[c][i]].state = "pending"
  <2>1. \A i \in 1..Len(queue[c]) : queue[c][i] \in Channels
    BY <1>1 DEF Typed
  <2>2. QED
    BY <1>1, <1>4, <1>7, <2>1 DEF Fits
<1>10. /\ \A i, j \in 1..Len(queue'[c]) : queue'[c][i] = queue'[c][j] => i = j
       /\ queue' \in [Conns -> Seq(Channels)] /\ eof' \in [Conns -> BOOLEAN]
       /\ \A d \in Conns \ {c} : queue'[d] = queue[d]
  BY <1>1, <1>4 DEF Fits, Typed
<1>11. chans'[c][w.ch].state = "opening"
  BY <1>3, <1>5, <1>7
<1>12. QED
  BY <1>3, <1>4, <1>7, <1>8, <1>9, <1>10, <1>11, TalkStep

\* The client sends a request or room for an answer on a channel, closes it or
\* disconnects: nothing but the count of its requests changes.
LEMMA SendIInv ==
  ASSUME IInv, NEW c \in Conns,
         \/ \E h \in Channels : \/ \E type \in ReqTypes : SendRequest(c, h, type)
                                \/ AdjustWindow(c, h) \/ CloseChannel(c, h)
         \/ Disconnect(c)
  PROVE  IInv'
<1>1. Typed /\ Fits(pc[c], perm[c], proven[c], wire[c], queue[c], cur[c], chans[c])
  BY Known
<1>2. PICK w \in Packet :
        w.type \notin {"session", "forwarding"} /\ Send(c, w)
  <2>1. ASSUME NEW h \in Channels, NEW type \in ReqTypes, SendRequest(c, h, type)
        PROVE  \E w \in Packet : w.type \notin {"session", "forwarding"} /\ Send(c, w)
    <3>1. PICK w : w = [type |-> type, ch |-> h]
      OBVIOUS
    <3>2. w \in Packet /\ w.type \notin {"session", "forwarding"}
      BY <3>1 DEF Packet, ReqTypes
    <3>3. QED
      BY <2>1, <3>1, <3>2 DEF SendRequest
  <2>2. ASSUME NEW h \in Channels, CloseChannel(c, h)
        PROVE  \E w \in Packet : w.type \notin {"session", "forwarding"} /\ Send(c, w)
    <3>1. PICK w : w = [type |-> "close", ch |-> h]
      OBVIOUS
    <3>2. w \in Packet /\ w.type \notin {"session", "forwarding"}
      BY <3>1 DEF Packet
    <3>3. QED
      BY <2>2, <3>1, <3>2 DEF CloseChannel
  <2>3. ASSUME Disconnect(c)
        PROVE  \E w \in Packet : w.type \notin {"session", "forwarding"} /\ Send(c, w)
    <3>1. PICK w : w = [type |-> "bye", ch |-> None]
      OBVIOUS
    <3>2. w \in Packet /\ w.type \notin {"session", "forwarding"}
      BY <3>1 DEF Packet
    <3>3. QED
      BY <2>3, <3>1, <3>2 DEF Disconnect
  <2>4. ASSUME NEW h \in Channels, AdjustWindow(c, h)
        PROVE  \E w \in Packet : w.type \notin {"session", "forwarding"} /\ Send(c, w)
    <3>1. PICK w : w = [type |-> "window", ch |-> h]
      OBVIOUS
    <3>2. w \in Packet /\ w.type \notin {"session", "forwarding"}
      BY <3>1 DEF Packet
    <3>3. QED
      BY <2>4, <3>1, <3>2 DEF AdjustWindow
  <2>5. QED
    BY <2>1, <2>2, <2>3, <2>4
<1>3. /\ pc[c] \in {"channels", "requests"}
      /\ wire' = [wire EXCEPT ![c] = w] /\ w \in Packet \cup {None}
      /\ UNCHANGED <<pc, tried, perm, eof, queue, cur, proven, issued>>
  BY <1>2 DEF Send
<1>4. /\ chans' \in [Conns -> [Channels -> Channel]]
      /\ \A d \in Conns \ {c} : chans'[d] = chans[d]
      /\ \A g \in Channels :
           ChanFits(chans'[c][g]) /\ chans'[c][g].state = chans[c][g].state
  <2>1. CASE chans' = chans
    BY <1>1, <2>1 DEF Typed, Fits
  <2>2. ASSUME NEW h \in Channels, NEW type \in ReqTypes, SendRequest(c, h, type)
        PROVE  /\ chans' \in [Conns -> [Channels -> Channel]]
               /\ \A d \in Conns \ {c} : chans'[d] = chans[d]
               /\ \A g \in Channels :
                    ChanFits(chans'[c][g]) /\ chans'[c][g].state = chans[c][g].state
    <3>1. PICK new : new = [chans[c][h] EXCEPT !.sent = @ + 1]
      OBVIOUS
    <3>2. chans[c][h] \in Channel /\ chans[c][h].sent < MaxReqs
      BY <1>1, <2>2 DEF Typed, SendRequest
    <3>3. chans[c][h].sent + 1 \in 0..MaxReqs
      BY <3>2, SshAssumption DEF Channel
    <3>4. /\ new \in Channel /\ new.state = chans[c][h].state
          /\ new.answers = chans[c][h].answers /\ new.session = chans[c][h].session
      BY <3>1, <3>2, <3>3 DEF Channel
    <3>5. chans' = [chans EXCEPT ![c][h] = new]
      BY <1>1, <2>2, <3>1 DEF SendRequest, Typed
    <3>6. ChanFits(new)
      BY <3>4, PlaceKept
    <3>7. QED
      BY <3>4, <3>5, <3>6, ChanChanged
  <2>3. QED
    BY <2>1, <2>2 DEF AdjustWindow, CloseChannel, Disconnect
<1>5. /\ \A i \in 1..Len(queue'[c]) : chans'[c][queue'[c][i]].state = "pending"
      /\ \A i, j \in 1..Len(queue'[c]) : queue'[c][i] = queue'[c][j] => i = j
      /\ queue' \in [Conns -> Seq(Channels)] /\ eof' \in [Conns -> BOOLEAN]
      /\ \A d \in Conns \ {c} : queue'[d] = queue[d]
  <2>1. \A i \in 1..Len(queue[c]) : queue[c][i] \in Channels
    BY <1>1 DEF Typed
  <2>2. QED
    BY <1>1, <1>3, <1>4, <2>1 DEF Fits, Typed
<1>6. QED
  BY <1>2, <1>3, <1>4, <1>5, TalkStep

\* The mux puts a new channel in the queue.
LEMMA DeliverOpenIInv ==
  ASSUME IInv, NEW c \in Conns, DeliverOpen(c)
  PROVE  IInv'
<1>1. Typed /\ Fits(pc[c], perm[c], proven[c], wire[c], queue[c], cur[c], chans[c])
  BY Known
<1>2. PICK h \in Channels : h = wire[c].ch /\ chans[c][h].state = "opening"
  BY <1>1 DEF Typed, Fits, DeliverOpen, Handling, Packet, ReqTypes
<1>3. /\ chans' = [chans EXCEPT ![c][h].state = "pending"]
      /\ queue' = [queue EXCEPT ![c] = Append(@, h)]
      /\ wire' = [wire EXCEPT ![c] = None]
      /\ UNCHANGED <<pc, tried, perm, eof, cur, proven, issued>>
  BY <1>2 DEF DeliverOpen
<1>4. PICK new \in Channel :
        /\ new.state = "pending" /\ ChanFits(new)
        /\ chans' = [chans EXCEPT ![c][h] = new]
  <2>1. PICK new : new = [chans[c][h] EXCEPT !.state = "pending"]
    OBVIOUS
  <2>2. chans[c][h] \in Channel
    BY <1>1 DEF Typed
  <2>3. /\ new \in Channel /\ new.state = "pending"
        /\ new.answers = chans[c][h].answers /\ new.session = chans[c][h].session
    BY <2>1, <2>2 DEF Channel
  <2>4. ChanFits(new)
    BY <1>1, <1>2, <2>3 DEF Fits, ChanFits
  <2>5. chans' = [chans EXCEPT ![c][h] = new]
    BY <1>1, <1>3, <2>1 DEF Typed
  <2>6. QED
    BY <2>3, <2>4, <2>5
<1>5. /\ chans' \in [Conns -> [Channels -> Channel]]
      /\ \A d \in Conns \ {c} : chans'[d] = chans[d]
      /\ chans'[c][h] = new
      /\ \A g \in Channels : g # h => chans'[c][g] = chans[c][g]
      /\ \A g \in Channels : ChanFits(chans'[c][g])
  BY <1>4, ChanChanged
<1>6. \A g \in Channels : chans[c][g].state = "open" <=> chans'[c][g].state = "open"
  BY <1>2, <1>4, <1>5
<1>7. PICK q \in Seq(Channels) : q = queue[c]
  BY <1>1 DEF Typed
<1>8. /\ queue' = [queue EXCEPT ![c] = Append(q, h)] /\ Append(q, h) \in Seq(Channels)
      /\ \A d \in Conns \ {c} : queue'[d] = queue[d]
      /\ queue' \in [Conns -> Seq(Channels)] /\ queue'[c] = Append(q, h)
  BY <1>1, <1>3, <1>7 DEF Typed
<1>9. /\ Len(Append(q, h)) = Len(q) + 1 /\ Len(q) \in Nat
      /\ \A i \in 1..Len(q) : Append(q, h)[i] = q[i] /\ q[i] \in Channels
      /\ Append(q, h)[Len(q) + 1] = h
  BY <1>7
<1>10. \A i \in 1..Len(q) : chans[c][q[i]].state = "pending" /\ q[i] # h
  BY <1>1, <1>2, <1>7 DEF Fits
<1>11. \A i \in 1..(Len(q) + 1) : chans'[c][Append(q, h)[i]].state = "pending"
  <2>1. ASSUME NEW i \in 1..(Len(q) + 1)
        PROVE  chans'[c][Append(q, h)[i]].state = "pending"
    <3>1. CASE i = Len(q) + 1
      BY <1>4, <1>5, <1>9, <3>1
    <3>2. CASE i # Len(q) + 1
      <4>1. i \in 1..Len(q)
        BY <1>9, <3>2
      <4>2. QED
        BY <1>5, <1>9, <1>10, <4>1
    <3>3. QED
      BY <3>1, <3>2
  <2>2. QED
    BY <2>1
<1>12. \A i, j \in 1..(Len(q) + 1) : Append(q, h)[i] = Append(q, h)[j] => i = j
  <2>1. \A i, j \in 1..Len(q) : q[i] = q[j] => i = j
    BY <1>1, <1>7 DEF Fits
  <2>2. \A i \in 1..(Len(q) + 1) : i \in 1..Len(q) \/ i = Len(q) + 1
    BY <1>9
  <2>3. QED
    BY <1>9, <1>10, <2>1, <2>2
<1>13. QED
  <2>1. eof' \in [Conns -> BOOLEAN]
    BY <1>1, <1>3 DEF Typed
  <2>2. /\ \A i \in 1..Len(queue'[c]) : chans'[c][queue'[c][i]].state = "pending"
        /\ \A i, j \in 1..Len(queue'[c]) : queue'[c][i] = queue'[c][j] => i = j
    BY <1>8, <1>9, <1>11, <1>12
  <2>3. QED
    BY <1>3, <1>5, <1>6, <1>8, <2>1, <2>2, TalkStep

\* The mux hands over a request, room for an answer, or the end of one channel or of
\* all.
LEMMA DeliverIInv ==
  ASSUME IInv, NEW c \in Conns,
         DeliverRequest(c) \/ DeliverWindow(c) \/ DeliverClose(c) \/ DeliverBye(c)
  PROVE  IInv'
<1>1. Typed /\ Fits(pc[c], perm[c], proven[c], wire[c], queue[c], cur[c], chans[c])
  BY Known
<1>2. /\ wire' = [wire EXCEPT ![c] = None] /\ eof' \in [Conns -> BOOLEAN]
      /\ UNCHANGED <<pc, tried, perm, queue, cur, proven, issued>>
  BY <1>1 DEF DeliverRequest, DeliverWindow, DeliverClose, DeliverBye, Typed
<1>3. /\ chans' \in [Conns -> [Channels -> Channel]]
      /\ \A d \in Conns \ {c} : chans'[d] = chans[d]
      /\ \A g \in Channels :
           ChanFits(chans'[c][g]) /\ chans'[c][g].state = chans[c][g].state
  <2>1. CASE DeliverRequest(c)
    <3>1. PICK h \in Channels, type \in ReqTypes : h = wire[c].ch /\ type = wire[c].type
      <4>1. wire[c] \in Packet /\ wire[c].type \in ReqTypes
        BY <1>1, <2>1 DEF Typed, DeliverRequest, Handling
      <4>2. wire[c].ch \in Channels
        BY <4>1 DEF Packet, ReqTypes
      <4>3. QED
        BY <4>1, <4>2
    <3>2. PICK new : new = [chans[c][h] EXCEPT !.reqs = Append(@, type)]
      OBVIOUS
    <3>3. chans[c][h] \in Channel
      BY <1>1 DEF Typed
    <3>4. /\ new \in Channel /\ new.state = chans[c][h].state
          /\ new.answers = chans[c][h].answers /\ new.session = chans[c][h].session
      <4>1. chans[c][h].reqs \in Seq(ReqTypes)
        BY <3>3 DEF Channel
      <4>2. Append(chans[c][h].reqs, type) \in Seq(ReqTypes)
        BY <3>1, <4>1
      <4>3. QED
        BY <3>2, <3>3, <4>2 DEF Channel
    <3>5. chans' = [chans EXCEPT ![c][h] = new]
      BY <1>1, <2>1, <3>1, <3>2 DEF DeliverRequest, Typed
    <3>6. ChanFits(new)
      BY <3>4, PlaceKept
    <3>7. QED
      BY <3>4, <3>5, <3>6, ChanChanged
  <2>2. CASE DeliverClose(c)
    <3>1. PICK h \in Channels : h = wire[c].ch
      BY <1>1, <2>2 DEF Typed, DeliverClose, Handling, Packet, ReqTypes
    <3>2. PICK new : new = [chans[c][h] EXCEPT !.ended = TRUE]
      OBVIOUS
    <3>3. chans[c][h] \in Channel
      BY <1>1 DEF Typed
    <3>4. /\ new \in Channel /\ new.state = chans[c][h].state
          /\ new.answers = chans[c][h].answers /\ new.session = chans[c][h].session
      BY <3>2, <3>3 DEF Channel
    <3>5. chans' = [chans EXCEPT ![c][h] = new]
      BY <1>1, <2>2, <3>1, <3>2 DEF DeliverClose, Typed
    <3>6. ChanFits(new)
      BY <3>4, PlaceKept
    <3>7. QED
      BY <3>4, <3>5, <3>6, ChanChanged
  <2>3. CASE DeliverBye(c)
    <3>1. PICK hs : hs = [h \in Channels |-> [chans[c][h] EXCEPT !.ended = TRUE]]
      OBVIOUS
    <3>2. chans' = [chans EXCEPT ![c] = hs]
      BY <2>3, <3>1 DEF DeliverBye
    <3>3. ASSUME NEW h \in Channels
          PROVE  hs[h] \in Channel /\ hs[h].state = chans[c][h].state /\ ChanFits(hs[h])
      <4>1. chans[c][h] \in Channel
        BY <1>1 DEF Typed
      <4>2. /\ hs[h] \in Channel /\ hs[h].state = chans[c][h].state
            /\ hs[h].answers = chans[c][h].answers /\ hs[h].session = chans[c][h].session
        BY <3>1, <4>1 DEF Channel
      <4>3. QED
        BY <4>2, PlaceKept
    <3>4. hs \in [Channels -> Channel]
      BY <3>1, <3>3
    <3>5. QED
      BY <1>1, <3>2, <3>3, <3>4 DEF Typed
  <2>4. CASE DeliverWindow(c)
    <3>1. PICK h \in Channels : h = wire[c].ch
      BY <1>1, <2>4 DEF Typed, DeliverWindow, Handling, Packet, ReqTypes
    <3>2. PICK new : new = [chans[c][h] EXCEPT !.room = TRUE]
      OBVIOUS
    <3>3. chans[c][h] \in Channel
      BY <1>1 DEF Typed
    <3>4. /\ new \in Channel /\ new.state = chans[c][h].state
          /\ new.answers = chans[c][h].answers /\ new.session = chans[c][h].session
      BY <3>2, <3>3 DEF Channel
    <3>5. chans' = [chans EXCEPT ![c][h] = new]
      BY <1>1, <2>4, <3>1, <3>2 DEF DeliverWindow, Typed
    <3>6. ChanFits(new)
      BY <3>4, PlaceKept
    <3>7. QED
      BY <3>4, <3>5, <3>6, ChanChanged
  <2>5. QED
    BY <2>1, <2>2, <2>3, <2>4
<1>4. /\ \A i \in 1..Len(queue'[c]) : chans'[c][queue'[c][i]].state = "pending"
      /\ \A i, j \in 1..Len(queue'[c]) : queue'[c][i] = queue'[c][j] => i = j
      /\ queue' \in [Conns -> Seq(Channels)]
      /\ \A d \in Conns \ {c} : queue'[d] = queue[d]
  <2>1. \A i \in 1..Len(queue[c]) : queue[c][i] \in Channels
    BY <1>1 DEF Typed
  <2>2. queue' = queue
    BY <1>2
  <2>3. \A i \in 1..Len(queue[c]) : chans'[c][queue[c][i]].state = "pending"
    BY <1>1, <1>3, <2>1 DEF Fits
  <2>4. QED
    BY <1>1, <2>2, <2>3 DEF Fits, Typed
<1>5. None \in Packet \cup {None}
  OBVIOUS
<1>6. QED
  BY <1>2, <1>3, <1>4, <1>5, TalkStep

-----------------------------------------------------------------------------
(* The goroutine. *)

\* The first channel of the queue, and those behind it.
LEMMA Dequeue ==
  ASSUME IInv, NEW c \in Conns, queue[c] # <<>>
  PROVE  /\ Head(queue[c]) \in Channels /\ Tail(queue[c]) \in Seq(Channels)
         /\ chans[c][Head(queue[c])].state = "pending"
         /\ \A i \in 1..Len(Tail(queue[c])) :
              /\ Tail(queue[c])[i] # Head(queue[c])
              /\ chans[c][Tail(queue[c])[i]].state = "pending"
         /\ \A i, j \in 1..Len(Tail(queue[c])) : Tail(queue[c])[i] = Tail(queue[c])[j] => i = j
<1>1. PICK q \in Seq(Channels) : q = queue[c]
  BY Known DEF Typed
<1>2. /\ q # <<>> /\ Len(q) \in Nat /\ Len(q) > 0
      /\ Head(q) = q[1] /\ Len(Tail(q)) = Len(q) - 1
      /\ Head(q) \in Channels /\ Tail(q) \in Seq(Channels)
      /\ \A i \in 1..Len(Tail(q)) : Tail(q)[i] = q[i + 1]
  BY <1>1
<1>3. /\ \A i \in 1..Len(q) : chans[c][q[i]].state = "pending"
      /\ \A i, j \in 1..Len(q) : q[i] = q[j] => i = j
  BY <1>1, Known DEF Fits
<1>4. \A i \in 1..Len(Tail(q)) : i + 1 \in 1..Len(q) /\ 1 \in 1..Len(q) /\ i + 1 # 1
  BY <1>2
<1>5. chans[c][q[1]].state = "pending"
  BY <1>2, <1>3
<1>6. \A i \in 1..Len(Tail(q)) : Tail(q)[i] # Head(q) /\ chans[c][Tail(q)[i]].state = "pending"
  BY <1>2, <1>3, <1>4
<1>7. \A i, j \in 1..Len(Tail(q)) : Tail(q)[i] = Tail(q)[j] => i = j
  <2>1. ASSUME NEW i \in 1..Len(Tail(q)), NEW j \in 1..Len(Tail(q)), Tail(q)[i] = Tail(q)[j]
        PROVE  i = j
    <3>1. i + 1 = j + 1
      BY <1>2, <1>3, <1>4, <2>1
    <3>2. QED
      BY <1>2, <3>1
  <2>2. QED
    BY <2>1
<1>8. QED
  BY <1>1, <1>2, <1>5, <1>6, <1>7

\* The goroutine moves one channel on: it is the one that is open afterwards, if any is.
LEMMA TurnStep ==
  ASSUME IInv, NEW c \in Conns, NEW h \in Channels, NEW new \in Channel, ChanFits(new),
         chans' = [chans EXCEPT ![c][h] = new], chans[c][h].state # "opening",
         pc[c] \in {"channels", "requests"}, pc[c] = "requests" => h = cur[c],
         NEW p \in {"channels", "requests"}, pc' = [pc EXCEPT ![c] = p],
         NEW u \in Channels \cup {None}, cur' = [cur EXCEPT ![c] = u],
         p = "requests" <=> new.state = "open", p = "requests" => u = h,
         queue' \in [Conns -> Seq(Channels)],
         \A d \in Conns \ {c} : queue'[d] = queue[d],
         \A i \in 1..Len(queue'[c]) :
           queue'[c][i] # h /\ chans[c][queue'[c][i]].state = "pending",
         \A i, j \in 1..Len(queue'[c]) : queue'[c][i] = queue'[c][j] => i = j,
         issued \subseteq issued',
         \A i \in issued' \ issued :
           i \in [conn : {c}, ch : Channels, key : {perm[c]} \ OversizeKeys],
         UNCHANGED <<tried, perm, wire, eof, proven>>
  PROVE  IInv'
<1>1. Typed /\ Fits(pc[c], perm[c], proven[c], wire[c], queue[c], cur[c], chans[c])
  BY Known
<1>2. /\ chans' \in [Conns -> [Channels -> Channel]]
      /\ \A d \in Conns \ {c} : chans'[d] = chans[d]
      /\ chans'[c][h] = new
      /\ \A g \in Channels : g # h => chans'[c][g] = chans[c][g]
      /\ \A g \in Channels : ChanFits(chans'[c][g])
  BY ChanChanged
<1>3. /\ pc' \in [Conns -> Phase] /\ pc'[c] = p
      /\ cur' \in [Conns -> Channels \cup {None}] /\ cur'[c] = u
      /\ \A d \in Conns \ {c} : pc'[d] = pc[d] /\ cur'[d] = cur[d]
  BY <1>1 DEF Typed, Phase
<1>4. Typed'
  BY <1>1, <1>2, <1>3 DEF Typed
<1>5. Apart(c)
  BY <1>2, <1>3 DEF Apart
<1>6. \A g \in Channels : chans'[c][g].state = "open" <=> p = "requests" /\ u = g
  <2>1. \A g \in Channels : chans[c][g].state = "open" => g = h
    BY <1>1 DEF Fits
  <2>2. QED
    BY <1>2, <2>1
<1>7. wire[c] # None /\ wire[c].type \in {"session", "forwarding"} =>
        chans'[c][wire[c].ch].state = "opening"
  <2>1. ASSUME wire[c] # None, wire[c].type \in {"session", "forwarding"}
        PROVE  chans'[c][wire[c].ch].state = "opening"
    <3>1. wire[c] \in Packet
      BY <1>1, <2>1 DEF Typed
    <3>2. wire[c].ch \in Channels
      BY <2>1, <3>1 DEF Packet, ReqTypes
    <3>3. chans[c][wire[c].ch].state = "opening"
      BY <1>1, <2>1 DEF Fits
    <3>4. QED
      BY <1>2, <3>2, <3>3
  <2>2. QED
    BY <2>1
<1>8. \A i \in 1..Len(queue'[c]) : chans'[c][queue'[c][i]].state = "pending"
  <2>1. \A i \in 1..Len(queue'[c]) : queue'[c][i] \in Channels
    OBVIOUS
  <2>2. QED
    BY <1>2, <2>1
<1>9. perm[c] = proven[c] /\ perm[c] \in Keys
  BY <1>1 DEF Fits
<1>10. Fits(p, perm[c], proven[c], wire[c], queue'[c], u, chans'[c])
  BY <1>2, <1>6, <1>7, <1>8, <1>9 DEF Fits
<1>11. \A i \in issued' \ issued :
         /\ i \in [conn : Conns, ch : Channels, key : Keys \ OversizeKeys]
         /\ i.conn = c /\ i.key = proven'[c] /\ pc'[c] \notin {"none", "handshake"}
  BY <1>3, <1>9
<1>12. QED
  BY <1>3, <1>4, <1>5, <1>10, <1>11, ConnStep

\* A channel is rejected, accepted, or cannot be.
LEMMA ChannelIInv ==
  ASSUME IInv, NEW c \in Conns, RejectChannel(c) \/ AcceptChannel(c) \/ AcceptFails(c)
  PROVE  IInv'
<1>1. Typed /\ Fits(pc[c], perm[c], proven[c], wire[c], queue[c], cur[c], chans[c])
  BY Known
<1>2. /\ pc[c] = "channels" /\ queue[c] # <<>>
      /\ queue' = [queue EXCEPT ![c] = Tail(queue[c])]
      /\ UNCHANGED <<tried, perm, wire, eof, proven, issued>>
  BY DEF RejectChannel, AcceptChannel, AcceptFails
<1>3. PICK h \in Channels, q \in Seq(Channels) :
        /\ h = Head(queue[c]) /\ q = Tail(queue[c]) /\ chans[c][h].state = "pending"
        /\ \A i \in 1..Len(q) : q[i] # h /\ chans[c][q[i]].state = "pending"
        /\ \A i, j \in 1..Len(q) : q[i] = q[j] => i = j
  BY <1>2, Dequeue
<1>4. /\ queue' \in [Conns -> Seq(Channels)] /\ queue'[c] = q
      /\ \A d \in Conns \ {c} : queue'[d] = queue[d]
  BY <1>1, <1>2, <1>3 DEF Typed
<1>5. PICK state \in {"rejected", "open", "closed"} :
        /\ chans' = [chans EXCEPT ![c][h].state = state]
        /\ state = "open" => /\ chans[c][h].session
                             /\ pc' = [pc EXCEPT ![c] = "requests"]
                             /\ cur' = [cur EXCEPT ![c] = h]
        /\ state # "open" => UNCHANGED <<pc, cur>>
  BY <1>3 DEF RejectChannel, AcceptChannel, AcceptFails
<1>6. PICK new : new = [chans[c][h] EXCEPT !.state = state]
  OBVIOUS
<1>7. chans[c][h] \in Channel /\ ChanFits(chans[c][h])
  BY <1>1 DEF Typed, Fits
<1>8. /\ new \in Channel /\ new.state = state /\ new.answers = chans[c][h].answers
      /\ new.session = chans[c][h].session
      /\ chans' = [chans EXCEPT ![c][h] = new]
  BY <1>1, <1>5, <1>6, <1>7 DEF Channel, Typed
<1>9. ChanFits(new)
  BY <1>3, <1>5, <1>7, <1>8 DEF ChanFits
<1>10. /\ \A i \in 1..Len(queue'[c]) :
            queue'[c][i] # h /\ chans[c][queue'[c][i]].state = "pending"
       /\ \A i, j \in 1..Len(queue'[c]) : queue'[c][i] = queue'[c][j] => i = j
       /\ issued \subseteq issued'
       /\ \A i \in issued' \ issued :
            i \in [conn : {c}, ch : Channels, key : {perm[c]} \ OversizeKeys]
       /\ chans[c][h].state # "opening"
       /\ pc[c] \in {"channels", "requests"} /\ (pc[c] = "requests" => h = cur[c])
       /\ UNCHANGED <<tried, perm, wire, eof, proven>>
  BY <1>2, <1>3, <1>4
<1>11. CASE state = "open"
  <2>1. /\ pc' = [pc EXCEPT ![c] = "requests"] /\ cur' = [cur EXCEPT ![c] = h]
        /\ new.state = "open" /\ h \in Channels \cup {None}
    BY <1>5, <1>8, <1>11
  <2>2. QED
    BY <1>4, <1>8, <1>9, <1>10, <2>1, TurnStep
<1>12. CASE state # "open"
  <2>1. pc' = [pc EXCEPT ![c] = "channels"] /\ cur' = [cur EXCEPT ![c] = cur[c]]
        /\ cur[c] \in Channels \cup {None} /\ new.state # "open"
    BY <1>1, <1>2, <1>5, <1>8, <1>12 DEF Typed
  <2>2. QED
    BY <1>4, <1>8, <1>9, <1>10, <2>1, TurnStep
<1>13. QED
  BY <1>11, <1>12

\* The open channel of the loop over the requests.
LEMMA Serving ==
  ASSUME IInv, NEW c \in Conns, pc[c] = "requests"
  PROVE  /\ cur[c] \in Channels /\ chans[c][cur[c]] \in Channel
         /\ chans[c][cur[c]].state = "open"
         /\ chans[c][cur[c]].session /\ chans[c][cur[c]].answers = 0
         /\ queue' = queue =>
              /\ queue' \in [Conns -> Seq(Channels)]
              /\ \A d \in Conns \ {c} : queue'[d] = queue[d]
              /\ \A i \in 1..Len(queue'[c]) :
                   queue'[c][i] # cur[c] /\ chans[c][queue'[c][i]].state = "pending"
              /\ \A i, j \in 1..Len(queue'[c]) : queue'[c][i] = queue'[c][j] => i = j
<1>1. Typed /\ Fits(pc[c], perm[c], proven[c], wire[c], queue[c], cur[c], chans[c])
  BY Known
<1>2. cur[c] \in Channels /\ chans[c][cur[c]].state = "open"
  BY <1>1 DEF Fits
<1>3. chans[c][cur[c]] \in Channel /\ ChanFits(chans[c][cur[c]])
  BY <1>1, <1>2 DEF Typed, Fits
<1>4. chans[c][cur[c]].session /\ chans[c][cur[c]].answers = 0
  BY <1>2, <1>3 DEF ChanFits
<1>5. /\ \A i \in 1..Len(queue[c]) : queue[c][i] # cur[c] /\ chans[c][queue[c][i]].state = "pending"
      /\ \A i, j \in 1..Len(queue[c]) : queue[c][i] = queue[c][j] => i = j
  BY <1>1, <1>2 DEF Fits
<1>6. QED
  BY <1>1, <1>2, <1>3, <1>4, <1>5 DEF Typed

\* A request is read, or the requests end: the channel is closed or stays open.
LEMMA LoopStep ==
  ASSUME IInv, NEW c \in Conns, pc[c] = "requests",
         NEW state \in {"open", "closed"}, NEW new \in Channel, new.state = state,
         new.answers \in {0, 1}, new.session, state = "open" => new.answers = 0,
         chans' = [chans EXCEPT ![c][cur[c]] = new],
         GoOn(c, state),
         issued \subseteq issued',
         \A i \in issued' \ issued :
           i \in [conn : {c}, ch : Channels, key : {perm[c]} \ OversizeKeys],
         UNCHANGED <<tried, perm, wire, eof, proven, queue>>
  PROVE  IInv'
<1>1. PICK h \in Channels :
        /\ h = cur[c] /\ chans[c][h] \in Channel /\ chans[c][h].state = "open"
        /\ queue' \in [Conns -> Seq(Channels)]
        /\ \A d \in Conns \ {c} : queue'[d] = queue[d]
        /\ \A i \in 1..Len(queue'[c]) :
             queue'[c][i] # h /\ chans[c][queue'[c][i]].state = "pending"
        /\ \A i, j \in 1..Len(queue'[c]) : queue'[c][i] = queue'[c][j] => i = j
  BY Serving
<1>2. ChanFits(new)
  BY DEF ChanFits
<1>3. PICK p \in {"channels", "requests"}, u \in Channels \cup {None} :
        /\ pc' = [pc EXCEPT ![c] = p] /\ cur' = [cur EXCEPT ![c] = u]
        /\ p = "requests" <=> state = "open"
        /\ p = "requests" => u = h
  <2>1. CASE state = "open"
    <3>1. pc' = [pc EXCEPT ![c] = "requests"] /\ cur' = [cur EXCEPT ![c] = h]
      BY <1>1, <2>1 DEF GoOn
    <3>2. QED
      BY <2>1, <3>1
  <2>2. CASE state = "closed"
    <3>1. pc' = [pc EXCEPT ![c] = "channels"] /\ cur' = [cur EXCEPT ![c] = None]
      BY <2>2 DEF GoOn
    <3>2. QED
      BY <2>2, <3>1
  <2>3. QED
    BY <2>1, <2>2
<1>4. chans' = [chans EXCEPT ![c][h] = new] /\ chans[c][h].state # "opening"
      /\ (p = "requests" <=> new.state = "open")
  BY <1>1, <1>3
<1>5. QED
  BY <1>1, <1>2, <1>3, <1>4, TurnStep

\* A request other than shell.
LEMMA ReadOtherIInv ==
  ASSUME IInv, NEW c \in Conns, ReadOther(c)
  PROVE  IInv'
<1>1. /\ pc[c] = "requests" /\ GoOn(c, "open") /\ chans[c][cur[c]].reqs # <<>>
      /\ UNCHANGED <<tried, perm, wire, eof, queue, proven, issued>>
  BY DEF ReadOther, NextRequest, AfterOther
<1>2. PICK h \in Channels, chan \in Channel :
        h = cur[c] /\ chan = chans[c][h] /\ chan.session /\ chan.answers = 0
  BY <1>1, Serving
<1>3. PICK new : new = [chan EXCEPT !.reqs = Tail(@), !.state = "open"]
  OBVIOUS
<1>4. /\ new \in Channel /\ new.state = "open" /\ new.answers = 0 /\ new.session
  <2>1. chan.reqs \in Seq(ReqTypes) /\ chan.reqs # <<>>
    BY <1>1, <1>2 DEF Channel
  <2>2. Tail(chan.reqs) \in Seq(ReqTypes)
    BY <2>1
  <2>3. QED
    BY <1>2, <1>3, <2>2 DEF Channel
<1>5. chans' = [chans EXCEPT ![c][cur[c]] = new]
  BY <1>2, <1>3, Known DEF ReadOther, AfterOther, Typed
<1>6. issued \subseteq issued' /\ \A i \in issued' \ issued :
        i \in [conn : {c}, ch : Channels, key : {perm[c]} \ OversizeKeys]
  BY <1>1
<1>7. QED
  BY <1>1, <1>4, <1>5, <1>6, LoopStep

\* A shell request: the channel stays open until it is answered.
LEMMA ReadShellIInv ==
  ASSUME IInv, NEW c \in Conns, ReadShell(c)
  PROVE  IInv'
<1>1. /\ pc[c] = "requests" /\ chans[c][cur[c]].reqs # <<>>
      /\ UNCHANGED <<pc, cur, tried, perm, wire, eof, queue, proven, issued>>
  BY DEF ReadShell, NextRequest
<1>2. PICK h \in Channels, chan \in Channel :
        /\ h = cur[c] /\ chan = chans[c][h] /\ chan.session /\ chan.answers = 0
        /\ chan.state = "open"
  BY <1>1, Serving
<1>3. PICK new : new = [chan EXCEPT !.reqs = Tail(@), !.asked = TRUE]
  OBVIOUS
<1>4. new \in Channel /\ new.state = "open" /\ new.answers = 0 /\ new.session
  <2>1. chan.reqs \in Seq(ReqTypes) /\ chan.reqs # <<>>
    BY <1>1, <1>2 DEF Channel
  <2>2. Tail(chan.reqs) \in Seq(ReqTypes)
    BY <2>1
  <2>3. QED
    BY <1>2, <1>3, <2>2 DEF Channel
<1>5. chans' = [chans EXCEPT ![c][cur[c]] = new]
  BY <1>2, <1>3, Known DEF ReadShell, Typed
<1>6. GoOn(c, "open")
  BY <1>1, Known DEF GoOn, Typed
<1>7. issued \subseteq issued' /\ \A i \in issued' \ issued :
        i \in [conn : {c}, ch : Channels, key : {perm[c]} \ OversizeKeys]
  BY <1>1
<1>8. QED
  BY <1>1, <1>4, <1>5, <1>6, <1>7, LoopStep

\* The answer is printed, a link for the key that signed or an apology.
LEMMA AnswerIInv ==
  ASSUME IInv, NEW c \in Conns, Answer(c)
  PROVE  IInv'
<1>1. /\ pc[c] = "requests" /\ GoOn(c, "closed")
      /\ UNCHANGED <<tried, perm, wire, eof, queue, proven>>
  BY DEF Answer, Answering, AfterShell
<1>2. PICK h \in Channels, chan \in Channel :
        h = cur[c] /\ chan = chans[c][h] /\ chan.session /\ chan.answers = 0
  BY <1>1, Serving
<1>3. PICK new :
        new = [chan EXCEPT !.asked = FALSE, !.answers = @ + 1, !.state = "closed"]
  OBVIOUS
<1>4. new \in Channel /\ new.state = "closed" /\ new.answers = 1 /\ new.session
  <2>1. chan.answers + 1 = 1 /\ 1 \in Nat
    BY <1>2
  <2>2. new = [chan EXCEPT !.asked = FALSE, !.answers = 1, !.state = "closed"]
    BY <1>3, <2>1
  <2>3. QED
    BY <1>2, <2>1, <2>2 DEF Channel
<1>5. chans' = [chans EXCEPT ![c][cur[c]] = new]
  BY <1>2, <1>3, Known DEF Answer, AfterShell, Typed
<1>6. issued \subseteq issued' /\ \A i \in issued' \ issued :
        i \in [conn : {c}, ch : Channels, key : {perm[c]} \ OversizeKeys]
  <2>1. CASE issued' = issued
    BY <2>1
  <2>2. CASE /\ perm[c] \notin OversizeKeys
             /\ issued' = issued \cup [conn : {c}, ch : {cur[c]}, key : {perm[c]}]
    BY <1>2, <2>2
  <2>3. QED
    BY <2>1, <2>2 DEF Answer
<1>7. QED
  BY <1>1, <1>4, <1>5, <1>6, LoopStep

\* The answer cannot be printed.
LEMMA AnswerFailsIInv ==
  ASSUME IInv, NEW c \in Conns, AnswerFails(c)
  PROVE  IInv'
<1>1. /\ pc[c] = "requests" /\ GoOn(c, "closed")
      /\ UNCHANGED <<tried, perm, wire, eof, queue, proven, issued>>
  BY DEF AnswerFails, Answering, AfterShell
<1>2. PICK h \in Channels, chan \in Channel :
        h = cur[c] /\ chan = chans[c][h] /\ chan.session /\ chan.answers = 0
  BY <1>1, Serving
<1>3. PICK new : new = [chan EXCEPT !.asked = FALSE, !.state = "closed"]
  OBVIOUS
<1>4. new \in Channel /\ new.state = "closed" /\ new.answers = 0 /\ new.session
  BY <1>2, <1>3 DEF Channel
<1>5. chans' = [chans EXCEPT ![c][cur[c]] = new]
  BY <1>2, <1>3, Known DEF AnswerFails, AfterShell, Typed
<1>6. issued \subseteq issued' /\ \A i \in issued' \ issued :
        i \in [conn : {c}, ch : Channels, key : {perm[c]} \ OversizeKeys]
  BY <1>1
<1>7. QED
  BY <1>1, <1>4, <1>5, <1>6, LoopStep

\* The requests of the channel have ended.
LEMMA CloseEndedIInv ==
  ASSUME IInv, NEW c \in Conns, CloseEnded(c)
  PROVE  IInv'
<1>1. /\ pc[c] = "requests" /\ GoOn(c, "closed")
      /\ UNCHANGED <<tried, perm, wire, eof, queue, proven, issued>>
  BY DEF CloseEnded
<1>2. PICK h \in Channels, chan \in Channel :
        h = cur[c] /\ chan = chans[c][h] /\ chan.session /\ chan.answers = 0
  BY <1>1, Serving
<1>3. PICK new : new = [chan EXCEPT !.state = "closed"]
  OBVIOUS
<1>4. new \in Channel /\ new.state = "closed" /\ new.answers = 0 /\ new.session
  BY <1>2, <1>3 DEF Channel
<1>5. chans' = [chans EXCEPT ![c][cur[c]] = new]
  BY <1>2, <1>3, Known DEF CloseEnded, Typed
<1>6. issued \subseteq issued' /\ \A i \in issued' \ issued :
        i \in [conn : {c}, ch : Channels, key : {perm[c]} \ OversizeKeys]
  BY <1>1
<1>7. QED
  BY <1>1, <1>4, <1>5, <1>6, LoopStep

\* The goroutine returns.
LEMMA ReturnIInv ==
  ASSUME IInv, NEW c \in Conns, Return(c)
  PROVE  IInv'
<1>1. Typed /\ Fits(pc[c], perm[c], proven[c], wire[c], queue[c], cur[c], chans[c])
  BY Known
<1>2. /\ pc[c] = "channels" /\ pc' = [pc EXCEPT ![c] = "done"]
      /\ UNCHANGED <<tried, perm, wire, eof, queue, cur, chans, proven, issued>>
  BY DEF Return
<1>3. Typed' /\ Apart(c) /\ pc'[c] = "done"
  BY <1>1, <1>2 DEF Typed, Apart, Phase
<1>4. Fits(pc'[c], perm'[c], proven'[c], wire'[c], queue'[c], cur'[c], chans'[c])
  BY <1>1, <1>2, <1>3 DEF Fits
<1>5. proven'[c] = proven[c] /\ pc'[c] \notin {"none", "handshake"}
  BY <1>2, <1>3
<1>6. QED
  BY <1>2, <1>3, <1>4, <1>5, SilentStep

-----------------------------------------------------------------------------

\* IInv is inductive.
LEMMA IInvStep == IInv /\ [Next]_vars => IInv'
<1> SUFFICES ASSUME IInv, [Next]_vars PROVE IInv'
  OBVIOUS
<1>1. CASE UNCHANGED vars
  BY <1>1 DEF vars, IInv, TypeOK, ConnsFit, LinkKeyProven, LinksLate
<1>2. ASSUME NEW c \in Conns, Client(c)
      PROVE  IInv'
  <2>1. ASSUME NEW h \in Channels, NEW type \in {"session", "forwarding"},
               NEW room \in BOOLEAN, OpenChannel(c, h, type, room)
        PROVE  IInv'
    BY <2>1, OpenChannelIInv
  <2>2. QED
    BY <1>2, <2>1, HandshakeIInv, SendIInv DEF Client
<1>3. ASSUME NEW c \in Conns, Mux(c)
      PROVE  IInv'
  BY <1>3, DeliverOpenIInv, DeliverIInv DEF Mux
<1>4. ASSUME NEW c \in Conns, Goroutine(c)
      PROVE  IInv'
  BY <1>4, ChannelIInv, ReadOtherIInv, ReadShellIInv, AnswerIInv, AnswerFailsIInv,
         CloseEndedIInv, ReturnIInv DEF Goroutine
<1>5. QED
  BY <1>1, <1>2, <1>3, <1>4 DEF Next

\* Phase, keys, packet, queue and channels of a connection belong together in every
\* reachable state.
THEOREM SshInvariance == Spec => []IInv
  BY InitIInv, IInvStep, PTL DEF Spec

\* Every variable has its type, and the goroutine reads one open channel at a time.
THEOREM SshTypeCorrect == Spec => []TypeOK
<1>1. IInv => TypeOK
  BY DEF IInv
<1>2. QED
  BY SshInvariance, <1>1, PTL

\* A link is for the key that signed, whichever keys the client asked about.
THEOREM LinksProven == Spec => []LinkKeyProven
<1>1. IInv => LinkKeyProven
  BY DEF IInv
<1>2. QED
  BY SshInvariance, <1>1, PTL

\* However many requests there are on a session channel, one is answered, and none on
\* another channel.
THEOREM AnsweredOnce == Spec => []OneAnswerPerChannel
<1>1. IInv => OneAnswerPerChannel
  BY DEF IInv, ConnsFit, Fits, ChanFits, OneAnswerPerChannel
<1>2. QED
  BY SshInvariance, <1>1, PTL
=============================================================================
