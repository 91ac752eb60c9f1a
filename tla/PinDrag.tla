------------------------------- MODULE PinDrag -------------------------------
(***************************************************************************)
(* The signed-in visitor's page: the load barrier, the mouse handlers of   *)
(* Pin and of Globe, which are bound and unbound by two event modes, and   *)
(* the posts that carry the pin to the visitor's row of users.             *)
(*                                                                         *)
(* A handler is an operator from ui to ui, and calls others as the code    *)
(* does.  An event is one action: all listeners it meets on its way from   *)
(* its target up to the document, those bound while it travels included.   *)
(* Buttons are not told apart (the code does not look), so a press or      *)
(* release may come at any time.  Posts are not ordered and may be lost or *)
(* refused.  Left out: hover, cursors, captions, scale and rotation.       *)
(***************************************************************************)
EXTENDS Integers, Sequences, SequencesExt

CONSTANTS
  Positions,  \* places on the surface of the globe
  None,       \* no place: no pin, or a ray that misses
  MaxVer,     \* bound on the posts sent
  MaxLoads,   \* bound on the times the page is loaded
  MaxScene    \* bound on the drag pins in the scene when a drag starts

ASSUME PinAssumption ==
  /\ None \notin Positions
  /\ Positions \cap {"well", "canvas", "page"} = {}
  /\ MaxVer \in Nat /\ MaxLoads \in Nat \ {0} /\ MaxScene \in Nat

VARIABLES
  ptr,      \* where the mouse is
  ui,       \* the page: modes, elements, pins
  pending,  \* resources that have not arrived
  served,   \* the page has pins.csv
  csv,      \* the visitor's own lines in it, which the browser's cache may keep
  posts,    \* posts of the pin on their way
  row,      \* lat and lon of the visitor, with the number of the post they are from
  twin,     \* the pin of a second account of the same key
  lastVer,  \* posts sent so far
  loads,    \* times the page was loaded
  seen,     \* history: lastVer when pins.csv was served
  causes,   \* history: what has set page and row apart since
  leapt     \* history: a drag of this page began over the globe

vars == <<ptr, ui, pending, served, csv, posts, row, twin, lastVer, loads, seen, causes, leapt>>
server == <<row, twin>>
net == <<posts, lastVer>>
page == <<pending, served, csv, loads, seen>>

Pins == Positions \cup {None}
Places == Positions \cup {"well", "canvas", "page"}
Resources == {"textures", "pins"}

UI == [mode : {"rest", "wellPressed", "dragVoid", "dragGlobe"},
       globe : {"rest", "dragging", "hoveringWithPin"},
       drag : BOOLEAN,     \* the pin drawn under the mouse is shown
       empty : BOOLEAN,    \* class of the well
       dragPin : BOOLEAN,  \* globe.interaction.dragPin is set
       scene : Nat,        \* drag pins in the scene
       mine : Pins,        \* gl.pins.fingerprints of the visitor
       own : Nat]          \* the visitor's pins among gl.pins

-----------------------------------------------------------------------------
(* Handlers. *)

Raycast(p) == IF p \in Positions THEN p ELSE None

GlobeEnter(u, p) ==
  [u EXCEPT !.drag = FALSE, !.dragPin = TRUE, !.scene = @ + 1,
            !.globe = "hoveringWithPin", !.mode = "dragGlobe"]

DragMove(u, p) == IF Raycast(p) # None THEN GlobeEnter(u, p) ELSE u

DragPinLeft(u) == [u EXCEPT !.dragPin = FALSE]

DragPinGone(u) == [u EXCEPT !.scene = @ - 1, !.dragPin = FALSE]

\* globeLeave that leaves the mode of the globe alone.
GlobeStaysHovered(u, p) == [DragPinGone(u) EXCEPT !.drag = TRUE, !.mode = "dragVoid"]

GlobeLeave(u, p) ==
  [DragMove(DragPinGone(u), p)
     EXCEPT !.drag = TRUE, !.globe = "rest", !.mode = "dragVoid"]

GlobeMove(u, p) == IF Raycast(p) = None THEN GlobeLeave(u, p) ELSE u

PinKept(u) == [u EXCEPT !.mine = None]
TakeAnyway(u) == [u EXCEPT !.mine = None, !.own = @ - 1]

\* The visitor's pin is taken from the globe.
TakePin(u) ==
  IF u.mine = None THEN u ELSE [u EXCEPT !.mine = None, !.own = @ - 1]

\* dragMove may enter the globe; the mode set last is dragVoid all the same.
DragStart(u, p) ==
  LET moved == DragMove([u EXCEPT !.mode = "rest", !.empty = TRUE], p) IN
  [TakePin([moved EXCEPT !.drag = TRUE]) EXCEPT !.mode = "dragVoid"]

WellStaysEmpty(u) == [u EXCEPT !.drag = FALSE, !.mode = "rest"]

DragReset(u) == [u EXCEPT !.empty = FALSE, !.drag = FALSE, !.mode = "rest"]

\* Dropped where the ray misses, the pin is neither on the globe nor in the well.
GlobeUp(u, p) ==
  LET placed == IF Raycast(p) = None THEN u
                ELSE [u EXCEPT !.mine = p, !.own = @ + 1]
  IN [DragPinGone(placed) EXCEPT !.drag = FALSE, !.globe = "rest", !.mode = "rest"]

\* dragStart and dragStop of the globe, while it is being rotated.
GlobePress(u) == IF u.globe = "rest" THEN [u EXCEPT !.globe = "dragging"] ELSE u
GlobeRelease(u) == IF u.globe = "dragging" THEN [u EXCEPT !.globe = "rest"] ELSE u

\* What a mousemove meets at the document.
DocumentMove(u, p) ==
  CASE u.mode = "dragVoid"  -> DragMove(u, p)
    [] u.mode = "dragGlobe" -> GlobeMove(u, p)
    [] OTHER                -> u

-----------------------------------------------------------------------------
(* Loading. *)

Blank == [mode |-> "rest", globe |-> "rest", drag |-> FALSE, empty |-> TRUE,
          dragPin |-> FALSE, scene |-> 0, mine |-> None, own |-> 0]

\* The last line with the visitor's fingerprint is the pin they can move.
PopulatePins(lines) ==
  [Blank EXCEPT !.own = Len(lines), !.empty = lines # <<>>,
                !.mine = IF lines = <<>> THEN None ELSE Last(lines)]

Ready == pending = {}

NotDeleted(rs, r) == rs
Remaining(rs, r) == rs \ {r}

TexturesOnly(rs) == "textures" \notin rs
AllArrived(rs) == rs = {}

\* An account without a pin is not listed.
Line(p) == IF p = None THEN <<>> ELSE <<p>>

\* The lines of both accounts of the key, in either order.
OwnLines == {Line(row.pin) \o Line(twin), Line(twin) \o Line(row.pin)}

ServePins ==
  /\ ~served /\ served' = TRUE
  /\ csv' \in OwnLines
  /\ seen' = lastVer
  /\ causes' = IF twin = None THEN {} ELSE {"twin"}
  /\ UNCHANGED <<ptr, ui, pending, net, server, loads, leapt>>

\* Some of the lines may have been written when the select fails.
PartOfLines == OwnLines \cup {Line(row.pin), Line(twin), <<>>}

\* The loader does not look at the status: the error text is read as one more
\* line, which is not the visitor's.
ServeError ==
  /\ ~served /\ served' = TRUE
  /\ csv' \in PartOfLines
  /\ seen' = lastVer
  /\ causes' = {"misread"}
  /\ UNCHANGED <<ptr, ui, pending, net, server, loads, leapt>>

\* Cache-Control is public, and nothing says for how long: a cache may answer with
\* the list of an earlier page, at first one from before the visitor had a pin.
ServeCached ==
  /\ ~served /\ served' = TRUE
  /\ seen' = lastVer
  /\ causes' = {"cached"}
  /\ UNCHANGED <<ptr, ui, pending, csv, net, server, loads, leapt>>

Arrive(r) ==
  /\ r \in pending
  /\ r = "pins" => served
  /\ LET left == Remaining(pending, r) IN
     IF AllArrived(left)
     THEN /\ pending' = {}
          /\ ui' = PopulatePins(csv)
     ELSE pending' = left /\ UNCHANGED ui
  /\ UNCHANGED <<ptr, served, csv, net, server, loads, seen, causes, leapt>>

\* The page is left and opened again; posts on their way may still be served.
Reload ==
  /\ loads < MaxLoads
  /\ loads' = loads + 1
  /\ pending' = Resources /\ served' = FALSE
  /\ ui' = Blank /\ leapt' = FALSE
  /\ UNCHANGED <<ptr, csv, net, server, seen, causes>>

-----------------------------------------------------------------------------
(* Events. *)

\* The mouse leaves the pressed well, or is pulled far enough within it: on
\* its way up the event meets the listener dragStart has just bound.
Pull(p) ==
  /\ Ready /\ ui.mode = "wellPressed"
  /\ ui.scene <= MaxScene
  /\ ptr' = p
  /\ ui' = DocumentMove(DragStart(ui, p), p)
  /\ leapt' = (leapt \/ Raycast(p) # None)
  /\ UNCHANGED <<net, server, page, causes>>

Move(p) ==
  /\ Ready
  /\ ui.mode = "wellPressed" => p = "well"
  /\ ptr' = p
  /\ ui' = DocumentMove(ui, p)
  /\ UNCHANGED <<net, server, page, causes, leapt>>

\* The globe turns and comes nearer under a mouse that rests.
Render(p) ==
  /\ Ready
  /\ ptr \in Positions \cup {"canvas"} /\ p \in Positions \cup {"canvas"}
  /\ ptr' = p
  /\ UNCHANGED <<ui, net, server, page, causes, leapt>>

\* The pin shown under the mouse is in front of everything else.
Press ==
  /\ Ready /\ ~ui.drag
  /\ \/ ptr = "well" /\ ui.mode = "rest" /\ ui' = [ui EXCEPT !.mode = "wellPressed"]
     \/ ptr \in Positions \cup {"canvas"} /\ ui' = GlobePress(ui)
  /\ UNCHANGED <<ptr, net, server, page, causes, leapt>>

Post(pin) ==
  /\ lastVer < MaxVer
  /\ lastVer' = lastVer + 1
  /\ posts' = posts \cup {[pin |-> pin, ver |-> lastVer + 1]}
  /\ causes' = causes \ {"dropped"}

Release ==
  /\ Ready /\ ui.mode \in {"rest", "wellPressed"}
  /\ ui' = GlobeRelease([ui EXCEPT !.mode = "rest"])
  /\ UNCHANGED <<ptr, net, server, page, causes, leapt>>

DropInVoid ==
  /\ Ready /\ ui.mode = "dragVoid"
  /\ ui' = GlobeRelease(DragReset(ui))
  /\ Post(None)
  /\ UNCHANGED <<ptr, server, page, leapt>>

DropOnGlobe ==
  /\ Ready /\ ui.mode = "dragGlobe"
  /\ ui' = GlobeRelease(GlobeUp(ui, ptr))
  /\ IF Raycast(ptr) # None THEN Post(ptr)
     ELSE causes' = causes \cup {"dropped"} /\ UNCHANGED net
  /\ UNCHANGED <<ptr, server, page, leapt>>

-----------------------------------------------------------------------------
(* The server's end of a post. *)

\* The update of /pin: the post that is served last wins.
ServePost(m) ==
  /\ posts' = posts \ {m}
  /\ row' = m
  /\ causes' = causes \cup {c \in {"overtaken"} : m.ver < row.ver}
                      \cup {c \in {"late"} : m.ver <= seen}
  /\ UNCHANGED <<ptr, ui, page, twin, lastVer, leapt>>

\* Lost, or refused: the page has no listener for either.
LosePost(m) ==
  /\ posts' = posts \ {m}
  /\ causes' = causes \cup {"refused"}
  /\ UNCHANGED <<ptr, ui, page, server, lastVer, leapt>>

-----------------------------------------------------------------------------

Init ==
  /\ ptr = "page"
  /\ ui = Blank
  /\ pending = Resources /\ served = FALSE /\ csv = <<>>
  /\ posts = {}
  /\ row \in [pin : Pins, ver : {0}] /\ twin \in Pins
  /\ lastVer = 0 /\ loads = 1 /\ seen = 0
  /\ causes = {} /\ leapt = FALSE

Next ==
  \/ ServePins \/ ServeError \/ ServeCached \/ Reload
  \/ \E r \in Resources : Arrive(r)
  \/ \E p \in Places : Pull(p) \/ Move(p) \/ Render(p)
  \/ Press \/ Release \/ DropInVoid \/ DropOnGlobe
  \/ \E m \in posts : ServePost(m) \/ LosePost(m)

Spec == Init /\ [][Next]_vars

\* Every resource arrives in the end: the code does nothing about one that fails.
Fairness ==
  /\ WF_vars(ServePins \/ ServeError \/ ServeCached)
  /\ \A r \in Resources : WF_vars(Arrive(r))

FairSpec == Spec /\ Fairness

-----------------------------------------------------------------------------
(* Properties. *)

\* Every variable has its type; the page never counts pins below zero.
TypeOK ==
  /\ ptr \in Places
  /\ ui \in UI
  /\ pending \subseteq Resources
  /\ served \in BOOLEAN /\ csv \in Seq(Positions)
  /\ posts \subseteq [pin : Pins, ver : 1..MaxVer]
  /\ row \in [pin : Pins, ver : 0..MaxVer] /\ twin \in Pins
  /\ lastVer \in 0..MaxVer /\ loads \in 1..MaxLoads /\ seen \in 0..lastVer
  /\ causes \subseteq {"twin", "misread", "cached", "dropped", "overtaken", "late",
                      "refused"}
  /\ leapt \in BOOLEAN

\* Between events the two modes, the pin under the mouse and the pin on the
\* globe agree.  Inside dragStart they do not: it may enter the globe and then
\* sets dragVoid, and the event's way up to the document puts that right.  If
\* they stayed apart the globe could not be turned any more.
ModesAgree ==
  /\ ui.mode = "dragGlobe" <=> ui.globe = "hoveringWithPin"
  /\ ui.mode = "dragGlobe" <=> ui.dragPin
  /\ ui.mode = "dragVoid" <=> ui.drag

\* A drag pin is in the scene only while it is dragged, unless a drag began
\* over the globe: then globeEnter runs twice and nobody removes the first.
StrayOnlyIfLeapt == ~leapt => ui.scene = (IF ui.dragPin THEN 1 ELSE 0)

\* The globe has one pin of the visitor if they have placed one and else none,
\* through any number of drags; only a key with two accounts has more.
OneOwnPin == twin = None => ui.own = (IF ui.mine = None THEN 0 ELSE 1)

Idle == ui.mode \in {"rest", "wellPressed"}

\* When no drag and no post is under way, the page shows the pin the server
\* has, on the globe or in the well, unless one of the named causes set them
\* apart: a post overtaken, refused or sent by an earlier page, a drop beside
\* the globe, an error read as pins.csv, a list from the cache, a second account.
DivergesOnlyIf ==
  Ready /\ Idle /\ posts = {} /\ causes = {}
    => /\ ui.mine = row.pin
       /\ ui.empty <=> ui.mine # None

\* The page starts once its resources have arrived, in whichever order.
PageStarts == <>[]Ready

-----------------------------------------------------------------------------
(* The inductive invariants. *)

\* What the counters and the served lines are before a handler changes them.
Counts ==
  /\ ui.mine # None => ui.own >= 1
  /\ ui.dragPin => ui.scene >= 1
  /\ ui.mode \in {"dragVoid", "dragGlobe"} => ui.mine = None /\ ui.empty
  /\ twin = None => Len(csv) <= 1

\* TypeOK, ModesAgree, StrayOnlyIfLeapt and OneOwnPin hold together, with what
\* each of them needs of the others.
IInv == TypeOK /\ ModesAgree /\ StrayOnlyIfLeapt /\ OneOwnPin /\ Counts

\* Posts are numbered as they are sent, and none is sent before the page starts.
Numbered ==
  /\ \A m \in posts : m.ver <= lastVer /\ m.ver # row.ver
  /\ \A m, n \in posts : m.ver = n.ver => m = n
  /\ row.ver <= lastVer
  /\ "pins" \in pending \/ served
  /\ ~Ready /\ served => seen = lastVer

\* The page shows what was served or, once it has posted, its last post.
Shown ==
  /\ ui.empty <=> ui.mine # None
  /\ seen = lastVer => ui.mine = row.pin
  /\ \A m \in posts \cup {row} : seen < lastVer /\ m.ver = lastVer => m.pin = ui.mine

\* As long as nothing has set page and row apart, the last post is on its way
\* or is the row, and an idle page shows it.
Tracked ==
  served /\ causes \subseteq {"dropped"} =>
    /\ twin = None
    /\ seen = lastVer => csv = Line(row.pin)
    /\ seen < lastVer => \E m \in posts \cup {row} : m.ver = lastVer
    /\ Ready /\ Idle /\ causes = {} => Shown

\* From which DivergesOnlyIf follows.
TrackInv == Numbered /\ Tracked
=============================================================================
