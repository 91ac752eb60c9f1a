------------------------------ MODULE PinScene ------------------------------
(***************************************************************************)
(* The pins as objects of three.js: the tree the page changes, what the    *)
(* renderer remembers of it from frame to frame, and what a ray can hit.   *)
(* A pin is an Object3D with a line and a sprite; only the line has        *)
(* buffers and is hit by rays.  PinDrag has the order of the mouse's       *)
(* events; here any order that needs no more than its handlers' own        *)
(* checks is taken.                                                        *)
(***************************************************************************)
EXTENDS Naturals, FiniteSets

CONSTANTS
  Pins,       \* pin objects that may exist at once
  Template,   \* the geometry and the sprite material every pin is cloned from
  Positions,  \* places on the globe
  None        \* no place, no pin

ASSUME SceneAssumption ==
  /\ Template \notin Pins
  /\ None \notin Pins \cup Positions \cup {Template}

VARIABLES
  pins,      \* the pin objects
  lines,     \* the geometries of their lines
  marked,    \* sprite materials with the picture of the visitor's own pin
  listed,    \* lines the renderer has in _webglObjects
  dragPin,   \* the pin under the mouse, or None
  own,       \* the visitor's entry in fingerprints, or None
  caption,   \* the pin the caption speaks of, or None
  frame      \* the last frame

pageVars == <<dragPin, own>>
sceneVars == <<pins, lines, marked, listed, pageVars, caption, frame>>

-----------------------------------------------------------------------------

Place == Positions \cup {None}
Assets == Pins \cup {Template}

\* at: position; world: the matrixWorld of the last frame; geo, mat: the geometry
\* of its line and the material of its sprite; known: the renderer has initialised
\* the object and listens for its removal.
Pin == [in : {"nowhere", "scene", "globe"}, mine : BOOLEAN, at : Place, world : Place,
        geo : Assets, mat : Assets, known : BOOLEAN]

\* verts: the place the vertices point away from; bounds: the place for which the
\* bounding sphere was computed; dirty: verticesNeedUpdate; buffer: what the GPU
\* holds; init: __webglInit.
Line == [verts : Place, bounds : Place, dirty : BOOLEAN, buffer : Place, init : BOOLEAN]

\* current: nothing has changed since; view: the pins in view; drawn: those drawn.
Frame == [current : BOOLEAN, view : SUBSET Pins, drawn : SUBSET Pins]

Nowhere == [in |-> "nowhere", mine |-> FALSE, at |-> None, world |-> None,
            geo |-> Template, mat |-> Template, known |-> FALSE]
NewLine == [verts |-> None, bounds |-> None, dirty |-> FALSE, buffer |-> None,
            init |-> FALSE]

Present == {p \in Pins : pins[p].in # "nowhere"}
OnGlobe == {p \in Pins : pins[p].in = "globe"}

Changed == [frame EXCEPT !.current = FALSE]

-----------------------------------------------------------------------------
(* makePin, positionPin. *)

\* The line keeps the template's geometry, the sprite the template's material.
FromTemplate(p) == Template
Clone(p) == p

GeometryOf(p) == Clone(p)
MaterialOf(p) == Clone(p)

\* The flag is forgotten.
NotFlagged(line, pos) == [line EXCEPT !.verts = pos]
\* The sphere stays as it was computed.
Positioned(line, pos) == [line EXCEPT !.verts = pos, !.dirty = TRUE]

\* makePin, positionPin and add in one event.
NewPin(ps, ls, p, parent, mine, pos) ==
  LET g == GeometryOf(p) IN
  /\ pins' = [ps EXCEPT ![p] = [Nowhere EXCEPT !.in = parent, !.mine = mine, !.at = pos,
                                               !.geo = g, !.mat = MaterialOf(p)]]
  /\ lines' = [ls EXCEPT ![g] = Positioned(IF g = p THEN NewLine ELSE @, pos)]
  /\ marked' = IF mine THEN marked \cup {MaterialOf(p)} ELSE marked

UnusedPin(p) == pins[p].in = "nowhere" /\ p \notin listed /\ p # own

-----------------------------------------------------------------------------
(* Object3D.remove, EventDispatcher and the renderer's onObjectRemoved. *)

\* The listener forgets the object the event was dispatched on, which is the pin
\* and not its line.
RootOnly(p) == {}
\* It traverses the children as well.
Traversed(p) == {p}

\* Removal dispatches an event, for which the renderer listens once the object has
\* been in a frame.
Forgotten(p) == IF pins[p].known THEN Traversed(p) ELSE {}

Removed(ps, p) == [ps EXCEPT ![p] = Nowhere]

Remove(p) ==
  /\ pins' = Removed(pins, p)
  /\ lines' = [lines EXCEPT ![p] = NewLine]
  /\ listed' = listed \ Forgotten(p)
  /\ marked' = marked \ {p}

-----------------------------------------------------------------------------
(* The page. *)

\* populatePins has run, and no frame since.
SceneInit ==
  \E shown \in SUBSET Pins, at \in [Pins -> Positions], mine \in Pins \cup {None} :
    /\ mine \in shown \cup {None}
    /\ pins = [p \in Pins |->
         IF p \in shown
         THEN [Nowhere EXCEPT !.in = "globe", !.mine = (p = mine), !.at = at[p],
                              !.geo = GeometryOf(p), !.mat = MaterialOf(p)]
         ELSE Nowhere]
    /\ lines = [g \in Assets |->
         IF g \in shown THEN Positioned(NewLine, at[g]) ELSE NewLine]
    /\ marked = IF mine = None THEN {} ELSE {MaterialOf(mine)}
    /\ listed = {}
    /\ dragPin = None /\ own = mine
    /\ caption = None
    /\ frame = [current |-> FALSE, view |-> {}, drawn |-> {}]

\* The entry is left in fingerprints.
EntryLeft == own
EntryGone == None

\* dragStart: the visitor's own pin leaves the globe.
TakeOwn ==
  /\ own # None
  /\ Remove(own)
  /\ own' = EntryGone
  /\ frame' = Changed
  /\ UNCHANGED <<dragPin, caption>>

\* The caption stays.
CaptionLeft(c) == c
NoCaption(c) == None

\* globeEnter, which may find the drag pin of the same event's first entry.
GlobeEnter(p, pos) ==
  /\ UnusedPin(p)
  /\ NewPin(pins, lines, p, "scene", TRUE, pos)
  /\ dragPin' = p
  /\ caption' = NoCaption(caption)
  /\ frame' = Changed
  /\ UNCHANGED <<listed, own>>

GlobeMove(pos) ==
  /\ dragPin # None
  /\ LET g == pins[dragPin].geo IN
     /\ pins' = [pins EXCEPT ![dragPin].at = pos]
     /\ lines' = [lines EXCEPT ![g] = Positioned(@, pos)]
  /\ frame' = Changed
  /\ UNCHANGED <<marked, listed, pageVars, caption>>

\* The mouse leaves the globe, or is released where the ray misses.
GlobeLeave ==
  /\ dragPin # None
  /\ Remove(dragPin)
  /\ dragPin' = None
  /\ frame' = Changed
  /\ UNCHANGED <<own, caption>>

\* The pin that was dragged becomes the one on the globe.
DropDragged(p, pos) ==
  LET g == pins[dragPin].geo IN
  /\ pins' = [pins EXCEPT ![dragPin].in = "globe", ![dragPin].at = pos]
  /\ lines' = [lines EXCEPT ![g] = Positioned(@, pos)]
  /\ own' = dragPin
  /\ UNCHANGED <<marked, listed>>

\* The pin that is dropped is a new one, not the one that was dragged.
DropNew(p, pos) ==
  /\ NewPin(Removed(pins, dragPin), [lines EXCEPT ![dragPin] = NewLine],
            p, "globe", TRUE, pos)
  /\ listed' = listed \ Forgotten(dragPin)
  /\ own' = p

\* globeUp; dragStart has taken the visitor's own pin.
GlobeUp(p, pos) ==
  /\ dragPin # None /\ own = None /\ UnusedPin(p)
  /\ DropNew(p, pos)
  /\ dragPin' = None
  /\ frame' = Changed
  /\ UNCHANGED caption

-----------------------------------------------------------------------------
(* render. *)

\* scene.updateMatrixWorld.
WorldUpdated(pin) == [pin EXCEPT !.world = pin.at]

\* initObject listens for the removal of an object it has not seen, and lists it.
Known(pin) == [pin EXCEPT !.known = TRUE]
WithListed(ps) == listed \cup ps

\* initObject makes the buffers of a geometry that has none, and flags it.
Initialised(line) == IF line.init THEN line ELSE [line EXCEPT !.init = TRUE, !.dirty = TRUE]

\* intersectsObject computes a bounding sphere when there is none.
Bounded(line) == IF line.bounds = None THEN [line EXCEPT !.bounds = line.verts] ELSE line

\* setLineBuffers.
Uploaded(line) == [line EXCEPT !.buffer = line.verts]

\* The flag is cleared for lines that are out of view, too.
ClearedUnseen(line, seen) ==
  IF line.dirty THEN [IF seen THEN Uploaded(line) ELSE line EXCEPT !.dirty = FALSE] ELSE line

\* updateObject.
Updated(line, seen) ==
  IF line.dirty /\ seen THEN [Uploaded(line) EXCEPT !.dirty = FALSE] ELSE line

\* A sphere around another place may be on the other side of the frustum's edge.
Misplaced(p) ==
  LET l == lines[pins[p].geo] IN l.bounds # None /\ l.bounds # l.verts

\* updateMatrixWorld, then projectObject on every object of the scene; what it lists
\* is drawn.
Render ==
  \E view \in SUBSET Present, misjudged \in SUBSET {p \in Present : Misplaced(p)} :
    LET seen == (view \ misjudged) \cup (misjudged \ view)
        Seen(g) == \E p \in seen : pins[p].geo = g
        InScene(g) == \E p \in Present : pins[p].geo = g
    IN
    /\ pins' = [p \in Pins |->
         IF p \in Present THEN Known(WorldUpdated(pins[p])) ELSE pins[p]]
    /\ lines' = [g \in Assets |->
         IF InScene(g) THEN Updated(Bounded(Initialised(lines[g])), Seen(g)) ELSE lines[g]]
    /\ listed' = WithListed(Present)
    /\ frame' = [current |-> TRUE, view |-> view, drawn |-> seen]
    /\ UNCHANGED <<marked, pageVars, caption>>

\* Candidates for the ray are the lines on the globe and the globe itself, which
\* hides a line that has not been in a frame: it is still at the origin.
Hit(pos) ==
  {p \in OnGlobe : pins[p].world = pos /\ Bounded(lines[pins[p].geo]).bounds = pos}

RaycastPin(pos) == IF Hit(pos) = {} THEN {None} ELSE Hit(pos)

\* mouseMove, bound while no pin is dragged over the globe.
Hover(pos) ==
  /\ dragPin = None
  /\ lines' = [g \in Assets |->
       IF \E p \in OnGlobe : pins[p].geo = g THEN Bounded(lines[g]) ELSE lines[g]]
  /\ caption' \in RaycastPin(pos)
  /\ UNCHANGED <<pins, marked, listed, pageVars, frame>>

-----------------------------------------------------------------------------

SceneNext ==
  \/ TakeOwn \/ GlobeLeave \/ Render
  \/ \E pos \in Positions :
       \/ GlobeMove(pos) \/ Hover(pos)
       \/ \E p \in Pins : GlobeEnter(p, pos) \/ GlobeUp(p, pos)

SceneSpec == SceneInit /\ [][SceneNext]_sceneVars

-----------------------------------------------------------------------------
(* Properties. *)

\* The visitor's entry is on the globe and the drag pin in the scene.
SceneTypeOK ==
  /\ pins \in [Pins -> Pin] /\ lines \in [Assets -> Line]
  /\ marked \subseteq Assets /\ listed \subseteq Pins
  /\ own \in OnGlobe \cup {None}
  /\ dragPin \in (Present \ OnGlobe) \cup {None}
  /\ caption \in Pins \cup {None}
  /\ frame \in Frame
  /\ frame.current => frame.view \cup frame.drawn \subseteq Present

\* A frame shows every pin it draws where the page has put it: what positionPin
\* changes reaches the GPU although lines out of view are skipped, and no pin moves
\* another.
DrawnAsPlaced ==
  frame.current =>
    \A p \in frame.drawn :
      pins[p].world = pins[p].at /\ lines[pins[p].geo].buffer = pins[p].at

\* Bounding spheres are computed once, before the first frame, and the pin under the
\* mouse moves away from its own: only such a pin is drawn or left out by mistake.
OnlyDraggedMisjudged ==
  frame.current =>
    \A p \in Pins : (p \in frame.view) # (p \in frame.drawn) => pins[p].in = "scene"

\* A ray finds the pins of the globe where they are drawn.
PickedWhereDrawn ==
  \A p \in OnGlobe : pins[p].world # None =>
    pins[p].world = pins[p].at /\ lines[pins[p].geo].bounds \in {None, pins[p].at}

\* What the renderer keeps of an object's place is wrong for the pin under the mouse
\* alone, whichever way the pins of the globe got there.
SpheresKept == OnlyDraggedMisjudged /\ PickedWhereDrawn

\* Nothing that was taken away is still listed by the renderer, which would keep it
\* alive for as long as the page.
NoGhosts == listed \subseteq Present

\* The visitor's pins look different, and nobody else's.
OnlyMineMarked == \A p \in Present : pins[p].mat \in marked <=> pins[p].mine

\* No caption while a pin is dragged over the globe, where no listener would change
\* it.
NoCaptionWhileDragging == dragPin # None => caption = None

\* The renderer lists nothing but the scene, and the page's variables, marks and
\* caption agree with it.
SceneAgrees == SceneTypeOK /\ NoGhosts /\ OnlyMineMarked /\ NoCaptionWhileDragging
=============================================================================
