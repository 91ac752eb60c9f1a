------------------------------ MODULE PageProofs ------------------------------
(***************************************************************************)
(* The parts of the page that keep no state in common: its pins as objects *)
(* of three.js, its history, and the coordinates it shows.                 *)
(***************************************************************************)
EXTENDS PinScene, Nav, PinValues, SequenceTheorems, FiniteSetTheorems, TLAPS

-----------------------------------------------------------------------------
(* The pins as objects of three.js (PinScene). *)

\* What belongs together in a pin and its line: each has its own geometry and material,
\* the vertices are where the pin is, what was computed on the globe was computed there,
\* and a buffer that is not to be updated is up to date.
Fits(p, pin, line) ==
  /\ pin.geo = p /\ pin.mat = p /\ pin.at \in Positions
  /\ line.verts = pin.at
  /\ pin.in = "globe" => pin.world \in {None, pin.at} /\ line.bounds \in {None, pin.at}
  /\ line.init /\ ~line.dirty => line.buffer = pin.at

\* The types without the roles of single pins.
Typed ==
  /\ pins \in [Pins -> Pin] /\ lines \in [Assets -> Line]
  /\ marked \subseteq Assets /\ listed \subseteq Pins
  /\ caption \in Pins \cup {None}

Objects == \A p \in Present : Fits(p, pins[p], lines[p])

\* The renderer will be told of the removal of all that it lists.
Registered == \A p \in listed : p \in Present /\ pins[p].known

Roles ==
  /\ own \in OnGlobe \cup {None}
  /\ dragPin \in (Present \ OnGlobe) \cup {None}
  /\ NoCaptionWhileDragging

Pictured ==
  /\ frame \in Frame
  /\ frame.current => frame.view \cup frame.drawn \subseteq Present
  /\ DrawnAsPlaced /\ OnlyDraggedMisjudged

SceneInv == Typed /\ Objects /\ Registered /\ OnlyMineMarked /\ Roles /\ Pictured

-----------------------------------------------------------------------------

\* Objects that are alike.
LEMMA NowherePin ==
  Nowhere \in Pin /\ Nowhere.in = "nowhere" /\ ~Nowhere.known
BY DEF Nowhere, Pin, Place, Assets

\* A line without vertices.
LEMMA BlankLine ==
  /\ NewLine \in Line
  /\ NewLine = [verts |-> None, bounds |-> None, dirty |-> FALSE, buffer |-> None,
                init |-> FALSE]
BY DEF NewLine, Line, Place

\* positionPin moves the vertices and flags them; all else stays.
LEMMA PositionedLine ==
  ASSUME NEW line \in Line, NEW pos \in Positions
  PROVE  /\ Positioned(line, pos) \in Line
         /\ Positioned(line, pos).verts = pos /\ Positioned(line, pos).dirty
         /\ Positioned(line, pos).bounds = line.bounds
         /\ Positioned(line, pos).init = line.init
BY DEF Positioned, Line, Place

\* While no frame is current nothing is said of one.
LEMMA NotCurrent ==
  ASSUME frame \in Frame, frame' = Changed
  PROVE  Pictured'
<1>1. frame' \in Frame /\ ~frame'.current
  BY DEF Changed, Frame
<1>2. QED
  BY <1>1 DEF Pictured, DrawnAsPlaced, OnlyDraggedMisjudged

\* A pin that is taken away leaves nothing behind, and the others as they are.
LEMMA RemoveKeeps ==
  ASSUME Typed, Objects, Registered, OnlyMineMarked,
         NEW p \in Present, Remove(p),
         caption' \in Pins \cup {None}
  PROVE  /\ Typed' /\ Objects' /\ Registered' /\ OnlyMineMarked'
         /\ Present' = Present \ {p} /\ OnGlobe' = OnGlobe \ {p}
<1>1. p \in Pins /\ p \in Assets
  BY DEF Present, Assets
<1>2. /\ pins' = [pins EXCEPT ![p] = Nowhere]
      /\ lines' = [lines EXCEPT ![p] = NewLine]
      /\ listed' = listed \ Forgotten(p) /\ marked' = marked \ {p}
  BY DEF Remove, Removed
<1>3. Typed'
  BY <1>1, <1>2, NowherePin, BlankLine DEF Typed
<1>4. /\ pins'[p].in = "nowhere"
      /\ \A q \in Pins \ {p} : pins'[q] = pins[q] /\ lines'[q] = lines[q]
  BY <1>1, <1>2, NowherePin DEF Typed, Assets
<1>5. Present' = Present \ {p} /\ OnGlobe' = OnGlobe \ {p}
  BY <1>1, <1>4 DEF Present, OnGlobe
<1>6. Objects'
  BY <1>4, <1>5 DEF Objects, Present
<1>7. Registered'
  <2>1. p \notin listed'
    BY <1>2 DEF Registered, Forgotten, Traversed
  <2>2. QED
    BY <1>2, <1>4, <1>5, <2>1 DEF Registered, Present
<1>8. OnlyMineMarked'
  <2>1. \A q \in Present' :
          q \in Pins \ {p} /\ pins'[q] = pins[q] /\ pins[q].mat = q
    BY <1>4, <1>5 DEF Present, Objects, Fits
  <2>2. QED
    BY <1>2, <1>5, <2>1 DEF OnlyMineMarked
<1>9. QED
  BY <1>3, <1>5, <1>6, <1>7, <1>8

\* A new pin of the visitor's is marked, has its own line, of which nothing is computed
\* yet, and is to be uploaded.
LEMMA NewPinMade ==
  ASSUME NEW ps \in [Pins -> Pin], NEW ls \in [Assets -> Line],
         NEW p \in Pins,
         NEW parent \in {"scene", "globe"}, NEW pos \in Positions,
         NewPin(ps, ls, p, parent, TRUE, pos)
  PROVE  /\ pins' \in [Pins -> Pin] /\ lines' \in [Assets -> Line]
         /\ marked' = marked \cup {p}
         /\ pins'[p].in = parent /\ pins'[p].mine /\ pins'[p].mat = p
         /\ Fits(p, pins'[p], lines'[p])
         /\ \A q \in Pins \ {p} : pins'[q] = ps[q] /\ lines'[q] = ls[q]
<1> DEFINE pin == [Nowhere EXCEPT !.in = parent, !.mine = TRUE, !.at = pos,
                                        !.geo = p, !.mat = p]
           line == Positioned(NewLine, pos)
<1>1. p \in Assets
  BY DEF Assets
<1>2. /\ pins' = [ps EXCEPT ![p] = pin] /\ lines' = [ls EXCEPT ![p] = line]
      /\ marked' = marked \cup {p}
  BY DEF NewPin, GeometryOf, MaterialOf, Clone
<1>3. /\ pin \in Pin /\ pin.in = parent /\ pin.mine /\ pin.at = pos
      /\ pin.world = None
      /\ pin.geo = p /\ pin.mat = p
  BY <1>1 DEF Nowhere, Pin, Place, Assets
<1>4. /\ line \in Line /\ line.verts = pos /\ line.dirty /\ line.bounds = None
  BY BlankLine, PositionedLine
<1> HIDE DEF pin, line
<1>5. /\ pins'[p] = pin /\ lines'[p] = line
      /\ \A q \in Pins \ {p} : pins'[q] = ps[q] /\ lines'[q] = ls[q]
  BY <1>1, <1>2 DEF Assets
<1>6. Fits(p, pin, line)
  BY <1>3, <1>4 DEF Fits
<1>7. QED
  BY <1>1, <1>2, <1>3, <1>4, <1>5, <1>6

-----------------------------------------------------------------------------
(* Each action. *)

\* populatePins makes a pin with a line of its own for each row it has read.
LEMMA InitSceneInv == SceneInit => SceneInv
<1> SUFFICES ASSUME SceneInit PROVE SceneInv
  OBVIOUS
<1>1. PICK shown \in SUBSET Pins, places \in [Pins -> Positions],
          mine \in Pins \cup {None} :
        /\ mine \in shown \cup {None}
        /\ pins = [p \in Pins |->
             IF p \in shown
             THEN [Nowhere EXCEPT !.in = "globe", !.mine = (p = mine),
                                        !.at = places[p], !.geo = GeometryOf(p),
                                        !.mat = MaterialOf(p)]
             ELSE Nowhere]
        /\ lines = [g \in Assets |->
             IF g \in shown THEN Positioned(NewLine, places[g])
             ELSE NewLine]
        /\ marked = IF mine = None THEN {} ELSE {MaterialOf(mine)}
        /\ listed = {}
        /\ dragPin = None /\ own = mine
        /\ caption = None
        /\ frame = [current |-> FALSE, view |-> {}, drawn |-> {}]
  BY DEF SceneInit
<1>2. ASSUME NEW p \in Pins
      PROVE  /\ pins[p] \in Pin
             /\ p \notin shown => pins[p].in = "nowhere"
             /\ p \in shown => /\ pins[p].in = "globe" /\ pins[p].world = None
                               /\ (pins[p].mine <=> p = mine) /\ pins[p].at = places[p]
                               /\ pins[p].geo = p /\ pins[p].mat = p
  <2>1. p \in Assets /\ places[p] \in Positions
    BY <1>1 DEF Assets
  <2>2. CASE p \in shown
    <3>1. pins[p] = [Nowhere EXCEPT !.in = "globe", !.mine = (p = mine),
                                          !.at = places[p], !.geo = p, !.mat = p]
      BY <1>1, <2>2 DEF GeometryOf, MaterialOf, Clone
    <3>2. QED
      BY <2>1, <2>2, <3>1 DEF Nowhere, Pin, Place, Assets
  <2>3. CASE p \notin shown
    BY <1>1, <2>3, NowherePin
  <2>4. QED
    BY <2>2, <2>3
<1>3. ASSUME NEW g \in Assets
      PROVE  /\ lines[g] \in Line
             /\ g \in shown => /\ lines[g].verts = places[g] /\ lines[g].dirty
                               /\ lines[g].bounds = None
  <2>1. CASE g \in shown
    <3>1. lines[g] = Positioned(NewLine, places[g]) /\ places[g] \in Positions
      BY <1>1, <2>1
    <3>2. QED
      BY <3>1, BlankLine, PositionedLine
  <2>2. CASE g \notin shown
    BY <1>1, <2>2, BlankLine
  <2>3. QED
    BY <2>1, <2>2
<1>4. Present = shown /\ OnGlobe = shown
  <2>1. \A p \in Pins : p \in shown => pins[p].in = "globe"
    BY <1>2
  <2>2. \A p \in Pins : p \notin shown => pins[p].in = "nowhere"
    BY <1>2
  <2>3. shown \subseteq Pins
    BY <1>1
  <2>4. QED
    BY <2>1, <2>2, <2>3 DEF Present, OnGlobe
<1>5. Typed
  <2>1. pins \in [Pins -> Pin]
    <3>1. \A p \in Pins : pins[p] \in Pin
      BY <1>2
    <3>2. pins = [p \in Pins |-> pins[p]]
      BY <1>1
    <3>3. QED
      BY <3>1, <3>2
  <2>2. lines \in [Assets -> Line]
    <3>1. \A g \in Assets : lines[g] \in Line
      BY <1>3
    <3>2. lines = [g \in Assets |-> lines[g]]
      BY <1>1
    <3>3. QED
      BY <3>1, <3>2
  <2>3. /\ marked \subseteq Assets /\ listed \subseteq Pins
        /\ caption \in Pins \cup {None}
    BY <1>1 DEF MaterialOf, Clone, Assets
  <2>4. QED
    BY <2>1, <2>2, <2>3 DEF Typed
<1>6. Objects
  <2>1. SUFFICES ASSUME NEW p \in shown PROVE Fits(p, pins[p], lines[p])
    BY <1>4 DEF Objects
  <2>2. p \in Pins /\ p \in Assets /\ places[p] \in Positions
    BY DEF Assets
  <2>3. QED
    BY <1>2, <1>3, <2>2 DEF Fits
<1>7. Registered
  BY <1>1 DEF Registered
<1>8. OnlyMineMarked
  <2>1. None \notin Pins
    BY SceneAssumption DEF SceneAssumption
  <2>2. marked = IF mine = None THEN {} ELSE {mine}
    BY <1>1 DEF MaterialOf, Clone
  <2>3. SUFFICES ASSUME NEW p \in shown PROVE pins[p].mat \in marked <=> pins[p].mine
    BY <1>4 DEF OnlyMineMarked
  <2>4. p \in Pins /\ pins[p].mat = p /\ (pins[p].mine <=> p = mine)
    BY <1>2
  <2>5. QED
    BY <2>1, <2>2, <2>4
<1>9. Roles
  BY <1>1, <1>4 DEF Roles, NoCaptionWhileDragging
<1>10. Pictured
  BY <1>1 DEF Pictured, Frame, DrawnAsPlaced, OnlyDraggedMisjudged
<1>11. QED
  BY <1>5, <1>6, <1>7, <1>8, <1>9, <1>10 DEF SceneInv

\* A pin that is taken away by the page.
LEMMA TakeOwnInv ==
  ASSUME SceneInv, TakeOwn
  PROVE  SceneInv'
<1>1. /\ own \in Present /\ Remove(own) /\ own' = None
      /\ frame' = Changed
      /\ dragPin' = dragPin /\ caption' = caption /\ own \in OnGlobe
  BY DEF TakeOwn, SceneInv, Roles, EntryGone, OnGlobe, Present
<1>2. /\ Typed' /\ Objects' /\ Registered' /\ OnlyMineMarked'
      /\ Present' = Present \ {own} /\ OnGlobe' = OnGlobe \ {own}
  BY <1>1, RemoveKeeps DEF SceneInv, Typed
<1>3. Roles'
  BY <1>1, <1>2 DEF SceneInv, Roles, NoCaptionWhileDragging
<1>4. Pictured'
  BY <1>1, NotCurrent DEF SceneInv, Pictured
<1>5. QED
  BY <1>2, <1>3, <1>4 DEF SceneInv

\* The pin under the mouse leaves the scene.
LEMMA GlobeLeaveInv ==
  ASSUME SceneInv, GlobeLeave
  PROVE  SceneInv'
<1>1. /\ dragPin \in Present \ OnGlobe /\ Remove(dragPin)
      /\ dragPin' = None
      /\ frame' = Changed /\ own' = own /\ caption' = caption
  BY DEF GlobeLeave, SceneInv, Roles
<1>2. /\ Typed' /\ Objects' /\ Registered' /\ OnlyMineMarked'
      /\ OnGlobe' = OnGlobe \ {dragPin}
  BY <1>1, RemoveKeeps DEF SceneInv, Typed
<1>3. Roles'
  BY <1>1, <1>2 DEF SceneInv, Roles, NoCaptionWhileDragging
<1>4. Pictured'
  BY <1>1, NotCurrent DEF SceneInv, Pictured
<1>5. QED
  BY <1>2, <1>3, <1>4 DEF SceneInv

\* A drag pin comes into the scene; another one may stay there.
LEMMA GlobeEnterInv ==
  ASSUME SceneInv, NEW p \in Pins, NEW pos \in Positions, GlobeEnter(p, pos)
  PROVE  SceneInv'
<1>1. /\ NewPin(pins, lines, p, "scene", TRUE, pos)
      /\ dragPin' = p /\ caption' = None /\ frame' = Changed
      /\ listed' = listed /\ own' = own
      /\ pins[p].in = "nowhere" /\ p \notin listed
  BY DEF GlobeEnter, UnusedPin, NoCaption
<1>2. /\ pins' \in [Pins -> Pin] /\ lines' \in [Assets -> Line]
      /\ marked' = marked \cup {p}
      /\ pins'[p].in = "scene" /\ pins'[p].mine /\ pins'[p].mat = p
      /\ Fits(p, pins'[p], lines'[p])
      /\ \A q \in Pins \ {p} : pins'[q] = pins[q] /\ lines'[q] = lines[q]
  BY <1>1, NewPinMade DEF SceneInv, Typed
<1>3. /\ Present' = Present \cup {p} /\ p \notin Present
      /\ OnGlobe' = OnGlobe
  BY <1>1, <1>2 DEF Present, OnGlobe
<1>4. \A q \in Present : q \in Pins \ {p} /\ pins[q].mat = q
  BY <1>3 DEF SceneInv, Objects, Fits, Present
<1>5. Typed'
  BY <1>1, <1>2 DEF SceneInv, Typed, Assets
<1>6. Objects'
  BY <1>2, <1>3, <1>4 DEF SceneInv, Objects
<1>7. Registered'
  BY <1>1, <1>2, <1>3, <1>4 DEF SceneInv, Registered
<1>8. OnlyMineMarked'
  BY <1>2, <1>3, <1>4 DEF SceneInv, OnlyMineMarked
<1>9. Roles'
  BY <1>1, <1>3 DEF SceneInv, Roles, NoCaptionWhileDragging, OnGlobe,
                    Present
<1>10. Pictured'
  BY <1>1, NotCurrent DEF SceneInv, Pictured
<1>11. QED
  BY <1>5, <1>6, <1>7, <1>8, <1>9, <1>10 DEF SceneInv

\* The pin under the mouse moves, and its vertices with it; its sphere stays behind.
LEMMA GlobeMoveInv ==
  ASSUME SceneInv, NEW pos \in Positions, GlobeMove(pos)
  PROVE  SceneInv'
<1>1. PICK d \in Present \ OnGlobe : d = dragPin
  BY DEF GlobeMove, SceneInv, Roles
<1>2. d \in Pins /\ d \in Assets /\ pins[d].geo = d /\ pins[d].mat = d
  BY <1>1 DEF SceneInv, Objects, Fits, Present, Assets
<1>3. /\ pins' = [pins EXCEPT ![d].at = pos]
      /\ lines' = [lines EXCEPT ![d] = Positioned(lines[d], pos)]
      /\ frame' = Changed
      /\ UNCHANGED <<marked, listed, dragPin, own, caption>>
  BY <1>1, <1>2 DEF GlobeMove, pageVars, SceneInv, Typed
<1>4. pins[d] \in Pin /\ lines[d] \in Line
  BY <1>2 DEF SceneInv, Typed
<1>5. PICK pin : pin = [pins[d] EXCEPT !.at = pos]
  OBVIOUS
<1>15. /\ pin \in Pin /\ pin.in = pins[d].in /\ pin.geo = d /\ pin.mat = d
       /\ pin.at = pos /\ pin.mine = pins[d].mine /\ pin.known = pins[d].known
  BY <1>2, <1>4, <1>5 DEF Pin, Place
<1>6. /\ pins'[d] = pin /\ lines'[d] = Positioned(lines[d], pos)
      /\ lines'[d] \in Line /\ lines'[d].verts = pos /\ lines'[d].dirty
      /\ \A q \in Pins \ {d} : pins'[q] = pins[q] /\ lines'[q] = lines[q]
  BY <1>2, <1>3, <1>4, <1>5, PositionedLine DEF SceneInv, Typed, Assets
<1>7. Present' = Present /\ OnGlobe' = OnGlobe /\ pin.in # "globe"
  <2>1. pin.in \notin {"nowhere", "globe"}
    BY <1>1, <1>2, <1>15 DEF Present, OnGlobe
  <2>2. QED
    BY <1>1, <1>2, <1>6, <2>1 DEF Present, OnGlobe
<1>8. Typed'
  BY <1>2, <1>3, <1>15, <1>6 DEF SceneInv, Typed
<1>9. Objects'
  <2>1. Fits(d, pins'[d], lines'[d])
    BY <1>15, <1>6, <1>7 DEF Fits
  <2>2. \A q \in Present \ {d} : Fits(q, pins'[q], lines'[q])
    BY <1>6 DEF SceneInv, Objects, Present
  <2>3. QED
    BY <1>7, <2>1, <2>2 DEF Objects
<1>10. Registered'
  BY <1>3, <1>15, <1>6, <1>7 DEF SceneInv, Registered, Present
<1>11. OnlyMineMarked'
  BY <1>2, <1>3, <1>15, <1>6, <1>7 DEF SceneInv, OnlyMineMarked, Present
<1>12. Roles'
  BY <1>3, <1>7 DEF SceneInv, Roles, NoCaptionWhileDragging
<1>13. Pictured'
  BY <1>3, NotCurrent DEF SceneInv, Pictured
<1>14. QED
  BY <1>8, <1>9, <1>10, <1>11, <1>12, <1>13 DEF SceneInv

\* The pin that is dropped is a new one, in the place of the one under the mouse.
LEMMA GlobeUpInv ==
  ASSUME SceneInv, NEW p \in Pins, NEW pos \in Positions, GlobeUp(p, pos)
  PROVE  SceneInv'
<1>1. PICK d \in Present \ OnGlobe : d = dragPin
  BY DEF GlobeUp, SceneInv, Roles
<1>2. PICK ps : ps = [pins EXCEPT ![d] = Nowhere]
  OBVIOUS
<1>3. PICK ls : ls = [lines EXCEPT ![d] = NewLine]
  OBVIOUS
<1>4. /\ NewPin(ps, ls, p, "globe", TRUE, pos)
      /\ listed' = listed \ Forgotten(d)
      /\ own' = p /\ dragPin' = None /\ frame' = Changed /\ caption' = caption
      /\ pins[p].in = "nowhere" /\ p \notin listed /\ own = None
  BY <1>1, <1>2, <1>3 DEF GlobeUp, DropNew, UnusedPin, Removed
<1>5. /\ d \in Pins /\ d \in Assets /\ pins[d].in # "nowhere" /\ p # d
      /\ pins \in [Pins -> Pin] /\ lines \in [Assets -> Line]
  BY <1>1, <1>4 DEF Present, Assets, SceneInv, Typed
<1>6. /\ ps \in [Pins -> Pin] /\ ls \in [Assets -> Line]
      /\ ps[d].in = "nowhere"
      /\ \A q \in Pins \ {d} : ps[q] = pins[q] /\ ls[q] = lines[q]
  BY <1>2, <1>3, <1>5, NowherePin, BlankLine DEF Assets
<1>7. /\ pins' \in [Pins -> Pin] /\ lines' \in [Assets -> Line]
      /\ marked' = marked \cup {p}
      /\ pins'[p].in = "globe" /\ pins'[p].mine /\ pins'[p].mat = p
      /\ Fits(p, pins'[p], lines'[p])
      /\ \A q \in Pins \ {p} : pins'[q] = ps[q] /\ lines'[q] = ls[q]
  <2>1. "globe" \in {"scene", "globe"}
    OBVIOUS
  <2>2. NewPin(ps, ls, p, "globe", TRUE, pos)
    BY <1>4
  <2>3. ps \in [Pins -> Pin] /\ ls \in [Assets -> Line]
    BY <1>6
  <2>4. QED
    BY <2>1, <2>2, <2>3, NewPinMade DEF NewPin
<1>8. /\ pins'[d].in = "nowhere"
      /\ \A q \in Pins \ {p, d} : pins'[q] = pins[q] /\ lines'[q] = lines[q]
  BY <1>5, <1>6, <1>7
<1>9. /\ Present' = (Present \ {d}) \cup {p}
      /\ OnGlobe' = OnGlobe \cup {p}
  <2>1. p \notin Present /\ d \notin OnGlobe
    BY <1>1, <1>4 DEF Present
  <2>2. QED
    BY <1>5, <1>7, <1>8, <2>1 DEF Present, OnGlobe
<1>10. \A q \in Present \ {d} : q \in Pins \ {p, d} /\ pins[q].mat = q
  BY <1>4 DEF SceneInv, Objects, Fits, Present
<1>11. Typed'
  <2>1. marked' \subseteq Assets /\ listed' \subseteq Pins
    BY <1>4, <1>7 DEF SceneInv, Typed, Assets
  <2>2. QED
    BY <1>4, <1>7, <2>1 DEF SceneInv, Typed
<1>12. Objects'
  BY <1>7, <1>8, <1>9, <1>10 DEF SceneInv, Objects
<1>13. Registered'
  <2>1. d \notin listed'
    BY <1>4 DEF SceneInv, Registered, Forgotten, Traversed
  <2>2. \A q \in listed' : q \in Present \ {d} /\ pins[q].known
    BY <1>4, <2>1 DEF SceneInv, Registered
  <2>3. QED
    BY <1>8, <1>9, <1>10, <2>2 DEF Registered
<1>14. OnlyMineMarked'
  BY <1>7, <1>8, <1>9, <1>10 DEF SceneInv, OnlyMineMarked
<1>15. Roles'
  BY <1>4, <1>9, <1>7 DEF Roles, NoCaptionWhileDragging, OnGlobe
<1>16. Pictured'
  BY <1>4, NotCurrent DEF SceneInv, Pictured
<1>17. QED
  BY <1>11, <1>12, <1>13, <1>14, <1>15, <1>16 DEF SceneInv

\* What initObject, the bounding sphere and updateObject make of a line: its vertices
\* stay, a sphere is computed around them if there was none, and what was flagged is
\* flagged still or uploaded.
LEMMA RenderedLine ==
  ASSUME NEW line \in Line, NEW seen \in BOOLEAN,
         line.init /\ ~line.dirty => line.buffer = line.verts
  PROVE  LET new == Updated(Bounded(Initialised(line)), seen) IN
         /\ new \in Line /\ new.verts = line.verts
         /\ new.bounds = IF line.bounds = None THEN line.verts ELSE line.bounds
         /\ new.init /\ ~new.dirty => new.buffer = new.verts
         /\ seen => new.buffer = new.verts
<1>1. PICK first : first = Initialised(line)
  OBVIOUS
<1>2. /\ first \in Line /\ first.verts = line.verts /\ first.bounds = line.bounds
      /\ ~first.dirty => first.buffer = first.verts
  BY <1>1 DEF Initialised, Line
<1>3. PICK second : second = Bounded(first)
  OBVIOUS
<1>4. /\ second \in Line /\ second.verts = line.verts
      /\ second.bounds = IF line.bounds = None THEN line.verts ELSE line.bounds
      /\ ~second.dirty => second.buffer = second.verts
  BY <1>2, <1>3 DEF Bounded, Line, Place
<1>5. PICK new : new = Updated(second, seen)
  OBVIOUS
<1>6. /\ new \in Line /\ new.verts = second.verts /\ new.bounds = second.bounds
      /\ ~new.dirty => new.buffer = new.verts
      /\ seen => new.buffer = new.verts
  <2>1. CASE second.dirty /\ seen
    BY <1>4, <1>5, <2>1 DEF Updated, Uploaded, Line
  <2>2. CASE ~(second.dirty /\ seen)
    BY <1>4, <1>5, <2>2 DEF Updated
  <2>3. QED
    BY <2>1, <2>2
<1>7. QED
  BY <1>1, <1>3, <1>4, <1>5, <1>6

\* A frame brings the renderer up to date with what it draws, and with the place of
\* every pin.
LEMMA RenderInv ==
  ASSUME SceneInv, Render
  PROVE  SceneInv'
<1>1. PICK view \in SUBSET Present,
           misjudged \in SUBSET {p \in Present : Misplaced(p)} :
    LET seen == (view \ misjudged) \cup (misjudged \ view)
        Seen(g) == \E p \in seen : pins[p].geo = g
        InScene(g) == \E p \in Present : pins[p].geo = g
    IN
    /\ pins' = [p \in Pins |->
         IF p \in Present THEN Known(WorldUpdated(pins[p]))
         ELSE pins[p]]
    /\ lines' = [g \in Assets |->
         IF InScene(g)
         THEN Updated(Bounded(Initialised(lines[g])), Seen(g))
         ELSE lines[g]]
    /\ listed' = WithListed(Present)
    /\ frame' = [current |-> TRUE, view |-> view, drawn |-> seen]
    /\ UNCHANGED <<marked, pageVars, caption>>
  BY DEF Render
<1> DEFINE seen == (view \ misjudged) \cup (misjudged \ view)
<1>2. /\ Present \subseteq Pins /\ seen \subseteq Present
      /\ \A p \in Present :
           /\ p \in Assets /\ pins[p] \in Pin /\ lines[p] \in Line
           /\ Fits(p, pins[p], lines[p]) /\ pins[p].geo = p
  BY DEF Present, Assets, SceneInv, Objects, Typed, Fits
<1>3. /\ listed' = listed \cup Present /\ marked' = marked /\ dragPin' = dragPin
      /\ own' = own /\ caption' = caption
      /\ frame' = [current |-> TRUE, view |-> view, drawn |-> seen]
  BY <1>1 DEF pageVars, WithListed
<1>4. ASSUME NEW p \in Present
      PROVE  /\ pins'[p] \in Pin /\ pins'[p].in = pins[p].in
             /\ (pins'[p].mine <=> pins[p].mine) /\ pins'[p].at = pins[p].at
             /\ pins'[p].world = pins[p].at /\ pins'[p].known
             /\ pins'[p].geo = p /\ pins'[p].mat = p
  <2>1. pins'[p] = [[pins[p] EXCEPT !.world = pins[p].at] EXCEPT !.known = TRUE]
    BY <1>1, <1>2 DEF Known, WorldUpdated
  <2>2. pins[p] \in Pin /\ pins[p].geo = p /\ pins[p].mat = p
    BY <1>2 DEF Fits
  <2>3. QED
    BY <2>1, <2>2 DEF Pin
<1>5. \A p \in Pins \ Present : pins'[p] = pins[p]
  BY <1>1
<1>6. ASSUME NEW p \in Present
      PROVE  /\ lines'[p] \in Line /\ lines'[p].verts = pins[p].at
             /\ lines'[p].bounds
                  = IF lines[p].bounds = None THEN pins[p].at ELSE lines[p].bounds
             /\ lines'[p].init /\ ~lines'[p].dirty => lines'[p].buffer = pins[p].at
             /\ p \in seen => lines'[p].buffer = pins[p].at
  <2>1. /\ \E q \in Present : pins[q].geo = p
        /\ (\E q \in seen : pins[q].geo = p) <=> p \in seen
    BY <1>2
  <2>2. lines'[p] = Updated(Bounded(Initialised(lines[p])),
                                  \E q \in seen : pins[q].geo = p)
    BY <1>1, <1>2, <2>1
  <2>3. /\ lines[p] \in Line /\ lines[p].verts = pins[p].at
        /\ lines[p].init /\ ~lines[p].dirty => lines[p].buffer = lines[p].verts
    BY <1>2 DEF Fits
  <2>4. (\E q \in seen : pins[q].geo = p) \in BOOLEAN
    OBVIOUS
  <2>5. QED
    BY <2>1, <2>2, <2>3, <2>4, RenderedLine
<1>7. \A g \in Assets \ Present : lines'[g] = lines[g]
  BY <1>1, <1>2
<1>8. Present' = Present /\ OnGlobe' = OnGlobe
  <2>1. \A p \in Pins : pins'[p].in = pins[p].in
    BY <1>4, <1>5
  <2>2. QED
    BY <2>1 DEF Present, OnGlobe
<1>9. Typed'
  <2>1. pins' \in [Pins -> Pin]
    <3>1. \A p \in Pins : pins'[p] \in Pin
      BY <1>4, <1>5 DEF SceneInv, Typed
    <3>2. pins' = [p \in Pins |-> pins'[p]]
      BY <1>1
    <3>3. QED
      BY <3>1, <3>2
  <2>2. lines' \in [Assets -> Line]
    <3>1. \A g \in Assets : lines'[g] \in Line
      BY <1>6, <1>7 DEF SceneInv, Typed
    <3>2. lines' = [g \in Assets |-> lines'[g]]
      BY <1>1
    <3>3. QED
      BY <3>1, <3>2
  <2>3. QED
    BY <1>2, <1>3, <2>1, <2>2 DEF SceneInv, Typed
<1>10. Objects'
  <2>1. SUFFICES ASSUME NEW p \in Present PROVE Fits(p, pins'[p], lines'[p])
    BY <1>8 DEF Objects
  <2>2. pins[p].at \in Positions
        /\ (pins[p].in = "globe" => lines[p].bounds \in {None, pins[p].at})
    BY <1>2 DEF Fits
  <2>3. QED
    BY <1>4, <1>6, <2>2 DEF Fits
<1>11. Registered'
  BY <1>3, <1>4, <1>8 DEF SceneInv, Registered
<1>12. OnlyMineMarked'
  BY <1>2, <1>3, <1>4, <1>8 DEF SceneInv, OnlyMineMarked, Fits
<1>13. Roles'
  BY <1>3, <1>8 DEF SceneInv, Roles, NoCaptionWhileDragging
<1>14. Pictured'
  <2>1. /\ frame'.current /\ frame'.view = view /\ frame'.drawn = seen
        /\ frame' \in Frame /\ view \subseteq Present
    BY <1>2, <1>3 DEF Frame
  <2>2. DrawnAsPlaced'
    BY <1>2, <1>4, <1>6, <2>1 DEF DrawnAsPlaced
  <2>3. OnlyDraggedMisjudged'
    <3>1. SUFFICES ASSUME NEW p \in Pins, (p \in view) # (p \in seen)
                   PROVE  pins'[p].in = "scene"
      BY <2>1 DEF OnlyDraggedMisjudged
    <3>2. p \in Present /\ Misplaced(p)
      BY <1>1, <3>1
    <3>3. lines[p].bounds # None /\ lines[p].bounds # pins[p].at
      BY <1>2, <3>2 DEF Misplaced, Fits
    <3>4. pins[p].in \in {"nowhere", "scene", "globe"} /\ pins[p].in # "globe"
      BY <1>2, <3>2, <3>3 DEF Fits, Pin
    <3>5. QED
      BY <1>4, <3>2, <3>4 DEF Present
  <2>4. QED
    BY <1>2, <1>8, <2>1, <2>2, <2>3 DEF Pictured
<1>15. QED
  BY <1>9, <1>10, <1>11, <1>12, <1>13, <1>14 DEF SceneInv

\* A ray computes the spheres of lines on the globe, where they belong.
LEMMA HoverInv ==
  ASSUME SceneInv, NEW pos \in Positions, Hover(pos)
  PROVE  SceneInv'
<1>1. /\ dragPin = None
      /\ lines' = [g \in Assets |->
           IF \E p \in OnGlobe : pins[p].geo = g THEN Bounded(lines[g])
           ELSE lines[g]]
      /\ caption' \in RaycastPin(pos)
      /\ pins' = pins /\ marked' = marked /\ listed' = listed /\ dragPin' = dragPin
      /\ own' = own /\ frame' = frame
  BY DEF Hover, pageVars
<1>2. Present' = Present /\ OnGlobe' = OnGlobe
  BY <1>1 DEF Present, OnGlobe
<1>3. ASSUME NEW g \in Assets
      PROVE  /\ lines'[g] \in Line /\ lines'[g].verts = lines[g].verts
             /\ \/ lines'[g].bounds = lines[g].bounds
                \/ lines[g].bounds = None /\ lines'[g].bounds = lines[g].verts
             /\ (lines'[g].dirty <=> lines[g].dirty) /\ (lines'[g].init <=> lines[g].init)
             /\ lines'[g].buffer = lines[g].buffer
  <2>1. lines[g] \in Line
    BY DEF SceneInv, Typed
  <2>2. lines'[g] \in {lines[g], Bounded(lines[g])}
    BY <1>1
  <2>3. QED
    BY <2>1, <2>2 DEF Bounded, Line
<1>4. Typed'
  <2>1. lines' \in [Assets -> Line]
    <3>1. lines' = [g \in Assets |-> lines'[g]]
      BY <1>1
    <3>2. QED
      BY <1>3, <3>1
  <2>2. caption' \in Pins \cup {None}
    BY <1>1 DEF RaycastPin, Hit, OnGlobe
  <2>3. QED
    BY <1>1, <2>1, <2>2 DEF SceneInv, Typed
<1>5. Objects'
  <2>1. SUFFICES ASSUME NEW p \in Present PROVE Fits(p, pins[p], lines'[p])
    BY <1>1, <1>2 DEF Objects
  <2>2. p \in Assets /\ Fits(p, pins[p], lines[p])
    BY DEF Present, Assets, SceneInv, Objects
  <2>3. QED
    BY <1>3, <2>2 DEF Fits
<1>6. Registered'
  BY <1>1, <1>2 DEF SceneInv, Registered
<1>7. OnlyMineMarked'
  BY <1>1, <1>2 DEF SceneInv, OnlyMineMarked
<1>8. Roles'
  BY <1>1, <1>2 DEF SceneInv, Roles, NoCaptionWhileDragging
<1>9. Pictured'
  <2>1. DrawnAsPlaced'
    <3>1. SUFFICES ASSUME frame.current, NEW p \in frame.drawn
                   PROVE  pins[p].world = pins[p].at
                          /\ lines'[pins[p].geo].buffer = pins[p].at
      BY <1>1 DEF DrawnAsPlaced
    <3>2. p \in Present /\ pins[p].geo = p /\ p \in Assets
      BY <3>1 DEF SceneInv, Pictured, Objects, Fits, Present, Assets
    <3>3. QED
      BY <1>3, <3>1, <3>2 DEF SceneInv, Pictured, DrawnAsPlaced
  <2>2. QED
    BY <1>1, <1>2, <2>1 DEF SceneInv, Pictured, OnlyDraggedMisjudged
<1>10. QED
  BY <1>4, <1>5, <1>6, <1>7, <1>8, <1>9 DEF SceneInv

\* Every step keeps the invariant.
LEMMA SceneStep == SceneInv /\ [SceneNext]_sceneVars => SceneInv'
<1> SUFFICES ASSUME SceneInv, [SceneNext]_sceneVars PROVE SceneInv'
  OBVIOUS
<1>1. CASE UNCHANGED sceneVars
  <2>1. /\ pins' = pins /\ lines' = lines /\ marked' = marked /\ listed' = listed
        /\ dragPin' = dragPin /\ own' = own /\ caption' = caption /\ frame' = frame
    BY <1>1 DEF sceneVars, pageVars
  <2>2. QED
    BY <2>1 DEF SceneInv, Typed, Objects, Registered, OnlyMineMarked, Roles,
                Pictured, NoCaptionWhileDragging, DrawnAsPlaced,
                OnlyDraggedMisjudged, Present, OnGlobe
<1>2. CASE TakeOwn
  BY <1>2, TakeOwnInv
<1>3. CASE GlobeLeave
  BY <1>3, GlobeLeaveInv
<1>4. CASE Render
  BY <1>4, RenderInv
<1>5. ASSUME NEW pos \in Positions, GlobeMove(pos) PROVE SceneInv'
  BY <1>5, GlobeMoveInv
<1>6. ASSUME NEW pos \in Positions, Hover(pos) PROVE SceneInv'
  BY <1>6, HoverInv
<1>7. ASSUME NEW pos \in Positions, NEW p \in Pins, GlobeEnter(p, pos)
      PROVE  SceneInv'
  BY <1>7, GlobeEnterInv
<1>8. ASSUME NEW pos \in Positions, NEW p \in Pins, GlobeUp(p, pos) PROVE SceneInv'
  BY <1>8, GlobeUpInv
<1>9. QED
  BY <1>1, <1>2, <1>3, <1>4, <1>5, <1>6, <1>7, <1>8 DEF SceneNext

\* It holds throughout.
LEMMA SceneInvHolds == SceneSpec => []SceneInv
BY InitSceneInv, SceneStep, PTL DEF SceneSpec

-----------------------------------------------------------------------------

\* A frame shows every pin it draws where the page has put it.
THEOREM DrawnWherePlaced == SceneSpec => []DrawnAsPlaced
<1>1. SceneInv => DrawnAsPlaced
  BY DEF SceneInv, Pictured
<1>2. QED
  BY <1>1, SceneInvHolds, PTL

\* The spheres of the pins on the globe are where they are drawn, however they came
\* there; only the pin under the mouse is misjudged.
THEOREM SpheresOfTheGlobe == SceneSpec => []SpheresKept
<1>1. SceneInv => SpheresKept
  <2> SUFFICES ASSUME SceneInv PROVE OnlyDraggedMisjudged /\ PickedWhereDrawn
    BY DEF SpheresKept
  <2>1. \A p \in OnGlobe : p \in Present /\ pins[p].in = "globe"
    BY DEF OnGlobe, Present
  <2>2. PickedWhereDrawn
    BY <2>1 DEF PickedWhereDrawn, SceneInv, Objects, Fits
  <2>3. QED
    BY <2>2 DEF SceneInv, Pictured
<1>2. QED
  BY <1>1, SceneInvHolds, PTL

\* The renderer lists nothing that was taken away, only the visitor's pins are marked,
\* and there is no caption while a pin is dragged.
THEOREM SceneStaysInStep == SceneSpec => []SceneAgrees
<1>1. SceneInv => SceneAgrees
  BY DEF SceneInv, SceneAgrees, SceneTypeOK, Typed, Roles, Pictured, Registered,
         NoGhosts
<1>2. QED
  BY <1>1, SceneInvHolds, PTL

-----------------------------------------------------------------------------
(* The tab and its history (Nav). *)

\* The document of an entry.
DocOf(i) == docs[entries[i].doc]

\* What a document shows is what was rendered for one of its entries, or what it has
\* chosen for the entry it was last shown for.
DocFits(doc, path) ==
  /\ doc.error => ~doc.scripted /\ doc.session = SignedOut /\ doc.shown = {} /\ ~doc.moved
  /\ ~doc.error /\ ~doc.moved =>
       \E p \in Path :
         doc.shown = Rendered(p, doc.session) /\ (~doc.missed => p = path)
  /\ doc.moved => doc.shown = {path} /\ doc.scripted /\ ~doc.missed

\* The types.
NavTyped ==
  /\ cookie \in Sessions \cup {SignedOut, Stale}
  /\ entries \in Seq([path : Path, doc : Ids])
  /\ at \in DOMAIN entries /\ Len(entries) <= MaxEntries
  /\ docs \in [Ids -> Doc]

Contiguous ==
  \A i, j, k \in DOMAIN entries :
    i < j /\ j < k /\ entries[i].doc = entries[k].doc => entries[j].doc = entries[i].doc

LastShown ==
  \A i \in DOMAIN entries :
    DocOf(i).entry \in DOMAIN entries /\ entries[DocOf(i).entry].doc = entries[i].doc

AllFit == \A i \in DOMAIN entries : DocFits(DocOf(i), entries[DocOf(i).entry].path)

NavInv == NavTyped /\ Page.entry = at /\ Contiguous /\ LastShown /\ AllFit

-----------------------------------------------------------------------------

\* Without a session the server renders the section of the path, with one the pin place.
LEMMA RenderedSections ==
  ASSUME NEW path \in Path, NEW session \in Sessions \cup {SignedOut}
  PROVE  /\ Rendered(path, session) \subseteq Section
         /\ Rendered(path, SignedOut) = {path}
         /\ "pinplace" \in Rendered(path, session) <=> session # SignedOut
         /\ Rendered(path, session) # {}
<1>1. "pinplace" \notin Path
  BY DEF Path
<1>2. QED
  BY <1>1 DEF Rendered, Section

\* A document as it comes from the server.
LEMMA ServedFits ==
  ASSUME NEW session \in Sessions \cup {SignedOut}, NEW path \in Path, NEW i \in Ids
  PROVE  /\ Served(session, path, i) \in Doc /\ Served(session, path, i).entry = i
         /\ DocFits(Served(session, path, i), path)
<1>1. Rendered(path, session) \subseteq Section
  BY RenderedSections
<1>2. QED
  BY <1>1 DEF Served, Doc, DocFits, Ids

\* Whom a page is rendered for.
LEMMA VisitorTyped == NavInv => Visitor \in Sessions \cup {SignedOut}
BY DEF NavInv, NavTyped, Visitor

\* The answer to a form that was refused.
LEMMA RefusedFits ==
  ASSUME NEW path \in Path, NEW i \in Ids
  PROVE  /\ Refused(i) \in Doc /\ Refused(i).entry = i
         /\ DocFits(Refused(i), path)
BY DEF Refused, Doc, DocFits, Ids

\* A section the page has chosen.
LEMMA ChosenFits ==
  ASSUME NEW doc \in Doc, doc.scripted, ~doc.error, NEW path \in Path,
         NEW i \in Ids
  PROVE  /\ UpdateVisiblePage(doc, path, i) \in Doc
         /\ UpdateVisiblePage(doc, path, i).entry = i
         /\ DocFits(UpdateVisiblePage(doc, path, i), path)
<1>1. PICK new : new = [doc EXCEPT !.shown = {path}, !.entry = i, !.moved = TRUE,
                                   !.missed = FALSE]
  OBVIOUS
<1>2. path \in Section
  BY DEF Section
<1>3. /\ new \in Doc /\ new.entry = i /\ new.shown = {path} /\ new.moved
      /\ new.scripted
      /\ ~new.missed /\ ~new.error
  BY <1>1, <1>2 DEF Doc, Ids
<1>4. DocFits(new, path)
  BY <1>3 DEF DocFits
<1>5. QED
  BY <1>1, <1>3, <1>4 DEF UpdateVisiblePage, Visible

\* The history has room for one entry.
LEMMA RoomForOne == MaxEntries \in Nat \ {0}
BY NavAssumption DEF NavAssumption

\* Each entry has a path and a document.
LEMMA EntryTyped ==
  ASSUME NavTyped
  PROVE  /\ Len(entries) \in Nat /\ DOMAIN entries = 1..Len(entries)
         /\ at \in DOMAIN entries /\ at \in Nat \ {0}
         /\ \A i \in DOMAIN entries :
              /\ i \in Ids /\ i \in Nat \ {0}
              /\ entries[i] \in [path : Path, doc : Ids]
              /\ entries[i].path \in Path /\ entries[i].doc \in Ids
              /\ DocOf(i) \in Doc
<1> DEFINE E == [path : Path, doc : Ids]
<1>1. /\ entries \in Seq(E) /\ at \in DOMAIN entries /\ Len(entries) <= MaxEntries
      /\ docs \in [Ids -> Doc] /\ MaxEntries \in Nat
  BY RoomForOne DEF NavTyped
<1> HIDE DEF E
<1>2. Len(entries) \in Nat /\ DOMAIN entries = 1..Len(entries)
  BY <1>1, LenProperties
<1>3. \A i \in DOMAIN entries : entries[i] \in E /\ i \in Ids /\ i \in Nat \ {0}
  BY <1>1, <1>2, ElementOfSeq DEF Ids
<1>4. \A e \in E : e.path \in Path /\ e.doc \in Ids
  BY DEF E
<1>5. QED
  BY <1>1, <1>2, <1>3, <1>4 DEF E, DocOf

\* The page that is shown.
LEMMA PageFits ==
  ASSUME NavInv
  PROVE  /\ at \in DOMAIN entries /\ Page \in Doc /\ Page.entry = at
         /\ Entry = entries[at] /\ entries[at].path \in Path
         /\ entries[at].doc \in Ids
         /\ DocFits(Page, entries[at].path)
<1>1. Page = DocOf(at) /\ Entry = entries[at]
  BY DEF Page, Entry, DocOf
<1>2. /\ at \in DOMAIN entries /\ DocOf(at) \in Doc /\ entries[at].path \in Path
      /\ entries[at].doc \in Ids
  BY EntryTyped DEF NavInv
<1>3. QED
  BY <1>1, <1>2 DEF NavInv, AllFit

\* The part of the history that is not ahead.
LEMMA FrontOfHistory ==
  ASSUME NavTyped
  PROVE  LET front == SubSeq(entries, 1, at) IN
         /\ front \in Seq([path : Path, doc : Ids])
         /\ Len(front) = at /\ DOMAIN front = 1..at
         /\ \A i \in 1..at : front[i] = entries[i]
<1> DEFINE E == [path : Path, doc : Ids]
           front == SubSeq(entries, 1, at)
<1>1. /\ at \in Nat \ {0} /\ 1..at \subseteq DOMAIN entries
      /\ \A i \in DOMAIN entries : entries[i] \in E
  BY EntryTyped
<1> HIDE DEF E
<1>2. /\ front \in Seq(E) /\ Len(front) = at
      /\ \A i \in 1..at : front[i] = entries[1 + i - 1]
  <2>1. \A i \in 1..at : entries[i] \in E
    BY <1>1
  <2>2. at - 1 + 1 = at /\ 1 \in Int /\ at \in Int /\ 1 <= at
    BY <1>1
  <2>3. QED
    BY <2>1, <2>2, SubSeqProperties
<1>3. \A i \in 1..at : 1 + i - 1 = i
  BY <1>1
<1> HIDE DEF front
<1>4. DOMAIN front = 1..at
  BY <1>2, LenProperties
<1>5. QED
  BY <1>2, <1>3, <1>4 DEF front, E

\* The history after a push.
LEMMA PushedEntries ==
  ASSUME NavTyped, NEW e \in [path : Path, doc : Ids]
  PROVE  LET es == Append(SubSeq(entries, 1, at), e) IN
         /\ es \in Seq([path : Path, doc : Ids])
         /\ Len(es) = at + 1 /\ DOMAIN es = 1..(at + 1)
         /\ \A i \in 1..at : es[i] = entries[i]
         /\ es[at + 1] = e
         /\ at \in Nat \ {0} /\ 1..at \subseteq DOMAIN entries
<1> DEFINE E == [path : Path, doc : Ids]
           front == SubSeq(entries, 1, at)
<1>1. /\ front \in Seq(E) /\ Len(front) = at /\ DOMAIN front = 1..at
      /\ \A i \in 1..at : front[i] = entries[i]
  BY FrontOfHistory
<1>2. at \in Nat \ {0} /\ 1..at \subseteq DOMAIN entries /\ e \in E
  BY EntryTyped
<1> HIDE DEF front, E
<1>3. /\ Append(front, e) \in Seq(E) /\ Len(Append(front, e)) = at + 1
      /\ \A i \in 1..at : Append(front, e)[i] = front[i]
      /\ Append(front, e)[at + 1] = e
  BY <1>1, <1>2, AppendProperties
<1>4. DOMAIN Append(front, e) = 1..(at + 1)
  BY <1>3, LenProperties
<1>5. QED
  BY <1>1, <1>2, <1>3, <1>4 DEF E, front

\* There is a document free for another entry.
LEMMA UnusedFree ==
  ASSUME NavTyped, at < MaxEntries
  PROVE  LET d == UnusedDoc(SubSeq(entries, 1, at)) IN
         d \in Ids /\ \A i \in 1..at : entries[i].doc # d
<1> DEFINE front == SubSeq(entries, 1, at)
           used == [i \in 1..at |-> entries[i].doc]
<1>1. at \in 1..Len(entries) /\ DOMAIN entries = 1..Len(entries) /\ Len(entries) \in Nat
      /\ \A i \in DOMAIN entries : entries[i].doc \in Ids
  BY EntryTyped
<1>2. DOMAIN front = 1..at /\ \A i \in 1..at : front[i] = entries[i]
  BY FrontOfHistory
<1>3. MaxEntries \in Nat /\ at \in Nat
  BY <1>1, RoomForOne
<1>4. \E d \in Ids : \A i \in 1..at : entries[i].doc # d
  <2>1. SUFFICES ASSUME \A d \in Ids : \E i \in 1..at : entries[i].doc = d
                 PROVE  FALSE
    OBVIOUS
  <2>2. used \in Surjection(1..at, Ids)
    BY <1>1, <2>1 DEF Surjection
  <2>3. Cardinality(Ids) <= at
    BY <1>3, <2>2, FS_SurjCardinalityBound DEF ExistsSurjection
  <2>4. Cardinality(Ids) = MaxEntries
    BY <1>3, FS_Interval DEF Ids
  <2>5. QED
    BY <1>3, <2>3, <2>4
<1>5. \E d \in Ids : \A i \in DOMAIN front : front[i].doc # d
  BY <1>2, <1>4
<1>6. /\ UnusedDoc(front) \in Ids
      /\ \A i \in DOMAIN front : front[i].doc # UnusedDoc(front)
  BY <1>5 DEF UnusedDoc
<1>7. QED
  BY <1>2, <1>6

\* What a step keeps of the invariant that replaces the document of the entry it shows.
LEMMA ReplacedInv ==
  ASSUME NavInv, UNCHANGED entries, cookie' \in Sessions \cup {SignedOut, Stale},
         NEW i \in DOMAIN entries, at' = i,
         NEW doc \in Doc, doc.entry = i, DocFits(doc, entries[i].path),
         docs' = [docs EXCEPT ![entries[i].doc] = doc]
  PROVE  NavInv'
<1>1. entries' = entries /\ entries[i].doc \in Ids
  BY EntryTyped DEF NavInv
<1>2. NavTyped'
  <2>1. docs' \in [Ids -> Doc]
    BY <1>1 DEF NavInv, NavTyped
  <2>2. QED
    BY <1>1, <2>1 DEF NavInv, NavTyped
<1>3. \A j \in DOMAIN entries :
        docs'[entries[j].doc]
          = IF entries[j].doc = entries[i].doc THEN doc ELSE docs[entries[j].doc]
  BY <1>1, EntryTyped DEF NavInv, NavTyped
<1>4. (Page.entry = at)'
  BY <1>1, <1>3 DEF Page, Entry
<1>5. Contiguous'
  BY <1>1 DEF NavInv, Contiguous
<1>6. LastShown'
  <2>1. SUFFICES ASSUME NEW j \in DOMAIN entries
                 PROVE  /\ docs'[entries[j].doc].entry \in DOMAIN entries
                        /\ entries[docs'[entries[j].doc].entry].doc = entries[j].doc
    BY <1>1 DEF LastShown, DocOf
  <2>2. CASE entries[j].doc = entries[i].doc
    BY <1>3, <2>2
  <2>3. CASE entries[j].doc # entries[i].doc
    BY <1>3, <2>3 DEF NavInv, LastShown, DocOf
  <2>4. QED
    BY <2>2, <2>3
<1>7. AllFit'
  <2>1. SUFFICES ASSUME NEW j \in DOMAIN entries
                 PROVE  DocFits(docs'[entries[j].doc],
                                entries[docs'[entries[j].doc].entry].path)
    BY <1>1 DEF AllFit, DocOf
  <2>2. CASE entries[j].doc = entries[i].doc
    BY <1>3, <2>2
  <2>3. CASE entries[j].doc # entries[i].doc
    BY <1>3, <2>3 DEF NavInv, AllFit, DocOf
  <2>4. QED
    BY <2>2, <2>3
<1>8. QED
  BY <1>2, <1>4, <1>5, <1>6, <1>7 DEF NavInv

\* The same of a step that pushes an entry, for the document shown or for a new one.
\* A document whose entries ahead are given up is shown, and shows the new one.
LEMMA PushInv ==
  ASSUME NavInv, NEW path \in Path, NEW d \in Ids, NEW doc \in Doc,
         Push(path, d, doc), cookie' \in Sessions \cup {SignedOut, Stale},
         doc.entry = at + 1, DocFits(doc, path),
         d = Entry.doc \/ \A i \in 1..at : entries[i].doc # d
  PROVE  NavInv'
<1> DEFINE e == [path |-> path, doc |-> d]
<1>1. /\ entries' = Append(SubSeq(entries, 1, at), e)
      /\ at < MaxEntries /\ at' = at + 1
      /\ docs' = Pruned(entries', [docs EXCEPT ![d] = doc])
  BY DEF Push
<1>2. e \in [path : Path, doc : Ids] /\ e.path = path /\ e.doc = d
  OBVIOUS
<1> HIDE DEF e
<1>3. /\ entries' \in Seq([path : Path, doc : Ids])
      /\ Len(entries') = at + 1 /\ DOMAIN entries' = 1..(at + 1)
      /\ \A i \in 1..at : entries'[i] = entries[i]
      /\ entries'[at + 1] = e
      /\ at \in Nat \ {0} /\ 1..at \subseteq DOMAIN entries
  BY <1>1, <1>2, PushedEntries DEF NavInv
<1>4. MaxEntries \in Nat /\ docs \in [Ids -> Doc] /\ Blank \in Doc
  <2>1. 1 \in Ids
    BY RoomForOne DEF NavInv, Ids
  <2>2. Blank \in Doc
    BY <2>1, RefusedFits DEF Blank, Path
  <2>3. QED
    BY <2>2, RoomForOne DEF NavInv, NavTyped
<1>5. /\ docs' \in [Ids -> Doc]
      /\ \A i \in DOMAIN entries' :
           docs'[entries'[i].doc]
             = IF entries'[i].doc = d THEN doc ELSE docs[entries'[i].doc]
  <2>1. PICK ds : ds = [docs EXCEPT ![d] = doc]
    OBVIOUS
  <2>2. /\ ds \in [Ids -> Doc]
        /\ \A c \in Ids : ds[c] = IF c = d THEN doc ELSE docs[c]
    BY <1>4, <2>1
  <2>3. docs' = [c \in Ids |-> IF \E i \in DOMAIN entries' : entries'[i].doc = c
                              THEN ds[c] ELSE Blank]
    BY <1>1, <2>1 DEF Pruned
  <2>4. docs' \in [Ids -> Doc]
    BY <1>4, <2>2, <2>3
  <2>5. \A i \in DOMAIN entries' : entries'[i].doc \in Ids
    <3>1. \A i \in 1..at : entries'[i].doc \in Ids
      BY <1>3, EntryTyped DEF NavInv
    <3>2. entries'[at + 1].doc \in Ids
      BY <1>2, <1>3
    <3>3. \A i \in DOMAIN entries' : i \in 1..at \/ i = at + 1
      BY <1>3
    <3>4. QED
      BY <3>1, <3>2, <3>3
  <2>6. ASSUME NEW i \in DOMAIN entries'
        PROVE  docs'[entries'[i].doc]
                 = IF entries'[i].doc = d THEN doc ELSE docs[entries'[i].doc]
    <3>1. PICK c \in Ids : c = entries'[i].doc
      BY <2>5
    <3>2. docs'[c] = ds[c]
      BY <2>3, <3>1
    <3>3. QED
      BY <2>2, <3>1, <3>2
  <2>7. QED
    BY <2>4, <2>6
<1>6. \A i \in 1..at :
        /\ i \in DOMAIN entries /\ entries'[i] = entries[i]
        /\ entries[i].doc # d =>
             /\ docs'[entries'[i].doc] = DocOf(i)
             /\ DocOf(i).entry \in 1..at
  <2>1. SUFFICES ASSUME NEW i \in 1..at, entries[i].doc # d
                 PROVE  docs'[entries'[i].doc] = DocOf(i) /\ DocOf(i).entry \in 1..at
    BY <1>3
  <2>2. i \in DOMAIN entries' /\ i \in DOMAIN entries /\ entries'[i] = entries[i]
    BY <1>3
  <2>3. docs'[entries'[i].doc] = DocOf(i)
    BY <1>5, <2>1, <2>2 DEF DocOf
  <2>4. PICK last \in DOMAIN entries :
          last = DocOf(i).entry /\ entries[last].doc = entries[i].doc
    BY <2>2 DEF NavInv, LastShown
  <2>5. last <= at
    <3>1. SUFFICES ASSUME last > at PROVE FALSE
      BY <1>3 DEF NavInv, NavTyped
    <3>2. entries[at].doc = entries[i].doc
      <4>1. CASE i = at
        BY <4>1
      <4>2. CASE i < at
        BY <2>2, <2>4, <3>1, <4>2 DEF NavInv, NavTyped, Contiguous
      <4>3. QED
        BY <1>3, <4>1, <4>2
    <3>3. DocOf(i).entry = at
      BY <3>2 DEF NavInv, Page, Entry, DocOf
    <3>4. QED
      BY <1>3, <2>4, <3>1, <3>3
  <2>6. QED
    BY <1>3, <2>3, <2>4, <2>5 DEF NavInv, NavTyped
<1>7. /\ docs'[entries'[at + 1].doc] = doc /\ entries'[at + 1].doc = d
      /\ at + 1 \in DOMAIN entries'
  BY <1>2, <1>3, <1>5
<1>8. \A i \in DOMAIN entries' : i \in 1..at \/ i = at + 1
  BY <1>3
<1>9. NavTyped'
  <2>1. at' \in DOMAIN entries' /\ Len(entries') <= MaxEntries
    BY <1>1, <1>3, <1>4
  <2>2. QED
    BY <1>3, <1>5, <2>1 DEF NavInv, NavTyped
<1>10. (Page.entry = at)'
  BY <1>1, <1>7 DEF Page, Entry
<1>11. Contiguous'
  <2>1. SUFFICES ASSUME NEW i \in DOMAIN entries', NEW j \in DOMAIN entries',
                        NEW k \in DOMAIN entries', i < j, j < k,
                        entries'[i].doc = entries'[k].doc
                 PROVE  entries'[j].doc = entries'[i].doc
    BY DEF Contiguous
  <2>2. i \in 1..at /\ j \in 1..at
    BY <1>3, <2>1
  <2>3. CASE k \in 1..at
    BY <1>6, <2>1, <2>2, <2>3 DEF NavInv, Contiguous
  <2>4. CASE k = at + 1
    <3>1. entries[i].doc = d /\ entries[at].doc = d
      BY <1>3, <1>6, <1>7, <2>1, <2>2, <2>4 DEF Entry
    <3>2. entries[j].doc = entries[i].doc
      <4>1. CASE j = at
        BY <3>1, <4>1
      <4>2. CASE j < at
        <5>1. i \in DOMAIN entries /\ j \in DOMAIN entries /\ at \in DOMAIN entries
          BY <1>6, <2>2, EntryTyped DEF NavInv
        <5>2. QED
          BY <2>1, <3>1, <4>2, <5>1 DEF NavInv, Contiguous
      <4>3. QED
        BY <1>3, <2>2, <4>1, <4>2
    <3>3. QED
      BY <1>6, <2>2, <3>2
  <2>5. QED
    BY <1>8, <2>3, <2>4
<1>12. LastShown'
  <2>1. SUFFICES ASSUME NEW i \in DOMAIN entries'
                 PROVE  /\ docs'[entries'[i].doc].entry \in DOMAIN entries'
                        /\ entries'[docs'[entries'[i].doc].entry].doc = entries'[i].doc
    BY DEF LastShown, DocOf
  <2>2. CASE entries'[i].doc = d
    BY <1>5, <1>7, <2>2
  <2>3. CASE entries'[i].doc # d
    <3>1. i \in 1..at
      BY <1>7, <1>8, <2>3
    <3>2. /\ entries'[i] = entries[i] /\ docs'[entries'[i].doc] = DocOf(i)
          /\ DocOf(i).entry \in 1..at /\ entries[DocOf(i).entry].doc = entries[i].doc
      BY <1>6, <2>3, <3>1 DEF NavInv, LastShown
    <3>3. QED
      BY <1>3, <1>6, <3>2
  <2>4. QED
    BY <2>2, <2>3
<1>13. AllFit'
  <2>1. SUFFICES ASSUME NEW i \in DOMAIN entries'
                 PROVE  DocFits(docs'[entries'[i].doc],
                                entries'[docs'[entries'[i].doc].entry].path)
    BY DEF AllFit, DocOf
  <2>2. CASE entries'[i].doc = d
    BY <1>2, <1>3, <1>5, <2>2
  <2>3. CASE entries'[i].doc # d
    <3>1. i \in 1..at
      BY <1>7, <1>8, <2>3
    <3>2. /\ docs'[entries'[i].doc] = DocOf(i) /\ DocOf(i).entry \in 1..at
          /\ DocFits(DocOf(i), entries[DocOf(i).entry].path)
      BY <1>6, <2>3, <3>1 DEF NavInv, AllFit
    <3>3. QED
      BY <1>6, <3>2
  <2>4. QED
    BY <2>2, <2>3
<1>14. QED
  BY <1>9, <1>10, <1>11, <1>12, <1>13 DEF NavInv

\* A new document of the server's.
LEMMA LoadInv ==
  ASSUME NavInv, NEW path \in Path, LoadPath(path)
  PROVE  NavInv'
<1> DEFINE d == UnusedDoc(SubSeq(entries, 1, at))
<1>1. Push(path, d, Served(Visitor, path, at + 1)) /\ at < MaxEntries
      /\ cookie' = Visitor
  BY DEF LoadPath, Push
<1>2. d \in Ids /\ \A i \in 1..at : entries[i].doc # d
  BY <1>1, UnusedFree DEF NavInv
<1> HIDE DEF d
<1>3. at + 1 \in Ids /\ Visitor \in Sessions \cup {SignedOut}
  BY <1>1, RoomForOne, VisitorTyped DEF NavInv, NavTyped, Ids
<1>4. QED
  BY <1>1, <1>2, <1>3, ServedFits, PushInv

\* Nav.init changes nothing that can be seen.
LEMMA NavInitInv ==
  ASSUME NavInv, NavInit
  PROVE  NavInv'
<1>1. PICK doc : doc = [Page EXCEPT !.scripted = TRUE]
  OBVIOUS
<1>2. /\ at \in DOMAIN entries /\ Page \in Doc /\ Page.entry = at
      /\ ~Page.error
      /\ DocFits(Page, entries[at].path)
  BY PageFits DEF NavInit
<1>3. /\ doc \in Doc /\ doc.entry = at /\ (doc.error <=> Page.error)
      /\ (doc.moved <=> Page.moved) /\ (doc.missed <=> Page.missed)
      /\ doc.shown = Page.shown /\ doc.session = Page.session /\ doc.scripted
  BY <1>1, <1>2 DEF Doc
<1>4. DocFits(doc, entries[at].path)
  BY <1>2, <1>3 DEF DocFits
<1>5. docs' = [docs EXCEPT ![entries[at].doc] = doc] /\ at' = at /\ UNCHANGED entries
      /\ cookie' \in Sessions \cup {SignedOut, Stale}
  BY <1>1 DEF NavInit, Page, Entry, NavInv, NavTyped
<1>6. QED
  BY <1>2, <1>3, <1>4, <1>5, ReplacedInv

\* A page is loaded again.
LEMMA ReloadInv ==
  ASSUME NavInv, Reload
  PROVE  NavInv'
<1>1. /\ docs' = [docs EXCEPT ![entries[at].doc] = Served(Visitor, entries[at].path, at)]
      /\ at' = at /\ UNCHANGED entries /\ cookie' = Visitor
  BY DEF Reload, Entry
<1>2. /\ at \in DOMAIN entries /\ at \in Ids /\ entries[at].path \in Path
      /\ Visitor \in Sessions \cup {SignedOut}
  BY EntryTyped, VisitorTyped DEF NavInv, NavTyped
<1>3. PICK doc \in Doc :
        /\ doc = Served(Visitor, entries[at].path, at) /\ doc.entry = at
        /\ DocFits(doc, entries[at].path)
  BY <1>2, ServedFits
<1>4. QED
  BY <1>1, <1>2, <1>3, ReplacedInv

\* A link, followed by the page or by the browser.
LEMMA FollowLinkInv ==
  ASSUME NavInv, NEW path \in Path, FollowLink(path)
  PROVE  NavInv'
<1>1. CASE Page.scripted
  <2>1. Push(path, Entry.doc, UpdateVisiblePage(Page, path, at + 1))
        /\ cookie' = cookie /\ at < MaxEntries
    BY <1>1 DEF FollowLink, Push
  <2>2. /\ at + 1 \in Ids /\ Entry.doc \in Ids
        /\ cookie \in Sessions \cup {SignedOut, Stale}
        /\ Page \in Doc
    <3>1. at + 1 \in Ids
      BY <2>1, RoomForOne, EntryTyped DEF NavInv, Ids
    <3>2. QED
      BY <3>1, PageFits DEF NavInv, NavTyped
  <2>3. ~Page.error
    BY <1>1, PageFits DEF DocFits
  <2>4. QED
    BY <1>1, <2>1, <2>2, <2>3, ChosenFits, PushInv
<1>2. CASE ~Page.scripted
  BY <1>2, LoadInv DEF FollowLink
<1>3. QED
  BY <1>1, <1>2

\* Back, forward or further.
LEMMA TraverseInv ==
  ASSUME NavInv, NEW i \in DOMAIN entries, Traverse(i)
  PROVE  NavInv'
<1>1. PICK kept : kept = docs[entries[i].doc]
  OBVIOUS
<1>2. /\ i \in Ids /\ entries[i].path \in Path /\ kept \in Doc
      /\ cookie \in Sessions \cup {SignedOut, Stale}
      /\ Visitor \in Sessions \cup {SignedOut}
      /\ DocFits(kept, entries[kept.entry].path)
  BY <1>1, EntryTyped, VisitorTyped DEF NavInv, NavTyped, AllFit, DocOf
<1>3. /\ at' = i /\ UNCHANGED entries /\ cookie' \in {cookie, Visitor}
      /\ \/ docs' = [docs EXCEPT ![entries[i].doc] =
                       IF kept.entry # i THEN OnPopState(kept, entries[i].path, i)
                       ELSE kept]
         \/ docs' = [docs EXCEPT ![entries[i].doc] = Served(Visitor, entries[i].path, i)]
  BY <1>1 DEF Traverse
<1>4. ASSUME NEW doc \in Doc, docs' = [docs EXCEPT ![entries[i].doc] = doc],
             doc.entry = i, DocFits(doc, entries[i].path)
      PROVE  NavInv'
  BY <1>2, <1>3, <1>4, ReplacedInv
<1>5. CASE docs' = [docs EXCEPT ![entries[i].doc] = kept] /\ kept.entry = i
  BY <1>2, <1>4, <1>5
<1>6. CASE docs' = [docs EXCEPT ![entries[i].doc] =
                      OnPopState(kept, entries[i].path, i)]
  <2>1. CASE kept.scripted
    <3>1. ~kept.error
      BY <1>2, <2>1 DEF DocFits
    <3>2. OnPopState(kept, entries[i].path, i)
            = UpdateVisiblePage(kept, entries[i].path, i)
      BY <2>1 DEF OnPopState
    <3>3. QED
      BY <1>2, <1>4, <1>6, <2>1, <3>1, <3>2, ChosenFits
  <2>2. CASE ~kept.scripted
    <3>1. PICK doc : doc = [kept EXCEPT !.entry = i, !.missed = TRUE]
      OBVIOUS
    <3>2. OnPopState(kept, entries[i].path, i) = doc
      BY <2>2, <3>1 DEF OnPopState
    <3>3. /\ doc \in Doc /\ doc.entry = i /\ doc.missed
          /\ (doc.error <=> kept.error) /\ (doc.moved <=> kept.moved)
          /\ (doc.scripted <=> kept.scripted)
          /\ doc.shown = kept.shown /\ doc.session = kept.session
      BY <1>2, <3>1 DEF Doc, Ids
    <3>4. DocFits(doc, entries[i].path)
      BY <1>2, <2>2, <3>3 DEF DocFits
    <3>5. QED
      BY <1>4, <1>6, <3>2, <3>3, <3>4
  <2>3. QED
    BY <2>1, <2>2
<1>7. CASE docs' = [docs EXCEPT ![entries[i].doc] = Served(Visitor, entries[i].path, i)]
  BY <1>2, <1>4, <1>7, ServedFits
<1>8. QED
  BY <1>3, <1>5, <1>6, <1>7

\* A form, with its answer.
LEMMA SubmitFormInv ==
  ASSUME NavInv, SubmitForm
  PROVE  NavInv'
<1> DEFINE d == UnusedDoc(SubSeq(entries, 1, at))
<1>1. at < MaxEntries
  BY DEF SubmitForm, Push
<1>2. d \in Ids /\ \A i \in 1..at : entries[i].doc # d
  BY <1>1, UnusedFree DEF NavInv
<1>3. /\ at + 1 \in Ids /\ Visitor \in Sessions \cup {SignedOut} /\ "intro" \in Path
  BY <1>1, RoomForOne, EntryTyped, VisitorTyped DEF NavInv, NavTyped, Ids, Path
<1>4. CASE cookie' \in Sessions \cup {SignedOut}
           /\ Push("intro", d, Served(cookie', "intro", at + 1))
  <2>1. PICK who \in Sessions \cup {SignedOut} : who = cookie'
    BY <1>4
  <2>2. QED
    BY <1>2, <1>3, <1>4, <2>1, ServedFits, PushInv
<1>5. CASE cookie' = Visitor /\ Push("intro", d, Refused(at + 1))
  BY <1>2, <1>3, <1>5, RefusedFits, PushInv
<1>6. QED
  BY <1>4, <1>5 DEF SubmitForm

\* Every step keeps the invariant.
LEMMA NavStep == NavInv /\ [TabNext]_tabVars => NavInv'
<1> SUFFICES ASSUME NavInv, [TabNext]_tabVars PROVE NavInv'
  OBVIOUS
<1>1. CASE UNCHANGED <<entries, at, docs>> /\ cookie' \in Sessions \cup {SignedOut, Stale}
  BY <1>1 DEF NavInv, NavTyped, Page, Entry, Contiguous,
              LastShown, AllFit, DocOf
<1>2. CASE UNCHANGED tabVars
  BY <1>1, <1>2 DEF tabVars, NavInv, NavTyped
<1>3. ASSUME NEW path \in Path, TypePath(path) PROVE NavInv'
  BY <1>3, LoadInv DEF TypePath
<1>4. ASSUME NEW path \in Path, FollowLink(path) PROVE NavInv'
  BY <1>4, FollowLinkInv
<1>5. CASE Reload
  BY <1>5, ReloadInv
<1>6. CASE NavInit
  BY <1>6, NavInitInv
<1>7. CASE SubmitForm
  BY <1>7, SubmitFormInv
<1>8. CASE SignInOrOut
  BY <1>1, <1>8 DEF SignInOrOut
<1>9. ASSUME NEW i \in DOMAIN entries, Traverse(i) PROVE NavInv'
  BY <1>9, TraverseInv
<1>10. QED
  BY <1>2, <1>3, <1>4, <1>5, <1>6, <1>7, <1>8, <1>9 DEF TabNext

\* The first page comes from the server.
LEMMA InitNavInv == TabInit => NavInv
<1> SUFFICES ASSUME TabInit PROVE NavInv
  OBVIOUS
<1>1. PICK path \in Path :
        /\ entries = <<[path |-> path, doc |-> 1]>>
        /\ docs = [d \in Ids |-> IF d = 1 THEN Served(cookie, path, 1) ELSE Blank]
  BY DEF TabInit
<1>2. /\ at = 1 /\ cookie \in Sessions \cup {SignedOut} /\ 1 \in Ids
      /\ MaxEntries \in Nat \ {0}
  BY NavAssumption DEF NavAssumption, TabInit, Ids
<1>3. /\ Served(cookie, path, 1) \in Doc /\ Served(cookie, path, 1).entry = 1
      /\ DocFits(Served(cookie, path, 1), path) /\ Blank \in Doc
  BY <1>2, ServedFits, RefusedFits DEF Blank
<1>4. docs \in [Ids -> Doc] /\ docs[1] = Served(cookie, path, 1)
  BY <1>1, <1>2, <1>3
<1>5. /\ entries \in Seq([path : Path, doc : Ids]) /\ Len(entries) = 1
      /\ DOMAIN entries = {1} /\ entries[1].doc = 1 /\ entries[1].path = path
  BY <1>1, <1>2
<1>6. NavTyped
  BY <1>2, <1>4, <1>5 DEF NavTyped
<1>7. Contiguous /\ Page.entry = at
  BY <1>2, <1>3, <1>4, <1>5 DEF Contiguous, Page, Entry
<1>8. LastShown /\ AllFit
  BY <1>3, <1>4, <1>5 DEF LastShown, AllFit, DocOf
<1>9. QED
  BY <1>6, <1>7, <1>8 DEF NavInv

-----------------------------------------------------------------------------

\* Whatever way the visitor came through documents and history.
THEOREM ShownFitsSession == TabSpec => []ShownAsRendered
<1>1. NavInv => ShownAsRendered
  <2> SUFFICES ASSUME NavInv PROVE ShownAsRendered
    OBVIOUS
  <2>1. TabTypeOK
    BY DEF TabTypeOK, NavInv, NavTyped, Contiguous, LastShown, DocOf
  <2>2. /\ Page \in Doc /\ Entry.path \in Path
        /\ DocFits(Page, Entry.path)
    BY PageFits
  <2>3. Page.session \in Sessions \cup {SignedOut}
    BY <2>2 DEF Doc
  <2>4. AsRendered
    <3>1. CASE Page.moved /\ Page.session = SignedOut
      <4>1. Page.shown = Rendered(Entry.path, Page.session)
        BY <2>2, <2>3, <3>1, RenderedSections DEF DocFits
      <4>2. QED
        BY <4>1 DEF AsRendered
    <3>2. CASE ~Page.moved
      BY <2>2, <3>2 DEF AsRendered, DocFits
    <3>3. QED
      BY <3>1, <3>2 DEF AsRendered
  <2>5. OneSection
    <3>1. ASSUME ~Page.error PROVE Page.shown # {}
      <4>1. CASE Page.moved
        BY <2>2, <4>1 DEF DocFits
      <4>2. CASE ~Page.moved
        BY <2>2, <2>3, <3>1, <4>2, RenderedSections DEF DocFits
      <4>3. QED
        BY <4>1, <4>2
    <3>2. QED
      BY <2>2, <3>1 DEF OneSection, DocFits
  <2>6. TokenAtHand
    <3>1. SUFFICES ASSUME NEW i \in DOMAIN entries, "pinplace" \in DocOf(i).shown
                   PROVE  DocOf(i).session # SignedOut
      BY DEF TokenAtHand, DocOf
    <3>2. /\ DocOf(i) \in Doc /\ entries[DocOf(i).entry].path \in Path
          /\ DocFits(DocOf(i), entries[DocOf(i).entry].path)
      BY EntryTyped DEF NavInv, LastShown, AllFit
    <3>3. DocOf(i).session \in Sessions \cup {SignedOut} /\ "pinplace" \notin Path
      BY <3>2 DEF Doc, Path
    <3>4. ~DocOf(i).error /\ ~DocOf(i).moved
      BY <3>1, <3>2, <3>3 DEF DocFits
    <3>5. QED
      BY <3>1, <3>2, <3>3, <3>4, RenderedSections DEF DocFits
  <2>7. QED
    BY <2>1, <2>4, <2>5, <2>6 DEF ShownAsRendered
<1>2. QED
  BY InitNavInv, NavStep, <1>1, PTL DEF TabSpec

-----------------------------------------------------------------------------
(* The values of coordinates (PinValues). *)

\* Anything but null parses to a number of the page, and to the column's own value
\* unless that is an infinity.
LEMMA ParsedColumn ==
  ASSUME NEW x \in Column, x # Null
  PROVE  /\ ParseFloat(x) \in Numbers \cup {NaN}
         /\ ParseFloat(x) # NaN => ParseFloat(x) = SixDecimals(x)
         /\ x # Inf => /\ ParseFloat(x) = SixDecimals(x)
                       /\ ParseFloat(x) # NaN /\ ParseFloat(x) # Null
BY ValuesAssumption DEF ValuesAssumption, Column, ParseFloat, SixDecimals

\* A row the query lists is scanned whole.
LEMMA ListedRow ==
  ASSUME NEW row \in Pair(Column), BothNotNull(row)
  PROVE  ParseCSV(row) = [lat |-> ParseFloat(row.lat),
                                 lon |-> ParseFloat(row.lon)]
BY DEF BothNotNull, ParseCSV, Scanned, Pair

\* What a page has listed of a user: nothing, or a row without nulls as it is parsed.
Faithful ==
  /\ ValuesTypeOK
  /\ \A u \in Users :
       \/ page.pins[u] = NoPin
       \/ /\ BothNotNull(page.rows[u])
          /\ page.pins[u] = [lat |-> ParseFloat(page.rows[u].lat),
                             lon |-> ParseFloat(page.rows[u].lon)]
  /\ page.of # Null /\ ~page.well =>
       page.of \in Users /\ BothNotNull(page.rows[page.of])
         /\ page.pins[page.of] = [lat |-> ParseFloat(page.rows[page.of].lat),
                                  lon |-> ParseFloat(page.rows[page.of].lon)]

\* Whatever UpdatePin takes is a column afterwards.
LEMMA UpdateFaithful ==
  ASSUME Faithful, NEW u \in Users, NEW lat \in Field, NEW lon \in Field,
         UpdatePin(u, lat, lon)
  PROVE  Faithful'
<1>1. page' = page
  BY DEF UpdatePin
<1>2. rows' \in [Users -> Pair(Column)]
  <2>1. NoPin \in Pair(Column)
    BY DEF NoPin, Pair, Column
  <2>2. ASSUME BothParse(lat, lon)
        PROVE  [lat |-> ToColumn(lat), lon |-> ToColumn(lon)]
                 \in Pair(Column)
    BY <2>2 DEF BothParse, ToColumn, Pair, Column
  <2>3. QED
    BY <2>1, <2>2 DEF Faithful, ValuesTypeOK, UpdatePin, RemovePin,
                      SetPin
<1>3. QED
  BY <1>1, <1>2 DEF Faithful, ValuesTypeOK

\* A page lists the rows the query keeps, as it parses them.
LEMMA LoadFaithful ==
  ASSUME Faithful, NEW me \in Users \cup {Null}, Load(me)
  PROVE  Faithful'
<1> DEFINE kept == {u \in Users : BothNotNull(rows[u])}
<1>1. /\ rows' = rows
      /\ page' = [of |-> me,
                  pins |-> [u \in Users |-> IF u \in kept THEN ParseCSV(rows[u])
                                            ELSE NoPin],
                  well |-> me \notin kept, rows |-> rows]
  BY DEF Load, WellFilled
<1>2. \A u \in Users : rows[u] \in Pair(Column)
  BY DEF Faithful, ValuesTypeOK
<1>3. \A u \in kept :
        /\ ParseCSV(rows[u]) = [lat |-> ParseFloat(rows[u].lat),
                                       lon |-> ParseFloat(rows[u].lon)]
        /\ ParseCSV(rows[u]) \in Pair(Numbers \cup {NaN})
  <2> SUFFICES ASSUME NEW u \in kept
               PROVE  /\ ParseCSV(rows[u])
                           = [lat |-> ParseFloat(rows[u].lat),
                              lon |-> ParseFloat(rows[u].lon)]
                      /\ ParseCSV(rows[u]) \in Pair(Numbers \cup {NaN})
    OBVIOUS
  <2>1. ParseCSV(rows[u]) = [lat |-> ParseFloat(rows[u].lat),
                                    lon |-> ParseFloat(rows[u].lon)]
    BY <1>2, ListedRow
  <2>2. /\ rows[u].lat \in Column /\ rows[u].lat # Null
        /\ rows[u].lon \in Column /\ rows[u].lon # Null
    BY <1>2 DEF BothNotNull, Pair
  <2>3. /\ ParseFloat(rows[u].lat) \in Numbers \cup {NaN}
        /\ ParseFloat(rows[u].lon) \in Numbers \cup {NaN}
    BY <2>2, ParsedColumn
  <2>4. QED
    BY <2>1, <2>3 DEF Pair
<1>4. ValuesTypeOK'
  BY <1>1, <1>3 DEF Faithful, ValuesTypeOK
<1>5. QED
  BY <1>1, <1>3, <1>4 DEF Faithful

\* Faithful is inductive.
LEMMA FaithfulStep == Faithful /\ [ValuesNext]_valuesVars => Faithful'
<1> SUFFICES ASSUME Faithful, [ValuesNext]_valuesVars PROVE Faithful'
  OBVIOUS
<1>1. CASE UNCHANGED valuesVars
  BY <1>1 DEF valuesVars, Faithful, ValuesTypeOK
<1>2. ASSUME NEW u \in Users, NEW lat \in Field, NEW lon \in Field,
             UpdatePin(u, lat, lon)
      PROVE  Faithful'
  BY <1>2, UpdateFaithful
<1>3. ASSUME NEW me \in Users \cup {Null}, Load(me) PROVE Faithful'
  BY <1>3, LoadFaithful
<1>4. QED
  BY <1>1, <1>2, <1>3 DEF ValuesNext

\* At first there are no pins.
LEMMA InitFaithful == ValuesInit => Faithful
<1> SUFFICES ASSUME ValuesInit PROVE Faithful
  OBVIOUS
<1>1. NoPin \in Pair(Column)
  BY DEF NoPin, Pair, Column
<1>2. QED
  BY <1>1 DEF ValuesInit, Faithful, ValuesTypeOK

\* The page draws a pin only where its user has put it, to six decimals, and a signed-in visitor has a
\* pin to drag or to see, or has posted an infinity.
THEOREM ValuesAsPosted == ValuesSpec => []PinsAsPosted
<1>1. Faithful => PinsAsPosted
  <2> SUFFICES ASSUME Faithful PROVE NoPhantomPin /\ PlaceOrPin
    BY DEF PinsAsPosted, Faithful
  <2>1. \A u \in Users : page.rows[u] \in Pair(Column)
    BY DEF Faithful, ValuesTypeOK
  <2>2. NoPhantomPin
    <3> SUFFICES ASSUME NEW u \in Users, Shown(u), Drawn(u)
                 PROVE  page.pins[u] = [lat |-> SixDecimals(page.rows[u].lat),
                                        lon |-> SixDecimals(page.rows[u].lon)]
      BY DEF NoPhantomPin
    <3>1. /\ BothNotNull(page.rows[u])
          /\ page.pins[u] = [lat |-> ParseFloat(page.rows[u].lat),
                             lon |-> ParseFloat(page.rows[u].lon)]
      BY DEF Faithful, Shown
    <3>2. /\ ParseFloat(page.rows[u].lat) # NaN
          /\ ParseFloat(page.rows[u].lon) # NaN
      BY <3>1 DEF Drawn
    <3>3. /\ ParseFloat(page.rows[u].lat) = SixDecimals(page.rows[u].lat)
          /\ ParseFloat(page.rows[u].lon) = SixDecimals(page.rows[u].lon)
      BY <2>1, <3>1, <3>2, ParsedColumn DEF BothNotNull, Pair
    <3>4. QED
      BY <3>1, <3>3
  <2>3. PlaceOrPin
    <3> DEFINE me == page.of
    <3> SUFFICES ASSUME me # Null, ~page.well,
                        Inf \notin {page.rows[me].lat, page.rows[me].lon}
                 PROVE  Shown(me) /\ Drawn(me)
      BY DEF PlaceOrPin
    <3>1. /\ me \in Users /\ BothNotNull(page.rows[me])
          /\ page.pins[me] = [lat |-> ParseFloat(page.rows[me].lat),
                              lon |-> ParseFloat(page.rows[me].lon)]
      BY DEF Faithful
    <3>2. /\ ParseFloat(page.rows[me].lat) # Null
          /\ ParseFloat(page.rows[me].lat) # NaN
          /\ ParseFloat(page.rows[me].lon) # NaN
      BY <2>1, <3>1, ParsedColumn DEF BothNotNull, Pair
    <3>3. QED
      BY <3>1, <3>2 DEF Shown, Drawn, NoPin, BothNotNull
  <2>4. QED
    BY <2>2, <2>3
<1>2. QED
  BY InitFaithful, FaithfulStep, <1>1, PTL DEF ValuesSpec
=============================================================================
