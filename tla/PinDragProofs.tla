--------------------------- MODULE PinDragProofs ---------------------------
(***************************************************************************)
(* Proofs about PinDrag: one lemma on what each handler makes of ui, then  *)
(* the inductive invariants, one lemma per action.                         *)
(***************************************************************************)
EXTENDS PinDrag, SequenceTheorems, TLAPS

\* A ray hits the place under the mouse or nothing.
LEMMA RaycastPin ==
  ASSUME NEW p
  PROVE  Raycast(p) \in Pins /\ (Raycast(p) # None => p \in Positions /\ Raycast(p) = p)
BY DEF Raycast, Pins

\* Entering the globe shows the pin there and hides it under the mouse.
LEMMA EnterUI ==
  ASSUME NEW u \in UI, NEW p, NEW v, v = GlobeEnter(u, p)
  PROVE  /\ v \in UI
         /\ v.mode = "dragGlobe" /\ v.globe = "hoveringWithPin"
         /\ ~v.drag /\ v.dragPin /\ v.scene = u.scene + 1
         /\ v.empty = u.empty /\ v.mine = u.mine /\ v.own = u.own
<1>1. u.scene + 1 \in Nat
  BY DEF UI
<1> DEFINE n == u.scene + 1
<1>2. v = [u EXCEPT !.drag = FALSE, !.dragPin = TRUE, !.scene = n,
                    !.globe = "hoveringWithPin", !.mode = "dragGlobe"]
  BY DEF GlobeEnter
<1>3. n \in Nat
  BY <1>1
<1> HIDE DEF n
<1>4. v \in UI
  BY <1>2, <1>3 DEF UI
<1>5. /\ v.mode = "dragGlobe" /\ v.globe = "hoveringWithPin"
      /\ ~v.drag /\ v.dragPin /\ v.scene = n
      /\ v.empty = u.empty /\ v.mine = u.mine /\ v.own = u.own
  BY <1>2 DEF UI
<1>6. QED
  BY <1>4, <1>5 DEF n

\* Taking the visitor's pin from the globe.
LEMMA TakeUI ==
  ASSUME NEW u \in UI, u.mine # None => u.own >= 1, NEW v, v = TakePin(u)
  PROVE  /\ v \in UI
         /\ v.mine = None
         /\ v.own = (IF u.mine = None THEN u.own ELSE u.own - 1)
         /\ v.mode = u.mode /\ v.globe = u.globe /\ v.drag = u.drag
         /\ v.empty = u.empty /\ v.dragPin = u.dragPin /\ v.scene = u.scene
<1>1. CASE u.mine = None
  BY <1>1 DEF TakePin
<1>2. CASE u.mine # None
  <2> DEFINE n == u.own - 1
  <2>1. n \in Nat
    BY <1>2 DEF UI
  <2>2. v = [u EXCEPT !.mine = None, !.own = n]
    BY <1>2 DEF TakePin
  <2> HIDE DEF n
  <2>3. /\ v \in UI /\ v.mine = None /\ v.own = n
        /\ v.mode = u.mode /\ v.globe = u.globe /\ v.drag = u.drag
        /\ v.empty = u.empty /\ v.dragPin = u.dragPin /\ v.scene = u.scene
    BY <2>1, <2>2 DEF UI, Pins
  <2>4. QED
    BY <1>2, <2>3 DEF n
<1>3. QED
  BY <1>1, <1>2

\* A drag that starts beside the globe.
LEMMA PullBeside ==
  ASSUME NEW u \in UI, u.mine # None => u.own >= 1,
         NEW p, Raycast(p) = None, NEW v, v = DocumentMove(DragStart(u, p), p)
  PROVE  /\ v \in UI
         /\ v.mode = "dragVoid" /\ v.drag /\ v.empty /\ v.mine = None
         /\ v.own = (IF u.mine = None THEN u.own ELSE u.own - 1)
         /\ v.globe = u.globe /\ v.dragPin = u.dragPin /\ v.scene = u.scene
<1> DEFINE w == [u EXCEPT !.mode = "rest", !.empty = TRUE, !.drag = TRUE]
           t == TakePin(w)
<1>1. /\ w \in UI /\ w.mode = "rest" /\ w.empty /\ w.drag /\ w.mine = u.mine
      /\ w.own = u.own /\ w.globe = u.globe /\ w.dragPin = u.dragPin /\ w.scene = u.scene
  BY DEF UI
<1>2. DragStart(u, p) = [t EXCEPT !.mode = "dragVoid"]
  BY DEF DragStart, DragMove, UI
<1> HIDE DEF w
<1>3. /\ t \in UI /\ t.mine = None
      /\ t.own = (IF w.mine = None THEN w.own ELSE w.own - 1)
      /\ t.globe = w.globe /\ t.drag = w.drag /\ t.empty = w.empty
      /\ t.dragPin = w.dragPin /\ t.scene = w.scene
  BY <1>1, TakeUI
<1> HIDE DEF t
<1>4. v = [t EXCEPT !.mode = "dragVoid"]
  BY <1>2, <1>3 DEF DocumentMove, DragMove, UI
<1>5. QED
  BY <1>1, <1>3, <1>4 DEF UI

\* A drag that starts over the globe enters it twice.
LEMMA PullOver ==
  ASSUME NEW u \in UI, u.mine # None => u.own >= 1,
         NEW p, Raycast(p) # None, NEW v, v = DocumentMove(DragStart(u, p), p)
  PROVE  /\ v \in UI
         /\ v.mode = "dragGlobe" /\ ~v.drag /\ v.empty /\ v.mine = None
         /\ v.own = (IF u.mine = None THEN u.own ELSE u.own - 1)
         /\ v.globe = "hoveringWithPin" /\ v.dragPin /\ v.scene = u.scene + 2
<1> DEFINE w == [u EXCEPT !.mode = "rest", !.empty = TRUE]
           e == GlobeEnter(w, p)
           d == [e EXCEPT !.drag = TRUE]
           t == TakePin(d)
           s == [t EXCEPT !.mode = "dragVoid"]
<1>1. /\ w \in UI /\ w.empty /\ w.mine = u.mine /\ w.own = u.own /\ w.scene = u.scene
  BY DEF UI
<1>2. DragStart(u, p) = s
  BY DEF DragStart, DragMove
<1> HIDE DEF w
<1>3. /\ e \in UI /\ e.scene = w.scene + 1
      /\ e.empty = w.empty /\ e.mine = w.mine /\ e.own = w.own
  BY <1>1, EnterUI
<1> HIDE DEF e
<1>4. /\ d \in UI /\ d.scene = e.scene
      /\ d.empty = e.empty /\ d.mine = e.mine /\ d.own = e.own
  BY <1>3 DEF UI
<1> HIDE DEF d
<1>5. /\ t \in UI /\ t.mine = None
      /\ t.own = (IF d.mine = None THEN d.own ELSE d.own - 1)
      /\ t.empty = d.empty /\ t.scene = d.scene
  BY <1>1, <1>3, <1>4, TakeUI
<1> HIDE DEF t
<1>6. /\ s \in UI /\ s.mode = "dragVoid" /\ s.mine = None /\ s.own = t.own
      /\ s.empty = t.empty /\ s.scene = t.scene
  BY <1>5 DEF UI, Pins
<1> HIDE DEF s
<1>7. v = GlobeEnter(s, p)
  BY <1>2, <1>6 DEF DocumentMove, DragMove
<1>8. /\ v \in UI
      /\ v.mode = "dragGlobe" /\ v.globe = "hoveringWithPin"
      /\ ~v.drag /\ v.dragPin /\ v.scene = s.scene + 1
      /\ v.empty = s.empty /\ v.mine = s.mine /\ v.own = s.own
  BY <1>6, <1>7, EnterUI
<1>9. QED
  BY <1>1, <1>3, <1>4, <1>5, <1>6, <1>8 DEF UI

\* The drag pin leaves the scene.
LEMMA GoneUI ==
  ASSUME NEW u \in UI, u.scene >= 1, NEW v, v = DragPinGone(u)
  PROVE  /\ v \in UI /\ ~v.dragPin /\ v.scene = u.scene - 1
         /\ v.mode = u.mode /\ v.globe = u.globe /\ v.drag = u.drag
         /\ v.empty = u.empty /\ v.mine = u.mine /\ v.own = u.own
<1> DEFINE n == u.scene - 1
<1>1. n \in Nat
  BY DEF UI
<1>2. v = [u EXCEPT !.scene = n, !.dragPin = FALSE]
  BY DEF DragPinGone
<1> HIDE DEF n
<1>3. /\ v \in UI /\ ~v.dragPin /\ v.scene = n
      /\ v.mode = u.mode /\ v.globe = u.globe /\ v.drag = u.drag
      /\ v.empty = u.empty /\ v.mine = u.mine /\ v.own = u.own
  BY <1>1, <1>2 DEF UI
<1>4. QED
  BY <1>3 DEF n

\* Leaving the globe.
LEMMA LeaveUI ==
  ASSUME NEW u \in UI, u.scene >= 1, NEW p, Raycast(p) = None,
         NEW v, v = GlobeLeave(u, p)
  PROVE  /\ v \in UI /\ v.mode = "dragVoid" /\ v.globe = "rest" /\ v.drag
         /\ ~v.dragPin /\ v.scene = u.scene - 1
         /\ v.empty = u.empty /\ v.mine = u.mine /\ v.own = u.own
<1> DEFINE g == DragPinGone(u)
<1>1. /\ g \in UI /\ ~g.dragPin /\ g.scene = u.scene - 1
      /\ g.empty = u.empty /\ g.mine = u.mine /\ g.own = u.own
  BY GoneUI
<1>2. v = [g EXCEPT !.drag = TRUE, !.globe = "rest", !.mode = "dragVoid"]
  BY DEF GlobeLeave, DragMove
<1> HIDE DEF g
<1>3. QED
  BY <1>1, <1>2 DEF UI

\* Dropping the pin on the globe or, where the ray misses, nowhere.
LEMMA UpUI ==
  ASSUME NEW u \in UI, u.scene >= 1, NEW p, NEW v, v = GlobeUp(u, p)
  PROVE  /\ v \in UI /\ v.mode = "rest" /\ v.globe = "rest" /\ ~v.drag
         /\ ~v.dragPin /\ v.scene = u.scene - 1 /\ v.empty = u.empty
         /\ v.mine = (IF Raycast(p) = None THEN u.mine ELSE p)
         /\ v.own = (IF Raycast(p) = None THEN u.own ELSE u.own + 1)
<1> DEFINE n == u.own + 1
           w == IF Raycast(p) = None THEN u ELSE [u EXCEPT !.mine = p, !.own = n]
           g == DragPinGone(w)
<1>1. n \in Nat
  BY DEF UI
<1>2. v = [g EXCEPT !.drag = FALSE, !.globe = "rest", !.mode = "rest"]
  BY DEF GlobeUp
<1> HIDE DEF n
<1>3. /\ w \in UI /\ w.scene = u.scene /\ w.empty = u.empty
      /\ w.mine = (IF Raycast(p) = None THEN u.mine ELSE p)
      /\ w.own = (IF Raycast(p) = None THEN u.own ELSE n)
  <2>1. CASE Raycast(p) = None
    BY <2>1
  <2>2. CASE Raycast(p) # None
    BY <1>1, <2>2, RaycastPin DEF UI, Pins
  <2>3. QED
    BY <2>1, <2>2
<1> HIDE DEF w
<1>4. /\ g \in UI /\ ~g.dragPin /\ g.scene = w.scene - 1
      /\ g.empty = w.empty /\ g.mine = w.mine /\ g.own = w.own
  BY <1>3, GoneUI
<1> HIDE DEF g
<1>5. QED
  BY <1>2, <1>3, <1>4 DEF UI, n

\* Turning the globe begins or ends; nothing else changes.
LEMMA TurnUI ==
  ASSUME NEW u \in UI, NEW v, v = GlobePress(u) \/ v = GlobeRelease(u)
  PROVE  /\ v \in UI
         /\ v.globe = "hoveringWithPin" <=> u.globe = "hoveringWithPin"
         /\ v.mode = u.mode /\ v.drag = u.drag /\ v.empty = u.empty
         /\ v.dragPin = u.dragPin /\ v.scene = u.scene /\ v.mine = u.mine
         /\ v.own = u.own
BY DEF GlobePress, GlobeRelease, UI

\* The page as it starts shows the last of the lines it was served.
LEMMA StartUI ==
  ASSUME NEW lines \in Seq(Positions), NEW v, v = PopulatePins(lines)
  PROVE  /\ v \in UI /\ v.mode = "rest" /\ v.globe = "rest" /\ ~v.drag
         /\ ~v.dragPin /\ v.scene = 0 /\ v.own = Len(lines)
         /\ v.empty <=> lines # <<>>
         /\ v.mine = (IF lines = <<>> THEN None ELSE Last(lines))
         /\ lines # <<>> => v.mine \in Positions
<1> DEFINE m == IF lines = <<>> THEN None ELSE Last(lines)
           n == Len(lines)
           e == lines # <<>>
<1>1. m \in Pins /\ n \in Nat /\ e \in BOOLEAN /\ (e => m \in Positions)
  BY DEF Pins, Last
<1>2. v = [mode |-> "rest", globe |-> "rest", drag |-> FALSE, empty |-> e,
           dragPin |-> FALSE, scene |-> 0, mine |-> m, own |-> n]
  BY DEF PopulatePins, Blank
<1>3. v.own = Len(lines) /\ v.mine = (IF lines = <<>> THEN None ELSE Last(lines))
  BY <1>2
<1>4. lines # <<>> => m \in Positions
  BY <1>1
<1> HIDE DEF m, n, e
<1>5. /\ v \in UI /\ v.mode = "rest" /\ v.globe = "rest" /\ ~v.drag
      /\ ~v.dragPin /\ v.scene = 0 /\ v.mine = m
  BY <1>1, <1>2 DEF UI
<1>6. v.empty = e
  BY <1>2
<1>7. v.empty <=> lines # <<>>
  BY <1>6 DEF e
<1>8. QED
  BY <1>3, <1>4, <1>5, <1>7

\* The page before it starts.
LEMMA BlankUI ==
  /\ Blank \in UI /\ Blank.mode = "rest" /\ Blank.globe = "rest"
  /\ ~Blank.drag /\ Blank.empty /\ ~Blank.dragPin /\ Blank.scene = 0
  /\ Blank.mine = None /\ Blank.own = 0
BY DEF Blank, UI, Pins

-----------------------------------------------------------------------------
(* IInv is inductive. *)

\* The part of IInv that only ui and leapt decide.
UIInv(u, l) ==
  /\ u \in UI
  /\ u.mode = "dragGlobe" <=> u.globe = "hoveringWithPin"
  /\ u.mode = "dragGlobe" <=> u.dragPin
  /\ u.mode = "dragVoid" <=> u.drag
  /\ ~l => u.scene = (IF u.dragPin THEN 1 ELSE 0)
  /\ u.mine # None => u.own >= 1
  /\ u.dragPin => u.scene >= 1
  /\ u.mode \in {"dragVoid", "dragGlobe"} => u.mine = None /\ u.empty
  /\ twin = None => u.own = (IF u.mine = None THEN 0 ELSE 1)

\* The rest of it.
NetInv ==
  /\ ptr \in Places
  /\ pending \subseteq Resources
  /\ served \in BOOLEAN /\ csv \in Seq(Positions)
  /\ posts \subseteq [pin : Pins, ver : 1..MaxVer]
  /\ row \in [pin : Pins, ver : 0..MaxVer] /\ twin \in Pins
  /\ lastVer \in 0..MaxVer /\ loads \in 1..MaxLoads /\ seen \in 0..lastVer
  /\ causes \subseteq {"twin", "misread", "cached", "dropped", "overtaken", "late",
                      "refused"}
  /\ leapt \in BOOLEAN
  /\ twin = None => Len(csv) <= 1

\* IInv is an invariant of the page and one of the rest.
LEMMA IInvParts == IInv <=> UIInv(ui, leapt) /\ NetInv
BY DEF IInv, UIInv, NetInv, TypeOK, ModesAgree, StrayOnlyIfLeapt, OneOwnPin, Counts

\* The same of the next state.
LEMMA IInvPrime ==
  ASSUME twin' = twin, UIInv(ui', leapt'), NetInv'
  PROVE  IInv'
BY DEF IInv, UIInv, NetInv, TypeOK, ModesAgree, StrayOnlyIfLeapt, OneOwnPin, Counts

\* A page that was served no line of the visitor's.
LEMMA NoLines == <<>> \in Seq(Positions) /\ Len(<<>>) <= 1
BY EmptySeq

\* The first page has not started; nothing was posted.
LEMMA InitIInv == Init => IInv
<1> SUFFICES ASSUME Init PROVE IInv
  OBVIOUS
<1>1. UIInv(ui, leapt)
  BY BlankUI DEF Init, UIInv
<1>2. ptr \in Places /\ twin \in Pins /\ posts = {}
  BY DEF Init, Places
<1>3. row \in [pin : Pins, ver : 0..MaxVer] /\ lastVer \in 0..MaxVer
  BY PinAssumption DEF Init
<1>4. loads \in 1..MaxLoads /\ seen \in 0..lastVer
  BY PinAssumption DEF Init
<1>5. NetInv
  BY <1>2, <1>3, <1>4, NoLines DEF Init, NetInv
<1>6. QED
  BY <1>1, <1>5, IInvParts

\* The pin leaves the well.
LEMMA PullIInv ==
  ASSUME IInv, NEW p \in Places, Pull(p)
  PROVE  IInv'
<1>1. UIInv(ui, leapt) /\ NetInv
  BY IInvParts
<1>2. NetInv' /\ twin' = twin
  BY <1>1 DEF NetInv, Pull, net, server, page
<1>3. UIInv(ui', leapt')
  <2>1. /\ ui \in UI /\ ui.mine # None => ui.own >= 1
        /\ ui.mode = "wellPressed" /\ ui' = DocumentMove(DragStart(ui, p), p)
        /\ leapt' = (leapt \/ Raycast(p) # None)
    BY <1>1 DEF UIInv, Pull
  <2>2. CASE Raycast(p) = None
    BY <1>1, <2>1, <2>2, PullBeside DEF UIInv, UI
  <2>3. CASE Raycast(p) # None
    BY <1>1, <2>1, <2>3, PullOver DEF UIInv, UI
  <2>4. QED
    BY <2>2, <2>3
<1>4. QED
  BY <1>2, <1>3, IInvPrime

\* The mouse moves, with or without the pin.
LEMMA MoveIInv ==
  ASSUME IInv, NEW p \in Places, Move(p)
  PROVE  IInv'
<1>1. UIInv(ui, leapt) /\ NetInv
  BY IInvParts
<1>2. NetInv' /\ twin' = twin
  BY <1>1 DEF NetInv, Move, net, server, page
<1>3. UIInv(ui', leapt')
  <2>1. ui \in UI /\ leapt' = leapt
    BY <1>1 DEF UIInv, Move
  <2>2. CASE ui' = ui
    BY <1>1, <2>1, <2>2
  <2>3. CASE ui.mode = "dragVoid" /\ ui' = GlobeEnter(ui, p)
    BY <1>1, <2>1, <2>3, EnterUI DEF UIInv, UI
  <2>4. CASE ui.mode = "dragGlobe" /\ Raycast(p) = None /\ ui' = GlobeLeave(ui, p)
    <3>1. ui.scene >= 1
      BY <1>1, <2>4 DEF UIInv
    <3>2. QED
      BY <1>1, <2>1, <2>4, <3>1, LeaveUI DEF UIInv, UI
  <2>5. QED
    BY <2>2, <2>3, <2>4 DEF Move, DocumentMove, DragMove, GlobeMove
<1>4. QED
  BY <1>2, <1>3, IInvPrime

\* The well is pressed, or the globe begins to turn.
LEMMA PressIInv ==
  ASSUME IInv, Press
  PROVE  IInv'
<1>1. UIInv(ui, leapt) /\ NetInv
  BY IInvParts
<1>2. NetInv' /\ twin' = twin
  BY <1>1 DEF NetInv, Press, net, server, page
<1>3. UIInv(ui', leapt')
  <2>1. ui \in UI /\ leapt' = leapt
    BY <1>1 DEF UIInv, Press
  <2>2. CASE ui.mode = "rest" /\ ui' = [ui EXCEPT !.mode = "wellPressed"]
    BY <1>1, <2>1, <2>2 DEF UIInv, UI
  <2>3. CASE ui' = GlobePress(ui)
    BY <1>1, <2>1, <2>3, TurnUI DEF UIInv
  <2>4. QED
    BY <2>2, <2>3 DEF Press
<1>4. QED
  BY <1>2, <1>3, IInvPrime

\* Released without the pin.
LEMMA ReleaseIInv ==
  ASSUME IInv, Release
  PROVE  IInv'
<1>1. UIInv(ui, leapt) /\ NetInv
  BY IInvParts
<1>2. NetInv' /\ twin' = twin
  BY <1>1 DEF NetInv, Release, net, server, page
<1>3. UIInv(ui', leapt')
  <2> DEFINE w == [ui EXCEPT !.mode = "rest"]
  <2>1. leapt' = leapt /\ ui' = GlobeRelease(w)
    BY DEF Release
  <2>2. UIInv(w, leapt)
    BY <1>1 DEF UIInv, UI, Release
  <2> HIDE DEF w
  <2>3. QED
    BY <2>1, <2>2, TurnUI DEF UIInv
<1>4. QED
  BY <1>2, <1>3, IInvPrime

\* What a post adds to the network.
LEMMA PostNet ==
  ASSUME NetInv, NEW pin \in Pins, Post(pin), UNCHANGED <<ptr, server, page, leapt>>
  PROVE  NetInv' /\ twin' = twin
<1>1. lastVer + 1 \in 1..MaxVer /\ lastVer' = lastVer + 1 /\ lastVer \in Nat
  BY PinAssumption DEF NetInv, Post
<1>2. [pin |-> pin, ver |-> lastVer + 1] \in [pin : Pins, ver : 1..MaxVer]
  BY <1>1
<1>3. posts' \subseteq [pin : Pins, ver : 1..MaxVer]
  BY <1>2 DEF NetInv, Post
<1>4. lastVer' \in 0..MaxVer /\ seen' \in 0..lastVer'
  BY <1>1, PinAssumption DEF NetInv, page
<1>5. QED
  BY <1>3, <1>4 DEF NetInv, Post, server, page

\* Dropped beside the globe, the pin is back in the well.
LEMMA DropInVoidIInv ==
  ASSUME IInv, DropInVoid
  PROVE  IInv'
<1>1. UIInv(ui, leapt) /\ NetInv
  BY IInvParts
<1>2. NetInv' /\ twin' = twin
  BY <1>1, PostNet DEF DropInVoid, Pins
<1>3. UIInv(ui', leapt')
  <2> DEFINE w == DragReset(ui)
  <2>1. leapt' = leapt /\ ui' = GlobeRelease(w)
    BY DEF DropInVoid
  <2>2. UIInv(w, leapt)
    BY <1>1 DEF UIInv, UI, DropInVoid, DragReset
  <2> HIDE DEF w
  <2>3. QED
    BY <2>1, <2>2, TurnUI DEF UIInv
<1>4. QED
  BY <1>2, <1>3, IInvPrime

\* Dropped on the globe, the pin is the visitor's only one there.
LEMMA DropOnGlobeIInv ==
  ASSUME IInv, DropOnGlobe
  PROVE  IInv'
<1>1. UIInv(ui, leapt) /\ NetInv
  BY IInvParts
<1>2. NetInv' /\ twin' = twin
  <2>1. CASE Raycast(ptr) # None
    BY <1>1, <2>1, RaycastPin, PostNet DEF DropOnGlobe, Pins
  <2>2. CASE Raycast(ptr) = None
    BY <1>1, <2>2 DEF DropOnGlobe, NetInv, net, server, page
  <2>3. QED
    BY <2>1, <2>2
<1>3. UIInv(ui', leapt')
  <2> DEFINE w == GlobeUp(ui, ptr)
  <2>1. leapt' = leapt /\ ui' = GlobeRelease(w)
    BY DEF DropOnGlobe
  <2>2. ui \in UI /\ ui.scene >= 1 /\ ui.mine = None /\ ui.mode = "dragGlobe" /\ ui.dragPin
    BY <1>1 DEF UIInv, DropOnGlobe
  <2>3. /\ w \in UI /\ w.mode = "rest" /\ w.globe = "rest" /\ ~w.drag
        /\ ~w.dragPin /\ w.scene = ui.scene - 1
        /\ w.mine = (IF Raycast(ptr) = None THEN ui.mine ELSE ptr)
        /\ w.own = (IF Raycast(ptr) = None THEN ui.own ELSE ui.own + 1)
    BY <2>2, UpUI
  <2> HIDE DEF w
  <2>4. UIInv(w, leapt)
    <3>1. Raycast(ptr) # None => ptr # None
      BY PinAssumption, RaycastPin
    <3>2. QED
      BY <1>1, <2>2, <2>3, <3>1 DEF UIInv, UI
  <2>5. QED
    BY <2>1, <2>4, TurnUI DEF UIInv
<1>4. QED
  BY <1>2, <1>3, IInvPrime

\* Serving the two accounts' lines: one line at most without the second.
LEMMA OwnLinesOf ==
  ASSUME row.pin \in Pins, twin \in Pins, NEW lines \in OwnLines
  PROVE  /\ lines \in Seq(Positions)
         /\ twin = None => lines = Line(row.pin) /\ Len(lines) <= 1
<1>1. ASSUME NEW p \in Pins
      PROVE  Line(p) \in Seq(Positions) /\ Line(None) = <<>>
  BY DEF Line, Pins
<1>2. lines \in Seq(Positions)
  <2>1. Line(row.pin) \in Seq(Positions) /\ Line(twin) \in Seq(Positions)
    BY <1>1
  <2>2. QED
    BY <2>1, ConcatProperties DEF OwnLines
<1>3. ASSUME twin = None PROVE lines = Line(row.pin)
  <2>1. Line(row.pin) \in Seq(Positions) /\ Line(twin) = <<>>
    BY <1>1, <1>3
  <2>2. Line(row.pin) \o <<>> = Line(row.pin) /\ <<>> \o Line(row.pin) = Line(row.pin)
    BY <2>1, ConcatEmptySeq
  <2>3. QED
    BY <2>1, <2>2 DEF OwnLines
<1>4. Line(row.pin) = IF row.pin = None THEN <<>> ELSE <<row.pin>>
  BY DEF Line
<1>5. Len(<<>>) <= 1 /\ Len(<<row.pin>>) <= 1
  OBVIOUS
<1>6. QED
  BY <1>2, <1>3, <1>4, <1>5

\* The same when serving them is cut short.
LEMMA PartOfLinesOf ==
  ASSUME row.pin \in Pins, twin \in Pins, NEW lines \in PartOfLines
  PROVE  /\ lines \in Seq(Positions)
         /\ twin = None => Len(lines) <= 1
<1>1. CASE lines \in OwnLines
  BY <1>1, OwnLinesOf
<1>2. CASE lines \in {Line(row.pin), Line(twin), <<>>}
  <2>1. ASSUME NEW p \in Pins
        PROVE  Line(p) \in Seq(Positions) /\ Len(Line(p)) <= 1
    BY DEF Line, Pins
  <2>2. <<>> \in Seq(Positions) /\ Len(<<>>) <= 1
    BY NoLines
  <2>3. QED
    BY <1>2, <2>1, <2>2
<1>3. QED
  BY <1>1, <1>2 DEF PartOfLines

\* Serving pins.csv leaves the page alone.
LEMMA ServePinsIInv ==
  ASSUME IInv, ServePins \/ ServeError \/ ServeCached
  PROVE  IInv'
<1>1. UIInv(ui, leapt) /\ NetInv
  BY IInvParts
<1>2. UNCHANGED <<ptr, ui, pending, posts, lastVer, row, twin, loads, leapt>>
  BY DEF ServePins, ServeError, ServeCached, net, server
<1>3. served' = TRUE /\ csv' \in Seq(Positions) /\ (twin = None => Len(csv') <= 1)
  <2>1. row.pin \in Pins /\ twin \in Pins
    BY <1>1 DEF NetInv
  <2>2. CASE ServePins
    <3>1. PICK lines \in OwnLines : csv' = lines
      BY <2>2 DEF ServePins
    <3>2. QED
      BY <2>1, <2>2, <3>1, OwnLinesOf DEF ServePins
  <2>3. CASE ServeError
    <3>1. PICK lines \in PartOfLines : csv' = lines
      BY <2>3 DEF ServeError
    <3>2. QED
      BY <2>1, <2>3, <3>1, PartOfLinesOf DEF ServeError
  <2>4. CASE ServeCached
    BY <1>1, <2>4 DEF ServeCached, NetInv
  <2>5. QED
    BY <2>2, <2>3, <2>4
<1>4. causes' \subseteq {"twin", "misread", "cached"} /\ seen' = lastVer
  BY DEF ServePins, ServeError, ServeCached
<1>5. seen' \in 0..lastVer
  BY <1>1, <1>4, PinAssumption DEF NetInv
<1>6. NetInv'
  BY <1>1, <1>2, <1>3, <1>4, <1>5 DEF NetInv
<1>7. UIInv(ui', leapt')
  BY <1>1, <1>2
<1>8. QED
  BY <1>2, <1>6, <1>7, IInvPrime

\* A resource arrives; the page starts with the last of them.
LEMMA ArriveIInv ==
  ASSUME IInv, NEW r \in Resources, Arrive(r)
  PROVE  IInv'
<1>1. UIInv(ui, leapt) /\ NetInv
  BY IInvParts
<1>2. UNCHANGED <<ptr, served, csv, posts, lastVer, row, twin, loads, seen, causes, leapt>>
  BY DEF Arrive, net, server
<1>3. pending' \subseteq Resources
  BY <1>1 DEF Arrive, Remaining, NetInv
<1>4. NetInv' /\ twin' = twin
  BY <1>1, <1>2, <1>3 DEF NetInv
<1>5. UIInv(ui', leapt')
  <2>1. CASE ui' = ui
    BY <1>1, <1>2, <2>1
  <2>2. CASE ui' = PopulatePins(csv)
    <3>1. csv \in Seq(Positions) /\ (twin = None => Len(csv) <= 1)
      BY <1>1 DEF NetInv
    <3>2. /\ ui' \in UI /\ ui'.mode = "rest" /\ ui'.globe = "rest" /\ ~ui'.drag
          /\ ~ui'.dragPin /\ ui'.scene = 0 /\ ui'.own = Len(csv)
          /\ ui'.mine = (IF csv = <<>> THEN None ELSE Last(csv))
          /\ csv # <<>> => ui'.mine \in Positions
      BY <2>2, <3>1, StartUI
    <3>3. Len(csv) \in Nat /\ (csv = <<>> <=> Len(csv) = 0)
      BY <3>1
    <3>4. CASE csv = <<>>
      BY <3>1, <3>2, <3>3, <3>4 DEF UIInv
    <3>5. CASE csv # <<>>
      <4> DEFINE n == Len(csv)
      <4>1. n \in Nat /\ n # 0 /\ ui'.own = n /\ (twin = None => n <= 1)
        BY <3>1, <3>2, <3>3, <3>5
      <4> HIDE DEF n
      <4>2. ui'.own >= 1 /\ (twin = None => ui'.own = 1)
        BY <4>1
      <4>3. ui'.mine # None
        BY <3>2, <3>5, PinAssumption
      <4>4. QED
        BY <3>2, <4>2, <4>3 DEF UIInv
    <3>6. QED
      BY <3>4, <3>5
  <2>3. QED
    BY <2>1, <2>2 DEF Arrive
<1>6. QED
  BY <1>4, <1>5, IInvPrime

\* A page that is opened again is as new.
LEMMA ReloadIInv ==
  ASSUME IInv, Reload
  PROVE  IInv'
<1>1. UIInv(ui, leapt) /\ NetInv
  BY IInvParts
<1>2. /\ UNCHANGED <<ptr, csv, posts, lastVer, row, twin, seen, causes>>
      /\ pending' = Resources /\ served' = FALSE
      /\ ui' = Blank /\ leapt' = FALSE
  BY DEF Reload, net, server
<1>3. loads' \in 1..MaxLoads
  BY <1>1, PinAssumption DEF Reload, NetInv
<1>4. NetInv'
  BY <1>1, <1>2, <1>3, NoLines DEF NetInv
<1>5. UIInv(ui', leapt')
  BY <1>2, BlankUI DEF UIInv
<1>6. QED
  BY <1>2, <1>4, <1>5, IInvPrime

\* What the server does with a post leaves the page alone.
LEMMA ServerIInv ==
  ASSUME IInv, NEW m \in posts, ServePost(m) \/ LosePost(m)
  PROVE  IInv'
<1>1. UIInv(ui, leapt) /\ NetInv
  BY IInvParts
<1>2. /\ UNCHANGED <<ptr, ui, pending, served, csv, loads, seen, twin, lastVer, leapt>>
      /\ posts' \subseteq posts /\ row' \in {row, m}
      /\ causes' \subseteq causes \cup {"overtaken", "late", "refused"}
  BY DEF ServePost, LosePost, page, server
<1>3. m \in [pin : Pins, ver : 0..MaxVer]
  BY <1>1, PinAssumption DEF NetInv
<1>4. NetInv'
  BY <1>1, <1>2, <1>3 DEF NetInv
<1>5. QED
  BY <1>1, <1>2, <1>4, IInvPrime

\* IInv is inductive: one lemma per handler, put together.
THEOREM IInvStep == IInv /\ [Next]_vars => IInv'
<1> SUFFICES ASSUME IInv, [Next]_vars PROVE IInv'
  OBVIOUS
<1>1. CASE ServePins \/ ServeError \/ ServeCached
  BY <1>1, ServePinsIInv
<1>2. CASE Reload
  BY <1>2, ReloadIInv
<1>3. CASE \E r \in Resources : Arrive(r)
  BY <1>3, ArriveIInv
<1>4. ASSUME NEW p \in Places, Pull(p) PROVE IInv'
  BY <1>4, PullIInv
<1>5. ASSUME NEW p \in Places, Move(p) PROVE IInv'
  BY <1>5, MoveIInv
<1>6. ASSUME NEW p \in Places, Render(p) PROVE IInv'
  BY <1>6 DEF Render, IInv, TypeOK, ModesAgree, StrayOnlyIfLeapt, OneOwnPin, Counts,
              net, server, page
<1>7. CASE Press
  BY <1>7, PressIInv
<1>8. CASE Release
  BY <1>8, ReleaseIInv
<1>9. CASE DropInVoid
  BY <1>9, DropInVoidIInv
<1>10. CASE DropOnGlobe
  BY <1>10, DropOnGlobeIInv
<1>11. CASE \E m \in posts : ServePost(m) \/ LosePost(m)
  BY <1>11, ServerIInv
<1>12. CASE UNCHANGED vars
  BY <1>12 DEF vars, IInv, TypeOK, ModesAgree, StrayOnlyIfLeapt, OneOwnPin, Counts
<1>13. QED
  BY <1>1, <1>2, <1>3, <1>4, <1>5, <1>6, <1>7, <1>8, <1>9, <1>10, <1>11, <1>12 DEF Next

\* IInv holds in every reachable state.
THEOREM PinInvariance == Spec => []IInv
BY InitIInv, IInvStep, PTL DEF Spec

\* Every state is well typed.
THEOREM PinTypeCorrect == Spec => []TypeOK
BY PinInvariance, PTL DEF IInv

\* Pin and Globe are in modes that belong together.
THEOREM PinModes == Spec => []ModesAgree
BY PinInvariance, PTL DEF IInv

\* No drag pin stays in the scene after a drag that began beside the globe.
THEOREM PinNoStray == Spec => []StrayOnlyIfLeapt
BY PinInvariance, PTL DEF IInv

\* However often the pin is dragged, the globe has one of it at most.
THEOREM PinOnlyOne == Spec => []OneOwnPin
BY PinInvariance, PTL DEF IInv

-----------------------------------------------------------------------------
(* TrackInv is inductive relative to IInv. *)

\* No post is on its way and no pins.csv was served.
LEMMA InitTrackInv == Init => TrackInv
BY DEF Init, TrackInv, Numbered, Tracked, Ready, Resources

\* Steps that touch neither the network nor the server's lines, and leave an
\* idle page with the pin and the well it had.
LEMMA PageTrackInv ==
  ASSUME TrackInv, UNCHANGED <<pending, served, csv, seen, posts, row, twin, lastVer, causes>>,
         Idle' => Idle /\ ui'.mine = ui.mine /\ ui'.empty = ui.empty
  PROVE  TrackInv'
<1>1. Numbered'
  BY DEF TrackInv, Numbered, Ready
<1>2. Line(row.pin)' = Line(row.pin)
  BY DEF Line
<1>3. ASSUME Idle', Shown PROVE Shown'
  BY <1>3 DEF Shown
<1>4. Tracked'
  BY <1>2, <1>3 DEF TrackInv, Tracked, Ready, Idle
<1>5. QED
  BY <1>1, <1>4 DEF TrackInv

\* pins.csv lists the row as it is when it is served.
LEMMA ServePinsTrackInv ==
  ASSUME IInv, TrackInv, ServePins \/ ServeError \/ ServeCached
  PROVE  TrackInv'
<1>1. /\ UNCHANGED <<pending, posts, row, twin, lastVer, ui>>
      /\ ~served /\ served' = TRUE /\ seen' = lastVer
  BY DEF ServePins, ServeError, ServeCached, net, server
<1>2. "pins" \in pending'
  BY <1>1 DEF TrackInv, Numbered
<1>3. Numbered'
  BY <1>1 DEF TrackInv, Numbered, Ready
<1>4. CASE ServeError
  <2>1. "misread" \in causes'
    BY <1>4 DEF ServeError
  <2>2. Tracked'
    BY <2>1 DEF Tracked
  <2>3. QED
    BY <1>3, <2>2 DEF TrackInv
<1>5. CASE ServePins /\ twin # None
  <2>1. "twin" \in causes'
    BY <1>5 DEF ServePins
  <2>2. Tracked'
    BY <2>1 DEF Tracked
  <2>3. QED
    BY <1>3, <2>2 DEF TrackInv
<1>6. CASE ServePins /\ twin = None
  <2>1. PICK lines \in OwnLines : csv' = lines
    BY <1>6 DEF ServePins
  <2>2. row.pin \in Pins /\ twin \in Pins
    BY IInvParts DEF NetInv
  <2>3. csv' = Line(row.pin)
    BY <1>6, <2>1, <2>2, OwnLinesOf
  <2>4. seen' = lastVer' /\ ~Ready' /\ twin' = None
    BY <1>1, <1>2, <1>6 DEF Ready
  <2>5. lastVer' \in Nat
    BY <1>1, IInvParts DEF NetInv
  <2>6. Tracked'
    BY <1>1, <2>3, <2>4, <2>5 DEF Tracked, Line
  <2>7. QED
    BY <1>3, <2>6 DEF TrackInv
<1>7. CASE ServeCached
  <2>1. "cached" \in causes'
    BY <1>7 DEF ServeCached
  <2>2. Tracked'
    BY <2>1 DEF Tracked
  <2>3. QED
    BY <1>3, <2>2 DEF TrackInv
<1>8. QED
  BY <1>4, <1>5, <1>6, <1>7

\* The page starts with what was served, unless a post came in between.
LEMMA ArriveTrackInv ==
  ASSUME IInv, TrackInv, NEW r \in Resources, Arrive(r)
  PROVE  TrackInv'
<1>1. UNCHANGED <<served, csv, posts, row, twin, lastVer, seen, causes>>
  BY DEF Arrive, net, server
<1>2. ~Ready /\ (r = "pins" => served)
  BY DEF Arrive, Ready
<1>3. CASE AllArrived(Remaining(pending, r))
  <2>1. served /\ seen = lastVer
    BY <1>2, <1>3 DEF TrackInv, Numbered, AllArrived, Remaining
  <2>2. Numbered'
    BY <1>1, <2>1 DEF TrackInv, Numbered
  <2>3. ASSUME causes \subseteq {"dropped"}
        PROVE  Shown'
    <3>1. /\ csv = Line(row.pin) /\ row.pin \in Pins /\ csv \in Seq(Positions)
          /\ lastVer \in Nat
      BY <2>1, <2>3, IInvParts DEF TrackInv, Tracked, NetInv
    <3>2. /\ ui'.empty <=> csv # <<>>
          /\ ui'.mine = (IF csv = <<>> THEN None ELSE Last(csv))
      BY <1>3, <3>1, StartUI DEF Arrive
    <3>3. CASE row.pin = None
      BY <1>1, <2>1, <3>1, <3>2, <3>3 DEF Shown, Line
    <3>4. CASE row.pin # None
      <4>1. csv = <<row.pin>> /\ csv # <<>> /\ Last(csv) = row.pin
        BY <3>1, <3>4 DEF Line, Last
      <4>2. QED
        BY <1>1, <2>1, <3>1, <3>2, <3>4, <4>1 DEF Shown
    <3>5. QED
      BY <3>3, <3>4
  <2>4. Line(row.pin)' = Line(row.pin)
    BY <1>1 DEF Line
  <2>5. lastVer' \in Nat
    BY <1>1, IInvParts DEF NetInv
  <2>6. Tracked'
    BY <1>1, <2>1, <2>3, <2>4, <2>5 DEF TrackInv, Tracked
  <2>7. QED
    BY <2>2, <2>6 DEF TrackInv
<1>4. CASE ~AllArrived(Remaining(pending, r))
  <2>1. pending' = Remaining(pending, r) /\ pending' # {} /\ ui' = ui
    BY <1>4 DEF Arrive, AllArrived
  <2>2. Numbered'
    BY <1>1, <1>2, <2>1 DEF TrackInv, Numbered, Ready, Remaining
  <2>3. Line(row.pin)' = Line(row.pin)
    BY <1>1 DEF Line
  <2>4. Tracked'
    BY <1>1, <2>1, <2>3 DEF TrackInv, Tracked, Ready
  <2>5. QED
    BY <2>2, <2>4 DEF TrackInv
<1>5. QED
  BY <1>3, <1>4

\* A page opened again has not been served: nothing is claimed of it.
LEMMA ReloadTrackInv ==
  ASSUME TrackInv, Reload
  PROVE  TrackInv'
<1>1. UNCHANGED <<posts, row, lastVer>> /\ pending' = Resources /\ ~served'
  BY DEF Reload, net, server
<1>2. Numbered'
  BY <1>1 DEF TrackInv, Numbered, Resources
<1>3. Tracked'
  BY <1>1 DEF Tracked
<1>4. QED
  BY <1>2, <1>3 DEF TrackInv

\* A drag starts: the page is idle no more.
LEMMA PullTrackInv ==
  ASSUME IInv, TrackInv, NEW p \in Places, Pull(p)
  PROVE  TrackInv'
<1>1. ui \in UI /\ (ui.mine # None => ui.own >= 1)
  BY IInvParts DEF UIInv
<1>2. ui' = DocumentMove(DragStart(ui, p), p)
  BY DEF Pull
<1>3. ui'.mode \in {"dragVoid", "dragGlobe"}
  <2>1. CASE Raycast(p) = None
    BY <1>1, <1>2, <2>1, PullBeside
  <2>2. CASE Raycast(p) # None
    BY <1>1, <1>2, <2>2, PullOver
  <2>3. QED
    BY <2>1, <2>2
<1>4. ~Idle'
  BY <1>3 DEF Idle
<1>5. QED
  BY <1>4, PageTrackInv DEF Pull, net, server, page

\* The mouse moves: a drag goes on, and an idle page does not change.
LEMMA MoveTrackInv ==
  ASSUME IInv, TrackInv, NEW p \in Places, Move(p)
  PROVE  TrackInv'
<1>1. UIInv(ui, leapt)
  BY IInvParts
<1>2. ui' = ui \/ ~Idle'
  <2>1. CASE ui' = ui
    BY <2>1
  <2>2. CASE ui' = GlobeEnter(ui, p)
    BY <1>1, <2>2, EnterUI DEF UIInv, Idle
  <2>3. CASE ui.mode = "dragGlobe" /\ Raycast(p) = None /\ ui' = GlobeLeave(ui, p)
    <3>1. ui \in UI /\ ui.scene >= 1
      BY <1>1, <2>3 DEF UIInv
    <3>2. QED
      BY <2>3, <3>1, LeaveUI DEF Idle
  <2>4. QED
    BY <2>1, <2>2, <2>3 DEF Move, DocumentMove, DragMove, GlobeMove
<1>3. QED
  BY <1>2, PageTrackInv DEF Move, net, server, page, Idle

\* Pressing moves no pin.
LEMMA PressTrackInv ==
  ASSUME IInv, TrackInv, Press
  PROVE  TrackInv'
<1>1. ui \in UI
  BY IInvParts DEF UIInv
<1>2. Idle' => Idle /\ ui'.mine = ui.mine /\ ui'.empty = ui.empty
  <2>1. CASE ui.mode = "rest" /\ ui' = [ui EXCEPT !.mode = "wellPressed"]
    BY <1>1, <2>1 DEF UI, Idle
  <2>2. CASE ui' = GlobePress(ui)
    BY <1>1, <2>2, TurnUI DEF Idle
  <2>3. QED
    BY <2>1, <2>2 DEF Press
<1>3. QED
  BY <1>2, PageTrackInv DEF Press, net, server, page

\* Releasing without the pin moves none.
LEMMA ReleaseTrackInv ==
  ASSUME IInv, TrackInv, Release
  PROVE  TrackInv'
<1> DEFINE w == [ui EXCEPT !.mode = "rest"]
<1>1. /\ w \in UI /\ w.mode = "rest" /\ w.mine = ui.mine /\ w.empty = ui.empty
      /\ ui' = GlobeRelease(w)
  BY IInvParts DEF UIInv, UI, Release
<1> HIDE DEF w
<1>2. Idle /\ ui'.mine = ui.mine /\ ui'.empty = ui.empty
  BY <1>1, TurnUI DEF Release, Idle
<1>3. QED
  BY <1>2, PageTrackInv DEF Release, net, server, page

\* A post is the newest, and the page shows what it carries.
LEMMA PostTrackInv ==
  ASSUME IInv, TrackInv, NEW pin \in Pins, Ready, Post(pin),
         UNCHANGED <<pending, served, csv, seen, row, twin>>,
         ui'.mine = pin, ui'.empty <=> pin # None
  PROVE  TrackInv'
<1> DEFINE new == [pin |-> pin, ver |-> lastVer + 1]
<1>1. /\ lastVer' = lastVer + 1 /\ posts' = posts \cup {new}
      /\ causes' = causes \ {"dropped"}
  BY DEF Post
<1>2. lastVer \in Nat /\ seen \in Nat /\ seen <= lastVer /\ row.ver \in Nat
  BY PinAssumption, IInvParts DEF NetInv
<1>3. \A m \in posts : m.ver \in Nat
  BY IInvParts DEF NetInv
<1>4. new.ver = lastVer + 1 /\ new.pin = pin
  OBVIOUS
<1> HIDE DEF new
<1>5. served
  BY DEF TrackInv, Numbered, Ready
<1>6. Numbered'
  <2>1. /\ \A m \in posts : m.ver < lastVer' /\ m.ver # row.ver
        /\ row.ver < lastVer' /\ lastVer' = new.ver
    BY <1>1, <1>2, <1>3, <1>4 DEF TrackInv, Numbered
  <2>2. \A m \in posts' : m.ver <= lastVer' /\ m.ver # row'.ver
    BY <1>1, <1>2, <1>3, <2>1
  <2>3. \A m, n \in posts' : m.ver = n.ver => m = n
    BY <1>1, <1>2, <1>3, <2>1 DEF TrackInv, Numbered
  <2>4. row'.ver <= lastVer' /\ Ready' /\ served'
    BY <1>1, <1>2, <1>5, <2>1 DEF Ready
  <2>5. QED
    BY <2>2, <2>3, <2>4 DEF Numbered
<1>7. \A m \in posts' \cup {row'} : m.ver = lastVer' => m.pin = pin
  BY <1>1, <1>2, <1>3, <1>4 DEF TrackInv, Numbered
<1>8. Shown'
  BY <1>1, <1>2, <1>7 DEF Shown
<1>9. new \in posts' \cup {row'} /\ new.ver = lastVer'
  BY <1>1, <1>4
<1>10. ASSUME causes' \subseteq {"dropped"} PROVE twin = None
  BY <1>1, <1>5, <1>10 DEF TrackInv, Tracked
<1>11. Tracked'
  BY <1>1, <1>2, <1>8, <1>9, <1>10 DEF Tracked
<1>12. QED
  BY <1>6, <1>11 DEF TrackInv

\* Dropped beside the globe: the post carries no place and the well is full.
LEMMA DropInVoidTrackInv ==
  ASSUME IInv, TrackInv, DropInVoid
  PROVE  TrackInv'
<1> DEFINE w == DragReset(ui)
<1>1. ui \in UI /\ ui.mine = None
  BY IInvParts DEF UIInv, DropInVoid
<1>2. /\ w \in UI /\ w.mine = None /\ ~w.empty
      /\ ui' = GlobeRelease(w)
  BY <1>1 DEF UI, DragReset, DropInVoid
<1> HIDE DEF w
<1>3. ui'.mine = None /\ ~ui'.empty
  BY <1>2, TurnUI
<1>4. QED
  BY <1>3, PostTrackInv DEF DropInVoid, server, page, Pins

\* Dropped on the globe: the post carries the place, or the drop is recorded.
LEMMA DropOnGlobeTrackInv ==
  ASSUME IInv, TrackInv, DropOnGlobe
  PROVE  TrackInv'
<1> DEFINE w == GlobeUp(ui, ptr)
<1>1. ui \in UI /\ ui.scene >= 1 /\ ui.mine = None
  BY IInvParts DEF UIInv, DropOnGlobe
<1>2. w = GlobeUp(ui, ptr) /\ ui' = GlobeRelease(w)
  BY DEF DropOnGlobe
<1> HIDE DEF w
<1>3. /\ w \in UI /\ w.empty = ui.empty
      /\ w.mine = (IF Raycast(ptr) = None THEN ui.mine ELSE ptr)
  BY <1>1, <1>2, UpUI
<1>4. ui.empty
  BY IInvParts DEF UIInv, DropOnGlobe
<1>5. ui'.empty
  BY <1>2, <1>3, <1>4, TurnUI
<1>6. ui'.mine = (IF Raycast(ptr) = None THEN None ELSE ptr)
  BY <1>1, <1>2, <1>3, TurnUI
<1>7. CASE Raycast(ptr) # None
  <2>1. ptr \in Pins /\ ptr # None
    BY <1>7, PinAssumption, RaycastPin DEF Pins
  <2>2. QED
    BY <1>5, <1>6, <1>7, <2>1, PostTrackInv DEF DropOnGlobe, server, page
<1>8. CASE Raycast(ptr) = None
  <2>1. /\ UNCHANGED <<pending, served, csv, seen, posts, row, twin, lastVer>>
        /\ causes' = causes \cup {"dropped"}
    BY <1>8 DEF DropOnGlobe, net, server, page
  <2>2. Numbered'
    BY <2>1 DEF TrackInv, Numbered, Ready
  <2>3. Line(row.pin)' = Line(row.pin)
    BY <2>1 DEF Line
  <2>4. Tracked'
    BY <2>1, <2>3 DEF TrackInv, Tracked
  <2>5. QED
    BY <2>2, <2>4 DEF TrackInv
<1>9. QED
  BY <1>7, <1>8

\* The server has served a post: if none before it was overtaken or late, this
\* one is newer than the row and than what pins.csv listed.
LEMMA ServePostTrackInv ==
  ASSUME IInv, TrackInv, NEW m \in posts, ServePost(m)
  PROVE  TrackInv'
<1>1. /\ UNCHANGED <<ui, pending, served, csv, seen, twin, lastVer>>
      /\ posts' = posts \ {m} /\ row' = m
      /\ causes' = causes \cup {c \in {"overtaken"} : m.ver < row.ver}
                          \cup {c \in {"late"} : m.ver <= seen}
  BY DEF ServePost, page
<1>2. /\ lastVer \in Nat /\ seen \in Nat /\ row.ver \in Nat /\ m.ver \in Nat
      /\ seen <= lastVer /\ m.ver <= lastVer /\ m.ver # row.ver /\ row.ver <= lastVer
  BY PinAssumption, IInvParts DEF NetInv, TrackInv, Numbered
<1>3. Numbered'
  BY <1>1, <1>2 DEF TrackInv, Numbered, Ready
<1>4. ASSUME served, causes' \subseteq {"dropped"}
      PROVE  /\ twin = None /\ seen < lastVer
             /\ \E n \in posts' \cup {row'} : n.ver = lastVer
             /\ Ready /\ Idle /\ causes' = {} => Shown'
  <2>1. m.ver > seen /\ m.ver > row.ver
    BY <1>1, <1>2, <1>4
  <2>2. causes \subseteq {"dropped"} /\ (causes' = {} => causes = {})
    BY <1>1, <1>4
  <2>3. twin = None /\ seen < lastVer
    BY <1>2, <1>4, <2>1, <2>2 DEF TrackInv, Tracked
  <2>4. \E n \in posts' \cup {row'} : n.ver = lastVer
    <3>1. PICK n \in posts \cup {row} : n.ver = lastVer
      BY <1>4, <2>2, <2>3 DEF TrackInv, Tracked
    <3>2. n # row
      BY <1>2, <2>1, <3>1
    <3>3. QED
      BY <1>1, <3>1, <3>2
  <2>5. posts' \cup {row'} \subseteq posts \cup {row}
    BY <1>1
  <2>6. ASSUME Shown PROVE Shown'
    BY <1>1, <1>2, <2>3, <2>5, <2>6 DEF Shown
  <2>7. QED
    BY <1>4, <2>2, <2>3, <2>4, <2>6 DEF TrackInv, Tracked
<1>5. Tracked'
  BY <1>1, <1>2, <1>4 DEF Tracked, Ready, Idle
<1>6. QED
  BY <1>3, <1>5 DEF TrackInv

\* A lost post is recorded.
LEMMA LosePostTrackInv ==
  ASSUME TrackInv, NEW m \in posts, LosePost(m)
  PROVE  TrackInv'
<1>1. /\ UNCHANGED <<pending, served, seen, row, lastVer>>
      /\ posts' \subseteq posts /\ "refused" \in causes'
  BY DEF LosePost, page, server
<1>2. Numbered'
  BY <1>1 DEF TrackInv, Numbered, Ready
<1>3. Tracked'
  BY <1>1 DEF Tracked
<1>4. QED
  BY <1>2, <1>3 DEF TrackInv

\* TrackInv is inductive relative to IInv: one lemma per action.
THEOREM TrackInvStep == IInv /\ TrackInv /\ [Next]_vars => TrackInv'
<1> SUFFICES ASSUME IInv, TrackInv, [Next]_vars PROVE TrackInv'
  OBVIOUS
<1>1. CASE ServePins \/ ServeError \/ ServeCached
  BY <1>1, ServePinsTrackInv
<1>2. CASE Reload
  BY <1>2, ReloadTrackInv
<1>3. CASE \E r \in Resources : Arrive(r)
  BY <1>3, ArriveTrackInv
<1>4. ASSUME NEW p \in Places, Pull(p) PROVE TrackInv'
  BY <1>4, PullTrackInv
<1>5. ASSUME NEW p \in Places, Move(p) PROVE TrackInv'
  BY <1>5, MoveTrackInv
<1>6. ASSUME NEW p \in Places, Render(p) PROVE TrackInv'
  BY <1>6, PageTrackInv DEF Render, net, server, page, Idle
<1>7. CASE Press
  BY <1>7, PressTrackInv
<1>8. CASE Release
  BY <1>8, ReleaseTrackInv
<1>9. CASE DropInVoid
  BY <1>9, DropInVoidTrackInv
<1>10. CASE DropOnGlobe
  BY <1>10, DropOnGlobeTrackInv
<1>11. CASE \E m \in posts : ServePost(m) \/ LosePost(m)
  BY <1>11, ServePostTrackInv, LosePostTrackInv
<1>12. CASE UNCHANGED vars
  BY <1>12, PageTrackInv DEF vars, Idle
<1>13. QED
  BY <1>1, <1>2, <1>3, <1>4, <1>5, <1>6, <1>7, <1>8, <1>9, <1>10, <1>11, <1>12 DEF Next

\* An idle page with nothing on its way shows the server's pin, unless one of
\* the named causes set them apart.
THEOREM PinDiverges == Spec => []DivergesOnlyIf
<1>1. IInv /\ TrackInv => DivergesOnlyIf
  <2> SUFFICES ASSUME IInv, TrackInv, Ready, Idle, posts = {}, causes = {}
               PROVE  ui.mine = row.pin /\ (ui.empty <=> ui.mine # None)
    BY DEF DivergesOnlyIf
  <2>1. served
    BY DEF TrackInv, Numbered, Ready
  <2>2. /\ Shown
        /\ seen < lastVer => \E m \in posts \cup {row} : m.ver = lastVer
    BY <2>1 DEF TrackInv, Tracked
  <2>3. seen = lastVer \/ seen < lastVer
    BY IInvParts, PinAssumption DEF NetInv
  <2>4. QED
    BY <2>2, <2>3 DEF Shown
<1>2. QED
  BY InitIInv, IInvStep, InitTrackInv, TrackInvStep, <1>1, PTL DEF Spec
=============================================================================
