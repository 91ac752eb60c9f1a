-------------------------- MODULE RenderStateProofs --------------------------
(***************************************************************************)
(* Every draw call has the state, data and frame its object needs, for any *)
(* number of pins and any locations of attributes.                         *)
(***************************************************************************)
EXTENDS RenderState, TLAPS

State == [c : Cache, g : Context]
Object == Pins \cup {Mesh}

\* The buffers of the geometry that is remembered are bound where its program, with
\* these locations, reads them.
Bound(s, locations) ==
  s.c.hash # Unknown =>
    /\ s.c.hash \in Object
    /\ s.c.new = locations[ProgramOf(s.c.hash)]
    /\ s.c.new \subseteq s.c.enabled
    /\ \A l \in s.c.new : s.g.pointer[l] = s.c.hash
    /\ s.c.hash = Mesh => s.g.elements = Mesh

\* What the renderer may rely on when it draws.
Trusted(s, locations) ==
  /\ s.c.enabled \subseteq s.g.enabled
  /\ s.c.program \in {s.g.program, Unknown}
  /\ s.c.blending = "none" => ~s.g.blend
  /\ s.c.blending = "normal" => s.g.blend /\ s.g.normal
  /\ s.c.doubleSided = FALSE => s.g.cull
  /\ Bound(s, locations)

\* A known camera is this frame's.
Filmed(s) == s.c.camera => s.c.program \in s.g.camera

\* The globe, when it is drawn, is drawn with a material that is not remembered.
MeshFresh(c) == c.lights /\ c.material # "phong"

\* The context as the sprite plugin has left it for its draw calls.
SpritesReady(c, g) ==
  /\ g.program = "sprite" /\ g.blend /\ ~g.cull
  /\ c.blending = "normal" => g.normal
  /\ at["sprite"] \subseteq g.enabled
  /\ \A l \in at["sprite"] : g.pointer[l] = Quad
  /\ g.elements = Quad
  /\ "sprite" \in g.camera

Now == [c |-> cache, g |-> gl]

IInv ==
  /\ DrawsAsNeeded
  /\ cache.enabled \subseteq gl.enabled
  /\ todo.pass # "sprites" => Trusted(Now, at)
  /\ todo.pass = "opaque" =>
       /\ Filmed(Now) /\ cache.blending = "none"
       /\ todo.mesh => MeshFresh(cache)
  /\ todo.pass = "sprites" => SpritesReady(cache, gl)

-----------------------------------------------------------------------------
(* The setters. *)

\* A remembered side means that the context culls, and afterwards it does.
LEMMA FacesTrusted ==
  ASSUME NEW s \in State, NEW locations \in [Programs -> SUBSET Locations],
         Trusted(s, locations), Filmed(s)
  PROVE  LET r == SetMaterialFaces(s) IN
         /\ r \in State /\ Trusted(r, locations) /\ Filmed(r)
         /\ r.g.cull
         /\ r.c.blending = s.c.blending
         /\ r.c.lights = s.c.lights /\ r.c.material = s.c.material
<1>1. CASE s.c.doubleSided = FALSE
  BY <1>1 DEF SetMaterialFaces, Trusted
<1>2. CASE s.c.doubleSided # FALSE
  <2>1. PICK r : r = [c |-> [s.c EXCEPT !.doubleSided = FALSE],
                      g |-> [s.g EXCEPT !.cull = TRUE]]
    OBVIOUS
  <2>2. r \in State /\ r.g.cull
    BY <2>1 DEF State, Cache, Context
  <2>3. /\ r.c.enabled = s.c.enabled /\ r.c.program = s.c.program
        /\ r.c.blending = s.c.blending /\ r.c.hash = s.c.hash /\ r.c.new = s.c.new
        /\ r.c.camera = s.c.camera /\ r.c.lights = s.c.lights
        /\ r.c.material = s.c.material
    BY <2>1 DEF State, Cache
  <2>4. /\ r.g.enabled = s.g.enabled /\ r.g.program = s.g.program
        /\ r.g.blend = s.g.blend /\ r.g.normal = s.g.normal
        /\ r.g.pointer = s.g.pointer /\ r.g.elements = s.g.elements
        /\ r.g.camera = s.g.camera
    BY <2>1 DEF State, Context
  <2>5. Trusted(r, locations) /\ Filmed(r)
    BY <2>2, <2>3, <2>4 DEF Trusted, Bound, Filmed
  <2>6. QED
    BY <1>2, <2>1, <2>2, <2>3, <2>5 DEF SetMaterialFaces
<1>3. QED
  BY <1>1, <1>2

\* The program is the object's and has this frame's camera; the globe's has its lights
\* and its texture.
LEMMA ProgramTrusted ==
  ASSUME NEW s \in State, NEW locations \in [Programs -> SUBSET Locations],
         Trusted(s, locations), Filmed(s), NEW x \in Object
  PROVE  LET r == SetProgram(s, x) IN
         /\ r \in State /\ Trusted(r, locations) /\ Filmed(r)
         /\ r.c.program = ProgramOf(x) /\ r.g.program = ProgramOf(x)
         /\ r.c.camera /\ r.g.cull = s.g.cull
         /\ r.c.blending = s.c.blending
         /\ x # Mesh => r.c.lights = s.c.lights /\ r.c.material # "phong"
         /\ x = Mesh /\ MeshFresh(s.c) => r.g.lights /\ r.g.tex = Mesh
<1> DEFINE p == ProgramOf(x)
           refreshProgram == p # s.c.program
           refreshMaterial == refreshProgram \/ p # s.c.material
           setupLights == refreshMaterial /\ p = "phong" /\ s.c.lights
           refreshLights == p = "phong" /\ refreshMaterial
                              /\ (setupLights \/ RefreshesLights(s.c, p))
<1>1. p \in Programs /\ (x = Mesh <=> p = "phong") /\ p # Unknown
  BY RenderAssumption DEF ProgramOf, Programs, Object
<1>2. PICK r : r = SetProgram(s, x)
  OBVIOUS
<1>3. /\ r.c = [s.c EXCEPT !.program = p, !.material = p, !.camera = TRUE,
                           !.lights = @ /\ ~setupLights, !.lit = @ \/ setupLights]
      /\ r.g = [s.g EXCEPT
                  !.program = IF refreshProgram THEN p ELSE @,
                  !.camera = IF refreshProgram \/ ~s.c.camera THEN @ \cup {p} ELSE @,
                  !.lights = IF refreshLights THEN s.c.lit \/ setupLights ELSE @,
                  !.tex = IF refreshMaterial /\ p = "phong" THEN Mesh ELSE @]
      /\ r = [c |-> r.c, g |-> r.g]
  BY <1>2 DEF SetProgram
<1> HIDE DEF p, refreshProgram, refreshMaterial, setupLights, refreshLights
<1>4. /\ r.c.enabled = s.c.enabled /\ r.c.blending = s.c.blending
      /\ r.c.hash = s.c.hash /\ r.c.new = s.c.new
      /\ r.c.doubleSided = s.c.doubleSided
      /\ r.c.program = p /\ r.c.material = p /\ r.c.camera
      /\ r.c.lights = (s.c.lights /\ ~setupLights)
  BY <1>3 DEF State, Cache
<1>5. /\ r.g.enabled = s.g.enabled /\ r.g.blend = s.g.blend
      /\ r.g.normal = s.g.normal /\ r.g.cull = s.g.cull
      /\ r.g.pointer = s.g.pointer /\ r.g.elements = s.g.elements
      /\ r.g.program = IF refreshProgram THEN p ELSE s.g.program
      /\ r.g.camera = IF refreshProgram \/ ~s.c.camera THEN s.g.camera \cup {p}
                      ELSE s.g.camera
      /\ r.g.lights = IF refreshLights THEN s.c.lit \/ setupLights ELSE s.g.lights
      /\ r.g.tex = IF refreshMaterial /\ p = "phong" THEN Mesh ELSE s.g.tex
  BY <1>3 DEF State, Context
<1>6. r.c \in Cache
  BY <1>1, <1>3 DEF State, Cache
<1>7. r.g \in Context
  <2>1. s.g \in Context /\ s.c.lit \in BOOLEAN /\ setupLights \in BOOLEAN
    BY DEF State, Cache, setupLights
  <2>2. /\ (IF refreshProgram THEN p ELSE s.g.program) \in Programs \cup {Unknown}
        /\ (IF refreshProgram \/ ~s.c.camera THEN s.g.camera \cup {p} ELSE s.g.camera)
             \in SUBSET Programs
        /\ (IF refreshLights THEN s.c.lit \/ setupLights ELSE s.g.lights) \in BOOLEAN
        /\ (IF refreshMaterial /\ p = "phong" THEN Mesh ELSE s.g.tex)
             \in Pins \cup {Mesh, Unknown}
    BY <1>1, <2>1 DEF Context
  <2>3. QED
    BY <1>3, <2>1, <2>2 DEF Context
<1>8. r \in State
  BY <1>3, <1>6, <1>7 DEF State
<1>9. r.g.program = p
  BY <1>1, <1>5 DEF Trusted, refreshProgram
<1>10. p \in r.g.camera
  BY <1>5 DEF Filmed, refreshProgram
<1>11. Trusted(r, locations) /\ Filmed(r)
  BY <1>4, <1>5, <1>9, <1>10 DEF Trusted, Bound, Filmed
<1>12. x # Mesh => r.c.lights = s.c.lights /\ r.c.material # "phong"
  <2>1. x # Mesh => ~setupLights
    BY <1>1 DEF setupLights
  <2>2. s.c.lights \in BOOLEAN
    BY DEF State, Cache
  <2>3. QED
    BY <1>1, <1>4, <2>1, <2>2
<1>13. x = Mesh /\ MeshFresh(s.c) => r.g.lights /\ r.g.tex = Mesh
  <2>1. SUFFICES ASSUME x = Mesh, MeshFresh(s.c) PROVE r.g.lights /\ r.g.tex = Mesh
    OBVIOUS
  <2>2. p = "phong" /\ s.c.lights /\ s.c.material # "phong"
    BY <1>1, <2>1 DEF MeshFresh
  <2>3. refreshMaterial /\ setupLights
    BY <2>2 DEF refreshMaterial, setupLights
  <2>4. refreshLights
    BY <2>2, <2>3 DEF refreshLights
  <2>5. QED
    BY <1>5, <2>2, <2>3, <2>4
<1>14. QED
  BY <1>2, <1>4, <1>5, <1>8, <1>9, <1>11, <1>12, <1>13 DEF p

\* The buffers are the object's, and nothing else of what the last setters have done is
\* disturbed.
LEMMA BuffersTrusted ==
  ASSUME NEW s \in State, at \in [Programs -> SUBSET Locations],
         Trusted(s, at), Filmed(s), NEW x \in Object
  PROVE  LET r == DisableUnusedAttributes(BindBuffers(s, x)) IN
         /\ r \in State /\ Trusted(r, at) /\ Filmed(r)
         /\ r.c.hash = x
         /\ r.c.blending = s.c.blending
         /\ r.c.lights = s.c.lights /\ r.c.material = s.c.material
         /\ r.g.program = s.g.program /\ r.g.blend = s.g.blend
         /\ r.g.cull = s.g.cull /\ r.g.camera = s.g.camera
         /\ r.g.lights = s.g.lights /\ r.g.tex = s.g.tex
<1> DEFINE p == ProgramOf(x)
           read == at[p]
<1>1. p \in Programs /\ read \in SUBSET Locations /\ x # Unknown
  BY RenderAssumption DEF ProgramOf, Programs, Object
<1>2. PICK b : b = BindBuffers(s, x)
  OBVIOUS
<1>3. /\ b \in State /\ Trusted(b, at) /\ Filmed(b) /\ b.c.hash = x
      /\ b.c.blending = s.c.blending
      /\ b.c.lights = s.c.lights /\ b.c.material = s.c.material
      /\ b.g.program = s.g.program /\ b.g.blend = s.g.blend
      /\ b.g.cull = s.g.cull /\ b.g.camera = s.g.camera
      /\ b.g.lights = s.g.lights /\ b.g.tex = s.g.tex
  <2>1. CASE s.c.hash = x
    BY <1>2, <2>1 DEF BindBuffers
  <2>2. CASE s.c.hash # x
    <3> DEFINE pointer == Pointing(s.g.pointer, read, x)
    <3>1. /\ b.c = [s.c EXCEPT !.enabled = @ \cup read, !.new = read, !.hash = x]
          /\ b.g = [s.g EXCEPT !.enabled = @ \cup (read \ s.c.enabled),
                               !.pointer = pointer,
                               !.elements = IF x = Mesh THEN Mesh ELSE @]
          /\ b = [c |-> b.c, g |-> b.g]
      BY <1>2, <2>2 DEF BindBuffers, EnableAttributes, State, Cache, Context
    <3>2. /\ pointer \in [Locations -> Pins \cup {Mesh, Quad, Unknown}]
          /\ \A l \in read : pointer[l] = x
      BY <1>1 DEF Pointing, State, Context, Object
    <3> HIDE DEF pointer, read
    <3>3. /\ b.c.enabled = s.c.enabled \cup read /\ b.c.new = read /\ b.c.hash = x
          /\ b.c.blending = s.c.blending /\ b.c.lights = s.c.lights
          /\ b.c.material = s.c.material /\ b.c.program = s.c.program
          /\ b.c.doubleSided = s.c.doubleSided /\ b.c.camera = s.c.camera
      BY <3>1 DEF State, Cache
    <3>4. /\ b.g.enabled = s.g.enabled \cup (read \ s.c.enabled)
          /\ b.g.pointer = pointer
          /\ b.g.elements = IF x = Mesh THEN Mesh ELSE s.g.elements
          /\ b.g.program = s.g.program /\ b.g.blend = s.g.blend
          /\ b.g.normal = s.g.normal /\ b.g.cull = s.g.cull
          /\ b.g.camera = s.g.camera
          /\ b.g.lights = s.g.lights /\ b.g.tex = s.g.tex
      BY <3>1 DEF State, Context
    <3>5. b.c \in Cache
      <4>1. s.c.enabled \cup read \in SUBSET Locations /\ read \in SUBSET Locations
            /\ x \in Pins \cup {Mesh, Unknown}
        BY <1>1 DEF State, Cache, Object
      <4>2. QED
        BY <3>1, <4>1 DEF State, Cache
    <3>6. b.g \in Context
      <4>1. /\ s.g.enabled \cup (read \ s.c.enabled) \in SUBSET Locations
            /\ (IF x = Mesh THEN Mesh ELSE s.g.elements) \in {Mesh, Quad, Unknown}
        BY <1>1 DEF State, Cache, Context
      <4>2. QED
        BY <3>1, <3>2, <4>1 DEF State, Context
    <3>7. b \in State
      BY <3>1, <3>5, <3>6 DEF State
    <3>8. Bound(b, at)
      BY <3>2, <3>3, <3>4 DEF Bound, read
    <3>9. Trusted(b, at) /\ Filmed(b)
      BY <3>3, <3>4, <3>8 DEF Trusted, Filmed
    <3>10. QED
      BY <3>3, <3>4, <3>7, <3>9
  <2>3. QED
    BY <2>1, <2>2
<1>4. PICK unused : unused = b.c.enabled \ b.c.new
  OBVIOUS
<1>5. PICK r : r = [c |-> [b.c EXCEPT !.enabled = @ \ unused],
                    g |-> [b.g EXCEPT !.enabled = @ \ unused]]
  OBVIOUS
<1>6. /\ r.c.enabled = b.c.enabled \ unused /\ r.c.new = b.c.new
      /\ r.c.hash = b.c.hash /\ r.c.blending = b.c.blending
      /\ r.c.lights = b.c.lights /\ r.c.material = b.c.material
      /\ r.c.program = b.c.program /\ r.c.doubleSided = b.c.doubleSided
      /\ r.c.camera = b.c.camera
  BY <1>3, <1>5 DEF State, Cache
<1>7. /\ r.g.enabled = b.g.enabled \ unused /\ r.g.pointer = b.g.pointer
      /\ r.g.elements = b.g.elements /\ r.g.program = b.g.program
      /\ r.g.blend = b.g.blend /\ r.g.normal = b.g.normal /\ r.g.cull = b.g.cull
      /\ r.g.camera = b.g.camera /\ r.g.lights = b.g.lights /\ r.g.tex = b.g.tex
  BY <1>3, <1>5 DEF State, Context
<1>8. r \in State
  <2>1. b.c.enabled \ unused \in SUBSET Locations
        /\ b.g.enabled \ unused \in SUBSET Locations
    BY <1>3 DEF State, Cache, Context
  <2>2. [b.c EXCEPT !.enabled = @ \ unused] \in Cache
    BY <1>3, <2>1 DEF State, Cache
  <2>3. [b.g EXCEPT !.enabled = @ \ unused] \in Context
    BY <1>3, <2>1 DEF State, Context
  <2>4. QED
    BY <1>5, <2>2, <2>3 DEF State
<1>9. Bound(r, at)
  BY <1>3, <1>4, <1>6, <1>7 DEF Trusted, Bound
<1>10. Trusted(r, at) /\ Filmed(r)
  BY <1>3, <1>6, <1>7, <1>9 DEF Trusted, Filmed
<1>11. r = DisableUnusedAttributes(BindBuffers(s, x))
  BY <1>2, <1>4, <1>5 DEF DisableUnusedAttributes
<1>12. QED
  BY <1>3, <1>6, <1>7, <1>8, <1>10, <1>11

\* Blending is what is asked for, and remembered.
LEMMA BlendingTrusted ==
  ASSUME NEW s \in State, NEW b \in {"none", "normal"},
         s.c.blending = b =>
           (s.g.blend <=> b = "normal") /\ (b = "normal" => s.g.normal)
  PROVE  LET r == SetBlending(s, b) IN
         /\ r \in State
         /\ r.c = [s.c EXCEPT !.blending = b]
         /\ r.g = [s.g EXCEPT !.blend = r.g.blend, !.normal = r.g.normal]
         /\ r.g.blend <=> b = "normal"
         /\ b = "normal" => r.g.normal
<1>1. PICK r : r = SetBlending(s, b)
  OBVIOUS
<1>2. CASE s.c.blending = b
  <2>1. r = s
    BY <1>1, <1>2 DEF SetBlending
  <2>2. s.c = [s.c EXCEPT !.blending = b]
    BY <1>2 DEF State, Cache
  <2>3. s.g = [s.g EXCEPT !.blend = s.g.blend, !.normal = s.g.normal]
    BY DEF State, Context
  <2>4. QED
    BY <1>1, <1>2, <2>1, <2>2, <2>3
<1>3. CASE s.c.blending # b /\ b = "none"
  <2>1. r = [c |-> [s.c EXCEPT !.blending = b], g |-> [s.g EXCEPT !.blend = FALSE]]
    BY <1>1, <1>3 DEF SetBlending
  <2>2. r \in State
    BY <2>1 DEF State, Cache, Context
  <2>3. ~r.g.blend /\ r.g = [s.g EXCEPT !.blend = r.g.blend, !.normal = r.g.normal]
    BY <2>1 DEF State, Context
  <2>4. QED
    BY <1>1, <1>3, <2>1, <2>2, <2>3
<1>4. CASE s.c.blending # b /\ b = "normal"
  <2>1. r = [c |-> [s.c EXCEPT !.blending = b],
             g |-> [s.g EXCEPT !.blend = TRUE, !.normal = TRUE]]
    BY <1>1, <1>4 DEF SetBlending
  <2>2. r \in State
    BY <2>1 DEF State, Cache, Context
  <2>3. /\ r.g.blend /\ r.g.normal
        /\ r.g = [s.g EXCEPT !.blend = r.g.blend, !.normal = r.g.normal]
    BY <2>1 DEF State, Context
  <2>4. QED
    BY <1>1, <1>4, <2>1, <2>2, <2>3
<1>5. QED
  BY <1>2, <1>3, <1>4

\* The setters together: what the draw call uses, and what is remembered of it.
LEMMA DrawTrusted ==
  ASSUME at \in [Programs -> SUBSET Locations], cache \in Cache, gl \in Context,
         Trusted(Now, at), Filmed(Now), cache.blending = "none",
         NEW x \in Object, Draw(x)
  PROVE  /\ cache' \in Cache /\ gl' \in Context /\ drew' = x
         /\ cache'.enabled \subseteq gl'.enabled
         /\ Trusted([c |-> cache', g |-> gl'], at)
         /\ Filmed([c |-> cache', g |-> gl'])
         /\ cache'.blending = "none" /\ cache'.hash = x
         /\ gl'.program = ProgramOf(x) /\ ProgramOf(x) \in gl'.camera /\ gl'.cull
         /\ x # Mesh /\ MeshFresh(cache) => MeshFresh(cache')
         /\ x = Mesh /\ MeshFresh(cache) => gl'.lights /\ gl'.tex = Mesh
<1>1. Now \in State /\ Now.c = cache /\ Now.g = gl
  BY DEF Now, State
<1>2. PICK s : s = SetMaterialFaces(Now)
  OBVIOUS
<1>3. /\ s \in State /\ Trusted(s, at) /\ Filmed(s) /\ s.g.cull
      /\ s.c.blending = "none" /\ s.c.lights = cache.lights
      /\ s.c.material = cache.material
  BY <1>1, <1>2, FacesTrusted
<1>4. PICK r : r = SetProgram(s, x)
  OBVIOUS
<1>5. /\ r \in State /\ Trusted(r, at) /\ Filmed(r)
      /\ r.c.program = ProgramOf(x) /\ r.g.program = ProgramOf(x) /\ r.c.camera
      /\ r.g.cull = s.g.cull /\ r.c.blending = s.c.blending
      /\ x # Mesh => r.c.lights = s.c.lights /\ r.c.material # "phong"
      /\ x = Mesh /\ MeshFresh(s.c) => r.g.lights /\ r.g.tex = Mesh
  BY <1>3, <1>4, ProgramTrusted
<1>6. PICK b : b = DisableUnusedAttributes(BindBuffers(r, x))
  OBVIOUS
<1>7. /\ b \in State /\ Trusted(b, at) /\ Filmed(b) /\ b.c.hash = x
      /\ b.c.blending = r.c.blending
      /\ b.c.lights = r.c.lights /\ b.c.material = r.c.material
      /\ b.g.program = r.g.program /\ b.g.cull = r.g.cull
      /\ b.g.camera = r.g.camera
      /\ b.g.lights = r.g.lights /\ b.g.tex = r.g.tex
  BY <1>5, <1>6, BuffersTrusted
<1>8. cache' = b.c /\ gl' = b.g /\ drew' = x
  BY <1>2, <1>4, <1>6 DEF Draw, Now
<1>9. b = [c |-> cache', g |-> gl']
  BY <1>7, <1>8 DEF State
<1>10. cache' \in Cache /\ gl' \in Context
  BY <1>7, <1>8 DEF State
<1>11. ProgramOf(x) \in gl'.camera
  BY <1>5, <1>7, <1>8 DEF Filmed
<1>12. MeshFresh(cache) => MeshFresh(s.c)
  BY <1>3 DEF MeshFresh
<1>13. x # Mesh /\ MeshFresh(s.c) => MeshFresh(b.c)
  BY <1>5, <1>7 DEF MeshFresh
<1>14. cache'.enabled \subseteq gl'.enabled
  BY <1>7, <1>8 DEF Trusted
<1>15. QED
  BY <1>3, <1>5, <1>7, <1>8, <1>9, <1>10, <1>11, <1>12, <1>13, <1>14

\* What an opaque draw call needs follows from what is remembered after it.
LEMMA OpaqueNeeds ==
  ASSUME NEW x \in Object, NEW c \in Cache, NEW g \in Context,
         Trusted([c |-> c, g |-> g], at), c.hash = x, c.blending = "none",
         at \in [Programs -> SUBSET Locations]
  PROVE  /\ ~g.blend
         /\ at[ProgramOf(x)] \subseteq g.enabled
         /\ \A l \in at[ProgramOf(x)] : g.pointer[l] = x
         /\ x = Mesh => g.elements = Mesh
<1>1. x # Unknown
  BY RenderAssumption DEF Object
<1>2. QED
  BY <1>1 DEF Trusted, Bound

-----------------------------------------------------------------------------
(* Each action. *)

\* Initially nothing is remembered.
LEMMA InitIInv == Init => IInv
<1> SUFFICES ASSUME Init PROVE IInv
  OBVIOUS
<1>1. TypeOK
  BY DEF Init, TypeOK, Cache, Context, Todo, NoFrame
<1>2. todo.pass = "none"
  BY DEF Init, NoFrame
<1>3. DrawsAsNeeded
  BY <1>1, <1>2 DEF DrawsAsNeeded, StateAsNeeded, ReadsOwnBuffers, SeesThisFrame,
                    DrewOpaque, DrewSprite
<1>4. Trusted(Now, at)
  BY RenderAssumption DEF Init, Trusted, Bound, Now
<1>5. cache.enabled \subseteq gl.enabled
  BY DEF Init
<1>6. QED
  BY <1>2, <1>3, <1>4, <1>5 DEF IInv

\* A frame begins: what depends on the last frame is forgotten.
LEMMA BeginFrameIInv ==
  ASSUME IInv, NEW present \in SUBSET Pins, NEW view \in SUBSET Pins,
         BeginFrame(present, view)
  PROVE  IInv'
<1>1. /\ cache \in Cache /\ gl \in Context /\ Trusted(Now, at)
      /\ cache.enabled \subseteq gl.enabled
      /\ at \in [Programs -> SUBSET Locations] /\ at' = at
      /\ drew' = Unknown
      /\ todo' = [pass |-> "opaque", lines |-> view, mesh |-> TRUE, sprites |-> present]
      /\ view \subseteq present
  BY DEF IInv, DrawsAsNeeded, TypeOK, BeginFrame, InView
<1>2. PICK s : s = [c |-> ResetCaching([cache EXCEPT !.lit = FALSE]),
                    g |-> [gl EXCEPT !.camera = {}, !.lights = FALSE]]
  OBVIOUS
<1>3. /\ s.c.hash = Unknown /\ s.c.material = Unknown /\ ~s.c.camera /\ s.c.lights
      /\ s.c.program = cache.program /\ s.c.blending = cache.blending
      /\ s.c.doubleSided = cache.doubleSided /\ s.c.enabled = cache.enabled
      /\ s.g.program = gl.program /\ s.g.blend = gl.blend /\ s.g.normal = gl.normal
      /\ s.g.cull = gl.cull /\ s.g.enabled = gl.enabled
  BY <1>1, <1>2 DEF ResetCaching, Cache, Context
<1>4. s \in State
  <2>1. ResetCaching([cache EXCEPT !.lit = FALSE]) \in Cache
    BY <1>1 DEF ResetCaching, Cache
  <2>2. [gl EXCEPT !.camera = {}, !.lights = FALSE] \in Context
    BY <1>1 DEF Context
  <2>3. QED
    BY <1>2, <2>1, <2>2 DEF State
<1>5. Trusted(s, at)
  BY <1>1, <1>3 DEF Trusted, Bound, Now
<1>6. PICK r : r = SetBlending(s, "none")
  OBVIOUS
<1>7. /\ r \in State /\ ~r.g.blend
      /\ r.c = [s.c EXCEPT !.blending = "none"]
      /\ r.g = [s.g EXCEPT !.blend = r.g.blend, !.normal = r.g.normal]
  <2>1. s.c.blending = "none" => ~s.g.blend
    BY <1>5 DEF Trusted
  <2>2. QED
    BY <1>4, <1>6, <2>1, BlendingTrusted
<1>8. /\ r.c.hash = Unknown /\ r.c.material = Unknown /\ ~r.c.camera /\ r.c.lights
      /\ r.c.program = s.c.program /\ r.c.blending = "none"
      /\ r.c.doubleSided = s.c.doubleSided /\ r.c.enabled = s.c.enabled
  BY <1>3, <1>4, <1>7 DEF State, Cache
<1>9. /\ r.g.program = s.g.program /\ r.g.cull = s.g.cull /\ r.g.enabled = s.g.enabled
  BY <1>4, <1>7 DEF State, Context
<1>10. cache' = r.c /\ gl' = r.g
  BY <1>2, <1>6 DEF BeginFrame
<1>11. Trusted(r, at) /\ Filmed(r)
  BY <1>5, <1>7, <1>8, <1>9 DEF Trusted, Bound, Filmed
<1>12. TypeOK' /\ drew' = Unknown
  BY <1>1, <1>7, <1>10 DEF TypeOK, Todo, State
<1>13. DrawsAsNeeded'
  BY <1>12 DEF DrawsAsNeeded, StateAsNeeded, ReadsOwnBuffers, SeesThisFrame,
               DrewOpaque, DrewSprite
<1>14. MeshFresh(cache') /\ cache'.blending = "none"
  BY RenderAssumption, <1>8, <1>10 DEF MeshFresh
<1>15. Trusted([c |-> cache', g |-> gl'], at') /\ Filmed([c |-> cache', g |-> gl'])
  BY <1>1, <1>7, <1>10, <1>11 DEF State
<1>16. cache'.enabled \subseteq gl'.enabled
  BY <1>15 DEF Trusted
<1>17. QED
  BY <1>1, <1>13, <1>14, <1>15, <1>16 DEF IInv, Now

\* What holds in the opaque pass.
LEMMA InOpaque ==
  ASSUME IInv, todo.pass = "opaque"
  PROVE  /\ TypeOK /\ Trusted(Now, at) /\ Filmed(Now) /\ cache.blending = "none"
         /\ todo.mesh => MeshFresh(cache)
BY DEF IInv, DrawsAsNeeded

\* A line is drawn before the globe, which stays to be drawn afresh.
LEMMA DrawLineIInv ==
  ASSUME IInv, NEW p \in Pins, DrawLine(p)
  PROVE  IInv'
<1>1. /\ todo.pass = "opaque" /\ p \in todo.lines /\ Draw(p) /\ at' = at
      /\ todo' = [todo EXCEPT !.lines = @ \ {p}]
  BY DEF DrawLine
<1>2. /\ TypeOK /\ Trusted(Now, at) /\ Filmed(Now) /\ cache.blending = "none"
      /\ todo.mesh => MeshFresh(cache)
  BY <1>1, InOpaque
<1>3. p \in Object /\ p # Mesh /\ p # Unknown
  BY RenderAssumption DEF Object
<1>4. /\ cache' \in Cache /\ gl' \in Context /\ drew' = p
      /\ cache'.enabled \subseteq gl'.enabled
      /\ Trusted([c |-> cache', g |-> gl'], at)
      /\ Filmed([c |-> cache', g |-> gl'])
      /\ cache'.blending = "none" /\ cache'.hash = p
      /\ gl'.program = ProgramOf(p) /\ ProgramOf(p) \in gl'.camera /\ gl'.cull
      /\ MeshFresh(cache) => MeshFresh(cache')
  <2>1. at \in [Programs -> SUBSET Locations] /\ cache \in Cache /\ gl \in Context
    BY <1>2 DEF TypeOK
  <2>2. QED
    BY <1>1, <1>2, <1>3, <2>1, DrawTrusted
<1>5. /\ todo' \in Todo /\ todo'.pass = "opaque" /\ todo'.mesh = todo.mesh
      /\ todo'.lines \subseteq todo'.sprites
  BY <1>1, <1>2 DEF TypeOK, Todo
<1>6. TypeOK'
  BY <1>1, <1>2, <1>4, <1>5 DEF TypeOK
<1>7. /\ ~gl'.blend
      /\ at[ProgramOf(p)] \subseteq gl'.enabled
      /\ \A l \in at[ProgramOf(p)] : gl'.pointer[l] = p
  BY <1>2, <1>3, <1>4, OpaqueNeeds DEF TypeOK
<1>8. DrawsAsNeeded'
  BY <1>1, <1>3, <1>4, <1>5, <1>6, <1>7
  DEF DrawsAsNeeded, StateAsNeeded, ReadsOwnBuffers, SeesThisFrame, DrewOpaque, DrewSprite
<1>9. QED
  BY <1>1, <1>2, <1>4, <1>5, <1>8 DEF IInv, Now

\* The globe has its lights and its texture.
LEMMA DrawMeshIInv ==
  ASSUME IInv, DrawMesh
  PROVE  IInv'
<1>1. /\ todo.pass = "opaque" /\ todo.mesh /\ Draw(Mesh) /\ at' = at
      /\ todo' = [todo EXCEPT !.mesh = FALSE]
  BY DEF DrawMesh
<1>2. /\ TypeOK /\ Trusted(Now, at) /\ Filmed(Now) /\ cache.blending = "none"
      /\ MeshFresh(cache)
  BY <1>1, InOpaque
<1>3. Mesh \in Object /\ Mesh # Unknown
  BY RenderAssumption DEF Object
<1>4. /\ cache' \in Cache /\ gl' \in Context /\ drew' = Mesh
      /\ cache'.enabled \subseteq gl'.enabled
      /\ Trusted([c |-> cache', g |-> gl'], at)
      /\ Filmed([c |-> cache', g |-> gl'])
      /\ cache'.blending = "none" /\ cache'.hash = Mesh
      /\ gl'.program = ProgramOf(Mesh) /\ ProgramOf(Mesh) \in gl'.camera /\ gl'.cull
      /\ gl'.lights /\ gl'.tex = Mesh
  <2>1. at \in [Programs -> SUBSET Locations] /\ cache \in Cache /\ gl \in Context
    BY <1>2 DEF TypeOK
  <2>2. QED
    BY <1>1, <1>2, <1>3, <2>1, DrawTrusted
<1>5. /\ todo' \in Todo /\ todo'.pass = "opaque" /\ ~todo'.mesh
      /\ todo'.lines \subseteq todo'.sprites
  BY <1>1, <1>2 DEF TypeOK, Todo
<1>6. TypeOK'
  BY <1>1, <1>2, <1>4, <1>5 DEF TypeOK
<1>7. /\ ~gl'.blend
      /\ at[ProgramOf(Mesh)] \subseteq gl'.enabled
      /\ \A l \in at[ProgramOf(Mesh)] : gl'.pointer[l] = Mesh
      /\ gl'.elements = Mesh
  BY <1>2, <1>3, <1>4, OpaqueNeeds DEF TypeOK
<1>8. DrawsAsNeeded'
  BY <1>1, <1>3, <1>4, <1>5, <1>6, <1>7
  DEF DrawsAsNeeded, StateAsNeeded, ReadsOwnBuffers, SeesThisFrame, DrewOpaque, DrewSprite
<1>9. QED
  BY <1>1, <1>4, <1>5, <1>8 DEF IInv, Now

\* Without sprites everything stays remembered, and everything is so.
LEMMA NoSpritesIInv ==
  ASSUME IInv, NoSprites
  PROVE  IInv'
<1>1. /\ todo.pass = "opaque" /\ todo' = NoFrame
      /\ UNCHANGED <<at, cache, gl, drew>>
  BY DEF NoSprites
<1>2. TypeOK /\ Trusted(Now, at)
  BY <1>1, InOpaque
<1>3. todo'.pass = "none" /\ todo' \in Todo
  BY <1>1 DEF NoFrame, Todo
<1>4. TypeOK'
  BY <1>1, <1>2, <1>3 DEF TypeOK
<1>5. DrawsAsNeeded'
  BY <1>3, <1>4 DEF DrawsAsNeeded, StateAsNeeded, ReadsOwnBuffers, SeesThisFrame,
                    DrewOpaque, DrewSprite
<1>6. Trusted(Now, at)' /\ (cache.enabled \subseteq gl.enabled)'
  BY <1>1, <1>2 DEF Now, IInv, Trusted
<1>7. QED
  BY <1>3, <1>5, <1>6 DEF IInv

\* The sprite plugin sets what it needs.
LEMMA BeginSpritesIInv ==
  ASSUME IInv, BeginSprites
  PROVE  IInv'
<1>1. /\ todo.pass = "opaque"
      /\ gl' = [gl EXCEPT !.program = "sprite", !.enabled = @ \cup at["sprite"],
                          !.cull = FALSE, !.blend = TRUE,
                          !.pointer = Pointing(@, at["sprite"], Quad),
                          !.elements = Quad, !.camera = @ \cup {"sprite"}]
      /\ todo' = [todo EXCEPT !.pass = "sprites"]
      /\ drew' = Unknown /\ at' = at /\ cache' = cache
  BY DEF BeginSprites
<1>2. /\ TypeOK /\ Trusted(Now, at) /\ cache.blending = "none"
  BY <1>1, InOpaque
<1>3. /\ at["sprite"] \in SUBSET Locations /\ cache \in Cache /\ gl \in Context
      /\ todo \in Todo /\ cache.enabled \subseteq gl.enabled
  BY <1>2 DEF TypeOK, Programs, IInv
<1>4. PICK pointer : pointer = Pointing(gl.pointer, at["sprite"], Quad)
  OBVIOUS
<1>5. /\ pointer \in [Locations -> Pins \cup {Mesh, Quad, Unknown}]
      /\ \A l \in at["sprite"] : pointer[l] = Quad
  BY <1>3, <1>4 DEF Pointing, Context
<1>6. gl' = [gl EXCEPT !.program = "sprite", !.enabled = gl.enabled \cup at["sprite"],
                       !.cull = FALSE, !.blend = TRUE, !.pointer = pointer,
                       !.elements = Quad, !.camera = gl.camera \cup {"sprite"}]
  BY <1>1, <1>4
<1>7. /\ gl'.program = "sprite" /\ gl'.enabled = gl.enabled \cup at["sprite"]
      /\ ~gl'.cull /\ gl'.blend /\ gl'.pointer = pointer /\ gl'.elements = Quad
      /\ "sprite" \in gl'.camera
  BY <1>3, <1>6 DEF Context
<1>8. gl' \in Context
  <2>1. gl.enabled \cup at["sprite"] \in SUBSET Locations
        /\ gl.camera \cup {"sprite"} \in SUBSET Programs
    BY <1>3 DEF Context, Programs
  <2>2. QED
    BY <1>3, <1>5, <1>6, <2>1 DEF Context, Programs
<1>9. todo' \in Todo /\ todo'.pass = "sprites"
  BY <1>1, <1>3 DEF Todo
<1>10. TypeOK'
  BY <1>1, <1>2, <1>8, <1>9 DEF TypeOK
<1>11. DrawsAsNeeded'
  BY <1>1, <1>9, <1>10 DEF DrawsAsNeeded, StateAsNeeded, ReadsOwnBuffers, SeesThisFrame,
                           DrewOpaque, DrewSprite
<1>12. SpritesReady(cache, gl)'
  BY <1>1, <1>2, <1>5, <1>7 DEF SpritesReady
<1>13. (cache.enabled \subseteq gl.enabled)'
  BY <1>1, <1>3, <1>7
<1>14. QED
  BY <1>9, <1>11, <1>12, <1>13 DEF IInv

\* A sprite is drawn with its own picture and all that the plugin has set.
LEMMA DrawSpriteIInv ==
  ASSUME IInv, NEW p \in Pins, DrawSprite(p)
  PROVE  IInv'
<1>1. /\ todo.pass = "sprites" /\ at' = at /\ drew' = p
      /\ todo' = [todo EXCEPT !.sprites = @ \ {p}]
  BY DEF DrawSprite
<1>2. /\ TypeOK /\ SpritesReady(cache, gl) /\ cache.enabled \subseteq gl.enabled
      /\ cache \in Cache /\ gl \in Context /\ todo \in Todo
  BY <1>1 DEF IInv, DrawsAsNeeded, TypeOK
<1>3. Now \in State /\ Now.c = cache /\ Now.g = gl
  BY <1>2 DEF Now, State
<1>4. PICK s : s = SetBlending(Now, "normal")
  OBVIOUS
<1>5. /\ s \in State /\ s.c = [cache EXCEPT !.blending = "normal"]
      /\ s.g = [gl EXCEPT !.blend = s.g.blend, !.normal = s.g.normal]
      /\ s.g.blend /\ s.g.normal
  <2>1. cache.blending = "normal" => gl.blend /\ gl.normal
    BY <1>2 DEF SpritesReady
  <2>2. QED
    BY <1>3, <1>4, <2>1, BlendingTrusted
<1>6. cache' = s.c /\ gl' = [s.g EXCEPT !.tex = p]
  BY <1>4 DEF DrawSprite, Now
<1>7. /\ gl'.program = gl.program /\ gl'.cull = gl.cull /\ gl'.enabled = gl.enabled
      /\ gl'.pointer = gl.pointer /\ gl'.elements = gl.elements
      /\ gl'.camera = gl.camera /\ gl'.blend /\ gl'.normal /\ gl'.tex = p
  BY <1>2, <1>5, <1>6 DEF State, Context
<1>8. cache' \in Cache /\ gl' \in Context /\ cache'.enabled = cache.enabled
  BY <1>2, <1>5, <1>6 DEF State, Cache, Context
<1>9. todo' \in Todo /\ todo'.pass = "sprites"
  BY <1>1, <1>2 DEF Todo
<1>10. TypeOK'
  BY <1>1, <1>2, <1>8, <1>9 DEF TypeOK
<1>11. SpritesReady(cache, gl)'
  BY <1>1, <1>2, <1>7 DEF SpritesReady
<1>12. DrawsAsNeeded'
  BY <1>1, <1>7, <1>9, <1>10, <1>11
  DEF DrawsAsNeeded, StateAsNeeded, ReadsOwnBuffers, SeesThisFrame, DrewOpaque,
      DrewSprite, SpritesReady
<1>13. (cache.enabled \subseteq gl.enabled)'
  BY <1>2, <1>7, <1>8
<1>14. QED
  BY <1>9, <1>11, <1>12, <1>13 DEF IInv

\* The renderer forgets what the plugin has set behind its back.
LEMMA EndSpritesIInv ==
  ASSUME IInv, EndSprites
  PROVE  IInv'
<1>1. /\ todo.pass = "sprites" /\ at' = at /\ drew' = Unknown /\ todo' = NoFrame
      /\ gl' = [gl EXCEPT !.cull = TRUE] /\ cache' = ResetGLState(cache)
  BY DEF EndSprites
<1>2. /\ TypeOK /\ cache.enabled \subseteq gl.enabled
      /\ cache \in Cache /\ gl \in Context
  BY DEF IInv, DrawsAsNeeded, TypeOK
<1>3. /\ cache'.program = Unknown /\ cache'.blending = Unknown
      /\ cache'.hash = Unknown /\ cache'.enabled = cache.enabled
      /\ gl'.cull /\ gl'.enabled = gl.enabled
  BY <1>1, <1>2 DEF ResetGLState, ResetCaching, Cache, Context
<1>4. cache' \in Cache /\ gl' \in Context
  BY <1>1, <1>2 DEF ResetGLState, ResetCaching, Cache, Context
<1>5. todo' \in Todo /\ todo'.pass = "none"
  BY <1>1 DEF NoFrame, Todo
<1>6. TypeOK'
  BY <1>1, <1>2, <1>4, <1>5 DEF TypeOK
<1>7. DrawsAsNeeded'
  BY <1>5, <1>6 DEF DrawsAsNeeded, StateAsNeeded, ReadsOwnBuffers, SeesThisFrame,
                    DrewOpaque, DrewSprite
<1>8. Trusted(Now, at)' /\ (cache.enabled \subseteq gl.enabled)'
  BY RenderAssumption, <1>2, <1>3 DEF Trusted, Bound, Now
<1>9. QED
  BY <1>5, <1>7, <1>8 DEF IInv

-----------------------------------------------------------------------------

\* IInv is inductive.
LEMMA IInvStep == IInv /\ [Next]_vars => IInv'
<1> SUFFICES ASSUME IInv, [Next]_vars PROVE IInv'
  OBVIOUS
<1>1. CASE \E present, view \in SUBSET Pins : BeginFrame(present, view)
  BY <1>1, BeginFrameIInv
<1>2. CASE \E p \in Pins : DrawLine(p) \/ DrawSprite(p)
  BY <1>2, DrawLineIInv, DrawSpriteIInv
<1>3. CASE UNCHANGED vars
  BY <1>3 DEF vars, IInv, DrawsAsNeeded, TypeOK, StateAsNeeded, ReadsOwnBuffers,
              SeesThisFrame, DrewOpaque, DrewSprite, SpritesReady, Now
<1>4. QED
  BY <1>1, <1>2, <1>3, DrawMeshIInv, NoSpritesIInv, BeginSpritesIInv, EndSpritesIInv
  DEF Next

\* Whatever was drawn before it, and however many pins there are, a draw call has its
\* program, blending, faces, buffers, camera, lights and picture.
THEOREM EveryDrawCall == Spec => []DrawsAsNeeded
<1>1. IInv => DrawsAsNeeded
  BY DEF IInv
<1>2. QED
  BY InitIInv, IInvStep, <1>1, PTL DEF Spec

\* What the renderer remembers between two draw calls is so.
THEOREM MemoryTrue == Spec => []RemembersTruly
<1>1. IInv => RemembersTruly
  BY DEF IInv, RemembersTruly, Trusted, Now
<1>2. QED
  BY InitIInv, IInvStep, <1>1, PTL DEF Spec
=============================================================================
