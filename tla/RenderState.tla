---------------------------- MODULE RenderState ----------------------------
(***************************************************************************)
(* What the renderer of three.js believes of the WebGL context, and what   *)
(* the context really is, from draw call to draw call.  To save calls, the *)
(* renderer remembers what it has set last; the plugin that draws the heads*)
(* of the pins sets some of it behind the renderer's back and tells it to  *)
(* forget.  The scene is the page's: the globe, lit, and the lines of the  *)
(* pins in view, all opaque, then the sprites of all pins.  Depth test and *)
(* mask, front face, polygon offset and line width are the same for all of *)
(* its materials and left out.                                             *)
(***************************************************************************)
EXTENDS Naturals, FiniteSets

CONSTANTS
  Pins,     \* pins the scene may hold
  Mesh,     \* the globe
  Quad,     \* the sprite plugin's own buffers
  Unknown   \* a remembered value the renderer does not rely on

ASSUME RenderAssumption ==
  /\ {Mesh, Quad, Unknown} \cap Pins = {}
  /\ Mesh # Quad /\ Mesh # Unknown /\ Quad # Unknown
  /\ Unknown \notin {"phong", "basic", "sprite", "none", "normal", FALSE}

VARIABLES
  at,      \* the locations the driver gave the attributes of each program
  cache,   \* what the renderer remembers
  gl,      \* the context
  todo,    \* what is left to draw of this frame
  drew     \* the object drawn last, or Unknown

vars == <<at, cache, gl, todo, drew>>

-----------------------------------------------------------------------------

Programs == {"phong", "basic", "sprite"}
Locations == 0..2

\* An object's program is its material, too: all lines share one.
ProgramOf(x) == IF x = Mesh THEN "phong" ELSE "basic"

\* camera: the camera is known; lights: _lightsNeedUpdate; lit: _lights are those of
\* this frame; hash: the geometry, which goes with one program here.
Cache == [program : Programs \cup {Unknown}, material : Programs \cup {Unknown},
          blending : {"none", "normal", Unknown}, doubleSided : {FALSE, Unknown},
          camera : BOOLEAN, lights : BOOLEAN, lit : BOOLEAN,
          hash : Pins \cup {Mesh, Unknown},
          enabled : SUBSET Locations, new : SUBSET Locations]

\* camera: programs with the matrices of this frame's camera; lights: the phong
\* program has the lights of this frame; tex: what is bound to the first unit.
Context == [program : Programs \cup {Unknown}, blend : BOOLEAN, normal : BOOLEAN,
            cull : BOOLEAN, enabled : SUBSET Locations,
            pointer : [Locations -> Pins \cup {Mesh, Quad, Unknown}],
            elements : {Mesh, Quad, Unknown}, tex : Pins \cup {Mesh, Unknown},
            camera : SUBSET Programs, lights : BOOLEAN]

Todo == [pass : {"none", "opaque", "sprites"}, lines : SUBSET Pins, mesh : BOOLEAN,
         sprites : SUBSET Pins]

NoFrame == [pass |-> "none", lines |-> {}, mesh |-> FALSE, sprites |-> {}]

\* setDefaultGLState.
Init ==
  /\ at \in [Programs -> SUBSET Locations]
  /\ Cardinality(at["phong"]) = 3 /\ Cardinality(at["basic"]) = 1
  /\ Cardinality(at["sprite"]) = 2
  /\ cache = [program |-> Unknown, material |-> Unknown, blending |-> Unknown,
              doubleSided |-> Unknown, camera |-> FALSE, lights |-> TRUE,
              lit |-> FALSE, hash |-> Unknown, enabled |-> {}, new |-> {}]
  /\ gl = [program |-> Unknown, blend |-> TRUE, normal |-> FALSE, cull |-> TRUE,
           enabled |-> {}, pointer |-> [l \in Locations |-> Unknown],
           elements |-> Unknown, tex |-> Unknown, camera |-> {}, lights |-> FALSE]
  /\ todo = NoFrame
  /\ drew = Unknown

-----------------------------------------------------------------------------
(* The renderer's setters: s is a record of what is remembered (c) and what the
   context is (g). *)

SetBlending(s, b) ==
  IF b = s.c.blending THEN s
  ELSE [c |-> [s.c EXCEPT !.blending = b],
        g |-> IF b = "none" THEN [s.g EXCEPT !.blend = FALSE]
              ELSE [s.g EXCEPT !.blend = TRUE, !.normal = TRUE]]

\* No material of the page is double-sided.
SetMaterialFaces(s) ==
  IF s.c.doubleSided = FALSE THEN s
  ELSE [c |-> [s.c EXCEPT !.doubleSided = FALSE], g |-> [s.g EXCEPT !.cull = TRUE]]

\* Lights are refreshed with the program, whatever the material.
RefreshesLights(c, p) == c.program # p \/ c.material = Unknown
\* setProgram: what it refreshes depends on what changed since the last draw.
SetProgram(s, x) ==
  LET p == ProgramOf(x)
      refreshProgram == p # s.c.program
      refreshMaterial == refreshProgram \/ p # s.c.material
      setupLights == refreshMaterial /\ p = "phong" /\ s.c.lights
      refreshLights == p = "phong" /\ refreshMaterial
                         /\ (setupLights \/ RefreshesLights(s.c, p))
  IN [c |-> [s.c EXCEPT !.program = p, !.material = p, !.camera = TRUE,
                        !.lights = @ /\ ~setupLights, !.lit = @ \/ setupLights],
      g |-> [s.g EXCEPT
               !.program = IF refreshProgram THEN p ELSE @,
               !.camera = IF refreshProgram \/ ~s.c.camera THEN @ \cup {p} ELSE @,
               !.lights = IF refreshLights THEN s.c.lit \/ setupLights ELSE @,
               !.tex = IF refreshMaterial /\ p = "phong" THEN Mesh ELSE @]]

\* enableAttribute asks the context for what it believes to be disabled.
EnableAttributes(s, new) ==
  [c |-> [s.c EXCEPT !.enabled = @ \cup new, !.new = new],
   g |-> [s.g EXCEPT !.enabled = @ \cup (new \ s.c.enabled)]]

\* What was disabled is still believed to be enabled.
DisabledUnrecorded(s) ==
  [s EXCEPT !.g.enabled = @ \ (s.c.enabled \ s.c.new)]
DisableUnusedAttributes(s) ==
  LET unused == s.c.enabled \ s.c.new IN
  [c |-> [s.c EXCEPT !.enabled = @ \ unused], g |-> [s.g EXCEPT !.enabled = @ \ unused]]

\* vertexAttribPointer.
Pointing(pointer, locations, x) ==
  [l \in Locations |-> IF l \in locations THEN x ELSE pointer[l]]

\* renderBuffer: the pointers stay when the geometry and the program are those of the
\* draw before.
BindBuffers(s, x) ==
  IF s.c.hash = x THEN s
  ELSE LET p == ProgramOf(x)
           e == EnableAttributes(s, at[p])
       IN [c |-> [e.c EXCEPT !.hash = x],
           g |-> [e.g EXCEPT !.pointer = Pointing(@, at[p], x),
                             !.elements = IF x = Mesh THEN Mesh ELSE @]]

Draw(x) ==
  LET s == DisableUnusedAttributes(BindBuffers(SetProgram(
             SetMaterialFaces([c |-> cache, g |-> gl]), x), x))
  IN cache' = s.c /\ gl' = s.g /\ drew' = x

-----------------------------------------------------------------------------
(* A frame. *)

\* The geometry, or the lights, are not.
KeepsGeometry(c) == [c EXCEPT !.material = Unknown, !.camera = FALSE, !.lights = TRUE]
KeepsLights(c) == [c EXCEPT !.hash = Unknown, !.material = Unknown, !.camera = FALSE]
\* The values that are forgotten for the frame, whatever the last one drew.
ResetCaching(c) ==
  [c EXCEPT !.hash = Unknown, !.material = Unknown, !.camera = FALSE, !.lights = TRUE]

\* Lines are drawn from the renderer's list, not from the scene.
OfAllListed(present) == SUBSET Pins
\* projectObject walks the scene, and the frustum leaves out any lines.
InView(present) == SUBSET present

\* render up to the opaque pass; sprites are never culled.  Camera and lights have moved
\* since the last frame.
BeginFrame(present, view) ==
  /\ todo.pass = "none" /\ view \in InView(present)
  /\ LET s == SetBlending([c |-> ResetCaching([cache EXCEPT !.lit = FALSE]),
                           g |-> [gl EXCEPT !.camera = {}, !.lights = FALSE]], "none")
     IN cache' = s.c /\ gl' = s.g
  /\ todo' = [pass |-> "opaque", lines |-> view, mesh |-> TRUE, sprites |-> present]
  /\ drew' = Unknown
  /\ UNCHANGED at

\* The opaque list is sorted by material first.
DrawLine(p) ==
  /\ todo.pass = "opaque" /\ p \in todo.lines
  /\ Draw(p)
  /\ todo' = [todo EXCEPT !.lines = @ \ {p}]
  /\ UNCHANGED at

DrawMesh ==
  /\ todo.pass = "opaque" /\ todo.lines = {} /\ todo.mesh
  /\ Draw(Mesh)
  /\ todo' = [todo EXCEPT !.mesh = FALSE]
  /\ UNCHANGED at

\* Without sprites the plugin does nothing, and does not reset what is remembered.
NoSprites ==
  /\ todo.pass = "opaque" /\ ~todo.mesh /\ todo.sprites = {}
  /\ todo' = NoFrame
  /\ UNCHANGED <<at, cache, gl, drew>>

\* SpritePlugin.render up to its loop: all behind the renderer's back.
BeginSprites ==
  /\ todo.pass = "opaque" /\ ~todo.mesh /\ todo.sprites # {}
  /\ gl' = [gl EXCEPT !.program = "sprite", !.enabled = @ \cup at["sprite"],
                      !.cull = FALSE, !.blend = TRUE,
                      !.pointer = Pointing(@, at["sprite"], Quad),
                      !.elements = Quad, !.camera = @ \cup {"sprite"}]
  /\ todo' = [todo EXCEPT !.pass = "sprites"]
  /\ drew' = Unknown
  /\ UNCHANGED <<at, cache>>

DrawSprite(p) ==
  /\ todo.pass = "sprites" /\ p \in todo.sprites
  /\ LET s == SetBlending([c |-> cache, g |-> gl], "normal")
     IN cache' = s.c /\ gl' = [s.g EXCEPT !.tex = p]
  /\ todo' = [todo EXCEPT !.sprites = @ \ {p}]
  /\ drew' = p
  /\ UNCHANGED at

\* The renderer is not told.
NothingForgotten(c) == c
ResetGLState(c) ==
  [ResetCaching(c) EXCEPT !.program = Unknown, !.blending = Unknown,
                          !.doubleSided = Unknown]

\* SpritePlugin.render after its loop.
EndSprites ==
  /\ todo.pass = "sprites" /\ todo.sprites = {}
  /\ gl' = [gl EXCEPT !.cull = TRUE]
  /\ cache' = ResetGLState(cache)
  /\ todo' = NoFrame
  /\ drew' = Unknown
  /\ UNCHANGED at

Next ==
  \/ \E present, view \in SUBSET Pins : BeginFrame(present, view)
  \/ DrawMesh \/ NoSprites \/ BeginSprites \/ EndSprites
  \/ \E p \in Pins : DrawLine(p) \/ DrawSprite(p)

Spec == Init /\ [][Next]_vars

-----------------------------------------------------------------------------
(* Properties. *)

TypeOK ==
  /\ at \in [Programs -> SUBSET Locations]
  /\ cache \in Cache /\ gl \in Context /\ todo \in Todo
  /\ drew \in Pins \cup {Mesh, Unknown}
  /\ todo.pass = "none" => todo = NoFrame
  /\ todo.pass = "opaque" => todo.lines \subseteq todo.sprites

\* Lines and sprites share their pins' names: the pass tells which was drawn.
DrewOpaque == todo.pass = "opaque" /\ drew # Unknown
DrewSprite == todo.pass = "sprites" /\ drew # Unknown

\* Every draw call is made with the program, the blending and the face culling that
\* its object needs, whatever was drawn before it.
StateAsNeeded ==
  /\ DrewOpaque => gl.program = ProgramOf(drew) /\ ~gl.blend /\ gl.cull
  /\ DrewSprite => gl.program = "sprite" /\ gl.blend /\ gl.normal /\ ~gl.cull

\* Every attribute its program reads is enabled and points into the object's own
\* buffers.
ReadsOwnBuffers ==
  /\ DrewOpaque =>
       /\ at[ProgramOf(drew)] \subseteq gl.enabled
       /\ \A l \in at[ProgramOf(drew)] : gl.pointer[l] = drew
       /\ drew = Mesh => gl.elements = Mesh
  /\ DrewSprite =>
       /\ at["sprite"] \subseteq gl.enabled
       /\ \A l \in at["sprite"] : gl.pointer[l] = Quad
       /\ gl.elements = Quad

\* Every draw call sees this frame's camera, the globe this frame's lights, which move
\* with the camera, and each its own picture.
SeesThisFrame ==
  /\ DrewOpaque => ProgramOf(drew) \in gl.camera
  /\ DrewSprite => "sprite" \in gl.camera /\ gl.tex = drew
  /\ DrewOpaque /\ drew = Mesh => gl.lights /\ gl.tex = Mesh

\* Every draw call has its own state, data and frame, in whatever order they come.
DrawsAsNeeded == TypeOK /\ StateAsNeeded /\ ReadsOwnBuffers /\ SeesThisFrame

\* Outside of the sprite pass the renderer remembers nothing that is not so, and at all
\* times no attribute is enabled that is not.
RemembersTruly ==
  /\ todo.pass # "sprites" =>
       /\ cache.program \in {gl.program, Unknown}
       /\ cache.blending = "none" => ~gl.blend
       /\ cache.blending = "normal" => gl.blend /\ gl.normal
       /\ cache.doubleSided = FALSE => gl.cull
  /\ cache.enabled \subseteq gl.enabled
=============================================================================
