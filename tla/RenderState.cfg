\* Two pins, so that a line follows another and a sprite another.
SPECIFICATION Spec
CONSTANTS
  Pins = {p1, p2}
  Mesh = Mesh
  Quad = Quad
  Unknown = Unknown
SYMMETRY Symmetry
INVARIANTS
  DrawsAsNeeded
  RemembersTruly
