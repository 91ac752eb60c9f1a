\* Somebody else's pin, the visitor's own, the one being dragged.
SPECIFICATION SceneSpec
CONSTANTS
  Pins = {p1, p2, p3}
  Positions = {here, there}
  Template = Template
  None = None
SYMMETRY Symmetry
INVARIANTS
  DrawnAsPlaced
  SpheresKept
  SceneAgrees
