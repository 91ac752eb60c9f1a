\* Two browsers, two requests at once, two sessions with one id between them.
SPECIFICATION Spec
CONSTANTS
  Keys = {k}
  Browsers = {b1, b2}
  Slots = {r1, r2}
  SessionIds = {i1}
  SessionSecrets = {x, y}
  Positions = {here}
  None = None
  SessionTTL = 1
  Lag = 0
  MaxTime = 0
  MaxUserId = 2
SYMMETRY Symmetry
INVARIANTS
  TypeOK
  CookieStaysHome
PROPERTIES
  TouchedByOwner
  NoResurrection
