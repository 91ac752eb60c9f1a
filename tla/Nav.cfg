\* Two sessions one after the other, a history of three entries.
SPECIFICATION TabSpec
CONSTANTS
  Sessions = {s1, s2}
  MaxEntries = 3
  SignedOut = SignedOut
  Stale = Stale
SYMMETRY Symmetry
INVARIANT ShownAsRendered
