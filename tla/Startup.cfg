\* Three processes, each of which may be started twice.
SPECIFICATION FairSpec
CONSTANTS
  Procs = {p1, p2, p3}
  MaxStarts = 2
  None = None
INVARIANTS
  StartsSafely
  RaceHasWinner
PROPERTY SchemaComes
\* All processes may be gone for good.
CHECK_DEADLOCK FALSE
