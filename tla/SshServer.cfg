\* One connection with two channels, two requests on each, room for one; two key offers.
SPECIFICATION FairSpec
CONSTANTS
  Conns = {c1}
  Channels = {h1, h2}
  Keys = {k1, k2, kbig}
  OversizeKeys = {kbig}
  None = None
  Backlog = 1
  MaxReqs = 2
\* A connection that is over stays over.
CHECK_DEADLOCK FALSE
INVARIANTS
  TypeOK
  LinkKeyProven
  OneAnswerPerChannel
PROPERTIES
  ShellAnswered
  HandlerReturns
