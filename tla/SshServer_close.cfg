\* README.md, lines 14-15: "the server closes the connection"
SPECIFICATION FairSpec
CONSTANTS
  Conns = {c1}
  Channels = {h1, h2}
  Keys = {k1}
  OversizeKeys = {}
  None = None
  Backlog = 1
  MaxReqs = 2
CHECK_DEADLOCK FALSE
PROPERTIES
  ServerCloses
