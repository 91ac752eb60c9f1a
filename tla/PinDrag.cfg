\* Two places, two posts, two reloads, drags that begin over the globe.
SPECIFICATION FairSpec
CONSTANTS
  Positions = {here, there}
  None = None
  MaxVer = 2
  MaxLoads = 3
  MaxScene = 1
INVARIANTS
  ModesAgree
  StrayOnlyIfLeapt
  OneOwnPin
  DivergesOnlyIf
PROPERTY PageStarts
