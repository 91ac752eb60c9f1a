\* One browser that keeps loading pages, two requests at once, a running clock.
SPECIFICATION FairSpec
CONSTANTS
  Keys = {k}
  Browsers = {b1}
  Slots = {r1, r2}
  SessionIds = {i1}
  SessionSecrets = {x}
  Positions = {}
  None = None
  SessionTTL = 2
  Lag = 1
  MaxTime = 4
  MaxUserId = 1
PROPERTIES
  ActiveSessionKept
  StaleCookieDropped
  IdleSessionsExpire
