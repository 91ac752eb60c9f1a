\* Two sign-ins at once, two links with one id, two sessions.
SPECIFICATION FairSpec
CONSTANTS
  Keys = {k1, k2, kbig}
  OversizeKeys = {kbig}
  SigninIds = {i1}
  Secrets = {a, b}
  SessionIds = {sid}
  SessionSecrets = {x, y}
  Posts = {p1, p2}
  None = None
  SigninTTL = 1
  Lag = 1
  MaxTime = 2
INVARIANTS
  SessionKeyBinding
  ConfirmedBeforeGrant
  DuplicateOnlyIfRaced
  OrphanOnlyIfStraddled
PROPERTIES
  DeadLinkStaysDead
  NoEarlyExpiry
  ImplementsKeyAccess
  LinksExpire
