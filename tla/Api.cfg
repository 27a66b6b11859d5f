SPECIFICATION FairSpec
CONSTANTS
  r1 = r1
  r2 = r2
  u1 = u1
  Reqs = {r1, r2}
  Menus <- AllMenus
  Manifests <- TwoManifests
  Urls = {u1}
  Page = 2
  MaxRequests = 3
  MaxPublished = 1
  MaxLines = 4
  None = None
INVARIANTS TypeOK RetiredConfigUnused UnknownKindIsUnknown FreshAfterRefresh FollowerMissesNothing WritesAreAudited
PROPERTY StopEnds
CHECK_DEADLOCK FALSE
