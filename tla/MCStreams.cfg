SPECIFICATION StreamsSpec
CONSTANTS
  Servers = {v1}
  Watches = {w1, w2}
  Streams = {s1, s2}
  Tabs = {t1}
  Conns = {id1}
  MaxClients = 2
  Names = {0, 1, 2}
  Drift = 2
  Rosters <- SomeRosters
  Infos <- SomeInfos
  WaitingLists <- SomeWaiting
  EmptyWaiting <- Nobody
  Buffer = 2
  OfflineAfter = 1
  MaxLog = 2
  None = None
  Pages = {c1}
  Target = 1
  Self = 2
  MaxWire = 2
  MaxEpoch = 1
INVARIANTS PageMirrorsFeed NoGapReachesThePage
PROPERTIES NeverBackwards EventuallyCurrent NothingLeaks
CHECK_DEADLOCK FALSE
