SPECIFICATION Spec
CONSTANTS
  Names = {0, 1, 2}
  Drift = 2
  Rosters <- OneRoster
  Infos <- HonestInfo
  WaitingLists <- SomeWaiting
  EmptyWaiting <- Nobody
  Buffer = 4
  OfflineAfter = 1
  MaxLog = 4
  None = None
  Pages = {c1}
  Target = 1
  Self = None
  MaxWire = 2
  MaxEpoch = 0
INVARIANTS FiresOnReportedCount
CHECK_DEADLOCK FALSE
