CONSTANTS
  NChunks = 2
  MaxRetries = 2
  MaxLimited = 1
  MaxFailures = 2
  MaxSlots = 2
  Names = {0, 1, 2}
  Drift = 1
  Rosters <- SomeRosters
  Infos <- SomeInfos
  WaitingLists <- SomeWaiting
  EmptyWaiting <- Nobody
  Buffer = 6
  OfflineAfter = 2
  MaxLog = 4
  EventBuffer = 1
  HistorySize = 2
  MaxShown = 3
  MaxEvents = 3
  MaxConns = 2
  MaxLost = 1
  Filters = {"all", "Favorite"}
  LastPage <- Lasts
  Toggles = {toggle}
  Ranges = {"month", "day"}
  SpanOf <- Spans
  StepOf <- Steps
  Offered <- Offers
  Opened = 5
  FirstRange = "month"
  Shortest = "short"
  MaxTime = 7
  Inputs <- Words
  Short = {"", "_", "a"}
  TermOf <- Terms
  Empty = ""
  Keys = {k1, k2, locked}
  Locked = {locked}
  Options <- UsedOptions
  Fakes = {f1}
  Steams = {s1, s2}
  Linkable = {f1, s1}
  Callers = {s1}
  Sessions = {x1}
  MergeIds = {m1, m2}
  Txs = {t1, t2}
  None = None
SPECIFICATION PartsSpec
INVARIANTS
  FeedTellsTheList Backfilled FavoritesAreFresh SkeletonIsUnderWay
  SuggestionsFit ShownIsAsked LoadingIsUnderWay
  SessionsAreKept TombstonesHaveTheirMerge
PROPERTIES
  ImplementsStore UploadIsOver StayersStayCounted NothingVanishes PlaybackStaysInside
  NotReadyResolves
CHECK_DEADLOCK FALSE
