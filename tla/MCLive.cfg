SPECIFICATION LiveSpec
CONSTANTS
  Requests = {r1}
  Slots = {p1}
  Split = TRUE
  MaxSession = 2
  MaxFailures = 1
  MaxLate = 1
  Lists <- SomeLists
  Targets = {1}
  Self = "ann"
  MaxLoose = 1
  Others = {o1}
  Arms = {a1, a2}
  None = None
INVARIANTS KeysHoldTheirSession LaunchesOnce  SavedIsArmed OneStream
PROPERTIES QueueComputes KeepsTrying
