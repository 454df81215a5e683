SPECIFICATION TabSpec
CONSTANTS
  Lists <- SomeLists
  Targets = {0, 1}
  Self = "ann"
  MaxLoose = 1
  Others = {o1}
  Arms = {a1, a2}
  None = None
INVARIANTS OpenOnlyWhileWanted
