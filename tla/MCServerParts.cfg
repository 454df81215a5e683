SPECIFICATION ServerPartsSpec
CONSTANTS
  Requests = {r1, r2}
  Slots = {s1, s2}
  Split = FALSE
  MaxSession = 1
  MaxFailures = 2
  MaxLate = 2
  Names = {0, 1}
  Drift = 1
  Shapes <- SomeShapes
  Jitter = 1
  Servers = {server}
  Maps = {ze}
  Wanted <- NextMapAndAnywhere
  Pushes = {browser}
  MapTasks = {t1, t2}
  MaxRows = 2
  MaxAsking = 1
  MaxFaults = 1
  Callers = {a1, a2, a3}
  MaxWrites = 1
  MaxLosses = 2
  MaxForgets = 1
  None = None
SYMMETRY Symmetry
INVARIANTS
  JobsAreMarked ListsBalance SameListIsQuiet NamesakesToldApart
  FiredMeansTried OneTimeIsUsedUp
  FilledOnce DropReachesBoth
CHECK_DEADLOCK FALSE
