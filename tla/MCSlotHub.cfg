SPECIFICATION HubSpec
CONSTANTS
  Servers = {v1}
  Watches = {w1, w2, w3}
  Streams = {s1, s2, s3}
  Tabs = {t1}
  Conns = {c1}
  MaxClients = 2
  None = None
SYMMETRY Symmetry
INVARIANTS Served OnePoller EntriesBalance
PROPERTIES OnlyOwnEntryGoes
CHECK_DEADLOCK FALSE
