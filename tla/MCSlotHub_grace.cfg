SPECIFICATION HubSpec
CONSTANTS
  Servers = {v1}
  Watches = {w1, w2}
  Streams = {s1, s2}
  Tabs = {t1}
  Conns = {c1}
  MaxClients = 2
  None = None
INVARIANT ListedThroughGrace
CHECK_DEADLOCK FALSE
