SPECIFICATION NotifySpec
CONSTANTS
  Servers = {server}
  Maps = {ze}
  Wanted <- NextMap
  Pushes = {browser}
  MapTasks = {t1}
  MaxRows = 1
  MaxAsking = 1
  MaxFaults = 0
  None = None
INVARIANT ReSubscribingClears
CHECK_DEADLOCK FALSE
