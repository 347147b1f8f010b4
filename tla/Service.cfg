SPECIFICATION Spec
CONSTANTS
  py = py
  cc = cc
  c1 = c1
  c2 = c2
  c3 = c3
  wp = wp
  wq = wq
  wc = wc
  r1 = r1
  r2 = r2
  r3 = r3
  r4 = r4
  s1 = s1
  NoTask = NoTask
  Idle = Idle
  Lost = Lost
  Requests = {r1, r2}
  Workers = {wp, wq, wc}
  Sockets = {}
  Containers = {c1, c2}
  Keys = {py, cc}
  KeyOf <- Languages
  Kind <- Mixed
  Size <- Large
  Refused = {}
  Unserved = {r2}
  Unbuilt = {r1}
  Impatient = {r2}
  MaxPermits = 2
  BatchLimit = 1
  Capacity = 1
  DockerFails = TRUE
  Stops = TRUE
CHECK_DEADLOCK FALSE
INVARIANTS ServiceTypeOK TaskKnown OneRunner RemovedNotInUse
PROPERTIES TasksAccounted WakeupsAccounted
