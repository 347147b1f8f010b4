SPECIFICATION FairSpec
CONSTANTS
  py = py
  cc = cc
  c1 = c1
  c2 = c2
  c3 = c3
  wp = wp
  wq = wq
  wc = wc
  r1 = r1
  r2 = r2
  r3 = r3
  r4 = r4
  s1 = s1
  NoTask = NoTask
  Idle = Idle
  Lost = Lost
  Requests = {r1, r2}
  Workers = {wp, wc}
  Sockets = {}
  Containers = {c1, c3}
  Keys = {py, cc}
  KeyOf <- Languages
  Kind <- Singles
  Size <- Ones
  Refused = {}
  Unserved = {}
  Unbuilt = {}
  Impatient = {}
  MaxPermits = 1
  BatchLimit = 1
  Capacity = 1
  DockerFails = FALSE
  Stops = FALSE
CHECK_DEADLOCK FALSE
PROPERTIES TaskTaken
