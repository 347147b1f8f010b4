SPECIFICATION FairSpec
CONSTANTS
  py = py
  cc = cc
  k1 = k1
  k2 = k2
  k3 = k3
  k4 = k4
  a = a
  b = b
  z = z
  n = n
  s = s
  t = t
  NoStdin = NoStdin
  NoCode = NoCode
  Missing = Missing
  NoJob = NoJob
  FreeOwner = FreeOwner
  LostOwner = LostOwner
  x1 = x1
  x2 = x2
  x3 = x3
  Calls = {x1, x2}
  Clients = {x1}
  Keys = {py, cc}
  Compiled = {cc}
  Containers = {k1}
  InitialPool <- PyOne
  Codes = {a, b}
  Broken = {}
  Nameless = {}
  Stdins = {s, NoStdin}
  Jobs <- PyFair
  Endings = {"ok"}
  MaxPermits = 1
  DockerFails = TRUE
  CacheLossy = FALSE
  LateWrites = TRUE
INVARIANTS Aligned
PROPERTIES EveryCallEnds
