SPECIFICATION Spec
CONSTANTS
  py = py
  cc = cc
  k1 = k1
  k2 = k2
  k3 = k3
  k4 = k4
  a = a
  b = b
  z = z
  n = n
  s = s
  t = t
  NoStdin = NoStdin
  NoCode = NoCode
  Missing = Missing
  NoJob = NoJob
  FreeOwner = FreeOwner
  LostOwner = LostOwner
  x1 = x1
  x2 = x2
  x3 = x3
  Calls = {x1, x2, x3}
  Clients = {}
  Keys = {py, cc}
  Compiled = {cc}
  Containers = {k1, k2, k3, k4}
  InitialPool <- PyFour
  Codes = {a}
  Broken = {}
  Nameless = {}
  Stdins = {s, t, NoStdin}
  Jobs <- PyLong
  Endings = {"ok"}
  MaxPermits = 3
  DockerFails = FALSE
  CacheLossy = FALSE
  LateWrites = FALSE
SYMMETRY CallSymmetry
INVARIANTS WithinMaximum
