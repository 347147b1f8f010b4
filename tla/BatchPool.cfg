SPECIFICATION Spec
CONSTANTS
  py = py
  cc = cc
  k1 = k1
  k2 = k2
  k3 = k3
  k4 = k4
  a = a
  b = b
  z = z
  n = n
  s = s
  t = t
  NoStdin = NoStdin
  NoCode = NoCode
  Missing = Missing
  NoJob = NoJob
  FreeOwner = FreeOwner
  LostOwner = LostOwner
  x1 = x1
  x2 = x2
  x3 = x3
  Calls = {x1, x2}
  Clients = {x1, x2}
  Keys = {py, cc}
  Compiled = {cc}
  Containers = {k1, k2}
  InitialPool <- PyTwo
  Codes = {a}
  Broken = {}
  Nameless = {}
  Stdins = {s, t, NoStdin}
  Jobs <- PyCrowd
  Endings = {"ok", "crash"}
  MaxPermits = 3
  DockerFails = TRUE
  CacheLossy = FALSE
  LateWrites = FALSE
SYMMETRY FullSymmetry
INVARIANTS TypeOK Engaged HoldsWhatItUses ChunkInRange OnePlace PermitsConserved
PROPERTIES LeaseSpec ExecutionSpec
