\* One process that dies part-way through an append, is restarted, and claims again.
SPECIFICATION Spec
CONSTANTS
  p1 = p1  p2 = p2  p3 = p3  k1 = k1  k2 = k2
  Procs = {p1}
  Keys = {k1}
  Malformed = {}
  Host <- OneHost
  Crashing = {p1}
  Restarting = {p1}
  MaxCrashes = 1
  Stalls = {}
  Faults = {"torn_write"}
INVARIANTS AcceptIsDurable
