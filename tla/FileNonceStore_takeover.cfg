\* Three processes on one host, one of which dies once.
SPECIFICATION Spec
CONSTANTS
  p1 = p1  p2 = p2  p3 = p3  k1 = k1  k2 = k2
  Procs = {p1, p2, p3}
  Keys = {k1}
  Malformed = {}
  Host <- OneHost
  Crashing = {p3}
  Restarting = {}
  MaxCrashes = 1
  Stalls = {}
  Faults = {}
INVARIANTS AtMostOneAccept
