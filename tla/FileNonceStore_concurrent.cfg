\* Three processes on one host, nobody dies; a holder whose record is written
\* may stall past the stale window.
SPECIFICATION Spec
CONSTANTS
  p1 = p1  p2 = p2  p3 = p3  k1 = k1  k2 = k2
  Procs = {p1, p2, p3}
  Keys = {k1}
  Malformed = {}
  Host <- OneHost
  Crashing = {}
  Restarting = {}
  MaxCrashes = 0
  Stalls = {"recorded"}
  Faults = {"fsync_fails"}
SYMMETRY Symmetry
INVARIANTS TypeOK MutualExclusion AtMostOneAccept
PROPERTIES LiveLockNeverStolen ClaimsAreNeverDropped ImplementsNonceClaim
