\* Two processes on one host: p2 may die at any point, the power may fail, and
\* only p1 comes back, so one contender at a time meets a dead owner's lock.
SPECIFICATION FairSpec
CONSTANTS
  p1 = p1  p2 = p2  p3 = p3  k1 = k1  k2 = k2
  Procs = {p1, p2}
  Keys = {k1, k2}
  Malformed = {k2}
  Host <- OneHost
  Crashing = {p2}
  Restarting = {p1}
  MaxCrashes = 2
  Stalls = {"recorded"}
  Faults = {"record_fails", "fsync_fails"}
INVARIANTS AcceptIsDurable AtMostOneAccept
PROPERTIES AcquisitionEnds OrphanIsReclaimed
