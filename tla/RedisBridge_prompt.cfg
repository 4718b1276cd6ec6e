\* Two processes that claim one key again and again; Redis answers within timeoutMs, connections break.
SPECIFICATION FairSpec
CONSTANTS
  p1 = p1  p2 = p2  k1 = k1  k2 = k2
  Procs = {p1, p2}
  Keys = {k1}
  MaxOps = 4
  LateReplies = FALSE
  SlowNotify = FALSE
  Drops = TRUE
INVARIANTS TypeOK AtMostOneAccept
PROPERTIES ImplementsNonceClaim ClaimEnds
CHECK_DEADLOCK FALSE
