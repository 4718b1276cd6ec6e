\* Two processes and two keys; a reply may come after the call timed out.
SPECIFICATION Spec
CONSTANTS
  p1 = p1  p2 = p2  k1 = k1  k2 = k2
  Procs = {p1, p2}
  Keys = {k1, k2}
  MaxOps = 4
  LateReplies = TRUE
  SlowNotify = FALSE
  Drops = FALSE
INVARIANTS AtMostOneAccept
CHECK_DEADLOCK FALSE
