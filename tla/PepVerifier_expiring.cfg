\* Two verifiers over an expiring store whose TTL outlives 2W + 2 Skew + Delay by
\* one; the events share one nonce.
SPECIFICATION Spec
CONSTANTS
  v1 = v1  v2 = v2  c1 = c1  c2 = c2  c3 = c3  app = app  key = key  nonce = nonce  alice = alice
  Verifiers = {v1, v2}
  Commands = {c1, c2}
  Genesis <- Prepared
  Apps = {app}
  KeyIds = {key}
  Uids = {alice}
  Nonces = {nonce}
  Events <- SharedNonce
  W = 1
  Skew = 1
  Delay = 1
  Expires = TRUE
  TTL = 6
  MaxClock = 7
SYMMETRY Symmetry
INVARIANTS TypeOK AtMostOneAccept RegistryRemembers
PROPERTIES OnlyAdmissibleEventsBurn
CHECK_DEADLOCK FALSE
