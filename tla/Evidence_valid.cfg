\* The same documents, and what a report calls VALID.
SPECIFICATION ServicesSpec
CONSTANTS
  v1 = v1  v2 = v2  app = app  key = key  alice = alice  n1 = n1  n2 = n2  n3 = n3  vault = vault
  Verifiers = {v1, v2}
  Apps = {app}
  KeyIds = {key}
  Uids = {alice}
  Nonces = {n1, n2, n3}
  W = 1
  Events <- SampleEvents
  Documents <- SampleDocuments
  Policies <- SamplePolicies
  Genesis <- Prepared
  Times = {2}
  PageTimes = {0, 1, 2, 3, 4}
  MaxRequests = 2
  ESCROW_APP_ID = app
  Attestations <- SampleAttestations
  EventKeys <- SampleEventKeys
  MaxAge = 1
  Instants = {1, 3}
  LateReplies = FALSE
  Entries <- SampleEntries
  Samples <- SampleSamples
  Supplies = {0, 2}
  Terms <- SampleTerms
  MaxReceived = 3
  Strings = {1, 2, 3}
  NFC <- SampleNFC
  MAX_SAFE = 2
  MAX_DEPTH = 2
  NESTING = 3
  Values <- SampleValues
SYMMETRY Symmetry
INVARIANTS ValidMeansVerified
