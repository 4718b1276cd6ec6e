\* The court, called by an embedder in any order or by the handlers of the server: three
\* judges, a quorum of two, and two cases, of which both may be demos.
SPECIFICATION AppSpec
CONSTANTS
  Hosts = {"library", "server"}
  Keys = {1, 2, 3}
  Stake <- RosterStake
  Capabilities <- RosterCapabilities
  Cases = {"c", "d"}
  LibraryCases = {"c"}
  Quote <- RosterQuote
  DemoVotes <- SampleDemo
  Limit = 1
  Fees = {1}
  Quoting = {2}
  Revocable = {3}
  Spurious = {1}
  QuorumJudges = 2
  QuorumStake = 2
  MaxRejected = 1
INVARIANTS AppTypeOK VerdictHasQuorum ReputationIsEarned ServedCasesReplay MapIsBounded
PROPERTIES RulingIsFinal
CHECK_DEADLOCK FALSE
