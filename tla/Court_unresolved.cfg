\* The server with one case, whose deliberation may end without a quorum.
SPECIFICATION FairAppSpec
CONSTANTS
  Hosts = {"server"}
  Keys = {1, 2, 3}
  Stake <- RosterStake
  Capabilities <- RosterCapabilities
  Cases = {"c"}
  LibraryCases = {}
  Quote <- RosterQuote
  DemoVotes <- SampleDemo
  Limit = 1
  Fees = {1}
  Quoting = {}
  Revocable = {}
  Spurious = {}
  QuorumJudges = 2
  QuorumStake = 2
  MaxRejected = 0
PROPERTIES ExpiredCasesEndUnresolved
CHECK_DEADLOCK FALSE
