\* An embedder with one case, and a ruling against its own ballots.
SPECIFICATION AppSpec
CONSTANTS
  Hosts = {"library"}
  Keys = {1, 2, 3}
  Stake <- RosterStake
  Capabilities <- RosterCapabilities
  Cases = {"c"}
  LibraryCases = {"c"}
  Quote <- RosterQuote
  DemoVotes <- SampleDemo
  Limit = 1
  Fees = {1}
  Quoting = {}
  Revocable = {3}
  Spurious = {}
  QuorumJudges = 2
  QuorumStake = 2
  MaxRejected = 0
INVARIANTS RulingMatchesBallots
CHECK_DEADLOCK FALSE
