------------------------------- MODULE AppServer -------------------------------
(***************************************************************************)
(* src/app/server.mjs: the court endpoints.  The court of module Court is  *)
(* hosted either by an embedder, who makes its calls in any order, or by   *)
(* the application server, whose handlers make several calls each.  A      *)
(* handler waits for the request's body before its first call and for      *)
(* nothing afterwards, so the calls of one handler follow each other       *)
(* without those of another in between: `plan' is what a handler has left  *)
(* to do.  A handler whose first call throws changes nothing; the later    *)
(* calls of a handler never throw.                                         *)
(*                                                                         *)
(* The server keeps its cases in a Map, COURT_CASES, which remembers the   *)
(* order of insertion.  The id of a case is a hash of its filing and of    *)
(* the time in milliseconds: two equal filings in one millisecond have the *)
(* same id, and the second takes the place of the first.                   *)
(***************************************************************************)
EXTENDS Court, Sequences

CONSTANTS
  Hosts,         \* who may host the court: "library", "server"
  LibraryCases,  \* the cases that an embedder files
  Quote,         \* Quote[k]: the fee that k publishes when the server starts, or Unquoted
  DemoVotes,     \* the ballots of a demo case: a sequence of <<judge, verdict>>
  Limit          \* COURT_CASES_LIMIT

ASSUME AppServerAssumption ==
  /\ Hosts \subseteq {"library", "server"} /\ LibraryCases \subseteq Cases
  /\ Quote \in [Keys -> Fees \union {Unquoted}]
  /\ DemoVotes \in Seq(Keys \X VERDICTS)
  /\ Limit \in Nat \ {0}

VARIABLES
  host,    \* "library" or "server"
  plan,    \* the calls that the handler at work has still to make
  shelf,   \* COURT_CASES, in order of insertion
  demos    \* history: how many demo cases have been run

serverVars == <<host, plan, shelf, demos>>
appVars == <<vars, serverVars>>

AppInit ==
  /\ host \in Hosts /\ plan = <<>> /\ shelf = <<>> /\ demos = 0
  /\ \/ host = "library" /\ Init
     \/ /\ host = "server"
        /\ standing = [k \in Keys |-> "active"]
        /\ reputation = [k \in Keys |-> 0]
        /\ fee = Quote
        /\ case = [c \in Cases |-> NoCase]

\* An embedder's calls.
Library ==
  /\ host = "library"
  /\ Roster \/ \E c \in LibraryCases : CaseStep(c)
  /\ UNCHANGED serverVars
-------------------------------------------------------------------------------
Call(name, c) == [call |-> name, case |-> c, judge |-> "none", verdict |-> "none"]
Vote(c, k, verdict) == [call |-> "castBallot", case |-> c, judge |-> k, verdict |-> verdict]

Served == {shelf[i] : i \in DOMAIN shelf}

\* A request comes in while no handler is at work, and its first call succeeds.
Handler(calls) ==
  /\ host = "server" /\ plan = <<>>
  /\ plan' = calls
  /\ UNCHANGED <<host, shelf>>

\* POST /api/court/file
File(c) ==
  /\ fileCase(c)
  /\ \E evidence \in BOOLEAN :
       Handler((IF evidence THEN <<Call("submitEvidence", c)>> ELSE <<>>)
               \o <<Call("openDeliberation", c), Call("keep", c)>>)
  /\ UNCHANGED demos

\* POST /api/court/demo-case: from filing to settlement.
Demo(c) ==
  /\ fileCase(c)
  /\ Handler(<<Call("submitEvidence", c), Call("openDeliberation", c)>>
             \o [i \in DOMAIN DemoVotes |-> Vote(c, DemoVotes[i][1], DemoVotes[i][2])]
             \o <<Call("tallyRound", c), Call("openChallengeWindow", c),
                  Call("settleCase", c), Call("keepDemo", c)>>)
  /\ demos' = demos + 1

\* Mutant: the tally is made before the ballot that completes the quorum is cast.
Ballot_tallyFirst(c) ==
  /\ c \in Served
  /\ IF Cardinality(case[c].ballots) + 1 >= QuorumJudges
     THEN /\ tallyRound(c)
          /\ \E k \in Keys, verdict \in VERDICTS :
               Handler(<<Vote(c, k, verdict), Call("openChallengeWindow", c)>>)
     ELSE \E k \in Keys, verdict \in VERDICTS :
            castBallot(c, k, verdict, TRUE) /\ Handler(<<>>)
  /\ UNCHANGED demos

\* POST /api/court/ballot, signed with a key that the server holds.  Once there
\* are as many ballots as a quorum needs judges, the case is decided.
Ballot(c) ==
  /\ c \in Served
  /\ \E k \in Keys, verdict \in VERDICTS : castBallot(c, k, verdict, TRUE)
  /\ Handler(IF Cardinality(case[c].ballots) + 1 >= QuorumJudges
             THEN <<Call("tallyRound", c), Call("openChallengeWindow", c)>> ELSE <<>>)
  /\ UNCHANGED demos

\* POST /api/court/settle, at any time after the decision.
Settle(c) ==
  /\ c \in Served
  /\ settleCase(c)
  /\ Handler(<<>>)
  /\ UNCHANGED demos

\* COURT_CASES.set(c.case_id, c): a case with an equal id keeps its place.
MapSet(c) == {Append(shelf, c)} \union {[shelf EXCEPT ![i] = c] : i \in DOMAIN shelf}

\* Mutant: the limit is not enforced.
Keep_unbounded(c) == shelf' \in MapSet(c)

\* The end of /api/court/file: the oldest case makes room, whatever its status.
Keep(c) ==
  \E cases \in MapSet(c) :
    shelf' = IF Len(cases) > Limit THEN Tail(cases) ELSE cases

Perform(s) ==
  \/ s.call = "submitEvidence" /\ submitEvidence(s.case) /\ UNCHANGED shelf
  \/ s.call = "openDeliberation" /\ openDeliberation(s.case) /\ UNCHANGED shelf
  \/ s.call = "castBallot" /\ castBallot(s.case, s.judge, s.verdict, TRUE) /\ UNCHANGED shelf
  \/ s.call = "tallyRound" /\ tallyRound(s.case) /\ UNCHANGED shelf
  \/ s.call = "openChallengeWindow" /\ openChallengeWindow(s.case) /\ UNCHANGED shelf
  \/ s.call = "settleCase" /\ settleCase(s.case) /\ UNCHANGED shelf
  \/ s.call = "keep" /\ Keep(s.case) /\ UNCHANGED vars
  \/ s.call = "keepDemo" /\ shelf' \in MapSet(s.case) /\ UNCHANGED vars

\* The handler at work makes its next call.
Proceed ==
  /\ plan # <<>>
  /\ Perform(Head(plan))
  /\ plan' = Tail(plan)
  /\ UNCHANGED <<host, demos>>

ServerTime(c) ==
  /\ host = "server" /\ plan = <<>>
  /\ deliberationElapses(c) \/ challengeElapses(c)
  /\ UNCHANGED serverVars

AppNext ==
  \/ Library
  \/ Proceed
  \/ \E c \in Cases : File(c) \/ Demo(c) \/ Ballot(c) \/ Settle(c) \/ ServerTime(c)

AppSpec == AppInit /\ [][AppNext]_appVars

\* A handler that has begun goes on, time passes, and whoever may vote or settle
\* does so sooner or later.
FairAppSpec ==
  /\ AppSpec /\ WF_appVars(Proceed)
  /\ \A c \in Cases :
       WF_appVars(ServerTime(c)) /\ SF_appVars(Ballot(c)) /\ SF_appVars(Settle(c))
-------------------------------------------------------------------------------
(* Properties *)

\* The values each variable may take.
AppTypeOK ==
  /\ TypeOK
  /\ host \in {"library", "server"}
  /\ \A i \in DOMAIN plan : plan[i].case \in Cases
  /\ \A i \in DOMAIN shelf : case[shelf[i]].status # "NONE"
  /\ demos \in Nat

\* What replayArbitration checks of a certificate: signatures of a quorum.
certificateMatches(c) ==
  case[c].settlement # NoSettlement =>
    Cardinality(case[c].settlement.signers) >= QuorumJudges

\* COURT.md: "every ruling replays".  Whatever the order of requests, every case
\* that the server answers for replays without a difference, and a certificate it
\* has issued says what the ballots in it amount to.  (For an embedder neither is
\* so: RulingMatchesBallots.)
ServedCasesReplay ==
  plan = <<>> => \A c \in Served :
    LET certificate == case[c].settlement IN
    /\ replayMatches(c) /\ certificateMatches(c)
    /\ certificate # NoSettlement => certificate.verdict = Tally(certificate.ballots).outcome

\* COURT_CASES_LIMIT is kept up to the demo cases, which nobody counts: each of them
\* may exceed it by one more case.
MapIsBounded == Len(shelf) <= Limit + demos

\* court.js:36-37: "quorum unmet, hung jury, expired windows — all end UNRESOLVED":
\* a case that has not been decided when its deliberation ends becomes UNRESOLVED.
ExpiredCasesEndUnresolved ==
  \A c \in Cases :
    (case[c].status = "DELIBERATION" /\ case[c].late) ~> (case[c].status = "UNRESOLVED")
===============================================================================
