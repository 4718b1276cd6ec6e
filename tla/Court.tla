--------------------------------- MODULE Court ---------------------------------
(***************************************************************************)
(* src/src/court.js: the arbitration court.  The registry holds the judge  *)
(* keys with their standing, reputation and published fees; a case object  *)
(* holds its ballots, its stored tally and its ruling.  Every operation is *)
(* a synchronous call on those two objects, made by whoever holds them, in *)
(* any order: only the guards below order the steps of a case.             *)
(*                                                                         *)
(* A case has at most one deliberation round: openDeliberation leaves the  *)
(* only statuses it accepts and no operation returns to them.  So          *)
(* ROUNDS_EXHAUSTED cannot be thrown, and the round is a part of the case. *)
(* Of the time only this is kept: whether the round's closes_at and the    *)
(* challenge_deadline have passed.                                         *)
(***************************************************************************)
EXTENDS Integers, FiniteSets

CONSTANTS
  Keys,           \* ids of the judge and referee keys, ordered as numbers
  Stake,          \* Stake[k]: the stake k is registered with
  Capabilities,   \* Capabilities[k]: a subset of {"judge", "referee"}
  Cases,
  Fees,           \* fees that are quoted
  Quoting,        \* keys that ever publish fees
  Revocable,      \* keys that are ever revoked
  Spurious,       \* keys in whose name badly signed ballots are cast
  QuorumJudges,   \* config.quorum_min_judges
  QuorumStake,    \* config.quorum_min_stake
  MaxRejected     \* bound on the rejected challenges of a case

ASSUME CourtAssumption ==
  /\ Keys \subseteq Nat /\ IsFiniteSet(Keys)
  /\ Stake \in [Keys -> Nat \ {0}]
  /\ Capabilities \in [Keys -> SUBSET {"judge", "referee"}]
  /\ IsFiniteSet(Cases) /\ Fees \subseteq Nat /\ Quoting \subseteq Keys /\ Revocable \subseteq Keys
  /\ Spurious \subseteq Keys
  /\ QuorumJudges \in Nat \ {0} /\ QuorumStake \in Nat \ {0}
  /\ MaxRejected \in Nat

VARIABLES
  standing,    \* standing[k]: "absent", "active" or "revoked"
  reputation,  \* reputation[k]
  fee,         \* fee[k]: k's quote, or Unquoted
  case         \* case[c]: the case object

vars == <<standing, reputation, fee, case>>
roster == <<standing, reputation, fee>>

Unquoted == -1
Decisions == {"AFFIRM", "REVERSE"}
VERDICTS == Decisions \union {"ABSTAIN"}
Hung == {"QUORUM_FAILED", "NO_MAJORITY"}
Statuses == {"NONE", "FILED", "EVIDENCE_WINDOW", "DELIBERATION", "CHALLENGE_WINDOW",
             "UNRESOLVED", "SETTLED"}

NoTally == [kind |-> "none"]
NoSettlement == [kind |-> "none"]
NoCase ==
  [status |-> "NONE", panel |-> {}, ballots |-> {}, late |-> FALSE, tally |-> NoTally,
   misquoted |-> FALSE, provisional |-> "none", final |-> FALSE,
   rejected |-> [k \in Keys |-> 0], settlement |-> NoSettlement]

Init ==
  /\ standing = [k \in Keys |-> "absent"]
  /\ reputation = [k \in Keys |-> 0]
  /\ fee = [k \in Keys |-> Unquoted]
  /\ case = [c \in Cases |-> NoCase]
-------------------------------------------------------------------------------
(* The roster *)

registerJudge(k) ==
  /\ standing[k] = "absent"
  /\ standing' = [standing EXCEPT ![k] = "active"]
  /\ UNCHANGED <<reputation, fee, case>>

revokeJudge(k) ==
  /\ k \in Revocable /\ standing[k] = "active"
  /\ standing' = [standing EXCEPT ![k] = "revoked"]
  /\ UNCHANGED <<reputation, fee, case>>

setFeeBook(k) ==
  /\ k \in Quoting /\ standing[k] # "absent"
  /\ \E f \in Fees : fee' = [fee EXCEPT ![k] = f]
  /\ UNCHANGED <<standing, reputation, case>>

judgeActive(k, capability) == standing[k] = "active" /\ capability \in Capabilities[k]

\* (fee ascending, reputation descending, id ascending); no quote sorts last.
Cheaper(j, k) == fee[j] # Unquoted /\ (fee[k] = Unquoted \/ fee[j] < fee[k])
Precedes(j, k) ==
  \/ Cheaper(j, k)
  \/ /\ fee[j] = fee[k]
     /\ reputation[j] > reputation[k] \/ (reputation[j] = reputation[k] /\ j < k)

assignPanel ==
  LET willing == {k \in Keys : judgeActive(k, "judge")} IN
  {k \in willing : Cardinality({j \in willing : Precedes(j, k)}) < QuorumJudges}
-------------------------------------------------------------------------------
(* The tally *)

\* The stakes of the keys in S added up, as the number of staked units.
StakeOf(S) == Cardinality(UNION {{k} \X (1 .. Stake[k]) : k \in S})

Voters(ballots, verdict) == {b.judge : b \in {b \in ballots : b.verdict = verdict}}

\* The outcome of the ballots, all of them verified.
Tally(ballots) ==
  LET weights == [v \in VERDICTS |-> StakeOf(Voters(ballots, v))]
      quorumMet == /\ Cardinality(ballots) >= QuorumJudges
                   /\ weights["AFFIRM"] + weights["REVERSE"] >= QuorumStake
  IN [kind |-> "tally", weights |-> weights, participants |-> Cardinality(ballots),
      outcome |-> IF ~quorumMet THEN "QUORUM_FAILED"
                  ELSE IF weights["AFFIRM"] = weights["REVERSE"] THEN "NO_MAJORITY"
                  ELSE IF weights["AFFIRM"] > weights["REVERSE"] THEN "AFFIRM"
                  ELSE "REVERSE"]

\* Mutant: signatures are not verified.
computeTally_unverified(c) ==
  Tally({b \in case[c].ballots : judgeActive(b.judge, "judge")})

computeTally(c) ==
  Tally({b \in case[c].ballots : b.valid /\ judgeActive(b.judge, "judge")})

\* No difference is found: every voter is active and every signature good, and
\* the stored tally is what a fresh one gives.  (The checks of the certificate
\* come after settlement, when no operation of the court replays any more.)
replayMatches(c) ==
  /\ \A b \in case[c].ballots : standing[b.judge] = "active" /\ b.valid
  /\ case[c].tally # NoTally =>
       /\ computeTally(c).outcome = case[c].tally.outcome
       /\ \A v \in Decisions : computeTally(c).weights[v] = case[c].tally.weights[v]
  /\ ~case[c].misquoted
-------------------------------------------------------------------------------
(* The life of a case *)

fileCase(c) ==
  /\ case[c].status = "NONE"
  /\ case' = [case EXCEPT ![c].status = "FILED", ![c].panel = assignPanel]
  /\ UNCHANGED roster

submitEvidence(c) ==
  /\ case[c].status \in {"FILED", "EVIDENCE_WINDOW"}
  /\ case' = [case EXCEPT ![c].status = "EVIDENCE_WINDOW"]
  /\ UNCHANGED roster

openDeliberation(c) ==
  /\ case[c].status \in {"FILED", "EVIDENCE_WINDOW"}
  /\ case' = [case EXCEPT ![c].status = "DELIBERATION"]
  /\ UNCHANGED roster

\* now > closes_at: from some moment on no ballot is accepted.
deliberationElapses(c) ==
  /\ case[c].status \in {"DELIBERATION", "CHALLENGE_WINDOW"} /\ ~case[c].late
  /\ case' = [case EXCEPT ![c].late = TRUE]
  /\ UNCHANGED roster

\* Whether the signature that sign returns will verify.
Signatures(k) == {TRUE} \union {~(k \in Spurious)}

\* Any active judge may vote, of the panel or not.  The signature is whatever
\* the caller's sign function returns, valid or not (`ok'); nobody looks at it
\* before the tally.
castBallot(c, k, verdict, ok) ==
  /\ case[c].status = "DELIBERATION"
  /\ judgeActive(k, "judge")
  /\ \A b \in case[c].ballots : b.judge # k
  /\ ~case[c].late
  /\ case' = [case EXCEPT ![c].ballots = @ \union {[judge |-> k, verdict |-> verdict, valid |-> ok]}]
  /\ UNCHANGED roster

\* In any status of the case.  All that is kept of the opinions is whether the
\* signature of one is bad.
submitRefereeOpinion(c, k) ==
  /\ case[c].status # "NONE"
  /\ judgeActive(k, "referee")
  /\ \E ok \in BOOLEAN : case' = [case EXCEPT ![c].misquoted = @ \/ ~ok]
  /\ UNCHANGED roster

\* In any status once there is a round.
tallyRound(c) ==
  /\ case[c].status \notin {"NONE", "FILED", "EVIDENCE_WINDOW"}
  /\ case' = [case EXCEPT ![c].tally = computeTally(c)]
  /\ UNCHANGED roster

\* The tally the window opens with: the stored one if there is one.
openingTally(c) == IF case[c].tally = NoTally THEN computeTally(c) ELSE case[c].tally

\* Mutant: a hung jury is coerced into a ruling.
openChallengeWindow_coerced(c) ==
  LET t == openingTally(c) IN
  /\ case[c].status = "DELIBERATION"
  /\ case' = [case EXCEPT ![c].status = "CHALLENGE_WINDOW", ![c].tally = t,
                          ![c].provisional = t.outcome,
                          ![c].final = FALSE]
  /\ UNCHANGED roster

openChallengeWindow(c) ==
  LET t == openingTally(c) IN
  /\ case[c].status = "DELIBERATION"
  /\ \/ /\ t.outcome \in Hung
        /\ case' = [case EXCEPT ![c].status = "UNRESOLVED", ![c].tally = t]
     \/ /\ t.outcome \in Decisions
        /\ case' = [case EXCEPT ![c].status = "CHALLENGE_WINDOW", ![c].tally = t,
                                ![c].provisional = t.outcome,
                                ![c].final = FALSE]
  /\ UNCHANGED roster

\* now > challenge_deadline.
challengeElapses(c) ==
  /\ case[c].status = "CHALLENGE_WINDOW" /\ ~case[c].final
  /\ case' = [case EXCEPT ![c].final = TRUE]
  /\ UNCHANGED roster

\* Mutant: a settled case can be challenged too.
upholdChallenge_settled(c) ==
  /\ case[c].status \in {"CHALLENGE_WINDOW", "SETTLED"}
  /\ ~case[c].final
  /\ ~replayMatches(c)
  /\ case' = [case EXCEPT ![c].status = "DELIBERATION"]
  /\ UNCHANGED roster

\* challengeSettlement, by anybody, when the replay finds a difference: the round
\* is open again, its tally, provisional outcome and closing time as they are.
upholdChallenge(c) ==
  /\ case[c].status = "CHALLENGE_WINDOW"
  /\ ~case[c].final
  /\ ~replayMatches(c)
  /\ case' = [case EXCEPT ![c].status = "DELIBERATION"]
  /\ UNCHANGED roster

Lost(c) == UNION {{k} \X (1 .. case[c].rejected[k]) : k \in Keys}

\* challengeSettlement by a registered key when there is none: it costs a point
\* of reputation.  (One by a stranger costs nothing and changes nothing here.)
rejectChallenge(c, k) ==
  /\ case[c].status = "CHALLENGE_WINDOW"
  /\ ~case[c].final
  /\ standing[k] # "absent"
  /\ replayMatches(c)
  /\ Cardinality(Lost(c)) < MaxRejected
  /\ case' = [case EXCEPT ![c].rejected[k] = @ + 1]
  /\ reputation' = [reputation EXCEPT ![k] = @ - 1]
  /\ UNCHANGED <<standing, fee>>

\* The certificate that every panel member's sign function is asked to sign.
Certificate(c) ==
  [kind |-> "certificate", verdict |-> case[c].provisional, weights |-> case[c].tally.weights,
   ballots |-> case[c].ballots, signers |-> case[c].panel]

\* Whoever is still active and voted, validly or not, for the ruling earns two
\* points.
Rewarded(c) ==
  {k \in Keys : standing[k] = "active" /\ k \in Voters(case[c].ballots, case[c].provisional)}

\* Mutant: a settled case can be settled again.
settleCase_again(c) ==
  /\ case[c].status \in {"CHALLENGE_WINDOW", "SETTLED"}
  /\ case' = [case EXCEPT ![c].status = "SETTLED", ![c].settlement = Certificate(c)]
  /\ reputation' = [k \in Keys |-> reputation[k] + IF k \in Rewarded(c) THEN 2 ELSE 0]
  /\ UNCHANGED <<standing, fee>>

\* The caller has a sign function of every panel member; the deadline for
\* challenges is not looked at.
settleCase(c) ==
  /\ case[c].status = "CHALLENGE_WINDOW"
  /\ case' = [case EXCEPT ![c].status = "SETTLED", ![c].settlement = Certificate(c)]
  /\ reputation' = [k \in Keys |-> reputation[k] + IF k \in Rewarded(c) THEN 2 ELSE 0]
  /\ UNCHANGED <<standing, fee>>

Roster == \E k \in Keys : registerJudge(k) \/ revokeJudge(k) \/ setFeeBook(k)

CaseStep(c) ==
  \/ fileCase(c) \/ submitEvidence(c) \/ openDeliberation(c)
  \/ deliberationElapses(c) \/ challengeElapses(c)
  \/ \E k \in Keys, verdict \in VERDICTS : \E ok \in Signatures(k) : castBallot(c, k, verdict, ok)
  \/ \E k \in Keys : submitRefereeOpinion(c, k)
  \/ tallyRound(c) \/ openChallengeWindow(c)
  \/ upholdChallenge(c) \/ (\E k \in Keys : rejectChallenge(c, k)) \/ settleCase(c)

Next == Roster \/ \E c \in Cases : CaseStep(c)

Spec == Init /\ [][Next]_vars
-------------------------------------------------------------------------------
(* Properties *)

Ballots == [judge : Keys, verdict : VERDICTS, valid : BOOLEAN]
Weights == [VERDICTS -> Nat]
Tallies == [kind : {"tally"}, weights : Weights, participants : Nat,
            outcome : Decisions \union Hung]
Certificates == [kind : {"certificate"}, verdict : Decisions, weights : Weights,
                 ballots : SUBSET Ballots, signers : SUBSET Keys]

\* The values each variable may take; a ruling is AFFIRM or REVERSE.
CaseOK(x) ==
  /\ x.status \in Statuses
  /\ x.panel \subseteq Keys
  /\ x.ballots \subseteq Ballots
  /\ x.late \in BOOLEAN /\ x.final \in BOOLEAN /\ x.misquoted \in BOOLEAN
  /\ x.tally \in Tallies \union {NoTally}
  /\ x.provisional \in Decisions \union {"none"}
  /\ x.rejected \in [Keys -> Nat]
  /\ x.settlement \in Certificates \union {NoSettlement}
  /\ x.status \in {"CHALLENGE_WINDOW", "SETTLED"} =>
       x.provisional \in Decisions /\ x.tally # NoTally

TypeOK ==
  /\ standing \in [Keys -> {"absent", "active", "revoked"}]
  /\ reputation \in [Keys -> Int]
  /\ fee \in [Keys -> Fees \union {Unquoted}]
  /\ DOMAIN case = Cases
  /\ \A c \in Cases : DOMAIN case[c] = DOMAIN NoCase /\ CaseOK(case[c])

\* court.js:9-12, "no single key can settle a case": behind every ruling there
\* are, on the record, validly signed ballots of at least QuorumJudges different
\* judges, and more than half of QuorumStake is behind the ruling itself.  That
\* is so although the tally may be older than the ballots, although judges may
\* have been revoked since and although challenges reopen the deliberation.
VerdictHasQuorum ==
  \A c \in Cases : case[c].status \in {"CHALLENGE_WINDOW", "SETTLED"} =>
    LET valid == {b \in case[c].ballots : b.valid} IN
    /\ Cardinality({b.judge : b \in valid}) >= QuorumJudges
    /\ 2 * StakeOf(Voters(valid, case[c].provisional)) > QuorumStake

\* The settled cases in which k voted for the ruling, and the challenges k lost.
Won(k) == {c \in Cases : /\ case[c].status = "SETTLED"
                         /\ k \in Voters(case[c].ballots, case[c].provisional)}
LostBy(k) == UNION {{c} \X (1 .. case[c].rejected[k]) : c \in Cases}

\* COURT.md section 7: reputation, which decides on future panels, is two points
\* for every settled case the judge voted with, less one for every challenge
\* the judge lost, and nothing else; a revoked judge may have missed some.
ReputationIsEarned ==
  \A k \in Keys :
    LET earned == 2 * Cardinality(Won(k)) - Cardinality(LostBy(k)) IN
    IF standing[k] = "revoked" THEN reputation[k] <= earned ELSE reputation[k] = earned

\* What has been settled stays settled as it was, and a case that was given up
\* is never ruled on, whatever is voted, tallied or challenged afterwards.
RulingIsFinal ==
  [][\A c \in Cases :
       /\ case[c].settlement # NoSettlement =>
            /\ case'[c].settlement = case[c].settlement
            /\ case'[c].ballots = case[c].ballots
            /\ case'[c].status = "SETTLED"
       /\ case[c].status = "UNRESOLVED" => case'[c].status = "UNRESOLVED"]_vars

\* "Every ruling carries a multi-signature over the exact tally" (COURT.md:12):
\* the verdict of a signed certificate is what its ballots amount to.  Asked only
\* of certificates none of whose voters has ever been revoked.
RulingMatchesBallots ==
  \A c \in Cases :
    LET certificate == case[c].settlement IN
    /\ certificate # NoSettlement
    /\ \A b \in certificate.ballots : standing[b.judge] = "active"
    => certificate.verdict = Tally({b \in certificate.ballots : b.valid}).outcome
===============================================================================
