----------------------------- MODULE Court_proofs -----------------------------
(***************************************************************************)
(* The arbitration court for every set of judge keys, stakes, fees, cases  *)
(* and quorums.                                                            *)
(*                                                                         *)
(* The argument: a tally that rules has a quorum of the ballots on record  *)
(* behind it; ballots are only ever added, one for each judge, so that     *)
(* what is behind a ruling stays on record however old its tally is.       *)
(***************************************************************************)
EXTENDS Court, FiniteSetTheorems, TLAPS

CaseRecords ==
  [status : Statuses, panel : SUBSET Keys, ballots : SUBSET Ballots, late : BOOLEAN,
   tally : Tallies \union {NoTally}, misquoted : BOOLEAN,
   provisional : Decisions \union {"none"}, final : BOOLEAN, rejected : [Keys -> Nat],
   settlement : Certificates \union {NoSettlement}]

Ruled(x) == x.status \in {"CHALLENGE_WINDOW", "SETTLED"}

\* TypeOK with the case objects as a set of records, and the ballots of a case as
\* many as there are judges who cast them.
CaseInv(x) ==
  /\ Ruled(x) => x.provisional \in Decisions /\ x.tally # NoTally
  /\ x.settlement # NoSettlement <=> x.status = "SETTLED"
  /\ IsFiniteSet(x.ballots)
  /\ \A a, b \in x.ballots : a.judge = b.judge => a = b

RecordInv ==
  /\ standing \in [Keys -> {"absent", "active", "revoked"}]
  /\ reputation \in [Keys -> Int]
  /\ fee \in [Keys -> Fees \union {Unquoted}]
  /\ case \in [Cases -> CaseRecords]
  /\ \A c \in Cases : CaseInv(case[c])

\* The ballots of x that are valid are enough for a ruling.
Backed(x, verdict) ==
  LET valid == {b \in x.ballots : b.valid} IN
  /\ Cardinality({b.judge : b \in valid}) >= QuorumJudges
  /\ 2 * StakeOf(Voters(valid, verdict)) > QuorumStake

\* Every tally that rules, and every ruling, is backed by what is on record.
BackingInv ==
  \A c \in Cases :
    /\ case[c].tally # NoTally /\ case[c].tally.outcome \in Decisions =>
         Backed(case[c], case[c].tally.outcome)
    /\ Ruled(case[c]) => Backed(case[c], case[c].provisional)

\* Nobody votes before being registered.
VotersKnown == \A c \in Cases : \A b \in case[c].ballots : standing[b.judge] # "absent"

CourtInv == RecordInv /\ BackingInv /\ VotersKnown /\ ReputationIsEarned
-------------------------------------------------------------------------------
(* Sets of keys and their stakes *)

Units(S) == UNION {{k} \X (1 .. Stake[k]) : k \in S}

\* The staked units of a set of keys are finitely many.
LEMMA UnitsFinite ==
  ASSUME NEW S \in SUBSET Keys
  PROVE  IsFiniteSet(Units(S)) /\ StakeOf(S) = Cardinality(Units(S)) /\ StakeOf(S) \in Nat
<1> DEFINE T == {{k} \X (1 .. Stake[k]) : k \in S}
           f == [k \in S |-> {k} \X (1 .. Stake[k])]
<1>1. IsFiniteSet(S)
  BY CourtAssumption, FS_Subset
<1>2. f \in Surjection(S, T)
  BY DEF Surjection
<1>3. IsFiniteSet(T)
  BY <1>1, <1>2, FS_Surjection
<1>4. ASSUME NEW k \in S PROVE IsFiniteSet({k} \X (1 .. Stake[k]))
  <2>1. IsFiniteSet({k})
    BY FS_Singleton
  <2>2. IsFiniteSet(1 .. Stake[k])
    BY CourtAssumption, FS_Interval
  <2> QED BY <2>1, <2>2, FS_Product
<1>5. IsFiniteSet(UNION T)
  BY <1>3, <1>4, FS_UNION
<1>6. IsFiniteSet(Units(S))
  BY <1>5 DEF Units
<1> QED BY <1>6, FS_CardinalityType DEF StakeOf, Units

\* More keys have at least as much stake.
LEMMA StakeMonotone ==
  ASSUME NEW S \in SUBSET Keys, NEW T \in SUBSET S
  PROVE  StakeOf(T) <= StakeOf(S)
<1>1. Units(T) \subseteq Units(S)
  BY DEF Units
<1> QED BY <1>1, UnitsFinite, FS_Subset

\* The image of a finite set of ballots under the judge that cast them.
LEMMA JudgesOf ==
  ASSUME NEW B, IsFiniteSet(B)
  PROVE  /\ IsFiniteSet({b.judge : b \in B})
         /\ (\A a, b \in B : a.judge = b.judge => a = b) =>
              Cardinality({b.judge : b \in B}) = Cardinality(B)
<1> DEFINE J == {b.judge : b \in B}
           f == [b \in B |-> b.judge]
<1>1. f \in Surjection(B, J)
  BY DEF Surjection
<1>2. (\A a, b \in B : a.judge = b.judge => a = b) => f \in Injection(B, J)
  BY DEF Injection, IsInjective
<1> QED BY <1>1, <1>2, FS_Surjection

\* Judges who voted are keys.
LEMMA VotersAreKeys ==
  ASSUME NEW B \in SUBSET Ballots, NEW verdict
  PROVE  Voters(B, verdict) \in SUBSET Keys
BY DEF Voters, Ballots

\* A tally of a finite set of ballots is one, and what it says of a verdict.
LEMMA TallyType ==
  ASSUME NEW B \in SUBSET Ballots, IsFiniteSet(B)
  PROVE  /\ Tally(B) \in Tallies
         /\ \A v \in VERDICTS : Tally(B).weights[v] = StakeOf(Voters(B, v))
         /\ Tally(B).outcome \in Decisions =>
              /\ Cardinality(B) >= QuorumJudges
              /\ Tally(B).weights["AFFIRM"] + Tally(B).weights["REVERSE"] >= QuorumStake
         /\ Tally(B).outcome = "AFFIRM" =>
              Tally(B).weights["AFFIRM"] > Tally(B).weights["REVERSE"]
         /\ Tally(B).outcome = "REVERSE" =>
              Tally(B).weights["REVERSE"] > Tally(B).weights["AFFIRM"]
<1> DEFINE weights == [v \in VERDICTS |-> StakeOf(Voters(B, v))]
<1>1. weights \in Weights
  BY VotersAreKeys, UnitsFinite DEF Weights
<1>2. Cardinality(B) \in Nat
  BY FS_CardinalityType
<1>3. Tally(B).outcome \in Decisions \union Hung
  BY DEF Tally, Decisions, Hung
<1>4. Tally(B).kind = "tally" /\ Tally(B).weights = weights /\ Tally(B).participants = Cardinality(B)
  BY DEF Tally
<1>5. Tally(B) = [kind |-> "tally", weights |-> weights, participants |-> Cardinality(B),
                  outcome |-> Tally(B).outcome]
  BY DEF Tally
<1>6. Tally(B) \in Tallies
  <2> HIDE DEF weights
  <2> QED BY <1>1, <1>2, <1>3, <1>5 DEF Tallies
<1>7. weights["AFFIRM"] \in Nat /\ weights["REVERSE"] \in Nat
  BY <1>1 DEF Weights, VERDICTS, Decisions
<1>8. Tally(B).outcome =
        IF ~(Cardinality(B) >= QuorumJudges
             /\ weights["AFFIRM"] + weights["REVERSE"] >= QuorumStake) THEN "QUORUM_FAILED"
        ELSE IF weights["AFFIRM"] = weights["REVERSE"] THEN "NO_MAJORITY"
        ELSE IF weights["AFFIRM"] > weights["REVERSE"] THEN "AFFIRM" ELSE "REVERSE"
  BY DEF Tally
<1>9. \A v \in VERDICTS : weights[v] = StakeOf(Voters(B, v))
  OBVIOUS
<1> HIDE DEF weights
<1> QED BY <1>2, <1>4, <1>6, <1>7, <1>8, <1>9 DEF Decisions

\* What is backed stays so when ballots are added.
LEMMA BackedMonotone ==
  ASSUME NEW x \in CaseRecords, NEW y \in CaseRecords, IsFiniteSet(x.ballots),
         IsFiniteSet(y.ballots), x.ballots \subseteq y.ballots, NEW verdict, Backed(x, verdict)
  PROVE  Backed(y, verdict)
<1> DEFINE V == {b \in x.ballots : b.valid}
           U == {b \in y.ballots : b.valid}
<1>1. V \subseteq U /\ U \in SUBSET Ballots /\ IsFiniteSet(U)
  BY FS_Subset DEF CaseRecords
<1>2. {b.judge : b \in V} \subseteq {b.judge : b \in U}
  BY <1>1
<1>3. IsFiniteSet({b.judge : b \in U})
  BY <1>1, JudgesOf
<1>4. Cardinality({b.judge : b \in V}) <= Cardinality({b.judge : b \in U})
  BY <1>2, <1>3, FS_Subset
<1>5. Voters(V, verdict) \subseteq Voters(U, verdict) /\ Voters(U, verdict) \in SUBSET Keys
  BY <1>1, VotersAreKeys DEF Voters
<1>6. StakeOf(Voters(V, verdict)) <= StakeOf(Voters(U, verdict))
  BY <1>5, StakeMonotone
<1>7. /\ StakeOf(Voters(V, verdict)) \in Nat /\ StakeOf(Voters(U, verdict)) \in Nat
      /\ Cardinality({b.judge : b \in V}) \in Nat /\ Cardinality({b.judge : b \in U}) \in Nat
  BY <1>2, <1>3, <1>5, UnitsFinite, FS_Subset, FS_CardinalityType
<1>8. Cardinality({b.judge : b \in V}) >= QuorumJudges
      /\ 2 * StakeOf(Voters(V, verdict)) > QuorumStake
  BY DEF Backed
<1>9. Cardinality({b.judge : b \in U}) >= QuorumJudges
      /\ 2 * StakeOf(Voters(U, verdict)) > QuorumStake
  BY <1>4, <1>6, <1>7, <1>8, CourtAssumption
<1> QED BY <1>9 DEF Backed

\* A tally that rules is backed by the ballots that it counts.
LEMMA TallyBacked ==
  ASSUME NEW x \in CaseRecords, CaseInv(x), NEW B \in SUBSET {b \in x.ballots : b.valid},
         Tally(B).outcome \in Decisions
  PROVE  Backed(x, Tally(B).outcome)
<1> DEFINE o == Tally(B).outcome
           y == [x EXCEPT !.ballots = B]
<1>1. B \in SUBSET Ballots /\ IsFiniteSet(B) /\ IsFiniteSet(x.ballots)
  BY FS_Subset DEF CaseRecords, CaseInv
<1>2. /\ Cardinality(B) >= QuorumJudges
      /\ StakeOf(Voters(B, "AFFIRM")) + StakeOf(Voters(B, "REVERSE")) >= QuorumStake
      /\ o = "AFFIRM" => StakeOf(Voters(B, "AFFIRM")) > StakeOf(Voters(B, "REVERSE"))
      /\ o = "REVERSE" => StakeOf(Voters(B, "REVERSE")) > StakeOf(Voters(B, "AFFIRM"))
  BY <1>1, TallyType DEF VERDICTS, Decisions
<1>3. StakeOf(Voters(B, "AFFIRM")) \in Nat /\ StakeOf(Voters(B, "REVERSE")) \in Nat
  BY <1>1, VotersAreKeys, UnitsFinite
<1>4. 2 * StakeOf(Voters(B, o)) > QuorumStake
  <2>1. CASE o = "AFFIRM"
    BY <1>2, <1>3, <2>1, CourtAssumption
  <2>2. CASE o = "REVERSE"
    BY <1>2, <1>3, <2>2, CourtAssumption
  <2> QED BY <2>1, <2>2 DEF Decisions
<1>5. Cardinality({b.judge : b \in B}) >= QuorumJudges
  BY <1>1, <1>2, JudgesOf DEF CaseInv
<1>6. y \in CaseRecords /\ y.ballots = B
  BY <1>1 DEF CaseRecords
<1>7. {b \in y.ballots : b.valid} = B
  BY <1>6
<1>8. Backed(y, o)
  BY <1>4, <1>5, <1>7 DEF Backed
<1> HIDE DEF y, o
<1> QED BY <1>1, <1>6, <1>8, BackedMonotone DEF o
-------------------------------------------------------------------------------
(* What the operations do to the case they are about *)

\* Only case c changes, and remains one.
Only(c) ==
  /\ case' \in [Cases -> CaseRecords]
  /\ \A d \in Cases : d # c => case'[d] = case[d]

\* The roster of keys and what the ballots amount to stay as they are.
Keeps(x, y) ==
  /\ y.ballots = x.ballots /\ y.tally = x.tally /\ y.provisional = x.provisional
  /\ y.rejected = x.rejected /\ y.settlement = x.settlement
  /\ Ruled(y) => Ruled(x)
  /\ y.status = "SETTLED" <=> x.status = "SETTLED"
  /\ x.status = "UNRESOLVED" => y.status = "UNRESOLVED"
  /\ x.status # "NONE" => y.status # "NONE"

Procedural(c) ==
  \/ fileCase(c) \/ submitEvidence(c) \/ openDeliberation(c)
  \/ deliberationElapses(c) \/ challengeElapses(c)
  \/ (\E k \in Keys : submitRefereeOpinion(c, k)) \/ upholdChallenge(c)

\* Most operations on a case touch neither ballots, tally nor ruling.
LEMMA ProceduralEffect ==
  ASSUME RecordInv, NEW c \in Cases, Procedural(c)
  PROVE  Only(c) /\ Keeps(case[c], case'[c]) /\ UNCHANGED roster
<1> USE DEF Only, Keeps, Ruled, RecordInv, Procedural
<1>1. case \in [Cases -> CaseRecords] /\ case[c] \in CaseRecords
  OBVIOUS
<1>2. assignPanel \subseteq Keys
  BY DEF assignPanel
<1>3. CASE fileCase(c)
  BY <1>1, <1>2, <1>3 DEF fileCase, CaseRecords, Statuses
<1>4. CASE submitEvidence(c)
  BY <1>1, <1>4 DEF submitEvidence, CaseRecords, Statuses
<1>5. CASE openDeliberation(c)
  BY <1>1, <1>5 DEF openDeliberation, CaseRecords, Statuses
<1>6. CASE deliberationElapses(c)
  BY <1>1, <1>6 DEF deliberationElapses, CaseRecords
<1>7. CASE challengeElapses(c)
  BY <1>1, <1>7 DEF challengeElapses, CaseRecords
<1>8. CASE \E k \in Keys : submitRefereeOpinion(c, k)
  <2>1. PICK misquoted \in BOOLEAN : case' = [case EXCEPT ![c].misquoted = misquoted]
    BY <1>1, <1>8 DEF submitRefereeOpinion, CaseRecords
  <2> QED BY <1>1, <1>8, <2>1 DEF submitRefereeOpinion, CaseRecords
<1>9. CASE upholdChallenge(c)
  BY <1>1, <1>9 DEF upholdChallenge, CaseRecords, Statuses
<1> QED BY <1>3, <1>4, <1>5, <1>6, <1>7, <1>8, <1>9

\* A ballot is cast during the deliberation.
LEMMA CastEffect ==
  ASSUME RecordInv, NEW c \in Cases, NEW k \in Keys, NEW verdict \in VERDICTS,
         NEW ok \in BOOLEAN, castBallot(c, k, verdict, ok)
  PROVE  /\ Only(c) /\ UNCHANGED roster /\ case[c].status = "DELIBERATION"
         /\ \A b \in case[c].ballots : b.judge # k
         /\ case'[c] = [case[c] EXCEPT !.ballots =
              case[c].ballots \union {[judge |-> k, verdict |-> verdict, valid |-> ok]}]
<1> DEFINE b == [judge |-> k, verdict |-> verdict, valid |-> ok]
<1>1. case \in [Cases -> CaseRecords] /\ case[c] \in CaseRecords
  BY DEF RecordInv
<1>2. case[c].ballots \union {b} \in SUBSET Ballots
  BY <1>1 DEF CaseRecords, Ballots
<1>3. case' = [case EXCEPT ![c] = [case[c] EXCEPT !.ballots = case[c].ballots \union {b}]]
  BY <1>1 DEF castBallot
<1>4. [case[c] EXCEPT !.ballots = case[c].ballots \union {b}] \in CaseRecords
  BY <1>1, <1>2 DEF CaseRecords
<1> HIDE DEF b
<1> QED BY <1>1, <1>3, <1>4 DEF castBallot, Only, b

\* The ballots that are counted.
Counted(c) == {b \in case[c].ballots : b.valid /\ judgeActive(b.judge, "judge")}

\* A fresh tally is one, and if it rules it is backed.
LEMMA FreshTally ==
  ASSUME RecordInv, NEW c \in Cases
  PROVE  /\ computeTally(c) \in Tallies
         /\ computeTally(c).outcome \in Decisions => Backed(case[c], computeTally(c).outcome)
<1>1. computeTally(c) = Tally(Counted(c))
  BY DEF computeTally, Counted
<1>2. Counted(c) \in SUBSET {b \in case[c].ballots : b.valid}
  BY DEF Counted
<1>3. case[c] \in CaseRecords /\ CaseInv(case[c])
  BY DEF RecordInv
<1>4. Counted(c) \in SUBSET Ballots /\ IsFiniteSet(Counted(c))
  BY <1>2, <1>3, FS_Subset DEF CaseRecords, CaseInv
<1> QED BY <1>1, <1>2, <1>3, <1>4, TallyType, TallyBacked

\* A tally is a record of another kind than NoTally.
LEMMA TalliesAreSomething == NoTally \notin Tallies
<1>1. NoTally.kind # "tally"
  BY DEF NoTally
<1> QED BY <1>1 DEF Tallies

\* A round is tallied.
LEMMA TallyEffect ==
  ASSUME RecordInv, NEW c \in Cases, tallyRound(c)
  PROVE  /\ Only(c) /\ UNCHANGED roster
         /\ case'[c] = [case[c] EXCEPT !.tally = computeTally(c)]
<1>1. case \in [Cases -> CaseRecords] /\ case[c] \in CaseRecords
  BY DEF RecordInv
<1>2. computeTally(c) \in Tallies
  BY FreshTally
<1>3. [case[c] EXCEPT !.tally = computeTally(c)] \in CaseRecords
  BY <1>1, <1>2 DEF CaseRecords
<1>4. case' = [case EXCEPT ![c] = [case[c] EXCEPT !.tally = computeTally(c)]]
  BY <1>1 DEF tallyRound
<1> QED BY <1>1, <1>3, <1>4 DEF tallyRound, Only

\* The deliberation ends, with a ruling or without.
LEMMA OpenEffect ==
  ASSUME RecordInv, NEW c \in Cases, openChallengeWindow(c)
  PROVE  LET t == openingTally(c) IN
         /\ Only(c) /\ UNCHANGED roster /\ case[c].status = "DELIBERATION"
         /\ t \in Tallies
         /\ \/ /\ t.outcome \in Hung
               /\ case'[c] = [case[c] EXCEPT !.status = "UNRESOLVED", !.tally = t]
            \/ /\ t.outcome \in Decisions
               /\ case'[c] = [case[c] EXCEPT !.status = "CHALLENGE_WINDOW", !.tally = t,
                                             !.provisional = t.outcome, !.final = FALSE]
<1> DEFINE t == openingTally(c)
           hung == [case[c] EXCEPT !.status = "UNRESOLVED", !.tally = t]
           ruled == [case[c] EXCEPT !.status = "CHALLENGE_WINDOW", !.tally = t,
                                    !.provisional = t.outcome, !.final = FALSE]
<1>1. case \in [Cases -> CaseRecords] /\ case[c] \in CaseRecords
  BY DEF RecordInv
<1>2. t \in Tallies
  BY <1>1, FreshTally DEF openingTally, CaseRecords
<1>3. \/ t.outcome \in Hung /\ case' = [case EXCEPT ![c] = hung]
      \/ t.outcome \in Decisions /\ case' = [case EXCEPT ![c] = ruled]
  BY <1>1 DEF openChallengeWindow
<1>4. hung \in CaseRecords
  BY <1>1, <1>2 DEF CaseRecords, Statuses
<1>5. t.outcome \in Decisions => ruled \in CaseRecords
  BY <1>1, <1>2 DEF CaseRecords, Statuses
<1>6. UNCHANGED roster /\ case[c].status = "DELIBERATION"
  BY DEF openChallengeWindow
<1> HIDE DEF t, hung, ruled
<1>7. Only(c)
  BY <1>1, <1>3, <1>4, <1>5 DEF Only
<1>8. \/ t.outcome \in Hung /\ case'[c] = hung
      \/ t.outcome \in Decisions /\ case'[c] = ruled
  BY <1>1, <1>3
<1> QED BY <1>2, <1>6, <1>7, <1>8 DEF t, hung, ruled

\* A challenge is lost.
LEMMA RejectEffect ==
  ASSUME RecordInv, NEW c \in Cases, NEW k \in Keys, rejectChallenge(c, k)
  PROVE  /\ Only(c) /\ UNCHANGED <<standing, fee>>
         /\ case'[c] = [case[c] EXCEPT !.rejected =
              [case[c].rejected EXCEPT ![k] = case[c].rejected[k] + 1]]
         /\ reputation' = [reputation EXCEPT ![k] = reputation[k] - 1]
<1> DEFINE rejected == [case[c].rejected EXCEPT ![k] = case[c].rejected[k] + 1]
<1>1. case \in [Cases -> CaseRecords] /\ case[c] \in CaseRecords
  BY DEF RecordInv
<1>2. rejected \in [Keys -> Nat]
  BY <1>1 DEF CaseRecords
<1>3. case' = [case EXCEPT ![c] = [case[c] EXCEPT !.rejected = rejected]]
  BY <1>1 DEF rejectChallenge
<1> HIDE DEF rejected
<1>4. [case[c] EXCEPT !.rejected = rejected] \in CaseRecords
  BY <1>1, <1>2 DEF CaseRecords
<1> QED BY <1>1, <1>3, <1>4 DEF rejectChallenge, Only, rejected

\* A case is settled.
LEMMA SettleEffect ==
  ASSUME RecordInv, NEW c \in Cases, settleCase(c)
  PROVE  /\ Only(c) /\ UNCHANGED <<standing, fee>> /\ case[c].status = "CHALLENGE_WINDOW"
         /\ Certificate(c) \in Certificates
         /\ case'[c] = [case[c] EXCEPT !.status = "SETTLED", !.settlement = Certificate(c)]
         /\ reputation' = [k \in Keys |-> reputation[k] + IF k \in Rewarded(c) THEN 2 ELSE 0]
<1> DEFINE y == [case[c] EXCEPT !.status = "SETTLED", !.settlement = Certificate(c)]
<1>1. case \in [Cases -> CaseRecords] /\ case[c] \in CaseRecords /\ CaseInv(case[c])
      /\ case[c].status = "CHALLENGE_WINDOW"
  BY DEF RecordInv, settleCase
<1>2. case[c].provisional \in Decisions /\ case[c].tally \in Tallies
  BY <1>1 DEF CaseInv, Ruled, CaseRecords
<1>3. Certificate(c) \in Certificates
  BY <1>1, <1>2 DEF Certificate, Certificates, CaseRecords, Tallies
<1>4. case' = [case EXCEPT ![c] = y]
  BY <1>1 DEF settleCase
<1>5. y \in CaseRecords
  BY <1>1, <1>3 DEF CaseRecords, Statuses
<1> HIDE DEF y
<1> QED BY <1>1, <1>3, <1>4, <1>5 DEF settleCase, Only, y
-------------------------------------------------------------------------------
(* The invariant, part by part *)

\* An operation on a case is one of six kinds.
LEMMA CaseStepKinds ==
  ASSUME NEW c \in Cases, CaseStep(c)
  PROVE  \/ Procedural(c)
         \/ \E k \in Keys, verdict \in VERDICTS, ok \in BOOLEAN : castBallot(c, k, verdict, ok)
         \/ tallyRound(c) \/ openChallengeWindow(c)
         \/ (\E k \in Keys : rejectChallenge(c, k)) \/ settleCase(c)
BY DEF CaseStep, Procedural, Signatures

\* The operations on the roster leave the cases alone.
LEMMA RosterEffect ==
  ASSUME RecordInv, Roster
  PROVE  /\ UNCHANGED <<case, reputation>>
         /\ standing' \in [Keys -> {"absent", "active", "revoked"}]
         /\ fee' \in [Keys -> Fees \union {Unquoted}]
         /\ \A k \in Keys : \/ standing'[k] = standing[k]
                            \/ standing[k] = "absent" /\ standing'[k] = "active"
                            \/ standing[k] = "active" /\ standing'[k] = "revoked"
<1> USE DEF RecordInv
<1>1. ASSUME NEW k \in Keys, registerJudge(k)
      PROVE  /\ UNCHANGED <<case, reputation, fee>>
             /\ standing[k] = "absent" /\ standing' = [standing EXCEPT ![k] = "active"]
  BY <1>1 DEF registerJudge
<1>2. ASSUME NEW k \in Keys, revokeJudge(k)
      PROVE  /\ UNCHANGED <<case, reputation, fee>>
             /\ standing[k] = "active" /\ standing' = [standing EXCEPT ![k] = "revoked"]
  BY <1>2 DEF revokeJudge
<1>3. ASSUME NEW k \in Keys, setFeeBook(k)
      PROVE  /\ UNCHANGED <<case, reputation, standing>>
             /\ fee' \in [Keys -> Fees \union {Unquoted}]
  BY <1>3 DEF setFeeBook
<1> QED BY <1>1, <1>2, <1>3 DEF Roster

\* A case that keeps its records right keeps them all right.
LEMMA RecordKept ==
  ASSUME RecordInv, NEW c \in Cases, Only(c), CaseInv(case'[c]), UNCHANGED <<standing, fee>>,
         reputation' \in [Keys -> Int]
  PROVE  RecordInv'
<1>1. \A d \in Cases : CaseInv(case'[d])
  BY DEF Only, RecordInv
<1> QED BY <1>1 DEF Only, RecordInv, CaseInv, Ruled

\* Every step keeps the records right.
LEMMA RecordStep == RecordInv /\ [Next]_vars => RecordInv'
<1> SUFFICES ASSUME RecordInv, [Next]_vars PROVE RecordInv'
  OBVIOUS
<1> USE DEF roster
<1>1. CASE Roster
  BY <1>1, RosterEffect DEF RecordInv, CaseInv, Ruled
<1>2. ASSUME NEW c \in Cases, CaseStep(c) PROVE RecordInv'
  <2>0. case[c] \in CaseRecords /\ CaseInv(case[c]) /\ reputation \in [Keys -> Int]
    BY DEF RecordInv
  <2>1. CASE Procedural(c)
    <3>1. Only(c) /\ Keeps(case[c], case'[c]) /\ UNCHANGED roster
      BY <2>1, ProceduralEffect
    <3>2. CaseInv(case'[c])
      BY <2>0, <3>1 DEF Keeps, CaseInv
    <3> QED BY <2>0, <3>1, <3>2, RecordKept
  <2>2. ASSUME NEW k \in Keys, NEW verdict \in VERDICTS, NEW ok \in BOOLEAN,
               castBallot(c, k, verdict, ok)
        PROVE  RecordInv'
    <3> DEFINE b == [judge |-> k, verdict |-> verdict, valid |-> ok]
               x == case[c]
    <3>1. /\ Only(c) /\ UNCHANGED roster /\ x.status = "DELIBERATION"
          /\ \A a \in x.ballots : a.judge # k
          /\ case'[c] = [x EXCEPT !.ballots = x.ballots \union {b}]
      BY <2>2, CastEffect
    <3>2. b.judge = k
      OBVIOUS
    <3> HIDE DEF b
    <3>3. /\ case'[c].ballots = x.ballots \union {b} /\ case'[c].status = "DELIBERATION"
          /\ case'[c].settlement = x.settlement
      BY <2>0, <3>1 DEF CaseRecords
    <3>4. IsFiniteSet(x.ballots \union {b})
      BY <2>0, FS_AddElement DEF CaseInv
    <3>5. CaseInv(case'[c])
      BY <2>0, <3>1, <3>2, <3>3, <3>4 DEF CaseInv, Ruled
    <3> QED BY <2>0, <3>1, <3>5, RecordKept
  <2>3. CASE tallyRound(c)
    <3>1. /\ Only(c) /\ UNCHANGED roster
          /\ case'[c] = [case[c] EXCEPT !.tally = computeTally(c)]
          /\ computeTally(c) # NoTally
      BY <2>3, TallyEffect, FreshTally, TalliesAreSomething
    <3>2. CaseInv(case'[c])
      BY <2>0, <3>1 DEF CaseInv, Ruled, CaseRecords
    <3> QED BY <2>0, <3>1, <3>2, RecordKept
  <2>4. CASE openChallengeWindow(c)
    <3> DEFINE t == openingTally(c)
    <3>1. /\ Only(c) /\ UNCHANGED roster /\ case[c].status = "DELIBERATION" /\ t # NoTally
          /\ \/ /\ t.outcome \in Hung
                /\ case'[c] = [case[c] EXCEPT !.status = "UNRESOLVED", !.tally = t]
             \/ /\ t.outcome \in Decisions
                /\ case'[c] = [case[c] EXCEPT !.status = "CHALLENGE_WINDOW", !.tally = t,
                                              !.provisional = t.outcome, !.final = FALSE]
      BY <2>4, OpenEffect, TalliesAreSomething
    <3> HIDE DEF t
    <3>2. /\ case'[c].ballots = case[c].ballots /\ case'[c].settlement = case[c].settlement
          /\ case'[c].tally = t /\ case'[c].status \in {"UNRESOLVED", "CHALLENGE_WINDOW"}
          /\ Ruled(case'[c]) => case'[c].provisional \in Decisions
      BY <2>0, <3>1 DEF Ruled, CaseRecords
    <3>3. CaseInv(case'[c])
      BY <2>0, <3>1, <3>2 DEF CaseInv
    <3> QED BY <2>0, <3>1, <3>3, RecordKept
  <2>5. ASSUME NEW k \in Keys, rejectChallenge(c, k) PROVE RecordInv'
    <3> DEFINE rejected == [case[c].rejected EXCEPT ![k] = case[c].rejected[k] + 1]
    <3>1. /\ Only(c) /\ UNCHANGED <<standing, fee>>
          /\ case'[c] = [case[c] EXCEPT !.rejected = rejected]
          /\ reputation' = [reputation EXCEPT ![k] = reputation[k] - 1]
      BY <2>5, RejectEffect
    <3> HIDE DEF rejected
    <3>2. CaseInv(case'[c])
      BY <2>0, <3>1 DEF CaseInv, Ruled, CaseRecords
    <3> QED BY <2>0, <3>1, <3>2, RecordKept
  <2>6. CASE settleCase(c)
    <3>1. /\ Only(c) /\ UNCHANGED <<standing, fee>> /\ case[c].status = "CHALLENGE_WINDOW"
          /\ Certificate(c) \in Certificates
          /\ case'[c] = [case[c] EXCEPT !.status = "SETTLED", !.settlement = Certificate(c)]
          /\ reputation' = [k \in Keys |-> reputation[k] + IF k \in Rewarded(c) THEN 2 ELSE 0]
      BY <2>6, SettleEffect
    <3>2. Certificate(c) # NoSettlement
      <4>1. Certificate(c).kind # NoSettlement.kind
        BY DEF Certificate, NoSettlement
      <4> QED BY <4>1
    <3>3. CaseInv(case'[c])
      BY <2>0, <3>1, <3>2 DEF CaseInv, Ruled, CaseRecords
    <3> QED BY <2>0, <3>1, <3>3, RecordKept
  <2> QED BY <1>2, <2>1, <2>2, <2>3, <2>4, <2>5, <2>6, CaseStepKinds
<1>3. CASE UNCHANGED vars
  BY <1>3 DEF vars, RecordInv, CaseInv, Ruled
<1> QED BY <1>1, <1>2, <1>3 DEF Next

\* Whatever rules or has ruled stays backed.
LEMMA BackingStep == RecordInv /\ RecordInv' /\ BackingInv /\ [Next]_vars => BackingInv'
<1> SUFFICES ASSUME RecordInv, RecordInv', BackingInv, [Next]_vars PROVE BackingInv'
  OBVIOUS
<1> DEFINE Held(x) == /\ x.tally # NoTally /\ x.tally.outcome \in Decisions =>
                            Backed(x, x.tally.outcome)
                      /\ Ruled(x) => Backed(x, x.provisional)
<1>1. CASE Roster
  BY <1>1, RosterEffect DEF BackingInv, Backed, Ruled
<1>2. ASSUME NEW c \in Cases, CaseStep(c) PROVE BackingInv'
  <2> DEFINE x == case[c]
             y == case'[c]
  <2>1. /\ x \in CaseRecords /\ y \in CaseRecords /\ Held(x)
        /\ IsFiniteSet(x.ballots) /\ IsFiniteSet(y.ballots)
    BY DEF RecordInv, CaseInv, BackingInv
  <2>2. Only(c) /\ x.ballots \subseteq y.ballots /\ Held(y)
    <3>1. CASE Procedural(c)
      BY <2>1, <3>1, ProceduralEffect DEF Keeps, Backed
    <3>2. ASSUME NEW k \in Keys, NEW verdict \in VERDICTS, NEW ok \in BOOLEAN,
                 castBallot(c, k, verdict, ok)
          PROVE  Only(c) /\ x.ballots \subseteq y.ballots /\ Held(y)
      <4> DEFINE b == [judge |-> k, verdict |-> verdict, valid |-> ok]
      <4>1. Only(c) /\ y = [x EXCEPT !.ballots = x.ballots \union {b}]
        BY <3>2, CastEffect
      <4> HIDE DEF b
      <4>2. /\ x.ballots \subseteq y.ballots /\ y.tally = x.tally
            /\ y.provisional = x.provisional /\ y.status = x.status
        BY <2>1, <4>1 DEF CaseRecords
      <4>3. \A v : Backed(x, v) => Backed(y, v)
        BY <2>1, <4>2, BackedMonotone
      <4> QED BY <2>1, <4>1, <4>2, <4>3 DEF Ruled
    <3>3. CASE tallyRound(c)
      <4>1. Only(c) /\ y = [x EXCEPT !.tally = computeTally(c)]
        BY <3>3, TallyEffect
      <4>2. /\ y.ballots = x.ballots /\ y.tally = computeTally(c)
            /\ y.provisional = x.provisional /\ y.status = x.status
        BY <2>1, <4>1 DEF CaseRecords
      <4>3. \A v : Backed(x, v) => Backed(y, v)
        BY <4>2 DEF Backed
      <4>4. computeTally(c).outcome \in Decisions => Backed(x, computeTally(c).outcome)
        BY FreshTally
      <4> QED BY <2>1, <4>1, <4>2, <4>3, <4>4 DEF Ruled
    <3>4. CASE openChallengeWindow(c)
      <4> DEFINE t == openingTally(c)
      <4>1. /\ Only(c) /\ x.status = "DELIBERATION" /\ t \in Tallies
            /\ \/ /\ t.outcome \in Hung
                  /\ y = [x EXCEPT !.status = "UNRESOLVED", !.tally = t]
               \/ /\ t.outcome \in Decisions
                  /\ y = [x EXCEPT !.status = "CHALLENGE_WINDOW", !.tally = t,
                                   !.provisional = t.outcome, !.final = FALSE]
        BY <3>4, OpenEffect
      <4>2. t.outcome \in Decisions => Backed(x, t.outcome)
        BY <2>1, FreshTally DEF openingTally
      <4> HIDE DEF t
      <4>3. /\ y.ballots = x.ballots /\ y.tally = t
            /\ Ruled(y) => y.provisional = t.outcome /\ t.outcome \in Decisions
        BY <2>1, <4>1 DEF CaseRecords, Ruled
      <4>4. \A v : Backed(x, v) => Backed(y, v)
        BY <4>3 DEF Backed
      <4> QED BY <4>1, <4>2, <4>3, <4>4
    <3>5. ASSUME NEW k \in Keys, rejectChallenge(c, k)
          PROVE  Only(c) /\ x.ballots \subseteq y.ballots /\ Held(y)
      <4> DEFINE rejected == [case[c].rejected EXCEPT ![k] = case[c].rejected[k] + 1]
      <4>1. Only(c) /\ y = [x EXCEPT !.rejected = rejected]
        BY <3>5, RejectEffect
      <4> HIDE DEF rejected
      <4>2. /\ y.ballots = x.ballots /\ y.tally = x.tally
            /\ y.provisional = x.provisional /\ y.status = x.status
        BY <2>1, <4>1 DEF CaseRecords
      <4>3. \A v : Backed(x, v) => Backed(y, v)
        BY <4>2 DEF Backed
      <4> QED BY <2>1, <4>1, <4>2, <4>3 DEF Ruled
    <3>6. CASE settleCase(c)
      <4>1. /\ Only(c) /\ x.status = "CHALLENGE_WINDOW"
            /\ y = [x EXCEPT !.status = "SETTLED", !.settlement = Certificate(c)]
        BY <3>6, SettleEffect
      <4>2. /\ y.ballots = x.ballots /\ y.tally = x.tally
            /\ y.provisional = x.provisional
        BY <2>1, <4>1 DEF CaseRecords
      <4>3. \A v : Backed(x, v) => Backed(y, v)
        BY <4>2 DEF Backed
      <4> QED BY <2>1, <4>1, <4>2, <4>3 DEF Ruled
    <3> QED BY <1>2, <3>1, <3>2, <3>3, <3>4, <3>5, <3>6, CaseStepKinds
  <2>3. \A d \in Cases : Held(case'[d])
    BY <2>2 DEF Only, BackingInv
  <2> QED BY <2>3 DEF BackingInv, Backed, Ruled
<1>3. CASE UNCHANGED vars
  BY <1>3 DEF vars, BackingInv, Backed, Ruled
<1> QED BY <1>1, <1>2, <1>3 DEF Next

\* Who has voted has been registered, and stays so.
LEMMA VotersStep == RecordInv /\ VotersKnown /\ [Next]_vars => VotersKnown'
<1> SUFFICES ASSUME RecordInv, VotersKnown, [Next]_vars PROVE VotersKnown'
  OBVIOUS
<1>0. \A c \in Cases : \A b \in case[c].ballots : b.judge \in Keys
  BY DEF RecordInv, CaseRecords, Ballots
<1>1. CASE Roster
  <2>1. case' = case /\ \A k \in Keys : standing[k] # "absent" => standing'[k] # "absent"
    BY <1>1, RosterEffect
  <2> QED BY <1>0, <2>1 DEF VotersKnown
<1>2. ASSUME NEW c \in Cases, CaseStep(c) PROVE VotersKnown'
  <2>1. ASSUME Only(c), UNCHANGED standing,
               \A b \in case'[c].ballots : b \in case[c].ballots \/ standing[b.judge] # "absent"
        PROVE  VotersKnown'
    BY <2>1 DEF VotersKnown, Only
  <2>2. case[c] \in CaseRecords
    BY DEF RecordInv
  <2>3. CASE Procedural(c)
    BY <2>1, <2>3, ProceduralEffect DEF Keeps, roster
  <2>4. ASSUME NEW k \in Keys, NEW verdict \in VERDICTS, NEW ok \in BOOLEAN,
               castBallot(c, k, verdict, ok)
        PROVE  VotersKnown'
    <3> DEFINE b == [judge |-> k, verdict |-> verdict, valid |-> ok]
    <3>1. /\ Only(c) /\ UNCHANGED standing
          /\ case'[c] = [case[c] EXCEPT !.ballots = case[c].ballots \union {b}]
      BY <2>4, CastEffect DEF roster
    <3>2. b.judge = k /\ standing[k] # "absent"
      BY <2>4 DEF castBallot, judgeActive
    <3> HIDE DEF b
    <3>3. case'[c].ballots = case[c].ballots \union {b}
      BY <2>2, <3>1 DEF CaseRecords
    <3> QED BY <2>1, <3>1, <3>2, <3>3
  <2>5. CASE tallyRound(c)
    <3>1. Only(c) /\ UNCHANGED standing /\ case'[c] = [case[c] EXCEPT !.tally = computeTally(c)]
      BY <2>5, TallyEffect DEF roster
    <3> QED BY <2>1, <2>2, <3>1 DEF CaseRecords
  <2>6. CASE openChallengeWindow(c)
    <3> DEFINE t == openingTally(c)
    <3>1. /\ Only(c) /\ UNCHANGED standing
          /\ \/ case'[c] = [case[c] EXCEPT !.status = "UNRESOLVED", !.tally = t]
             \/ case'[c] = [case[c] EXCEPT !.status = "CHALLENGE_WINDOW", !.tally = t,
                                           !.provisional = t.outcome, !.final = FALSE]
      BY <2>6, OpenEffect DEF roster
    <3> HIDE DEF t
    <3> QED BY <2>1, <2>2, <3>1 DEF CaseRecords
  <2>7. ASSUME NEW k \in Keys, rejectChallenge(c, k) PROVE VotersKnown'
    <3> DEFINE rejected == [case[c].rejected EXCEPT ![k] = case[c].rejected[k] + 1]
    <3>1. Only(c) /\ UNCHANGED standing /\ case'[c] = [case[c] EXCEPT !.rejected = rejected]
      BY <2>7, RejectEffect
    <3> HIDE DEF rejected
    <3> QED BY <2>1, <2>2, <3>1 DEF CaseRecords
  <2>8. CASE settleCase(c)
    <3>1. /\ Only(c) /\ UNCHANGED standing
          /\ case'[c] = [case[c] EXCEPT !.status = "SETTLED", !.settlement = Certificate(c)]
      BY <2>8, SettleEffect
    <3> QED BY <2>1, <2>2, <3>1 DEF CaseRecords
  <2> QED BY <1>2, <2>3, <2>4, <2>5, <2>6, <2>7, <2>8, CaseStepKinds
<1>3. CASE UNCHANGED vars
  BY <1>3 DEF vars, VotersKnown
<1> QED BY <1>1, <1>2, <1>3 DEF Next
-------------------------------------------------------------------------------
(* Reputation *)

\* The cases that count for or against a key are finitely many.
LEMMA ScoresAreNumbers ==
  ASSUME RecordInv, NEW k \in Keys
  PROVE  /\ IsFiniteSet(Won(k)) /\ Cardinality(Won(k)) \in Nat
         /\ IsFiniteSet(LostBy(k)) /\ Cardinality(LostBy(k)) \in Nat
<1> DEFINE T == {{c} \X (1 .. case[c].rejected[k]) : c \in Cases}
           f == [c \in Cases |-> {c} \X (1 .. case[c].rejected[k])]
<1>1. IsFiniteSet(Cases)
  BY CourtAssumption
<1>2. IsFiniteSet(Won(k)) /\ Cardinality(Won(k)) \in Nat
  <2>1. Won(k) \in SUBSET Cases
    BY DEF Won
  <2> QED BY <1>1, <2>1, FS_Subset, FS_CardinalityType
<1>3. IsFiniteSet(T)
  <2>1. f \in Surjection(Cases, T)
    BY DEF Surjection
  <2> QED BY <1>1, <2>1, FS_Surjection
<1>4. ASSUME NEW c \in Cases PROVE IsFiniteSet({c} \X (1 .. case[c].rejected[k]))
  <2>1. IsFiniteSet({c})
    BY FS_Singleton
  <2>2. case[c].rejected[k] \in Nat
    BY DEF RecordInv, CaseRecords
  <2>3. IsFiniteSet(1 .. case[c].rejected[k])
    BY <2>2, FS_Interval
  <2> QED BY <2>1, <2>3, FS_Product
<1>5. IsFiniteSet(UNION T)
  BY <1>3, <1>4, FS_UNION
<1>6. IsFiniteSet(LostBy(k))
  BY <1>5 DEF LostBy
<1> QED BY <1>2, <1>6, FS_CardinalityType

Earned(k) == 2 * Cardinality(Won(k)) - Cardinality(LostBy(k))

\* What a settled case says of a key, and what x and y agree on about it.
SameScore(x, y) ==
  /\ y.rejected = x.rejected
  /\ y.status = "SETTLED" <=> x.status = "SETTLED"
  /\ x.status = "SETTLED" => y.ballots = x.ballots /\ y.provisional = x.provisional

\* Steps that settle nothing and cost nobody a point keep every score.
LEMMA ScoresKept ==
  ASSUME RecordInv, ReputationIsEarned, \A c \in Cases : SameScore(case[c], case'[c]),
         UNCHANGED reputation,
         \A k \in Keys : standing'[k] = standing[k] \/ standing[k] # "revoked"
  PROVE  ReputationIsEarned'
<1> SUFFICES ASSUME NEW k \in Keys
             PROVE  IF standing'[k] = "revoked" THEN reputation[k] <= Earned(k)'
                    ELSE reputation[k] = Earned(k)'
  BY DEF ReputationIsEarned, Earned
<1>1. Won(k)' = Won(k)
  BY DEF Won, SameScore
<1>2. LostBy(k)' = LostBy(k)
  BY DEF LostBy, SameScore
<1>3. Earned(k)' = Earned(k) /\ Earned(k) \in Int /\ reputation[k] \in Int
  BY <1>1, <1>2, ScoresAreNumbers DEF Earned, RecordInv
<1>4. IF standing[k] = "revoked" THEN reputation[k] <= Earned(k) ELSE reputation[k] = Earned(k)
  BY DEF ReputationIsEarned, Earned
<1> QED BY <1>3, <1>4

\* A challenge that is lost costs its author a point.
LEMMA RejectScore ==
  ASSUME RecordInv, ReputationIsEarned, NEW c \in Cases, NEW j \in Keys, rejectChallenge(c, j)
  PROVE  ReputationIsEarned'
<1> DEFINE x == case[c]
           n == x.rejected[j] + 1
           rejected == [x.rejected EXCEPT ![j] = n]
<1>1. x \in CaseRecords /\ x.rejected \in [Keys -> Nat] /\ n \in Nat \ {0}
  BY DEF RecordInv, CaseRecords
<1>2. /\ Only(c) /\ UNCHANGED <<standing, fee>>
      /\ case'[c] = [x EXCEPT !.rejected = rejected]
      /\ reputation' = [reputation EXCEPT ![j] = reputation[j] - 1]
  BY RejectEffect
<1>3. /\ rejected[j] = n /\ \A k \in Keys : k # j => rejected[k] = x.rejected[k]
      /\ 1 .. n = (1 .. x.rejected[j]) \union {n} /\ n \notin 1 .. x.rejected[j]
  BY <1>1
<1> HIDE DEF rejected
<1>4. /\ case'[c].rejected = rejected /\ case'[c].status = x.status
      /\ case'[c].ballots = x.ballots /\ case'[c].provisional = x.provisional
  BY <1>1, <1>2 DEF CaseRecords
<1> SUFFICES ASSUME NEW k \in Keys
             PROVE  IF standing[k] = "revoked" THEN reputation'[k] <= Earned(k)'
                    ELSE reputation'[k] = Earned(k)'
  BY <1>2 DEF ReputationIsEarned, Earned
<1>5. Won(k)' = Won(k)
  BY <1>2, <1>4 DEF Won, Only
<1>6. IF standing[k] = "revoked" THEN reputation[k] <= Earned(k) ELSE reputation[k] = Earned(k)
  BY DEF ReputationIsEarned, Earned
<1>7. /\ reputation[k] \in Int /\ Cardinality(Won(k)) \in Nat
      /\ IsFiniteSet(LostBy(k)) /\ Cardinality(LostBy(k)) \in Nat
  BY ScoresAreNumbers DEF RecordInv
<1>8. CASE k # j
  <2>1. LostBy(k)' = LostBy(k)
    <3>1. \A d \in Cases : case'[d].rejected[k] = case[d].rejected[k]
      BY <1>2, <1>3, <1>4, <1>8 DEF Only
    <3> QED BY <3>1 DEF LostBy
  <2>2. reputation'[k] = reputation[k]
    BY <1>2, <1>8 DEF RecordInv
  <2> QED BY <1>5, <1>6, <1>7, <2>1, <2>2 DEF Earned
<1>9. CASE k = j
  <2>1. LostBy(j)' = LostBy(j) \union {<<c, n>>}
    <3>1. ASSUME NEW d \in Cases, d # c
          PROVE  {d} \X (1 .. case'[d].rejected[j]) = {d} \X (1 .. case[d].rejected[j])
      BY <1>2, <3>1 DEF Only
    <3>2. {c} \X (1 .. case'[c].rejected[j]) = ({c} \X (1 .. x.rejected[j])) \union {<<c, n>>}
      BY <1>3, <1>4
    <3> QED BY <3>1, <3>2 DEF LostBy
  <2>2. <<c, n>> \notin LostBy(j)
    BY <1>3 DEF LostBy
  <2>3. Cardinality(LostBy(j)') = Cardinality(LostBy(j)) + 1
    BY <1>7, <1>9, <2>1, <2>2, FS_AddElement
  <2>4. reputation'[j] = reputation[j] - 1
    BY <1>2 DEF RecordInv
  <2> QED BY <1>5, <1>6, <1>7, <1>9, <2>3, <2>4 DEF Earned
<1> QED BY <1>8, <1>9

\* A settlement earns two points for each active key that voted for the ruling;
\* a revoked one misses them.
LEMMA SettleScore ==
  ASSUME RecordInv, VotersKnown, ReputationIsEarned, NEW c \in Cases, settleCase(c)
  PROVE  ReputationIsEarned'
<1> DEFINE x == case[c]
<1>1. x \in CaseRecords
  BY DEF RecordInv
<1>2. /\ Only(c) /\ UNCHANGED <<standing, fee>> /\ x.status = "CHALLENGE_WINDOW"
      /\ case'[c] = [x EXCEPT !.status = "SETTLED", !.settlement = Certificate(c)]
      /\ reputation' = [k \in Keys |-> reputation[k] + IF k \in Rewarded(c) THEN 2 ELSE 0]
  BY SettleEffect
<1>3. /\ case'[c].status = "SETTLED" /\ case'[c].ballots = x.ballots
      /\ case'[c].provisional = x.provisional /\ case'[c].rejected = x.rejected
  BY <1>1, <1>2 DEF CaseRecords
<1> SUFFICES ASSUME NEW k \in Keys
             PROVE  IF standing[k] = "revoked" THEN reputation'[k] <= Earned(k)'
                    ELSE reputation'[k] = Earned(k)'
  BY <1>2 DEF ReputationIsEarned, Earned
<1>4. LostBy(k)' = LostBy(k)
  <2>1. \A d \in Cases : case'[d].rejected[k] = case[d].rejected[k]
    BY <1>2, <1>3 DEF Only
  <2> QED BY <2>1 DEF LostBy
<1>5. IF standing[k] = "revoked" THEN reputation[k] <= Earned(k) ELSE reputation[k] = Earned(k)
  BY DEF ReputationIsEarned, Earned
<1>6. /\ reputation[k] \in Int /\ IsFiniteSet(Won(k)) /\ Cardinality(Won(k)) \in Nat
      /\ Cardinality(LostBy(k)) \in Nat
  BY ScoresAreNumbers DEF RecordInv
<1>7. reputation'[k] = reputation[k] + IF k \in Rewarded(c) THEN 2 ELSE 0
  BY <1>2
<1>8. CASE k \in Voters(x.ballots, x.provisional)
  <2>1. Won(k)' = Won(k) \union {c} /\ c \notin Won(k)
    BY <1>2, <1>3, <1>8 DEF Won, Only
  <2>2. Cardinality(Won(k)') = Cardinality(Won(k)) + 1
    BY <1>6, <2>1, FS_AddElement
  <2>3. standing[k] # "absent"
    BY <1>8 DEF VotersKnown, Voters
  <2>4. standing[k] # "revoked" => k \in Rewarded(c)
    BY <1>8, <2>3 DEF Rewarded, RecordInv
  <2>5. standing[k] = "revoked" => k \notin Rewarded(c)
    BY DEF Rewarded
  <2> QED BY <1>4, <1>5, <1>6, <1>7, <2>2, <2>4, <2>5 DEF Earned
<1>9. CASE k \notin Voters(x.ballots, x.provisional)
  <2>1. Won(k)' = Won(k)
    BY <1>2, <1>3, <1>9 DEF Won, Only
  <2>2. k \notin Rewarded(c)
    BY <1>9 DEF Rewarded
  <2> QED BY <1>4, <1>5, <1>6, <1>7, <2>1, <2>2 DEF Earned
<1> QED BY <1>8, <1>9

\* Every step keeps reputations earned.
LEMMA ReputationStep ==
  RecordInv /\ VotersKnown /\ ReputationIsEarned /\ [Next]_vars => ReputationIsEarned'
<1> SUFFICES ASSUME RecordInv, VotersKnown, ReputationIsEarned, [Next]_vars
             PROVE  ReputationIsEarned'
  OBVIOUS
<1>1. CASE Roster
  BY <1>1, RosterEffect, ScoresKept DEF SameScore
<1>2. ASSUME NEW c \in Cases, CaseStep(c) PROVE ReputationIsEarned'
  <2>1. case[c] \in CaseRecords
    BY DEF RecordInv
  <2>2. ASSUME Only(c), UNCHANGED roster, SameScore(case[c], case'[c]) PROVE ReputationIsEarned'
    <3>1. \A d \in Cases : SameScore(case[d], case'[d])
      BY <2>2 DEF Only, SameScore
    <3> QED BY <2>2, <3>1, ScoresKept DEF roster
  <2>3. CASE Procedural(c)
    BY <2>2, <2>3, ProceduralEffect DEF Keeps, SameScore
  <2>4. ASSUME NEW k \in Keys, NEW verdict \in VERDICTS, NEW ok \in BOOLEAN,
               castBallot(c, k, verdict, ok)
        PROVE  ReputationIsEarned'
    <3> DEFINE ballots == case[c].ballots
                 \union {[judge |-> k, verdict |-> verdict, valid |-> ok]}
    <3>1. /\ Only(c) /\ UNCHANGED roster /\ case[c].status = "DELIBERATION"
          /\ case'[c] = [case[c] EXCEPT !.ballots = ballots]
      BY <2>4, CastEffect
    <3> HIDE DEF ballots
    <3>2. SameScore(case[c], case'[c])
      BY <2>1, <3>1 DEF CaseRecords, SameScore
    <3> QED BY <2>2, <3>1, <3>2
  <2>5. CASE tallyRound(c)
    <3>1. Only(c) /\ UNCHANGED roster /\ case'[c] = [case[c] EXCEPT !.tally = computeTally(c)]
      BY <2>5, TallyEffect
    <3>2. SameScore(case[c], case'[c])
      BY <2>1, <3>1 DEF CaseRecords, SameScore
    <3> QED BY <2>2, <3>1, <3>2
  <2>6. CASE openChallengeWindow(c)
    <3> DEFINE t == openingTally(c)
    <3>1. /\ Only(c) /\ UNCHANGED roster /\ case[c].status = "DELIBERATION"
          /\ \/ case'[c] = [case[c] EXCEPT !.status = "UNRESOLVED", !.tally = t]
             \/ case'[c] = [case[c] EXCEPT !.status = "CHALLENGE_WINDOW", !.tally = t,
                                           !.provisional = t.outcome, !.final = FALSE]
      BY <2>6, OpenEffect
    <3> HIDE DEF t
    <3>2. SameScore(case[c], case'[c])
      BY <2>1, <3>1 DEF CaseRecords, SameScore
    <3> QED BY <2>2, <3>1, <3>2
  <2>7. ASSUME NEW k \in Keys, rejectChallenge(c, k) PROVE ReputationIsEarned'
    BY <2>7, RejectScore
  <2>8. CASE settleCase(c)
    BY <2>8, SettleScore
  <2> QED BY <1>2, <2>3, <2>4, <2>5, <2>6, <2>7, <2>8, CaseStepKinds
<1>3. CASE UNCHANGED vars
  BY <1>3, ScoresKept DEF vars, SameScore
<1> QED BY <1>1, <1>2, <1>3 DEF Next
-------------------------------------------------------------------------------
(* The panel *)

Willing == {k \in Keys : judgeActive(k, "judge")}
Before(k) == {j \in Willing : Precedes(j, k)}

\* When enough judges are active, the panel is a quorum: the ranks of the judges
\* by fee, reputation and id are the numbers from 0, each once.
LEMMA PanelIsQuorum ==
  ASSUME TypeOK, Cardinality(Willing) >= QuorumJudges
  PROVE  Cardinality(assignPanel) >= QuorumJudges
<1> DEFINE W == Willing
           n == Cardinality(W)
           rank == [k \in W |-> Cardinality(Before(k))]
           panel == {k \in W : rank[k] < QuorumJudges}
           g == [k \in panel |-> rank[k]]
<1>1. W \subseteq Keys /\ IsFiniteSet(W) /\ n \in Nat
  BY CourtAssumption, FS_Subset, FS_CardinalityType DEF Willing
<1>2. \A k \in Keys : fee[k] \in Int /\ reputation[k] \in Int /\ k \in Int
  <2> SUFFICES ASSUME NEW k \in Keys PROVE fee[k] \in Int /\ reputation[k] \in Int /\ k \in Int
    OBVIOUS
  <2>1. fee[k] \in Fees \union {Unquoted} /\ reputation[k] \in Int
    BY DEF TypeOK
  <2>2. Unquoted \in Int
    BY DEF Unquoted
  <2>3. Fees \subseteq Nat /\ k \in Nat
    BY CourtAssumption
  <2>4. fee[k] \in Int
    <3>1. CASE fee[k] \in Fees
      <4>1. fee[k] \in Nat
        BY <3>1, <2>3
      <4> QED BY <4>1
    <3>2. CASE fee[k] = Unquoted
      BY <3>2, <2>2, Zenon
    <3> QED BY <3>1, <3>2, <2>1
  <2> QED BY <2>1, <2>3, <2>4
<1>3. \A k \in W : ~Precedes(k, k)
  BY <1>1, <1>2 DEF Precedes, Cheaper, Unquoted
<1>4. \A j, k \in W : j # k => Precedes(j, k) \/ Precedes(k, j)
  BY <1>1, <1>2 DEF Precedes, Cheaper, Unquoted
<1>5. \A i, j, k \in W : Precedes(i, j) /\ Precedes(j, k) => Precedes(i, k)
  BY <1>1, <1>2 DEF Precedes, Cheaper, Unquoted
<1>6. \A k \in W : IsFiniteSet(Before(k)) /\ rank[k] \in Nat /\ rank[k] < n
  <2> SUFFICES ASSUME NEW k \in W
               PROVE  /\ IsFiniteSet(Before(k)) /\ Cardinality(Before(k)) \in Nat
                      /\ Cardinality(Before(k)) < n
    OBVIOUS
  <2>1. Before(k) \in SUBSET W /\ Before(k) # W
    BY <1>3 DEF Before
  <2>2. IsFiniteSet(Before(k)) /\ Cardinality(Before(k)) \in Nat
    BY <1>1, <2>1, FS_Subset, FS_CardinalityType
  <2>3. Cardinality(Before(k)) <= n /\ (n = Cardinality(Before(k)) => W = Before(k))
    BY <1>1, <2>1, FS_Subset
  <2> QED BY <1>1, <2>1, <2>2, <2>3
<1>7. ASSUME NEW j \in W, NEW k \in W, Precedes(j, k) PROVE rank[j] < rank[k]
  <2>1. Before(j) \union {j} \in SUBSET Before(k)
    BY <1>5, <1>7 DEF Before
  <2>2. j \notin Before(j)
    BY <1>3 DEF Before
  <2>3. Cardinality(Before(j) \union {j}) = Cardinality(Before(j)) + 1
    BY <1>6, <2>2, FS_AddElement
  <2>4. Cardinality(Before(j) \union {j}) <= Cardinality(Before(k))
    BY <1>6, <2>1, FS_Subset
  <2>5. Cardinality(Before(j)) \in Nat /\ Cardinality(Before(k)) \in Nat
    BY <1>6
  <2> QED BY <2>3, <2>4, <2>5
<1>8. \A j, k \in W : rank[j] = rank[k] => j = k
  BY <1>4, <1>6, <1>7
<1>9. rank \in Injection(W, 0 .. n - 1)
  <2>1. \A k \in W : rank[k] \in 0 .. n - 1
    BY <1>1, <1>6
  <2> QED BY <1>8, <2>1 DEF Injection, IsInjective
<1>10. IsFiniteSet(0 .. n - 1) /\ Cardinality(0 .. n - 1) = n
  BY <1>1, FS_Interval
<1>11. rank \in Surjection(W, 0 .. n - 1)
  BY <1>9, <1>10, FS_Injection
<1>12. g \in Surjection(panel, 0 .. QuorumJudges - 1)
  <2>1. \A k \in panel : g[k] \in 0 .. QuorumJudges - 1
    BY <1>6, CourtAssumption
  <2>2. ASSUME NEW i \in 0 .. QuorumJudges - 1 PROVE \E k \in panel : g[k] = i
    <3>1. i \in 0 .. n - 1 /\ i < QuorumJudges
      BY <1>1, CourtAssumption DEF Willing
    <3>2. PICK k \in W : rank[k] = i
      BY <1>11, <3>1 DEF Surjection
    <3> QED BY <3>1, <3>2
  <2> HIDE DEF panel
  <2>3. g \in [panel -> 0 .. QuorumJudges - 1]
    BY <2>1
  <2> HIDE DEF g
  <2> QED BY <2>2, <2>3 DEF Surjection
<1>13. panel \in SUBSET W /\ IsFiniteSet(panel)
  BY <1>1, FS_Subset
<1>14. Cardinality(0 .. QuorumJudges - 1) = QuorumJudges
  BY CourtAssumption, FS_Interval
<1>15. Cardinality(0 .. QuorumJudges - 1) <= Cardinality(panel)
  BY <1>12, <1>13, FS_Surjection
<1>16. assignPanel = panel
  BY DEF assignPanel, Willing, Before
<1>17. Cardinality(panel) \in Nat
  BY <1>13, FS_CardinalityType
<1> HIDE DEF panel
<1> QED BY <1>14, <1>15, <1>16, <1>17, CourtAssumption
-------------------------------------------------------------------------------
(* The theorems *)

\* The records are of the types TypeOK says.
LEMMA RecordsTyped == RecordInv => TypeOK
<1> SUFFICES ASSUME RecordInv PROVE TypeOK
  OBVIOUS
<1>1. ASSUME NEW c \in Cases PROVE DOMAIN case[c] = DOMAIN NoCase /\ CaseOK(case[c])
  <2>1. case[c] \in CaseRecords /\ CaseInv(case[c])
    BY DEF RecordInv
  <2>2. DOMAIN case[c] = DOMAIN NoCase
    BY <2>1 DEF CaseRecords, NoCase
  <2>3. CaseOK(case[c])
    BY <2>1 DEF CaseRecords, CaseInv, Ruled, CaseOK
  <2> QED BY <2>2, <2>3
<1> QED BY <1>1 DEF RecordInv, TypeOK

\* A court without cases is in order, whatever its roster.
LEMMA EmptyCourt ==
  ASSUME case = [c \in Cases |-> NoCase], reputation = [k \in Keys |-> 0],
         standing \in [Keys -> {"absent", "active"}], fee \in [Keys -> Fees \union {Unquoted}]
  PROVE  CourtInv
<1>1. NoCase \in CaseRecords /\ NoCase.ballots = {} /\ NoCase.status = "NONE"
      /\ NoCase.tally = NoTally /\ NoCase.settlement = NoSettlement
      /\ \A k \in Keys : NoCase.rejected[k] = 0
  BY DEF NoCase, CaseRecords, Statuses
<1>2. CaseInv(NoCase)
  BY <1>1, FS_EmptySet DEF CaseInv, Ruled
<1>3. RecordInv
  BY <1>1, <1>2 DEF RecordInv
<1>4. BackingInv
  BY <1>1 DEF BackingInv, Ruled
<1>5. VotersKnown
  BY <1>1 DEF VotersKnown
<1>6. ReputationIsEarned
  <2> SUFFICES ASSUME NEW k \in Keys PROVE Won(k) = {} /\ LostBy(k) = {}
    BY FS_EmptySet DEF ReputationIsEarned
  <2>1. Won(k) = {}
    BY <1>1 DEF Won
  <2>2. \A c \in Cases : {c} \X (1 .. case[c].rejected[k]) = {}
    BY <1>1
  <2> QED BY <2>1, <2>2 DEF LostBy
<1> QED BY <1>3, <1>4, <1>5, <1>6 DEF CourtInv

\* The strengthened invariant holds initially ...
LEMMA CourtInit == Init => CourtInv
BY EmptyCourt DEF Init, Unquoted

\* ... and is inductive.
LEMMA CourtStep == CourtInv /\ [Next]_vars => CourtInv'
BY RecordStep, BackingStep, VotersStep, ReputationStep DEF CourtInv

\* Every variable keeps to its type, for all judges, stakes, cases and quorums.
THEOREM TypeCorrect == Spec => []TypeOK
<1>1. CourtInv => TypeOK
  BY RecordsTyped DEF CourtInv
<1> QED BY CourtInit, CourtStep, <1>1, PTL DEF Spec

\* What is backed has a quorum behind it.
LEMMA BackedHasQuorum == CourtInv => VerdictHasQuorum
BY DEF CourtInv, BackingInv, Ruled, Backed, VerdictHasQuorum

\* court.js:9-12 for any court: no ruling without the valid ballots of
\* QuorumJudges judges on record and more than half of QuorumStake behind it.
THEOREM VerdictHasQuorumHolds == Spec => []VerdictHasQuorum
BY CourtInit, CourtStep, BackedHasQuorum, PTL DEF Spec

\* COURT.md section 7 for any court: reputation is what settled cases and lost
\* challenges have made it.
THEOREM ReputationIsEarnedHolds == Spec => []ReputationIsEarned
<1>1. CourtInv => ReputationIsEarned
  BY DEF CourtInv
<1> QED BY CourtInit, CourtStep, <1>1, PTL DEF Spec

Final(x, y) ==
  /\ x.settlement # NoSettlement =>
       /\ y.settlement = x.settlement
       /\ y.ballots = x.ballots
       /\ y.status = "SETTLED"
  /\ x.status = "UNRESOLVED" => y.status = "UNRESOLVED"

Onward(x, y) == Final(x, y) /\ (x.status # "NONE" => y.status # "NONE")

\* No step changes a settlement, unfiles a case or takes a case up again that was given up.
LEMMA OnwardStep ==
  ASSUME RecordInv, [Next]_vars, NEW d \in Cases
  PROVE  Onward(case[d], case'[d])
<1>0. \A c \in Cases : case[c] \in CaseRecords /\ CaseInv(case[c])
  BY DEF RecordInv
<1>1. CASE UNCHANGED case
  BY <1>0, <1>1 DEF Onward, Final, CaseInv
<1>2. CASE Roster
  BY <1>1, <1>2, RosterEffect
<1>3. ASSUME NEW c \in Cases, CaseStep(c) PROVE Onward(case[d], case'[d])
  <2>1. ASSUME Only(c), Onward(case[c], case'[c]) PROVE Onward(case[d], case'[d])
    BY <1>0, <2>1 DEF Onward, Final, Only, CaseInv
  <2>2. CASE Procedural(c)
    BY <1>0, <2>1, <2>2, ProceduralEffect DEF Keeps, Onward, Final, CaseInv
  <2>3. ASSUME NEW k \in Keys, NEW verdict \in VERDICTS, NEW ok \in BOOLEAN,
               castBallot(c, k, verdict, ok)
        PROVE  Onward(case[d], case'[d])
    <3> DEFINE ballots == case[c].ballots
                 \union {[judge |-> k, verdict |-> verdict, valid |-> ok]}
    <3>1. /\ Only(c) /\ case[c].status = "DELIBERATION"
          /\ case'[c] = [case[c] EXCEPT !.ballots = ballots]
      BY <2>3, CastEffect
    <3> HIDE DEF ballots
    <3> QED BY <1>0, <2>1, <3>1 DEF CaseRecords, CaseInv, Onward, Final
  <2>4. CASE tallyRound(c)
    <3>1. Only(c) /\ case'[c] = [case[c] EXCEPT !.tally = computeTally(c)]
      BY <2>4, TallyEffect
    <3> QED BY <1>0, <2>1, <3>1 DEF CaseRecords, CaseInv, Onward, Final
  <2>5. CASE openChallengeWindow(c)
    <3> DEFINE t == openingTally(c)
    <3>1. /\ Only(c) /\ case[c].status = "DELIBERATION"
          /\ \/ case'[c] = [case[c] EXCEPT !.status = "UNRESOLVED", !.tally = t]
             \/ case'[c] = [case[c] EXCEPT !.status = "CHALLENGE_WINDOW", !.tally = t,
                                           !.provisional = t.outcome, !.final = FALSE]
      BY <2>5, OpenEffect
    <3> HIDE DEF t
    <3> QED BY <1>0, <2>1, <3>1 DEF CaseRecords, CaseInv, Onward, Final
  <2>6. ASSUME NEW k \in Keys, rejectChallenge(c, k) PROVE Onward(case[d], case'[d])
    <3> DEFINE rejected == [case[c].rejected EXCEPT ![k] = case[c].rejected[k] + 1]
    <3>1. Only(c) /\ case'[c] = [case[c] EXCEPT !.rejected = rejected]
      BY <2>6, RejectEffect
    <3> HIDE DEF rejected
    <3> QED BY <1>0, <2>1, <3>1 DEF CaseRecords, CaseInv, Onward, Final
  <2>7. CASE settleCase(c)
    <3>1. /\ Only(c) /\ case[c].status = "CHALLENGE_WINDOW"
          /\ case'[c] = [case[c] EXCEPT !.status = "SETTLED", !.settlement = Certificate(c)]
      BY <2>7, SettleEffect
    <3> QED BY <1>0, <2>1, <3>1 DEF CaseRecords, CaseInv, Onward, Final
  <2> QED BY <1>3, <2>2, <2>3, <2>4, <2>5, <2>6, <2>7, CaseStepKinds
<1> QED BY <1>1, <1>2, <1>3 DEF Next, vars

\* A settlement is final, and so is giving a case up.
THEOREM RulingIsFinalHolds == Spec => RulingIsFinal
<1>1. CourtInv /\ [Next]_vars => [\A c \in Cases : Final(case[c], case'[c])]_vars
  BY OnwardStep DEF CourtInv, Onward
<1>2. Spec => [][\A c \in Cases : Final(case[c], case'[c])]_vars
  BY CourtInit, CourtStep, <1>1, PTL DEF Spec
<1> QED BY <1>2 DEF RulingIsFinal, Final
===============================================================================
