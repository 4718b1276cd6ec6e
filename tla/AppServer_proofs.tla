--------------------------- MODULE AppServer_proofs ---------------------------
(***************************************************************************)
(* The court endpoints of the application server, for every set of cases,  *)
(* keys and demo ballots and every limit on COURT_CASES.                   *)
(*                                                                         *)
(* The argument: what a handler has left to do is always the end of one of *)
(* the three plans of module AppServer, so that a decided case is decided  *)
(* on all its ballots and a demo case finds the room it is entitled to;    *)
(* all else follows from the court's own invariant, CourtInv.              *)
(***************************************************************************)
EXTENDS AppServer, Court_proofs, SequenceTheorems

CourtCalls ==
  [call : {"submitEvidence", "openDeliberation", "tallyRound", "openChallengeWindow",
           "settleCase", "keep", "keepDemo"},
   case : Cases, judge : {"none"}, verdict : {"none"}]
    \union [call : {"castBallot"}, case : Cases, judge : Keys, verdict : VERDICTS]

\* A plan makes room last, and opens the window right after the tally.
PlanOK(p) ==
  /\ p \in Seq(CourtCalls)
  /\ \A i \in 1 .. Len(p) : p[i].call \in {"keep", "keepDemo"} => i = Len(p)
  /\ \A i \in 1 .. Len(p) : p[i].call = "tallyRound" =>
       i < Len(p) /\ p[i + 1] = Call("openChallengeWindow", p[i].case)

\* Only cases that were filed are planned for or kept, and there is room for a demo case.
Filed(c) == case[c].status # "NONE"

HostInv ==
  /\ host \in {"library", "server"} /\ demos \in Nat
  /\ PlanOK(plan) /\ shelf \in Seq(Cases)
  /\ \A i \in 1 .. Len(plan) :
       /\ Filed(plan[i].case)
       /\ plan[i].call = "keepDemo" => Len(shelf) < Limit + demos
  /\ \A i \in 1 .. Len(shelf) : Filed(shelf[i])
  /\ MapIsBounded
  /\ host = "library" => plan = <<>> /\ shelf = <<>>
-------------------------------------------------------------------------------
(* Plans *)

\* The rest of a plan is one.
LEMMA PlanTail ==
  ASSUME NEW p, PlanOK(p), p # <<>>
  PROVE  /\ PlanOK(Tail(p)) /\ Head(p) = p[1] /\ Head(p) \in CourtCalls
         /\ Len(p) \in Nat /\ Len(p) >= 1 /\ Len(Tail(p)) = Len(p) - 1
         /\ \A i \in 1 .. Len(Tail(p)) : Tail(p)[i] = p[i + 1] /\ i + 1 \in 1 .. Len(p)
<1>1. p \in Seq(CourtCalls) /\ Len(p) \in Nat /\ Len(p) >= 1
  BY EmptySeq DEF PlanOK
<1>2. /\ Tail(p) \in Seq(CourtCalls) /\ Len(Tail(p)) = Len(p) - 1
      /\ \A i \in 1 .. Len(Tail(p)) : Tail(p)[i] = p[i + 1] /\ i + 1 \in 1 .. Len(p)
  BY <1>1, HeadTailProperties
<1>3. Head(p) = p[1] /\ Head(p) \in CourtCalls
  BY <1>1, ElementOfSeq
<1>4. ASSUME NEW i \in 1 .. Len(Tail(p)), Tail(p)[i].call \in {"keep", "keepDemo"}
      PROVE  i = Len(Tail(p))
  <2>1. i + 1 \in 1 .. Len(p) /\ p[i + 1].call \in {"keep", "keepDemo"}
    BY <1>2, <1>4
  <2>2. i + 1 = Len(p)
    BY <2>1 DEF PlanOK
  <2>3. i \in Int /\ Len(p) \in Int /\ Len(Tail(p)) = Len(p) - 1
    BY <1>1, <1>2
  <2> QED BY <2>2, <2>3
<1>5. ASSUME NEW i \in 1 .. Len(Tail(p)), Tail(p)[i].call = "tallyRound"
      PROVE  i < Len(Tail(p)) /\ Tail(p)[i + 1] = Call("openChallengeWindow", Tail(p)[i].case)
  <2>1. i + 1 < Len(p) /\ p[i + 2] = Call("openChallengeWindow", p[i + 1].case)
    <3>1. i + 1 \in 1 .. Len(p) /\ p[i + 1].call = "tallyRound"
      BY <1>2, <1>5
    <3>2. i + 1 < Len(p) /\ p[(i + 1) + 1] = Call("openChallengeWindow", p[i + 1].case)
      BY <3>1 DEF PlanOK
    <3>3. (i + 1) + 1 = i + 2
      OBVIOUS
    <3> QED BY <3>2, <3>3
  <2>2. i + 1 \in 1 .. Len(Tail(p)) /\ (i + 1) + 1 = i + 2
    BY <1>1, <1>2, <2>1
  <2> QED BY <1>2, <2>1, <2>2
<1> QED BY <1>1, <1>2, <1>3, <1>4, <1>5 DEF PlanOK

\* A plan for case c that ends without making room can be followed by another.
LEMMA PlanConcat ==
  ASSUME NEW p, NEW q, PlanOK(p), PlanOK(q), NEW c,
         \A i \in 1 .. Len(p) : p[i].call \notin {"keep", "keepDemo"} /\ p[i].case = c,
         \A i \in 1 .. Len(q) : q[i].case = c
  PROVE  PlanOK(p \o q) /\ \A i \in 1 .. Len(p \o q) : (p \o q)[i].case = c
<1> DEFINE m == Len(p)
           n == Len(q)
<1>1. p \in Seq(CourtCalls) /\ q \in Seq(CourtCalls) /\ m \in Nat /\ n \in Nat
  BY DEF PlanOK
<1>2. /\ p \o q \in Seq(CourtCalls) /\ Len(p \o q) = m + n
      /\ \A i \in 1 .. m + n : (p \o q)[i] = IF i <= m THEN p[i] ELSE q[i - m]
  BY <1>1, ConcatProperties
<1>3. ASSUME NEW i \in 1 .. m + n
      PROVE  /\ (p \o q)[i].case = c
             /\ (p \o q)[i].call \in {"keep", "keepDemo"} => i = m + n
             /\ (p \o q)[i].call = "tallyRound" =>
                  /\ i < m + n
                  /\ (p \o q)[i + 1] = Call("openChallengeWindow", (p \o q)[i].case)
  <2>1. CASE i <= m
    <3>1. i \in 1 .. m /\ (p \o q)[i] = p[i]
      BY <1>1, <1>2, <2>1
    <3>2. p[i].call = "tallyRound" =>
            i < m /\ p[i + 1] = Call("openChallengeWindow", p[i].case)
      BY <3>1 DEF PlanOK
    <3>3. i < m => i + 1 \in 1 .. m + n /\ (p \o q)[i + 1] = p[i + 1]
      BY <1>1, <1>2
    <3> QED BY <1>1, <3>1, <3>2, <3>3
  <2>2. CASE i > m
    <3>1. i - m \in 1 .. n /\ (p \o q)[i] = q[i - m]
      BY <1>1, <1>2, <2>2
    <3>2. /\ q[i - m].call = "tallyRound" =>
               i - m < n /\ q[(i - m) + 1] = Call("openChallengeWindow", q[i - m].case)
          /\ q[i - m].call \in {"keep", "keepDemo"} => i - m = n
      BY <3>1 DEF PlanOK
    <3>3. i < m + n => i + 1 \in 1 .. m + n /\ (p \o q)[i + 1] = q[(i - m) + 1]
      BY <1>1, <1>2, <2>2
    <3> QED BY <1>1, <3>1, <3>2, <3>3
  <2> QED BY <1>1, <2>1, <2>2
<1> QED BY <1>1, <1>2, <1>3 DEF PlanOK

\* Calls are calls.
LEMMA CallType ==
  ASSUME NEW c \in Cases
  PROVE  /\ \A name \in {"submitEvidence", "openDeliberation", "tallyRound",
                         "openChallengeWindow", "settleCase", "keep", "keepDemo"} :
              /\ Call(name, c) \in CourtCalls
              /\ Call(name, c).call = name /\ Call(name, c).case = c
         /\ \A k \in Keys, verdict \in VERDICTS :
              /\ Vote(c, k, verdict) \in CourtCalls
              /\ Vote(c, k, verdict).call = "castBallot" /\ Vote(c, k, verdict).case = c
BY DEF Call, Vote, CourtCalls

FilePlan(c, evidence) ==
  (IF evidence THEN <<Call("submitEvidence", c)>> ELSE <<>>)
    \o <<Call("openDeliberation", c), Call("keep", c)>>
DemoBallots(c) == [i \in DOMAIN DemoVotes |-> Vote(c, DemoVotes[i][1], DemoVotes[i][2])]
DemoPlan(c) ==
  <<Call("submitEvidence", c), Call("openDeliberation", c)>>
    \o DemoBallots(c)
    \o <<Call("tallyRound", c), Call("openChallengeWindow", c),
         Call("settleCase", c), Call("keepDemo", c)>>
DecidePlan(c) == <<Call("tallyRound", c), Call("openChallengeWindow", c)>>

About(p, c) == PlanOK(p) /\ \A i \in 1 .. Len(p) : p[i].case = c

\* An empty plan is one.
LEMMA EmptyPlan == PlanOK(<<>>) /\ \A c : About(<<>>, c)
BY DEF PlanOK, About

\* The plans of the handlers are in order.
LEMMA HandlerPlans ==
  ASSUME NEW c \in Cases
  PROVE  /\ \A evidence \in BOOLEAN :
              /\ About(FilePlan(c, evidence), c)
              /\ \A i \in 1 .. Len(FilePlan(c, evidence)) :
                   FilePlan(c, evidence)[i].call # "keepDemo"
         /\ About(DemoPlan(c), c)
         /\ About(DecidePlan(c), c)
         /\ \A i \in 1 .. Len(DecidePlan(c)) : DecidePlan(c)[i].call # "keepDemo"
<1> DEFINE s == Call("submitEvidence", c)
           o == Call("openDeliberation", c)
           k == Call("keep", c)
           t == Call("tallyRound", c)
           w == Call("openChallengeWindow", c)
           e == Call("settleCase", c)
           d == Call("keepDemo", c)
<1>1. /\ s \in CourtCalls /\ o \in CourtCalls /\ k \in CourtCalls /\ t \in CourtCalls
      /\ w \in CourtCalls /\ e \in CourtCalls /\ d \in CourtCalls
      /\ s.call = "submitEvidence" /\ o.call = "openDeliberation" /\ k.call = "keep"
      /\ t.call = "tallyRound" /\ w.call = "openChallengeWindow" /\ e.call = "settleCase"
      /\ d.call = "keepDemo"
      /\ s.case = c /\ o.case = c /\ k.case = c /\ t.case = c /\ w.case = c /\ e.case = c
      /\ d.case = c
  BY CallType
<1>2. w = Call("openChallengeWindow", t.case)
  BY <1>1
<1> HIDE DEF s, o, k, t, w, e, d
<1>3. About(<<s>>, c) /\ About(<<s, o>>, c) /\ About(<<o, k>>, c)
  BY <1>1 DEF About, PlanOK
<1>4. About(<<t, w>>, c) /\ About(<<t, w, e, d>>, c)
  BY <1>1, <1>2 DEF About, PlanOK
<1>5. \A evidence \in BOOLEAN :
        /\ About(FilePlan(c, evidence), c)
        /\ \A i \in 1 .. Len(FilePlan(c, evidence)) : FilePlan(c, evidence)[i].call # "keepDemo"
  <2>1. FilePlan(c, TRUE) = <<s>> \o <<o, k>> /\ FilePlan(c, FALSE) = <<>> \o <<o, k>>
    BY DEF FilePlan, s, o, k
  <2>2. <<s>> \o <<o, k>> = <<s, o, k>> /\ <<>> \o <<o, k>> = <<o, k>>
    <3>1. <<s>> \in Seq(CourtCalls) /\ <<o, k>> \in Seq(CourtCalls)
      BY <1>1
    <3>2. <<>> \o <<o, k>> = <<o, k>>
      BY <3>1, ConcatEmptySeq
    <3>3. /\ <<s>> \o <<o, k>> \in Seq(CourtCalls) /\ Len(<<s>> \o <<o, k>>) = 3
          /\ (<<s>> \o <<o, k>>)[1] = s /\ (<<s>> \o <<o, k>>)[2] = o
          /\ (<<s>> \o <<o, k>>)[3] = k
      BY <3>1, ConcatProperties
    <3>4. <<s, o, k>> \in Seq(CourtCalls) /\ Len(<<s, o, k>>) = 3
      BY <1>1
    <3>5. \A i \in 1 .. 3 : (<<s>> \o <<o, k>>)[i] = <<s, o, k>>[i]
      <4> SUFFICES ASSUME NEW i \in 1 .. 3 PROVE (<<s>> \o <<o, k>>)[i] = <<s, o, k>>[i]
        OBVIOUS
      <4>1. i = 1 \/ i = 2 \/ i = 3
        OBVIOUS
      <4> QED BY <3>3, <4>1
    <3>6. <<s>> \o <<o, k>> = <<s, o, k>>
      BY <3>3, <3>4, <3>5, SeqEqual
    <3> QED BY <3>2, <3>6
  <2>3. About(<<s, o, k>>, c)
    BY <1>1 DEF About, PlanOK
  <2>4. /\ \A i \in 1 .. Len(<<s, o, k>>) : <<s, o, k>>[i].call # "keepDemo"
        /\ \A i \in 1 .. Len(<<o, k>>) : <<o, k>>[i].call # "keepDemo"
    BY <1>1
  <2> QED BY <1>3, <2>1, <2>2, <2>3, <2>4
<1>6. /\ About(DemoBallots(c), c)
      /\ \A i \in 1 .. Len(DemoBallots(c)) : DemoBallots(c)[i].call = "castBallot"
  <2> DEFINE v(i) == Vote(c, DemoVotes[i][1], DemoVotes[i][2])
             n == Len(DemoVotes)
  <2>1. n \in Nat /\ DOMAIN DemoVotes = 1 .. n
    BY AppServerAssumption, LenProperties
  <2>2. \A i \in 1 .. n : v(i) \in CourtCalls /\ v(i).call = "castBallot" /\ v(i).case = c
    <3> SUFFICES ASSUME NEW i \in 1 .. n
                 PROVE  v(i) \in CourtCalls /\ v(i).call = "castBallot" /\ v(i).case = c
      OBVIOUS
    <3>1. DemoVotes[i] \in Keys \X VERDICTS
      BY <2>1, AppServerAssumption, ElementOfSeq
    <3> QED BY <3>1, CallType
  <2>3. DemoBallots(c) = [i \in 1 .. n |-> v(i)]
    BY <2>1 DEF DemoBallots
  <2> HIDE DEF v, n
  <2>4. /\ DemoBallots(c) \in Seq(CourtCalls) /\ Len(DemoBallots(c)) = n
        /\ \A i \in 1 .. n : DemoBallots(c)[i] = v(i)
    BY <2>1, <2>2, <2>3
  <2> QED BY <2>2, <2>4 DEF About, PlanOK
<1>7. About(DemoPlan(c), c)
  <2> DEFINE first == <<s, o>> \o DemoBallots(c)
  <2>0. /\ Len(<<s, o>>) = 2
        /\ \A i \in 1 .. Len(<<s, o>>) : <<s, o>>[i].call \notin {"keep", "keepDemo"}
    BY <1>1
  <2>1. About(first, c)
    BY <1>3, <1>6, <2>0, PlanConcat DEF About
  <2>2. \A i \in 1 .. Len(first) : first[i].call \notin {"keep", "keepDemo"}
    <3>1. DemoBallots(c) \in Seq(CourtCalls) /\ <<s, o>> \in Seq(CourtCalls)
      BY <1>3, <1>6 DEF About, PlanOK
    <3>2. /\ Len(first) = 2 + Len(DemoBallots(c)) /\ Len(DemoBallots(c)) \in Nat
          /\ \A i \in 1 .. Len(first) :
               first[i] = IF i <= 2 THEN <<s, o>>[i] ELSE DemoBallots(c)[i - 2]
      BY <3>1, <2>0, ConcatProperties, LenProperties
    <3>3. \A i \in 1 .. Len(first) : i > 2 => i - 2 \in 1 .. Len(DemoBallots(c))
      BY <3>2
    <3>4. \A i \in 1 .. Len(first) : i <= 2 => i \in 1 .. Len(<<s, o>>)
      BY <2>0, <3>2
    <3> QED BY <1>6, <2>0, <3>2, <3>3, <3>4
  <2>3. DemoPlan(c) = first \o <<t, w, e, d>>
    BY DEF DemoPlan, s, o, t, w, e, d
  <2> HIDE DEF first
  <2>4. PlanOK(first) /\ \A i \in 1 .. Len(first) :
          first[i].call \notin {"keep", "keepDemo"} /\ first[i].case = c
    BY <2>1, <2>2 DEF About
  <2>5. PlanOK(<<t, w, e, d>>) /\ \A i \in 1 .. Len(<<t, w, e, d>>) : <<t, w, e, d>>[i].case = c
    BY <1>4 DEF About
  <2>6. PlanOK(first \o <<t, w, e, d>>)
        /\ \A i \in 1 .. Len(first \o <<t, w, e, d>>) : (first \o <<t, w, e, d>>)[i].case = c
    BY <2>4, <2>5, PlanConcat
  <2> QED BY <2>3, <2>6 DEF About
<1>8. /\ DecidePlan(c) = <<t, w>>
      /\ \A i \in 1 .. Len(<<t, w>>) : <<t, w>>[i].call # "keepDemo"
  BY <1>1 DEF DecidePlan, t, w
<1> QED BY <1>4, <1>5, <1>7, <1>8
-------------------------------------------------------------------------------
(* The host's steps are steps of the court *)

\* The call a handler makes next is about one of the cases.
LEMMA NextCall ==
  ASSUME HostInv, Proceed
  PROVE  LET s == Head(plan) IN
         /\ s \in CourtCalls /\ s.case \in Cases /\ Filed(s.case)
         /\ s.call = "castBallot" => s.judge \in Keys /\ s.verdict \in VERDICTS
         /\ Perform(s) /\ plan' = Tail(plan) /\ UNCHANGED <<host, demos>>
<1>1. PlanOK(plan) /\ plan # <<>>
  BY DEF HostInv, Proceed
<1>2. Head(plan) \in CourtCalls /\ Head(plan) = plan[1] /\ 1 \in 1 .. Len(plan)
  BY <1>1, PlanTail
<1> QED BY <1>2 DEF CourtCalls, HostInv, Proceed

\* Every step of the host is a call on the court, or none.
LEMMA AppStepIsCourtStep ==
  ASSUME HostInv, [AppNext]_appVars
  PROVE  [Next]_vars
<1>1. CASE Library
  BY <1>1, AppServerAssumption DEF Library, Next
<1>2. CASE Proceed
  <2> DEFINE s == Head(plan)
  <2>1. /\ s.case \in Cases /\ Perform(s)
        /\ s.call = "castBallot" => s.judge \in Keys /\ s.verdict \in VERDICTS
    BY <1>2, NextCall
  <2> HIDE DEF s
  <2>2. CaseStep(s.case) \/ UNCHANGED vars
    <3>1. TRUE \in Signatures(s.judge)
      BY DEF Signatures
    <3> QED BY <2>1, <3>1 DEF Perform, CaseStep
  <2> QED BY <2>1, <2>2 DEF Next
<1>3. ASSUME NEW c \in Cases, File(c) \/ Demo(c) \/ Ballot(c) \/ Settle(c) \/ ServerTime(c)
      PROVE  CaseStep(c)
  <2>1. CASE File(c)
    BY <2>1 DEF File, CaseStep
  <2>2. CASE Demo(c)
    BY <2>2 DEF Demo, CaseStep
  <2>3. CASE Ballot(c)
    BY <2>3 DEF Ballot, CaseStep, Signatures
  <2>4. CASE Settle(c)
    BY <2>4 DEF Settle, CaseStep
  <2>5. CASE ServerTime(c)
    BY <2>5 DEF ServerTime, CaseStep
  <2> QED BY <1>3, <2>1, <2>2, <2>3, <2>4, <2>5
<1>4. CASE UNCHANGED appVars
  BY <1>4 DEF appVars
<1> QED BY <1>1, <1>2, <1>3, <1>4 DEF AppNext, Next
-------------------------------------------------------------------------------
(* The plan and the shelf *)

\* A case is put into the Map: it comes last, or takes the place of one with its id.
LEMMA MapSetType ==
  ASSUME shelf \in Seq(Cases), NEW c \in Cases, NEW m \in MapSet(c)
  PROVE  /\ m \in Seq(Cases) /\ Len(m) \in Nat /\ Len(m) >= 1 /\ Len(shelf) \in Nat
         /\ Len(m) <= Len(shelf) + 1
         /\ \A i \in 1 .. Len(m) : m[i] = c \/ \E j \in 1 .. Len(shelf) : m[i] = shelf[j]
<1> DEFINE n == Len(shelf)
<1>1. n \in Nat
  BY LenProperties
<1>2. CASE m = Append(shelf, c)
  <2>1. /\ m \in Seq(Cases) /\ Len(m) = n + 1
        /\ \A i \in 1 .. n : m[i] = shelf[i] /\ m[n + 1] = c
    BY <1>2, AppendProperties
  <2>2. m[n + 1] = c
    BY <1>2, AppendProperties
  <2>3. \A i \in 1 .. n + 1 : i \in 1 .. n \/ i = n + 1
    BY <1>1
  <2> QED BY <1>1, <2>1, <2>2, <2>3
<1>3. ASSUME NEW place \in 1 .. n, m = [shelf EXCEPT ![place] = c]
      PROVE  /\ m \in Seq(Cases) /\ Len(m) = n /\ n >= 1
             /\ \A i \in 1 .. n : m[i] = c \/ m[i] = shelf[i]
  <2>1. /\ m \in Seq(Cases) /\ Len(m) = n
        /\ \A i \in 1 .. n : m[i] = IF i = place THEN c ELSE shelf[i]
    BY <1>3, ExceptSeq
  <2>2. \A i \in 1 .. n : m[i] = c \/ m[i] = shelf[i]
    BY <2>1
  <2> QED BY <1>1, <1>3, <2>1, <2>2
<1>4. DOMAIN shelf = 1 .. n
  BY LenProperties
<1> QED BY <1>1, <1>2, <1>3, <1>4 DEF MapSet

\* A request that is planned for case c leaves things in order.
LEMMA HostRequest ==
  ASSUME HostInv, host = "server", UNCHANGED <<host, shelf>>, demos' \in Nat, demos' >= demos,
         \A d \in Cases : Filed(d) => Filed(d)', NEW c \in Cases, Filed(c)', About(plan', c),
         \A i \in 1 .. Len(plan') : plan'[i].call = "keepDemo" => demos' = demos + 1
  PROVE  HostInv'
<1>1. Len(shelf) \in Nat /\ \A i \in 1 .. Len(shelf) : shelf[i] \in Cases
  BY LenProperties, ElementOfSeq DEF HostInv
<1>2. Len(shelf) <= Limit + demos /\ Limit \in Nat /\ demos \in Nat
  BY AppServerAssumption DEF HostInv, MapIsBounded
<1>3. MapIsBounded'
  BY <1>1, <1>2 DEF MapIsBounded
<1>4. demos' = demos + 1 => Len(shelf) < Limit + demos'
  BY <1>1, <1>2
<1>5. PlanOK(plan') /\ \A i \in 1 .. Len(plan') : plan'[i].case = c
  BY DEF About
<1> QED BY <1>1, <1>3, <1>4, <1>5 DEF HostInv, Filed

\* A case just filed is filed.
LEMMA FileEffect ==
  ASSUME RecordInv, NEW c \in Cases, fileCase(c)
  PROVE  /\ Only(c) /\ UNCHANGED roster /\ case[c].status = "NONE"
         /\ case'[c] = [case[c] EXCEPT !.status = "FILED", !.panel = assignPanel]
         /\ Filed(c)'
<1>1. case \in [Cases -> CaseRecords] /\ case[c] \in CaseRecords
  BY DEF RecordInv
<1>2. Only(c) /\ UNCHANGED roster
  BY ProceduralEffect DEF Procedural
<1>3. case[c].status = "NONE"
      /\ case'[c] = [case[c] EXCEPT !.status = "FILED", !.panel = assignPanel]
  BY <1>1 DEF fileCase
<1>4. case'[c].status = "FILED"
  BY <1>1, <1>3 DEF CaseRecords
<1> QED BY <1>2, <1>3, <1>4 DEF Filed

\* The plan and the shelf stay in order.
LEMMA HostStep ==
  ASSUME RecordInv, HostInv, [AppNext]_appVars
  PROVE  HostInv'
<1>1. [Next]_vars
  BY AppStepIsCourtStep
<1>2. \A d \in Cases : Filed(d) => Filed(d)'
  BY <1>1, OnwardStep DEF Onward, Filed
<1>3. /\ PlanOK(plan) /\ plan \in Seq(CourtCalls) /\ shelf \in Seq(Cases)
      /\ Len(plan) \in Nat /\ Len(shelf) \in Nat
      /\ Limit \in Nat /\ demos \in Nat /\ Len(shelf) <= Limit + demos
      /\ \A i \in 1 .. Len(shelf) : shelf[i] \in Cases
  BY LenProperties, ElementOfSeq, AppServerAssumption DEF HostInv, PlanOK, MapIsBounded
<1>4. \A i \in 1 .. Len(plan) : plan[i].case \in Cases
  <2>1. \A i \in 1 .. Len(plan) : plan[i] \in CourtCalls
    BY <1>3, ElementOfSeq
  <2> QED BY <2>1 DEF CourtCalls
<1>5. CASE UNCHANGED serverVars
  BY <1>2, <1>3, <1>4, <1>5 DEF serverVars, HostInv, MapIsBounded
<1>6. CASE Library
  BY <1>5, <1>6 DEF Library
<1>7. CASE Proceed
  <2> DEFINE s == Head(plan)
             rest == Tail(plan)
  <2>1. /\ s \in CourtCalls /\ s.case \in Cases /\ Filed(s.case) /\ Perform(s)
        /\ plan' = rest /\ UNCHANGED <<host, demos>>
    BY <1>7, NextCall
  <2>2. /\ PlanOK(rest) /\ s = plan[1] /\ Len(plan) >= 1 /\ Len(rest) = Len(plan) - 1
        /\ \A i \in 1 .. Len(rest) : rest[i] = plan[i + 1] /\ i + 1 \in 1 .. Len(plan)
    BY <1>3, <1>7, PlanTail DEF Proceed
  <2>3. host = "server"
    BY <1>7 DEF Proceed, HostInv
  <2> HIDE DEF s, rest
  <2>4. \A i \in 1 .. Len(rest) :
          /\ rest[i].case \in Cases /\ Filed(rest[i].case)
          /\ rest[i].call = "keepDemo" => Len(shelf) < Limit + demos
    BY <1>4, <2>2 DEF HostInv
  <2>5. CASE UNCHANGED shelf
    <3>1. MapIsBounded'
      BY <1>3, <2>1, <2>5 DEF MapIsBounded
    <3>2. \A i \in 1 .. Len(shelf) : case'[shelf[i]].status # "NONE"
      BY <1>2, <1>3 DEF HostInv, Filed
    <3>3. \A i \in 1 .. Len(rest) :
            /\ case'[rest[i].case].status # "NONE"
            /\ rest[i].call = "keepDemo" => Len(shelf) < Limit + demos
      BY <1>2, <2>4 DEF Filed
    <3> QED BY <1>3, <2>1, <2>2, <2>3, <2>5, <3>1, <3>2, <3>3 DEF HostInv, Filed
  <2>6. ASSUME NEW m \in MapSet(s.case), shelf' \in Seq(Cases), Len(shelf') <= Limit + demos,
               \A i \in 1 .. Len(shelf') : \E j \in 1 .. Len(m) : shelf'[i] = m[j],
               s.call \in {"keep", "keepDemo"}, UNCHANGED vars
        PROVE  HostInv'
    <3>1. 1 = Len(plan) /\ Len(rest) = 0
      BY <1>3, <2>2, <2>6 DEF PlanOK
    <3>2. \A j \in 1 .. Len(m) : Filed(m[j])
      BY <1>3, <2>1, MapSetType DEF HostInv
    <3>3. \A i \in 1 .. Len(shelf') : case'[shelf'[i]].status # "NONE"
      BY <2>6, <3>2 DEF Filed, vars
    <3>4. MapIsBounded'
      BY <2>1, <2>6 DEF MapIsBounded
    <3>5. \A i \in 1 .. Len(rest) : FALSE
      BY <3>1
    <3> QED BY <2>1, <2>2, <2>3, <2>6, <3>3, <3>4, <3>5 DEF HostInv, Filed
  <2>7. CASE s.call = "keep" /\ Keep(s.case) /\ UNCHANGED vars
    <3>1. PICK m \in MapSet(s.case) : shelf' = IF Len(m) > Limit THEN Tail(m) ELSE m
      BY <2>7 DEF Keep
    <3>2. m \in Seq(Cases) /\ Len(m) \in Nat /\ Len(m) >= 1 /\ Len(m) <= Len(shelf) + 1
      BY <1>3, <2>1, MapSetType
    <3>3. CASE Len(m) > Limit
      <4>1. m # <<>>
        BY <3>2
      <4>2. /\ Tail(m) \in Seq(Cases) /\ Len(Tail(m)) = Len(m) - 1
            /\ \A i \in 1 .. Len(Tail(m)) : Tail(m)[i] = m[i + 1]
        BY <3>2, <4>1, HeadTailProperties
      <4>3. Len(Tail(m)) <= Limit + demos
        BY <1>3, <3>2, <4>2
      <4>4. \A i \in 1 .. Len(Tail(m)) : i + 1 \in 1 .. Len(m)
        BY <3>2, <4>2
      <4>5. shelf' = Tail(m)
        BY <3>1, <3>3
      <4> HIDE DEF s
      <4> QED BY <2>6, <2>7, <4>2, <4>3, <4>4, <4>5
    <3>4. CASE ~(Len(m) > Limit)
      <4>1. shelf' = m /\ Len(m) <= Limit + demos
        BY <1>3, <3>1, <3>2, <3>4
      <4> QED BY <2>6, <2>7, <3>2, <4>1
    <3> QED BY <3>3, <3>4
  <2>8. CASE s.call = "keepDemo" /\ shelf' \in MapSet(s.case) /\ UNCHANGED vars
    <3>1. /\ shelf' \in Seq(Cases) /\ Len(shelf') \in Nat /\ Len(shelf') <= Len(shelf) + 1
      BY <1>3, <2>1, <2>8, MapSetType
    <3>2. Len(shelf) < Limit + demos
      BY <1>3, <2>2, <2>8 DEF HostInv
    <3>3. Len(shelf') <= Limit + demos
      BY <1>3, <3>1, <3>2
    <3> QED BY <2>6, <2>8, <3>1, <3>3
  <2> QED BY <2>1, <2>5, <2>7, <2>8 DEF Perform
<1>8. ASSUME NEW c \in Cases, File(c) \/ Demo(c) \/ Ballot(c) \/ Settle(c) \/ ServerTime(c)
      PROVE  HostInv'
  <2>1. CASE File(c)
    <3>1. PICK evidence \in BOOLEAN : Handler(FilePlan(c, evidence))
      BY <2>1 DEF File, FilePlan
    <3>2. fileCase(c) /\ demos' = demos
      BY <2>1 DEF File
    <3>3. About(plan', c) /\ \A i \in 1 .. Len(plan') : plan'[i].call # "keepDemo"
      BY <3>1, HandlerPlans DEF Handler
    <3>4. Filed(c)'
      BY <3>2, FileEffect
    <3>5. host = "server" /\ UNCHANGED <<host, shelf>> /\ demos' \in Nat /\ demos' >= demos
      BY <1>3, <3>1, <3>2 DEF Handler
    <3> QED BY <1>2, <3>3, <3>4, <3>5, HostRequest
  <2>2. CASE Demo(c)
    <3>1. Handler(DemoPlan(c)) /\ fileCase(c) /\ demos' = demos + 1
      BY <2>2 DEF Demo, DemoPlan, DemoBallots
    <3>2. About(plan', c)
      BY <3>1, HandlerPlans DEF Handler
    <3>3. Filed(c)'
      BY <3>1, FileEffect
    <3>4. host = "server" /\ UNCHANGED <<host, shelf>> /\ demos' \in Nat /\ demos' >= demos
      BY <1>3, <3>1 DEF Handler
    <3> QED BY <1>2, <3>1, <3>2, <3>3, <3>4, HostRequest
  <2>3. CASE Ballot(c)
    <3>1. \E k \in Keys, verdict \in VERDICTS : castBallot(c, k, verdict, TRUE)
      BY <2>3 DEF Ballot
    <3>2. /\ demos' = demos /\ host = "server" /\ UNCHANGED <<host, shelf>>
          /\ plan' = DecidePlan(c) \/ plan' = <<>>
      BY <2>3 DEF Ballot, Handler, DecidePlan
    <3>3. Filed(c)
      BY <3>1 DEF castBallot, Filed
    <3>4. About(plan', c) /\ \A i \in 1 .. Len(plan') : plan'[i].call # "keepDemo"
      BY <3>2, HandlerPlans, EmptyPlan
    <3> QED BY <1>2, <1>3, <3>2, <3>3, <3>4, HostRequest
  <2>4. CASE Settle(c)
    <3>1. /\ demos' = demos /\ host = "server" /\ UNCHANGED <<host, shelf>> /\ plan' = <<>>
          /\ settleCase(c)
      BY <2>4 DEF Settle, Handler
    <3>2. Filed(c)
      BY <3>1 DEF settleCase, Filed
    <3>3. About(plan', c) /\ \A i \in 1 .. Len(plan') : plan'[i].call # "keepDemo"
      BY <3>1, EmptyPlan
    <3> QED BY <1>2, <1>3, <3>1, <3>2, <3>3, HostRequest
  <2>5. CASE ServerTime(c)
    BY <1>5, <2>5 DEF ServerTime
  <2> QED BY <1>8, <2>1, <2>2, <2>3, <2>4, <2>5
<1>9. CASE UNCHANGED appVars
  BY <1>5, <1>9 DEF appVars
<1> QED BY <1>6, <1>7, <1>8, <1>9 DEF AppNext
-------------------------------------------------------------------------------
(* The server's cases *)

Enough == Cardinality({k \in Keys : "judge" \in Capabilities[k]}) >= QuorumJudges

\* On the server every ballot counts, a stored tally is the tally of the ballots on
\* record, and a panel is a quorum if there are judges for one.
Straight(x) ==
  /\ ~x.misquoted
  /\ \A b \in x.ballots : b.valid /\ "judge" \in Capabilities[b.judge]
  /\ x.tally # NoTally => x.tally = Tally(x.ballots)
  /\ x.status \in {"NONE", "FILED", "EVIDENCE_WINDOW"} => x.tally = NoTally
  /\ Ruled(x) => x.provisional = Tally(x.ballots).outcome
  /\ x.settlement # NoSettlement =>
       /\ x.settlement.verdict = x.provisional
       /\ x.settlement.ballots = x.ballots
       /\ x.settlement.signers = x.panel
  /\ x.status # "NONE" /\ Enough => Cardinality(x.panel) >= QuorumJudges

\* Between the tally and the opening of the window there is nothing but one step.
Pending(x, c, p) ==
  x.status = "DELIBERATION" /\ x.tally # NoTally =>
    p # <<>> /\ Head(p) = Call("openChallengeWindow", c)

ServedInv ==
  host = "server" =>
    /\ \A k \in Keys : standing[k] = "active"
    /\ \A c \in Cases : Straight(case[c]) /\ Pending(case[c], c, plan)

\* On the server the ballots that are counted are the ballots on record.
LEMMA AllCounted ==
  ASSUME RecordInv, \A k \in Keys : standing[k] = "active", NEW c \in Cases, Straight(case[c])
  PROVE  computeTally(c) = Tally(case[c].ballots)
<1>1. \A b \in case[c].ballots : b.judge \in Keys
  BY DEF RecordInv, CaseRecords, Ballots
<1>2. {b \in case[c].ballots : b.valid /\ judgeActive(b.judge, "judge")} = case[c].ballots
  BY <1>1 DEF Straight, judgeActive
<1> QED BY <1>2 DEF computeTally

ServerCall(c) ==
  \/ fileCase(c) \/ submitEvidence(c) \/ openDeliberation(c)
  \/ deliberationElapses(c) \/ challengeElapses(c)
  \/ openChallengeWindow(c) \/ settleCase(c)

\* The calls of the server other than ballots and tallies keep a case straight
\* and leave it with no tally in a deliberation.
LEMMA ServerCallEffect ==
  ASSUME RecordInv, \A k \in Keys : standing[k] = "active", NEW c \in Cases, Straight(case[c]),
         ServerCall(c)
  PROVE  /\ Only(c) /\ UNCHANGED <<standing, fee>> /\ Straight(case'[c])
         /\ case'[c].status = "DELIBERATION" =>
              case'[c].tally = NoTally \/ (case[c].status = "DELIBERATION" /\ case'[c].tally = case[c].tally)
<1> DEFINE x == case[c]
<1>1. case \in [Cases -> CaseRecords] /\ x \in CaseRecords /\ CaseInv(x)
  BY DEF RecordInv
<1>2. CASE fileCase(c)
  <2>1. /\ Only(c) /\ UNCHANGED roster /\ x.status = "NONE"
        /\ case'[c] = [x EXCEPT !.status = "FILED", !.panel = assignPanel]
    BY <1>2, FileEffect
  <2>2. Enough => Cardinality(assignPanel) >= QuorumJudges
    <3>1. Willing = {k \in Keys : "judge" \in Capabilities[k]}
      BY DEF Willing, judgeActive
    <3> QED BY <3>1, PanelIsQuorum, RecordsTyped DEF Enough
  <2>3. /\ case'[c].status = "FILED" /\ case'[c].panel = assignPanel
        /\ case'[c].misquoted = x.misquoted /\ case'[c].ballots = x.ballots
        /\ case'[c].tally = x.tally /\ case'[c].settlement = x.settlement
    BY <1>1, <2>1 DEF CaseRecords
  <2>4. x.settlement = NoSettlement
    BY <1>1, <2>1 DEF CaseInv
  <2> QED BY <2>1, <2>2, <2>3, <2>4 DEF Straight, Ruled, roster
<1>3. CASE submitEvidence(c)
  <2>1. /\ x.status \in {"FILED", "EVIDENCE_WINDOW"} /\ Only(c) /\ UNCHANGED roster
        /\ case'[c] = [x EXCEPT !.status = "EVIDENCE_WINDOW"]
    BY <1>1, <1>3, ProceduralEffect DEF submitEvidence, Procedural
  <2> QED BY <1>1, <2>1 DEF Straight, Ruled, roster, CaseRecords
<1>4. CASE openDeliberation(c)
  <2>1. /\ x.status \in {"FILED", "EVIDENCE_WINDOW"} /\ Only(c) /\ UNCHANGED roster
        /\ case'[c] = [x EXCEPT !.status = "DELIBERATION"]
    BY <1>1, <1>4, ProceduralEffect DEF openDeliberation, Procedural
  <2> QED BY <1>1, <2>1 DEF Straight, Ruled, roster, CaseRecords
<1>5. CASE deliberationElapses(c)
  <2>1. /\ x.status \in {"DELIBERATION", "CHALLENGE_WINDOW"} /\ Only(c) /\ UNCHANGED roster
        /\ case'[c] = [x EXCEPT !.late = TRUE]
    BY <1>1, <1>5, ProceduralEffect DEF deliberationElapses, Procedural
  <2> QED BY <1>1, <2>1 DEF Straight, Ruled, roster, CaseRecords
<1>6. CASE challengeElapses(c)
  <2>1. /\ x.status = "CHALLENGE_WINDOW" /\ Only(c) /\ UNCHANGED roster
        /\ case'[c] = [x EXCEPT !.final = TRUE]
    BY <1>1, <1>6, ProceduralEffect DEF challengeElapses, Procedural
  <2> QED BY <1>1, <2>1 DEF Straight, Ruled, roster, CaseRecords
<1>7. CASE openChallengeWindow(c)
  <2> DEFINE t == openingTally(c)
  <2>1. /\ Only(c) /\ UNCHANGED roster /\ x.status = "DELIBERATION"
        /\ \/ case'[c] = [x EXCEPT !.status = "UNRESOLVED", !.tally = t]
           \/ case'[c] = [x EXCEPT !.status = "CHALLENGE_WINDOW", !.tally = t,
                                   !.provisional = t.outcome, !.final = FALSE]
    BY <1>7, OpenEffect
  <2>2. t = Tally(x.ballots)
    BY AllCounted DEF openingTally, Straight
  <2> HIDE DEF t
  <2>3. x.settlement = NoSettlement
    BY <1>1, <2>1 DEF CaseInv
  <2>4. /\ case'[c].status # "DELIBERATION" /\ case'[c].status \notin {"NONE", "FILED", "EVIDENCE_WINDOW"}
        /\ case'[c].tally = t /\ case'[c].ballots = x.ballots
        /\ case'[c].settlement = x.settlement /\ case'[c].panel = x.panel
        /\ case'[c].misquoted = x.misquoted
        /\ Ruled(case'[c]) => case'[c].provisional = t.outcome
    BY <1>1, <2>1 DEF Ruled, CaseRecords
  <2> QED BY <2>1, <2>2, <2>3, <2>4 DEF Straight, roster
<1>8. CASE settleCase(c)
  <2>1. /\ Only(c) /\ UNCHANGED <<standing, fee>> /\ x.status = "CHALLENGE_WINDOW"
        /\ case'[c] = [x EXCEPT !.status = "SETTLED", !.settlement = Certificate(c)]
    BY <1>8, SettleEffect
  <2>2. /\ Certificate(c).verdict = x.provisional /\ Certificate(c).ballots = x.ballots
        /\ Certificate(c).signers = x.panel
    BY DEF Certificate
  <2> QED BY <1>1, <2>1, <2>2 DEF Straight, Ruled, CaseRecords
<1> QED BY <1>2, <1>3, <1>4, <1>5, <1>6, <1>7, <1>8 DEF ServerCall

\* A ballot cast before there is a tally keeps a case straight.
LEMMA BallotKeepsStraight ==
  ASSUME RecordInv, NEW c \in Cases, Straight(case[c]), case[c].tally = NoTally,
         NEW k \in Keys, NEW verdict \in VERDICTS, castBallot(c, k, verdict, TRUE)
  PROVE  /\ Only(c) /\ UNCHANGED roster /\ Straight(case'[c]) /\ case'[c].tally = NoTally
<1> DEFINE b == [judge |-> k, verdict |-> verdict, valid |-> TRUE]
           ballots == case[c].ballots \union {b}
<1>1. case[c] \in CaseRecords /\ CaseInv(case[c])
  BY DEF RecordInv
<1>2. /\ Only(c) /\ UNCHANGED roster /\ case[c].status = "DELIBERATION"
      /\ case'[c] = [case[c] EXCEPT !.ballots = ballots]
  <2> DEFINE ok == TRUE
  <2>1. ok \in BOOLEAN /\ castBallot(c, k, verdict, ok)
        /\ b = [judge |-> k, verdict |-> verdict, valid |-> ok]
    OBVIOUS
  <2> HIDE DEF ok, b
  <2> QED BY <2>1, CastEffect
<1>3. "judge" \in Capabilities[k]
  BY DEF castBallot, judgeActive
<1>4. \A a \in ballots : a.valid /\ "judge" \in Capabilities[a.judge]
  BY <1>3 DEF Straight
<1> HIDE DEF ballots
<1>5. case[c].settlement = NoSettlement
  BY <1>1, <1>2 DEF CaseInv
<1> QED BY <1>1, <1>2, <1>4, <1>5 DEF Straight, Ruled, CaseRecords

\* A tally keeps a case straight.
LEMMA TallyKeepsStraight ==
  ASSUME RecordInv, \A k \in Keys : standing[k] = "active", NEW c \in Cases, Straight(case[c]),
         tallyRound(c)
  PROVE  Only(c) /\ UNCHANGED roster /\ Straight(case'[c])
<1> DEFINE t == computeTally(c)
<1>1. case[c] \in CaseRecords /\ CaseInv(case[c])
  BY DEF RecordInv
<1>2. Only(c) /\ UNCHANGED roster /\ case'[c] = [case[c] EXCEPT !.tally = t]
  BY TallyEffect
<1>3. t = Tally(case[c].ballots)
  BY AllCounted
<1>4. case[c].status \notin {"NONE", "FILED", "EVIDENCE_WINDOW"}
  BY DEF tallyRound
<1> HIDE DEF t
<1> QED BY <1>1, <1>2, <1>3, <1>4 DEF Straight, Ruled, CaseRecords

\* While no tally is left over, a step about case c that leaves none over but its own.
LEMMA ServedKept ==
  ASSUME ServedInv, host = "server", UNCHANGED <<host, standing>>, NEW c \in Cases, Only(c),
         Straight(case'[c]), Pending(case'[c], c, plan'),
         \A d \in Cases \ {c} : ~(case[d].status = "DELIBERATION" /\ case[d].tally # NoTally)
  PROVE  ServedInv'
<1>1. ASSUME NEW d \in Cases PROVE Straight(case'[d]) /\ Pending(case'[d], d, plan')
  BY <1>1 DEF ServedInv, Only, Pending
<1> QED BY <1>1 DEF ServedInv

\* The server keeps its cases straight.
LEMMA ServedStep ==
  ASSUME RecordInv, HostInv, ServedInv, [AppNext]_appVars
  PROVE  ServedInv'
<1>1. CASE host = "library"
  <2>1. plan = <<>>
    BY <1>1 DEF HostInv
  <2>2. host' = "library"
    BY <1>1, <2>1 DEF AppNext, appVars, serverVars, Library, Proceed, File, Demo, Ballot, Settle,
                      ServerTime, Handler
  <2> QED BY <2>2 DEF ServedInv
<1> SUFFICES ASSUME host = "server" PROVE ServedInv'
  BY <1>1 DEF HostInv
<1>2. /\ \A k \in Keys : standing[k] = "active"
      /\ \A c \in Cases : Straight(case[c]) /\ Pending(case[c], c, plan)
  BY DEF ServedInv
<1>3. plan = <<>> => \A d \in Cases : ~(case[d].status = "DELIBERATION" /\ case[d].tally # NoTally)
  BY <1>2 DEF Pending
<1>4. CASE Proceed
  <2> DEFINE s == Head(plan)
             c == s.case
  <2>1. /\ s \in CourtCalls /\ c \in Cases /\ Perform(s)
        /\ s.call = "castBallot" => s.judge \in Keys /\ s.verdict \in VERDICTS
        /\ plan' = Tail(plan) /\ UNCHANGED <<host, demos>>
    BY <1>4, NextCall
  <2>2. \A d \in Cases : case[d].status = "DELIBERATION" /\ case[d].tally # NoTally =>
          s = Call("openChallengeWindow", d)
    BY <1>2 DEF Pending
  <2>3. \A d \in Cases : Call("openChallengeWindow", d).case = d
                         /\ Call("openChallengeWindow", d).call = "openChallengeWindow"
    BY CallType
  <2>4. \A d \in Cases : case[d].status = "DELIBERATION" /\ case[d].tally # NoTally =>
          d = c /\ s.call = "openChallengeWindow"
    BY <2>2, <2>3
  <2>5. s.call = "tallyRound" =>
          plan' # <<>> /\ Head(plan') = Call("openChallengeWindow", c)
    <3> SUFFICES ASSUME s.call = "tallyRound"
                 PROVE  plan' # <<>> /\ Head(plan') = Call("openChallengeWindow", c)
      OBVIOUS
    <3>1. PlanOK(plan) /\ plan # <<>>
      BY <1>4 DEF HostInv, Proceed
    <3>2. /\ s = plan[1] /\ 1 \in 1 .. Len(plan) /\ Len(plan) \in Nat
          /\ PlanOK(Tail(plan)) /\ Len(Tail(plan)) = Len(plan) - 1
          /\ \A i \in 1 .. Len(Tail(plan)) : Tail(plan)[i] = plan[i + 1]
      BY <3>1, PlanTail
    <3>3. 1 < Len(plan) /\ plan[2] = Call("openChallengeWindow", c)
      <4>1. 1 < Len(plan) /\ plan[1 + 1] = Call("openChallengeWindow", plan[1].case)
        BY <3>1, <3>2 DEF PlanOK
      <4> QED BY <3>2, <4>1
    <3>4. 1 \in 1 .. Len(Tail(plan)) /\ Tail(plan)[1] = plan[2]
      BY <3>2, <3>3
    <3>5. Tail(plan) # <<>> /\ Head(Tail(plan)) = Tail(plan)[1]
      <4>1. Len(Tail(plan)) # 0
        <5> DEFINE m == Len(plan)
                   n == Len(Tail(plan))
        <5>1. m \in Nat /\ n = m - 1 /\ 1 < m
          BY <3>2, <3>3
        <5> HIDE DEF m, n
        <5>2. n # 0
          BY <5>1
        <5> QED BY <5>2 DEF n
      <4>2. Tail(plan) # <<>>
        BY <4>1, EmptySeq
      <4> QED BY <3>2, <4>2, PlanTail
    <3> QED BY <2>1, <3>3, <3>4, <3>5
  <2> HIDE DEF s, c
  <2>6. CASE ServerCall(c)
    <3>1. /\ Only(c) /\ UNCHANGED <<standing, fee>> /\ Straight(case'[c])
          /\ case'[c].status = "DELIBERATION" =>
               \/ case'[c].tally = NoTally
               \/ case[c].status = "DELIBERATION" /\ case'[c].tally = case[c].tally
      BY <1>2, <2>1, <2>6, ServerCallEffect
    <3>2. CASE openChallengeWindow(c)
      <4>1. case'[c].status # "DELIBERATION"
        <5>1. case[c] \in CaseRecords
          BY <2>1 DEF RecordInv
        <5> DEFINE t == openingTally(c)
        <5>2. \/ case'[c] = [case[c] EXCEPT !.status = "UNRESOLVED", !.tally = t]
              \/ case'[c] = [case[c] EXCEPT !.status = "CHALLENGE_WINDOW", !.tally = t,
                                            !.provisional = t.outcome, !.final = FALSE]
          BY <2>1, <3>2, OpenEffect
        <5> HIDE DEF t
        <5> QED BY <5>1, <5>2 DEF CaseRecords
      <4> QED BY <2>1, <2>4, <3>1, <4>1, ServedKept DEF Pending
    <3>3. CASE s.call # "openChallengeWindow"
      BY <2>1, <2>4, <3>1, <3>3, ServedKept DEF Pending
    <3> QED BY <2>1, <2>6, <3>2, <3>3 DEF Perform, c
  <2>7. CASE s.call = "castBallot" /\ castBallot(c, s.judge, s.verdict, TRUE)
    <3>1. case[c].status = "DELIBERATION"
      BY <2>7 DEF castBallot
    <3>2. case[c].tally = NoTally
      BY <2>1, <2>4, <2>7, <3>1
    <3>3. Only(c) /\ UNCHANGED roster /\ Straight(case'[c]) /\ case'[c].tally = NoTally
      BY <1>2, <2>1, <2>7, <3>2, BallotKeepsStraight
    <3> QED BY <2>1, <2>4, <2>7, <3>3, ServedKept DEF Pending, roster
  <2>8. CASE s.call = "tallyRound" /\ tallyRound(c)
    <3>1. Only(c) /\ UNCHANGED roster /\ Straight(case'[c])
      BY <1>2, <2>1, <2>8, TallyKeepsStraight
    <3> QED BY <2>1, <2>4, <2>5, <2>8, <3>1, ServedKept DEF Pending, roster
  <2>9. CASE s.call \in {"keep", "keepDemo"} /\ UNCHANGED vars
    <3>1. \A d \in Cases : Pending(case[d], d, plan')
      BY <2>4, <2>9 DEF Pending
    <3> QED BY <1>2, <2>1, <2>9, <3>1 DEF ServedInv, vars
  <2> QED BY <2>1, <2>6, <2>7, <2>8, <2>9 DEF Perform, ServerCall, c
<1>5. ASSUME NEW c \in Cases, File(c) \/ Demo(c) \/ Settle(c) \/ ServerTime(c) PROVE ServedInv'
  <2>1. ServerCall(c) /\ plan = <<>> /\ host' = host
    BY <1>5 DEF File, Demo, Settle, ServerTime, ServerCall, Handler, serverVars
  <2>2. /\ Only(c) /\ UNCHANGED <<standing, fee>> /\ Straight(case'[c])
        /\ case'[c].status = "DELIBERATION" =>
             \/ case'[c].tally = NoTally
             \/ case[c].status = "DELIBERATION" /\ case'[c].tally = case[c].tally
    BY <1>2, <2>1, ServerCallEffect
  <2>3. Pending(case'[c], c, plan')
    BY <1>3, <2>1, <2>2 DEF Pending
  <2> QED BY <1>3, <2>1, <2>2, <2>3, ServedKept
<1>6. ASSUME NEW c \in Cases, Ballot(c) PROVE ServedInv'
  <2>1. PICK k \in Keys, verdict \in VERDICTS : castBallot(c, k, verdict, TRUE)
    BY <1>6 DEF Ballot
  <2>2. plan = <<>> /\ host' = host
    BY <1>6 DEF Ballot, Handler
  <2>3. case[c].status = "DELIBERATION"
    BY <2>1 DEF castBallot
  <2>4. Only(c) /\ UNCHANGED roster /\ Straight(case'[c]) /\ case'[c].tally = NoTally
    BY <1>2, <1>3, <2>1, <2>2, <2>3, BallotKeepsStraight
  <2> QED BY <1>3, <2>2, <2>4, ServedKept DEF Pending, roster
<1>7. CASE UNCHANGED appVars
  BY <1>7 DEF appVars, vars, serverVars, ServedInv
<1>8. ~Library
  BY DEF Library
<1> QED BY <1>4, <1>5, <1>6, <1>7, <1>8 DEF AppNext
-------------------------------------------------------------------------------
(* The theorems *)

AppInv == CourtInv /\ HostInv /\ ServedInv

\* The invariant holds when the host starts ...
LEMMA AppInvInit == AppInit => AppInv
<1> SUFFICES ASSUME AppInit PROVE AppInv
  OBVIOUS
<1>1. CourtInv
  <2>1. CASE Init
    BY <2>1, CourtInit
  <2>2. CASE standing = [k \in Keys |-> "active"] /\ fee = Quote
    <3>1. fee \in [Keys -> Fees \union {Unquoted}]
      BY <2>2, AppServerAssumption
    <3>2. standing \in [Keys -> {"absent", "active"}]
      BY <2>2
    <3>3. case = [c \in Cases |-> NoCase] /\ reputation = [k \in Keys |-> 0]
      BY DEF AppInit, Init
    <3> QED BY <3>1, <3>2, <3>3, EmptyCourt
  <2> QED BY <2>1, <2>2 DEF AppInit
<1>2. HostInv
  <2>1. plan = <<>> /\ shelf = <<>> /\ demos = 0 /\ host \in {"library", "server"}
    BY AppServerAssumption DEF AppInit
  <2>2. PlanOK(<<>>) /\ <<>> \in Seq(Cases) /\ Len(<<>>) = 0
    BY EmptyPlan
  <2> QED BY <2>1, <2>2, AppServerAssumption DEF HostInv, MapIsBounded
<1>3. ServedInv
  <2>1. /\ NoCase.misquoted = FALSE /\ NoCase.ballots = {} /\ NoCase.tally = NoTally
        /\ NoCase.settlement = NoSettlement /\ NoCase.status = "NONE"
    BY DEF NoCase
  <2>2. Straight(NoCase) /\ \A c \in Cases : Pending(NoCase, c, plan)
    BY <2>1 DEF Straight, Ruled, Pending
  <2>3. case = [c \in Cases |-> NoCase]
    BY DEF AppInit, Init
  <2>4. host = "server" => standing = [k \in Keys |-> "active"]
    BY DEF AppInit
  <2> QED BY <2>2, <2>3, <2>4 DEF ServedInv
<1> QED BY <1>1, <1>2, <1>3 DEF AppInv

\* ... and is inductive.
LEMMA AppInvStep == AppInv /\ [AppNext]_appVars => AppInv'
<1> SUFFICES ASSUME AppInv, [AppNext]_appVars PROVE AppInv'
  OBVIOUS
<1>1. CourtInv /\ RecordInv /\ HostInv /\ ServedInv
  BY DEF AppInv, CourtInv
<1>2. CourtInv'
  BY <1>1, AppStepIsCourtStep, CourtStep
<1> QED BY <1>1, <1>2, HostStep, ServedStep DEF AppInv

\* A reachable state of the host is one the invariant describes.
LEMMA AppInvariant == AppSpec => []AppInv
BY AppInvInit, AppInvStep, PTL DEF AppSpec

\* Every variable keeps to its type, under any host.
THEOREM AppTypeCorrect == AppSpec => []AppTypeOK
<1>1. AppInv => AppTypeOK
  <2> SUFFICES ASSUME AppInv PROVE AppTypeOK
    OBVIOUS
  <2>1. TypeOK
    BY RecordsTyped DEF AppInv, CourtInv
  <2>2. plan \in Seq(CourtCalls) /\ DOMAIN plan = 1 .. Len(plan) /\ DOMAIN shelf = 1 .. Len(shelf)
    BY LenProperties DEF AppInv, HostInv, PlanOK
  <2>3. \A i \in DOMAIN plan : plan[i].case \in Cases
    <3>1. \A i \in DOMAIN plan : plan[i] \in CourtCalls
      BY <2>2, ElementOfSeq
    <3> QED BY <3>1 DEF CourtCalls
  <2> QED BY <2>1, <2>2, <2>3 DEF AppInv, HostInv, Filed, AppTypeOK
<1> QED BY <1>1, AppInvariant, PTL

\* The server is an embedder like any other: what every embedder's court can rely
\* on (VerdictHasQuorum, ReputationIsEarned) the server's can.
THEOREM ServedRulingsHaveQuorum == AppSpec => []VerdictHasQuorum /\ []ReputationIsEarned
<1>1. AppInv => VerdictHasQuorum /\ ReputationIsEarned
  BY BackedHasQuorum DEF AppInv, CourtInv
<1> QED BY <1>1, AppInvariant, PTL

\* server.mjs, COURT_CASES_LIMIT for every limit: the Map outgrows it by the demo
\* cases at most.
THEOREM MapIsBoundedHolds == AppSpec => []MapIsBounded
<1>1. AppInv => MapIsBounded
  BY DEF AppInv, HostInv
<1> QED BY <1>1, AppInvariant, PTL

\* A certificate of the server is signed by a quorum.
LEMMA SignedByQuorum ==
  ASSUME AppInv, host = "server", NEW c \in Cases
  PROVE  certificateMatches(c)
<1> DEFINE x == case[c]
           valid == {b \in x.ballots : b.valid}
           voters == {b.judge : b \in valid}
           able == {k \in Keys : "judge" \in Capabilities[k]}
<1> SUFFICES ASSUME x.settlement # NoSettlement
             PROVE  Cardinality(x.settlement.signers) >= QuorumJudges
  BY DEF certificateMatches
<1>1. x \in CaseRecords /\ CaseInv(x) /\ Straight(x)
  BY DEF AppInv, CourtInv, RecordInv, ServedInv
<1>2. x.status = "SETTLED" /\ Backed(x, x.provisional)
  BY <1>1 DEF CaseInv, AppInv, CourtInv, BackingInv, Ruled
<1>3. Cardinality(voters) >= QuorumJudges
  BY <1>2 DEF Backed
<1>4. voters \in SUBSET able
  <2>1. \A b \in valid : b.judge \in Keys
    BY <1>1 DEF CaseRecords, Ballots
  <2> QED BY <1>1, <2>1 DEF Straight
<1>5. IsFiniteSet(able)
  BY CourtAssumption, FS_Subset
<1>6. Cardinality(voters) <= Cardinality(able)
  BY <1>4, <1>5, FS_Subset
<1>7. Cardinality(voters) \in Nat /\ Cardinality(able) \in Nat
  BY <1>4, <1>5, FS_Subset, FS_CardinalityType
<1>8. Enough
  BY <1>3, <1>6, <1>7, CourtAssumption DEF Enough
<1> QED BY <1>1, <1>2, <1>8 DEF Straight

\* COURT.md, "every ruling replays", for any demo ballots, keys and cases: whatever
\* the order of requests, each case the server answers for replays without a
\* difference, and its certificate is of its ballots and signed by a quorum.
THEOREM ServedCasesReplayHolds == AppSpec => []ServedCasesReplay
<1>1. AppInv => ServedCasesReplay
  <2> SUFFICES ASSUME AppInv, NEW c \in Served
               PROVE  /\ replayMatches(c) /\ certificateMatches(c)
                      /\ case[c].settlement # NoSettlement =>
                           case[c].settlement.verdict = Tally(case[c].settlement.ballots).outcome
    BY DEF ServedCasesReplay
  <2> DEFINE x == case[c]
  <2>1. shelf \in Seq(Cases)
    BY DEF AppInv, HostInv
  <2>2. c \in Cases /\ shelf # <<>>
    BY <2>1 DEF Served
  <2>3. host = "server"
    BY <2>2 DEF AppInv, HostInv
  <2>4. /\ RecordInv /\ x \in CaseRecords /\ CaseInv(x) /\ Straight(x)
        /\ \A k \in Keys : standing[k] = "active"
    BY <2>2, <2>3 DEF AppInv, CourtInv, RecordInv, ServedInv
  <2>5. replayMatches(c)
    <3>1. \A b \in x.ballots : standing[b.judge] = "active" /\ b.valid
      BY <2>4 DEF Straight, CaseRecords, Ballots
    <3>2. computeTally(c) = Tally(x.ballots)
      BY <2>2, <2>4, AllCounted
    <3> QED BY <2>4, <3>1, <3>2 DEF replayMatches, Straight
  <2>6. x.settlement # NoSettlement => x.settlement.verdict = Tally(x.settlement.ballots).outcome
    BY <2>4 DEF Straight, CaseInv, Ruled
  <2> QED BY <2>2, <2>3, <2>5, <2>6, SignedByQuorum
<1> QED BY <1>1, AppInvariant, PTL

\* A settlement made under any host is final, and so is giving a case up.
THEOREM ServedRulingIsFinal == AppSpec => RulingIsFinal
<1>1. AppInv /\ [AppNext]_appVars => [\A c \in Cases : Final(case[c], case'[c])]_vars
  <2> SUFFICES ASSUME AppInv, [AppNext]_appVars PROVE \A c \in Cases : Final(case[c], case'[c])
    OBVIOUS
  <2>1. RecordInv /\ [Next]_vars
    BY AppStepIsCourtStep DEF AppInv, CourtInv
  <2> QED BY <2>1, OnwardStep DEF Onward
<1>2. AppSpec => [][\A c \in Cases : Final(case[c], case'[c])]_vars
  BY <1>1, AppInvariant, PTL DEF AppSpec
<1> QED BY <1>2 DEF RulingIsFinal, Final
===============================================================================
