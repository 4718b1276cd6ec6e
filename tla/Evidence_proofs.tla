---------------------------- MODULE Evidence_proofs ----------------------------
(***************************************************************************)
(* Documents, for every set of verifiers, events, documents and policies,  *)
(* whether they are presented on the command line or to the server.        *)
(*                                                                         *)
(* The argument: a result is what the gates made of its proof when it was  *)
(* recorded, and stays so, because a call keeps its registry and its clock *)
(* reading.  A result that claimed the nonce of its event is the only one  *)
(* that ever did: until the call is answered it may still credit the       *)
(* event, and then nothing has credited it yet.                            *)
(***************************************************************************)
EXTENDS DocumentServer, FiniteSetTheorems, SequenceTheorems, TLAPS

Results == [code : Codes, binding : Bindings]
CallRecords ==
  [op : {"decide", "dispute"}, doc : Documents, asked : Policies, registry : Registries,
   now : Times, results : Seq(Results)]

\* Result i of c is the one its proof deserves.
ResultOK(c, i) ==
  LET p == c.doc.proofs[i]
      failed == FailureBeforeClaim(p, c.registry, c.now)
      result == c.results[i]
  IN /\ result.binding = Binding(p)
     /\ failed # "none" => result.code = failed
     /\ failed = "none" => result.code \in {"none", "POLICY", "NONCE_REPLAY"}
     /\ result.code = "none" => Satisfies(p, EffectivePolicy(c), c.now)

CallInv(c) ==
  /\ c \in CallRecords
  /\ Len(c.results) <= Len(c.doc.proofs)
  /\ c.results # <<>> => Opened(c.doc)
  /\ \A i \in 1 .. Len(c.results) : ResultOK(c, i)

AnswerInv(c, a) ==
  a # NoAnswer =>
    /\ c # NoCall /\ ~HasNext(c)
    /\ a.kind = "decision" => a.ok = Verified(c) /\ a.binding = OverallBinding(c)

\* TypeOK, what is on record of a call, and what an answer says of it.
DocumentInv ==
  /\ registry \in Registries
  /\ burned \subseteq NonceKeys
  /\ call \in [Verifiers -> CallRecords \union {NoCall}]
  /\ answer \in [Verifiers -> Answers \union {NoAnswer}]
  /\ credited \in [NonceKeys -> Nat]
  /\ \A v \in Verifiers : call[v] # NoCall => CallInv(call[v])
  /\ \A v \in Verifiers : AnswerInv(call[v], answer[v])

\* The proofs of c that claimed k and that the answer, not given yet, may vouch for.
Claims(c, a, k) ==
  IF c = NoCall \/ a # NoAnswer THEN {}
  ELSE {i \in 1 .. Len(c.results) :
          c.results[i].code \in {"none", "POLICY"} /\ NonceKey(c.doc.proofs[i].event) = k}

ClaimsOn(k) == [v \in Verifiers |-> Claims(call[v], answer[v], k)]

\* A nonce key credited n times, with these claims on it, has one claim at most or was
\* credited once, and is among the spent ones in either case.
Once(k, n, spent, claims) ==
  /\ n <= 1
  /\ n = 1 => k \in spent /\ \A v \in Verifiers : claims[v] = {}
  /\ \A u, v \in Verifiers : \A i \in claims[u], j \in claims[v] : k \in spent /\ u = v /\ i = j

OnceInv == \A k \in NonceKeys : Once(k, credited[k], burned, ClaimsOn(k))

EvidenceInv == DocumentInv /\ OnceInv
-------------------------------------------------------------------------------
(* The pure parts *)

\* The names of the checks.
LEMMA CheckNames ==
  /\ DOMAIN Checks = 1 .. 8
  /\ Checks[1] = "SCHEMA" /\ Checks[2] = "APP_KNOWN" /\ Checks[3] = "KEY_ACTIVE"
  /\ Checks[4] = "CANONICALIZATION" /\ Checks[5] = "SIGNATURE"
  /\ Checks[6] = "TIMESTAMP_FRESHNESS" /\ Checks[7] = "WEIGHT_BOUND" /\ Checks[8] = "ELIGIBILITY"
BY DEF Checks

\* FailedCheck names the first check that fails, or none when all pass.
LEMMA FailedCheckIs ==
  ASSUME NEW e, NEW r, NEW now
  PROVE  FailedCheck(e, r, now) =
           IF ~schemaOk(e) THEN "SCHEMA"
           ELSE IF ~appKnown(e, r) THEN "APP_KNOWN"
           ELSE IF ~keyActive(e, r) THEN "KEY_ACTIVE"
           ELSE IF ~canonicalOk(e) THEN "CANONICALIZATION"
           ELSE IF ~signatureOk(e) THEN "SIGNATURE"
           ELSE IF ~fresh(e, now) THEN "TIMESTAMP_FRESHNESS"
           ELSE IF ~weightOk(e) THEN "WEIGHT_BOUND"
           ELSE IF ~eligible(e, r) THEN "ELIGIBILITY"
           ELSE "none"
<1> DEFINE pass == <<schemaOk(e), appKnown(e, r), keyActive(e, r), canonicalOk(e),
                     signatureOk(e), fresh(e, now), weightOk(e), eligible(e, r)>>
           First(i) == ~pass[i] /\ \A j \in 1 .. i - 1 : pass[j]
           chosen == CHOOSE i \in DOMAIN Checks : First(i)
<1>1. /\ pass[1] = schemaOk(e)
      /\ pass[2] = appKnown(e, r)
      /\ pass[3] = keyActive(e, r)
      /\ pass[4] = canonicalOk(e)
      /\ pass[5] = signatureOk(e)
      /\ pass[6] = fresh(e, now)
      /\ pass[7] = weightOk(e)
      /\ pass[8] = eligible(e, r)
  OBVIOUS
<1> HIDE DEF pass
<1>2. ASSUME NEW i \in 1 .. 8, First(i) PROVE chosen = i
  <2>1. chosen \in 1 .. 8 /\ First(chosen)
    BY <1>2, CheckNames
  <2> HIDE DEF chosen
  <2>2. ~(chosen < i) /\ ~(i < chosen)
    BY <1>2, <2>1
  <2> QED BY <2>1, <2>2
<1>3. CASE PassesGates(e, r, now)
  BY <1>3 DEF FailedCheck, PassesGates
<1>4. CASE ~PassesGates(e, r, now)
  <2>1. FailedCheck(e, r, now) = Checks[chosen]
    BY <1>4 DEF FailedCheck, pass
  <2> HIDE DEF chosen, First
  <2>2. \A i \in 1 .. 8 : First(i) => FailedCheck(e, r, now) = Checks[i]
    BY <1>2, <2>1
  <2>3. /\ First(1) <=> ~schemaOk(e)
        /\ First(2) <=> schemaOk(e) /\ ~appKnown(e, r)
        /\ First(3) <=> schemaOk(e) /\ appKnown(e, r) /\ ~keyActive(e, r)
        /\ First(4) <=> schemaOk(e) /\ appKnown(e, r) /\ keyActive(e, r) /\ ~canonicalOk(e)
        /\ First(5) <=> /\ schemaOk(e) /\ appKnown(e, r) /\ keyActive(e, r) /\ canonicalOk(e)
                       /\ ~signatureOk(e)
        /\ First(6) <=> /\ schemaOk(e) /\ appKnown(e, r) /\ keyActive(e, r) /\ canonicalOk(e)
                       /\ signatureOk(e) /\ ~fresh(e, now)
        /\ First(7) <=> /\ schemaOk(e) /\ appKnown(e, r) /\ keyActive(e, r) /\ canonicalOk(e)
                       /\ signatureOk(e) /\ fresh(e, now) /\ ~weightOk(e)
        /\ First(8) <=> /\ schemaOk(e) /\ appKnown(e, r) /\ keyActive(e, r) /\ canonicalOk(e)
                       /\ signatureOk(e) /\ fresh(e, now) /\ weightOk(e) /\ ~eligible(e, r)
    BY <1>1 DEF First
  <2> QED BY <1>4, <2>2, <2>3, CheckNames DEF PassesGates
<1> QED BY <1>3, <1>4

\* What stops a proof before its nonce is claimed.
LEMMA FailureIs ==
  ASSUME NEW p, NEW r, NEW now
  PROVE  LET failed == FailureBeforeClaim(p, r, now) IN
         /\ failed \in Codes \ {"POLICY", "NONCE_REPLAY"}
         /\ failed = "PROOF_ENVELOPE" <=> ~p.formed
         /\ failed = "none" <=>
              p.formed /\ p.root \in {NoRoot, r} /\ PassesGates(p.event, r, now)
<1> DEFINE check == FailedCheck(p.event, r, now)
<1>1. check \in {"none"} \union {Checks[i] : i \in DOMAIN Checks}
  BY FailedCheckIs, CheckNames
<1>2. check # "PROOF_ENVELOPE" /\ check # "POLICY" /\ check # "NONCE_REPLAY"
      /\ (check = "none" <=> PassesGates(p.event, r, now))
  BY FailedCheckIs DEF PassesGates
<1> HIDE DEF check
<1>3. FailureBeforeClaim(p, r, now) =
        IF ~p.formed THEN "PROOF_ENVELOPE" ELSE IF p.root \notin {NoRoot, r} THEN "REGISTRY_ROOT" ELSE check
  BY DEF FailureBeforeClaim, check
<1>4. check \in Codes
  BY <1>1 DEF Codes
<1>5. "PROOF_ENVELOPE" \in Codes /\ "REGISTRY_ROOT" \in Codes
  BY DEF Codes
<1> QED BY <1>2, <1>3, <1>4, <1>5

\* The proofs of a document.
LEMMA ProofsOf ==
  ASSUME NEW d \in Documents
  PROVE  /\ d \in DocumentRecords /\ d.proofs \in Seq(ProofRecords) /\ Len(d.proofs) \in Nat
         /\ \A i \in 1 .. Len(d.proofs) :
              d.proofs[i] \in ProofRecords /\ NonceKey(d.proofs[i].event) \in NonceKeys
<1>1. d.proofs \in Seq(ProofRecords) /\ d \in DocumentRecords
  BY EvidenceAssumption DEF DocumentRecords
<1>2. ASSUME NEW i \in 1 .. Len(d.proofs)
      PROVE  d.proofs[i] \in ProofRecords /\ NonceKey(d.proofs[i].event) \in NonceKeys
  <2>1. d.proofs[i] \in ProofRecords
    BY <1>1, ElementOfSeq
  <2>2. d.proofs[i].event \in Events
    BY <2>1 DEF ProofRecords
  <2>3. d.proofs[i].event.app \in Apps /\ d.proofs[i].event.nonce \in Nonces
    BY <2>2, EvidenceAssumption
  <2> QED BY <2>1, <2>3 DEF NonceKey, NonceKeys
<1> QED BY <1>1, <1>2, LenProperties

\* The proof that a call turns to next.
LEMMA TheNextProof ==
  ASSUME NEW c, CallInv(c), HasNext(c)
  PROVE  /\ Len(c.results) \in Nat /\ Len(c.results) + 1 \in 1 .. Len(c.doc.proofs)
         /\ Opened(c.doc) /\ NextProof(c) = c.doc.proofs[Len(c.results) + 1]
         /\ NextProof(c) \in ProofRecords /\ NonceKey(NextProof(c).event) \in NonceKeys
<1>1. c.doc \in Documents /\ c.results \in Seq(Results)
  BY DEF CallInv, CallRecords
<1>2. Len(c.results) \in Nat /\ Len(c.doc.proofs) \in Nat
  BY <1>1, LenProperties, ProofsOf
<1>3. Len(c.results) + 1 \in 1 .. Len(c.doc.proofs)
  BY <1>2 DEF HasNext
<1> QED BY <1>1, <1>2, <1>3, ProofsOf DEF NextProof, HasNext

Extended(c, code) ==
  [c EXCEPT !.results = Append(@, [code |-> code, binding |-> Binding(NextProof(c))])]

\* Recording the result of the next proof keeps a call in order.
LEMMA RecordKeepsCall ==
  ASSUME NEW c, CallInv(c), HasNext(c), NEW code,
         LET failed == FailureBeforeClaim(NextProof(c), c.registry, c.now) IN
         /\ failed # "none" => code = failed
         /\ failed = "none" => code \in {"none", "POLICY", "NONCE_REPLAY"}
         /\ code = "none" => Satisfies(NextProof(c), EffectivePolicy(c), c.now)
  PROVE  LET n == Len(c.results)
             x == Extended(c, code)
         IN /\ CallInv(x) /\ Len(x.results) = n + 1 /\ n \in Nat
            /\ x.doc = c.doc /\ x.results[n + 1].code = code
            /\ \A i \in 1 .. n : x.results[i] = c.results[i]
<1> DEFINE n == Len(c.results)
           p == NextProof(c)
           new == [code |-> code, binding |-> Binding(p)]
           results == Append(c.results, new)
           x == Extended(c, code)
<1>1. /\ n \in Nat /\ n + 1 \in 1 .. Len(c.doc.proofs) /\ Opened(c.doc)
      /\ p = c.doc.proofs[n + 1] /\ p \in ProofRecords
  BY TheNextProof
<1>2. c \in CallRecords /\ c.results \in Seq(Results)
  BY DEF CallInv, CallRecords
<1>3. new \in Results /\ new.code = code /\ new.binding = Binding(p)
  <2>1. code \in Codes
    BY FailureIs DEF Codes
  <2>2. Binding(p) \in Bindings
    BY DEF Binding, Bindings
  <2> QED BY <2>1, <2>2 DEF Results
<1>4. /\ results \in Seq(Results) /\ Len(results) = n + 1 /\ results # <<>>
      /\ results[n + 1] = new /\ \A i \in 1 .. n : results[i] = c.results[i]
  <2> HIDE DEF new
  <2> QED BY <1>2, <1>3, AppendProperties
<1>5. x = [c EXCEPT !.results = results]
  BY DEF Extended
<1> HIDE DEF x, results, new
<1>6. /\ x \in CallRecords /\ x.results = results /\ x.doc = c.doc /\ x.registry = c.registry
      /\ x.now = c.now /\ x.asked = c.asked
  BY <1>2, <1>4, <1>5 DEF CallRecords
<1>7. ASSUME NEW i \in 1 .. n + 1 PROVE ResultOK(x, i)
  <2>1. EffectivePolicy(x) = EffectivePolicy(c)
    BY <1>6 DEF EffectivePolicy
  <2>2. CASE i = n + 1
    BY <1>1, <1>3, <1>4, <1>6, <2>1, <2>2 DEF ResultOK
  <2>3. CASE i # n + 1
    <3>1. i \in 1 .. n
      BY <1>1, <2>3
    <3>2. ResultOK(c, i) /\ x.results[i] = c.results[i]
      BY <1>4, <1>6, <3>1 DEF CallInv
    <3> QED BY <1>6, <2>1, <3>2 DEF ResultOK
  <2> QED BY <2>2, <2>3
<1>8. n + 1 <= Len(c.doc.proofs)
  BY <1>1
<1>9. CallInv(x)
  BY <1>1, <1>4, <1>6, <1>7, <1>8 DEF CallInv
<1> QED BY <1>1, <1>3, <1>4, <1>6, <1>9 DEF x
-------------------------------------------------------------------------------
(* What each step does to the call it is about *)

\* A claim's result.
Outcome(c) ==
  IF Satisfies(NextProof(c), EffectivePolicy(c), c.now) THEN "none" ELSE "POLICY"

\* Registries stay registries when they are edited.
LEMMA EditsKeepRegistries ==
  ASSUME NEW r \in Registries, NEW a \in Apps, NEW id \in KeyIds
  PROVE  registerKey(r, a, id) \in Registries /\ revokeKey(r, a, id) \in Registries
<1>1. <<a, id>> \in Apps \X KeyIds
  OBVIOUS
<1> QED BY <1>1 DEF registerKey, revokeKey, Registries, KeyStatuses

\* A command that edits the registry changes nothing else.
LEMMA EditEffect ==
  ASSUME registry \in Registries, RegisterKey \/ RevokeKey
  PROVE  registry' \in Registries /\ UNCHANGED <<burned, call, answer, credited>>
BY EditsKeepRegistries DEF RegisterKey, RevokeKey, Publish

\* A call begins without results.
LEMMA PresentEffect ==
  ASSUME DocumentInv, NEW v \in Verifiers, NEW op \in {"decide", "dispute"},
         NEW d \in Documents, NEW policy \in Policies, NEW now \in Times,
         Present(v, op, d, policy, now)
  PROVE  \E c : /\ CallInv(c) /\ c.results = <<>> /\ call[v] = NoCall
                /\ call' = [call EXCEPT ![v] = c]
                /\ UNCHANGED <<registry, burned, answer, credited>>
<1> DEFINE c == [op |-> op, doc |-> d, asked |-> policy, registry |-> registry, now |-> now,
                 results |-> <<>>]
<1>1. c \in CallRecords /\ c.results = <<>> /\ c.doc = d
  BY DEF DocumentInv, CallRecords
<1>2. Len(c.results) = 0 /\ Len(d.proofs) \in Nat
  BY <1>1, ProofsOf
<1>3. call[v] = NoCall /\ call' = [call EXCEPT ![v] = c]
      /\ UNCHANGED <<registry, burned, answer, credited>>
  BY DEF Present
<1> HIDE DEF c
<1>4. CallInv(c)
  BY <1>1, <1>2 DEF CallInv
<1> QED BY <1>1, <1>3, <1>4

\* A call with a proof left is one that was not answered.
LEMMA StillOpen ==
  ASSUME DocumentInv, NEW v \in Verifiers, call[v] # NoCall, HasNext(call[v])
  PROVE  CallInv(call[v]) /\ answer[v] = NoAnswer
BY DEF DocumentInv, AnswerInv

\* A proof is rejected before its nonce is claimed.
LEMMA RejectEffect ==
  ASSUME DocumentInv, NEW v \in Verifiers, RejectProof(v)
  PROVE  LET c == call[v]
             code == FailureBeforeClaim(NextProof(c), c.registry, c.now)
         IN /\ c # NoCall /\ HasNext(c) /\ code \notin {"none", "POLICY", "NONCE_REPLAY"}
            /\ call' = [call EXCEPT ![v] = Extended(c, code)]
            /\ UNCHANGED <<registry, burned, answer, credited>>
<1> DEFINE c == call[v]
           code == FailureBeforeClaim(NextProof(c), c.registry, c.now)
<1>1. code # "none" /\ c # NoCall /\ HasNext(c) /\ UNCHANGED <<registry, burned, answer, credited>>
      /\ Record(v, NextProof(c), code)
  BY DEF RejectProof
<1>2. code \notin {"none", "POLICY", "NONCE_REPLAY"}
  BY <1>1, FailureIs
<1> HIDE DEF code
<1>3. call' = [call EXCEPT ![v] = Extended(c, code)]
  BY <1>1 DEF Record, Extended, DocumentInv
<1> QED BY <1>1, <1>2, <1>3 DEF code

\* A proof passes the gates and its nonce is claimed, in vain or not.
LEMMA ClaimEffect ==
  ASSUME DocumentInv, NEW v \in Verifiers, ClaimProof(v)
  PROVE  LET c == call[v]
             k == NonceKey(NextProof(c).event)
         IN /\ c # NoCall /\ HasNext(c)
            /\ FailureBeforeClaim(NextProof(c), c.registry, c.now) = "none"
            /\ UNCHANGED <<registry, answer, credited>>
            /\ \/ /\ k \in burned /\ UNCHANGED burned
                  /\ call' = [call EXCEPT ![v] = Extended(c, "NONCE_REPLAY")]
               \/ /\ k \notin burned /\ burned' = burned \union {k}
                  /\ call' = [call EXCEPT ![v] = Extended(c, Outcome(c))]
<1> DEFINE c == call[v]
<1>1. \A code : Record(v, NextProof(c), code) => call' = [call EXCEPT ![v] = Extended(c, code)]
  BY DEF Record, Extended, DocumentInv
<1> QED BY <1>1 DEF ClaimProof, Outcome

\* A step about v keeps the records in order if it keeps v's.
LEMMA TurnKeepsRecords ==
  ASSUME DocumentInv, NEW v \in Verifiers, NEW c, NEW a,
         call' = [call EXCEPT ![v] = c], answer' = [answer EXCEPT ![v] = a],
         c = NoCall \/ CallInv(c), a \in Answers \union {NoAnswer}, AnswerInv(c, a),
         UNCHANGED registry, burned' \subseteq NonceKeys, credited' \in [NonceKeys -> Nat]
  PROVE  DocumentInv'
<1>1. c \in CallRecords \union {NoCall}
  BY DEF CallInv
<1>2. /\ call' \in [Verifiers -> CallRecords \union {NoCall}]
      /\ answer' \in [Verifiers -> Answers \union {NoAnswer}]
  BY <1>1 DEF DocumentInv
<1>3. /\ call'[v] = c /\ answer'[v] = a
      /\ \A u \in Verifiers : u # v => call'[u] = call[u] /\ answer'[u] = answer[u]
  BY DEF DocumentInv
<1>4. ASSUME NEW u \in Verifiers
      PROVE  (call'[u] # NoCall => CallInv(call'[u])) /\ AnswerInv(call'[u], answer'[u])
  BY <1>3 DEF DocumentInv
<1> QED BY <1>2, <1>4 DEF DocumentInv

\* Nobody has answered yet.
LEMMA Unanswered ==
  ASSUME DocumentInv, NEW v \in Verifiers, answer[v] = NoAnswer, UNCHANGED answer
  PROVE  answer' = [answer EXCEPT ![v] = NoAnswer] /\ \A c : AnswerInv(c, NoAnswer)
BY DEF DocumentInv, AnswerInv

\* What a verifier answers is an answer.
LEMMA AnswerEffect ==
  ASSUME DocumentInv, NEW v \in Verifiers, Answer(v)
  PROVE  LET c == call[v] IN
         /\ c # NoCall /\ answer[v] = NoAnswer /\ CallInv(c) /\ ~HasNext(c)
         /\ UNCHANGED <<registry, burned, call>>
         /\ \E a \in Answers : answer' = [answer EXCEPT ![v] = a] /\ AnswerInv(c, a)
         /\ credited' = [k \in NonceKeys |-> credited[k] +
              Cardinality({i \in Vouched(c) : NonceKey(c.doc.proofs[i].event) = k})]
<1> DEFINE c == call[v]
           decision == [kind |-> "decision", ok |-> Verified(c), binding |-> OverallBinding(c)]
           report == [kind |-> "report", verdict |-> Verdict(c)]
<1>1. c # NoCall /\ answer[v] = NoAnswer /\ ~HasNext(c)
  BY DEF Answer
<1>2. CallInv(c)
  BY <1>1 DEF DocumentInv
<1>3. decision \in Answers /\ AnswerInv(c, decision)
  <2>1. Verified(c) \in BOOLEAN
    BY DEF Verified
  <2>2. OverallBinding(c) \in Bindings
    <3> DEFINE results == {c.results[i].binding : i \in DOMAIN c.results}
    <3>1. CASE ~Opened(c.doc)
      BY <3>1 DEF OverallBinding, Bindings
    <3>2. CASE Opened(c.doc)
      <4>1. CASE c.doc.kind = "proof" \/ results \in {{"EPOCH_BOUND"}, {"LOCAL"}}
        <5>1. 1 \in 1 .. Len(c.results)
          <6>1. Len(c.doc.proofs) = 1 \/ results # {}
            <7>1. c.doc \in Documents
              BY <1>2 DEF CallInv, CallRecords
            <7> QED BY <4>1, <7>1, EvidenceAssumption
          <6>2. /\ Len(c.results) \in Nat /\ Len(c.doc.proofs) \in Nat
                /\ DOMAIN c.results = 1 .. Len(c.results)
            BY <1>2, LenProperties, ProofsOf DEF CallInv, CallRecords
          <6>3. ~(Len(c.results) < Len(c.doc.proofs))
            BY <1>1, <3>2 DEF HasNext
          <6>4. results # {} => Len(c.results) # 0
            BY <6>2
          <6> QED BY <6>1, <6>2, <6>3, <6>4
        <5>2. c.results[1] \in Results
          BY <1>2, <5>1, ElementOfSeq DEF CallInv, CallRecords
        <5>3. OverallBinding(c) = c.results[1].binding
          BY <3>2, <4>1 DEF OverallBinding
        <5> QED BY <5>2, <5>3 DEF Results
      <4>2. CASE ~(c.doc.kind = "proof" \/ results \in {{"EPOCH_BOUND"}, {"LOCAL"}})
        BY <3>2, <4>2 DEF OverallBinding, Bindings
      <4> QED BY <4>1, <4>2
    <3> QED BY <3>1, <3>2
  <2> DEFINE ok == Verified(c)
             binding == OverallBinding(c)
  <2>3. decision = [kind |-> "decision", ok |-> ok, binding |-> binding]
        /\ ok \in BOOLEAN /\ binding \in Bindings
    BY <2>1, <2>2
  <2> HIDE DEF decision, ok, binding
  <2>4. decision \in Answers /\ decision.ok = ok /\ decision.binding = binding
    BY <2>3 DEF Answers
  <2> QED BY <1>1, <2>4 DEF AnswerInv, ok, binding
<1>4. report \in Answers /\ AnswerInv(c, report)
  <2>1. Verdict(c) \in {"VALID", "INVALID", "UNVERIFIABLE"}
    BY DEF Verdict
  <2>2. report.kind # "decision"
    OBVIOUS
  <2> QED BY <1>1, <2>1, <2>2 DEF Answers, AnswerInv
<1>5. answer' = [answer EXCEPT ![v] = decision] \/ answer' = [answer EXCEPT ![v] = report]
  BY DEF Answer
<1>6. /\ UNCHANGED <<registry, burned, call>>
      /\ credited' = [k \in NonceKeys |-> credited[k] +
           Cardinality({i \in Vouched(c) : NonceKey(c.doc.proofs[i].event) = k})]
  BY DEF Answer
<1> HIDE DEF decision, report
<1> QED BY <1>1, <1>2, <1>3, <1>4, <1>5, <1>6
-------------------------------------------------------------------------------
(* The invariant *)

\* A verifier's step is one of seven.
LEMMA ServeKinds ==
  ASSUME NEW v \in Verifiers, Serve(v)
  PROVE  \/ \E op \in {"decide", "dispute"}, d \in Documents, policy \in Policies, now \in Times :
              Present(v, op, d, policy, now)
         \/ RejectProof(v) \/ ClaimProof(v) \/ Answer(v) \/ Return(v) \/ Throw(v)
BY DEF Serve, Work, cmdProofVerify, cmdPassportVerify, cmdDecide, cmdDispute, Open, OfKind

\* A call in which a claim fails is over without an answer.
LEMMA ThrowEffect ==
  ASSUME DocumentInv, NEW v \in Verifiers, Throw(v)
  PROVE  /\ call[v] # NoCall /\ HasNext(call[v]) /\ answer[v] = NoAnswer
         /\ call' = [call EXCEPT ![v] = NoCall] /\ UNCHANGED <<registry, answer, credited>>
         /\ FailureBeforeClaim(NextProof(call[v]), call[v].registry, call[v].now) = "none"
         /\ burned' \in {burned, burned \union {NonceKey(NextProof(call[v]).event)}}
         /\ burned \subseteq burned' /\ burned' \subseteq NonceKeys
<1>1. call[v] # NoCall /\ HasNext(call[v])
  BY DEF Throw
<1>2. CallInv(call[v]) /\ answer[v] = NoAnswer
  BY <1>1, StillOpen
<1>3. NonceKey(NextProof(call[v]).event) \in NonceKeys
  BY <1>1, <1>2, TheNextProof
<1>4. burned' \in {burned, burned \union {NonceKey(NextProof(call[v]).event)}}
  BY DEF Throw
<1>5. burned \subseteq burned' /\ burned' \subseteq NonceKeys
  BY <1>3, <1>4 DEF DocumentInv
<1> QED BY <1>1, <1>2, <1>4, <1>5 DEF Throw

\* Every step keeps the records in order.
LEMMA DocumentStep == DocumentInv /\ [Next]_vars => DocumentInv'
<1> SUFFICES ASSUME DocumentInv, [Next]_vars PROVE DocumentInv'
  OBVIOUS
<1>1. CASE RegisterKey \/ RevokeKey
  <2>1. registry' \in Registries /\ UNCHANGED <<burned, call, answer, credited>>
    BY <1>1, EditEffect DEF DocumentInv
  <2> QED BY <2>1 DEF DocumentInv
<1>2. ASSUME NEW v \in Verifiers, Serve(v) PROVE DocumentInv'
  <2>0. burned \subseteq NonceKeys /\ credited \in [NonceKeys -> Nat]
    BY DEF DocumentInv
  <2>1. ASSUME NEW op \in {"decide", "dispute"}, NEW d \in Documents, NEW policy \in Policies,
               NEW now \in Times, Present(v, op, d, policy, now)
        PROVE  DocumentInv'
    <3>1. PICK c : /\ CallInv(c) /\ c.results = <<>> /\ call[v] = NoCall
                   /\ call' = [call EXCEPT ![v] = c]
                   /\ UNCHANGED <<registry, burned, answer, credited>>
      BY <2>1, PresentEffect
    <3>2. answer[v] = NoAnswer
      BY <3>1 DEF DocumentInv, AnswerInv
    <3> QED BY <2>0, <3>1, <3>2, Unanswered, TurnKeepsRecords
  <2>2. CASE RejectProof(v)
    <3> DEFINE c == call[v]
               code == FailureBeforeClaim(NextProof(c), c.registry, c.now)
    <3>1. /\ c # NoCall /\ HasNext(c) /\ code \notin {"none", "POLICY", "NONCE_REPLAY"}
          /\ call' = [call EXCEPT ![v] = Extended(c, code)]
          /\ UNCHANGED <<registry, burned, answer, credited>>
      BY <2>2, RejectEffect
    <3>2. CallInv(c) /\ answer[v] = NoAnswer
      BY <3>1, StillOpen
    <3>3. CallInv(Extended(c, code))
      BY <3>1, <3>2, RecordKeepsCall
    <3> QED BY <2>0, <3>1, <3>2, <3>3, Unanswered, TurnKeepsRecords
  <2>3. CASE ClaimProof(v)
    <3> DEFINE c == call[v]
               k == NonceKey(NextProof(c).event)
    <3>1. /\ c # NoCall /\ HasNext(c)
          /\ FailureBeforeClaim(NextProof(c), c.registry, c.now) = "none"
          /\ UNCHANGED <<registry, answer, credited>>
          /\ \/ /\ k \in burned /\ UNCHANGED burned
                /\ call' = [call EXCEPT ![v] = Extended(c, "NONCE_REPLAY")]
             \/ /\ k \notin burned /\ burned' = burned \union {k}
                /\ call' = [call EXCEPT ![v] = Extended(c, Outcome(c))]
      BY <2>3, ClaimEffect
    <3>2. CallInv(c) /\ answer[v] = NoAnswer
      BY <3>1, StillOpen
    <3>3. k \in NonceKeys
      BY <3>1, <3>2, TheNextProof
    <3>4. CallInv(Extended(c, "NONCE_REPLAY"))
      BY <3>1, <3>2, RecordKeepsCall
    <3>5. CallInv(Extended(c, Outcome(c)))
      BY <3>1, <3>2, RecordKeepsCall DEF Outcome
    <3>6. burned' \subseteq NonceKeys
      BY <2>0, <3>1, <3>3
    <3> HIDE DEF c, k
    <3>7. PICK x : CallInv(x) /\ call' = [call EXCEPT ![v] = x]
      BY <3>1, <3>4, <3>5
    <3> QED BY <2>0, <3>1, <3>2, <3>6, <3>7, Unanswered, TurnKeepsRecords
  <2>4. CASE Answer(v)
    <3> DEFINE c == call[v]
    <3>1. /\ c # NoCall /\ CallInv(c) /\ UNCHANGED <<registry, burned, call>>
          /\ credited' = [k \in NonceKeys |-> credited[k] +
               Cardinality({i \in Vouched(c) : NonceKey(c.doc.proofs[i].event) = k})]
      BY <2>4, AnswerEffect
    <3>2. PICK a \in Answers : answer' = [answer EXCEPT ![v] = a] /\ AnswerInv(c, a)
      BY <2>4, AnswerEffect
    <3>3. credited' \in [NonceKeys -> Nat]
      <4>1. ASSUME NEW k \in NonceKeys
            PROVE  Cardinality({i \in Vouched(c) : NonceKey(c.doc.proofs[i].event) = k}) \in Nat
        <5>1. c.results \in Seq(Results)
          BY <3>1 DEF CallInv, CallRecords
        <5>2. DOMAIN c.results = 1 .. Len(c.results) /\ Len(c.results) \in Nat
          BY <5>1, LenProperties
        <5>3. IsFiniteSet(1 .. Len(c.results))
          BY <5>2, FS_Interval
        <5>4. {i \in Vouched(c) : NonceKey(c.doc.proofs[i].event) = k} \in SUBSET (1 .. Len(c.results))
          BY <5>2 DEF Vouched
        <5> QED BY <5>3, <5>4, FS_Subset, FS_CardinalityType
      <4> QED BY <2>0, <3>1, <4>1
    <3>4. call' = [call EXCEPT ![v] = c]
      BY <3>1 DEF DocumentInv
    <3> HIDE DEF c
    <3> QED BY <2>0, <3>1, <3>2, <3>3, <3>4, TurnKeepsRecords
  <2>5. CASE Return(v)
    BY <2>0, <2>5, TurnKeepsRecords DEF Return, AnswerInv
  <2>6. CASE Throw(v)
    BY <2>0, <2>6, ThrowEffect, Unanswered, TurnKeepsRecords
  <2> QED BY <1>2, <2>1, <2>2, <2>3, <2>4, <2>5, <2>6, ServeKinds
<1>3. CASE UNCHANGED vars
  BY <1>3 DEF vars, DocumentInv
<1> QED BY <1>1, <1>2, <1>3 DEF Next

\* Claims that are withdrawn leave one at most.
LEMMA FewerClaims ==
  ASSUME NEW k, NEW n, NEW S, NEW T, NEW C, NEW D, Once(k, n, S, C), S \subseteq T,
         \A v \in Verifiers : D[v] \subseteq C[v]
  PROVE  Once(k, n, T, D)
<1>1. n <= 1 /\ (n = 1 => k \in T /\ \A v \in Verifiers : D[v] = {})
  BY DEF Once
<1>2. ASSUME NEW u \in Verifiers, NEW v \in Verifiers, NEW i \in D[u], NEW j \in D[v]
      PROVE  k \in T /\ u = v /\ i = j
  <2>1. i \in C[u] /\ j \in C[v]
    OBVIOUS
  <2> QED BY <2>1 DEF Once
<1> QED BY <1>1, <1>2 DEF Once

\* Steps that credit nothing and add no claim keep what is claimed once.
LEMMA OnceKept ==
  ASSUME OnceInv, UNCHANGED credited, burned \subseteq burned',
         \A v \in Verifiers, k \in NonceKeys :
           Claims(call'[v], answer'[v], k) \subseteq Claims(call[v], answer[v], k)
  PROVE  OnceInv'
<1> SUFFICES ASSUME NEW k \in NonceKeys
             PROVE  Once(k, credited[k], burned', ClaimsOn(k)')
  BY DEF OnceInv, Once
<1>1. \A v \in Verifiers : ClaimsOn(k)'[v] \subseteq ClaimsOn(k)[v]
  BY DEF ClaimsOn
<1>2. Once(k, credited[k], burned, ClaimsOn(k))
  BY DEF OnceInv
<1> QED BY <1>1, <1>2, FewerClaims

\* What an answer vouches for was claimed by the call it answers.
LEMMA VouchedIsClaimed ==
  ASSUME NEW c, CallInv(c), c # NoCall, NEW k
  PROVE  {i \in Vouched(c) : NonceKey(c.doc.proofs[i].event) = k} \subseteq Claims(c, NoAnswer, k)
<1> SUFFICES ASSUME NEW i \in Vouched(c), NonceKey(c.doc.proofs[i].event) = k
             PROVE  i \in Claims(c, NoAnswer, k)
  OBVIOUS
<1>1. i \in DOMAIN c.results /\ DOMAIN c.results = 1 .. Len(c.results)
  BY LenProperties DEF Vouched, CallInv, CallRecords
<1>2. ResultOK(c, i)
  BY <1>1 DEF CallInv
<1>3. CASE c.op = "decide"
  BY <1>1, <1>3 DEF Vouched, Verified, Claims
<1>4. CASE c.op # "decide"
  <2>1. Verdict(c) = "VALID" /\ FailureBeforeClaim(c.doc.proofs[i], c.registry, c.now) = "none"
    BY <1>4 DEF Vouched
  <2>2. c.results[i].code \in {"none", "POLICY", "NONCE_REPLAY"}
    BY <1>2, <2>1 DEF ResultOK
  <2>3. c.results[i].code # "NONCE_REPLAY"
    <3> SUFFICES ASSUME c.results[i].code = "NONCE_REPLAY" PROVE FALSE
      OBVIOUS
    <3>1. "NONCE_REPLAY" \in FailedSteps(c)
      BY <1>1 DEF FailedSteps
    <3>2. "NONCE_REPLAY" \in Consulted
      BY DEF Consulted
    <3> QED BY <2>1, <3>1, <3>2 DEF Verdict
  <2> QED BY <1>1, <2>2, <2>3 DEF Claims
<1> QED BY <1>3, <1>4

\* Every step keeps what is claimed, or credited, once.
LEMMA OnceStep == DocumentInv /\ OnceInv /\ [Next]_vars => OnceInv'
<1> SUFFICES ASSUME DocumentInv, OnceInv, [Next]_vars PROVE OnceInv'
  OBVIOUS
<1>1. CASE RegisterKey \/ RevokeKey
  BY <1>1, EditEffect, OnceKept DEF DocumentInv
<1>2. ASSUME NEW v \in Verifiers, Serve(v) PROVE OnceInv'
  <2>0. \A c, a : call' = [call EXCEPT ![v] = c] /\ answer' = [answer EXCEPT ![v] = a] =>
          /\ call'[v] = c /\ answer'[v] = a
          /\ \A u \in Verifiers : u # v => call'[u] = call[u] /\ answer'[u] = answer[u]
    BY DEF DocumentInv
  <2>1. ASSUME NEW op \in {"decide", "dispute"}, NEW d \in Documents, NEW policy \in Policies,
               NEW now \in Times, Present(v, op, d, policy, now)
        PROVE  OnceInv'
    <3>1. PICK c : /\ CallInv(c) /\ c.results = <<>>
                   /\ call' = [call EXCEPT ![v] = c]
                   /\ UNCHANGED <<registry, burned, answer, credited>>
      BY <2>1, PresentEffect
    <3>2. 1 .. Len(c.results) = {}
      BY <3>1, EmptySeq
    <3>3. \A u \in Verifiers : u # v => call'[u] = call[u]
      BY <3>1
    <3>4. \A a, k : Claims(call'[v], a, k) = {}
      BY <3>1, <3>2 DEF Claims, DocumentInv
    <3> QED BY <3>1, <3>3, <3>4, OnceKept
  <2>2. CASE RejectProof(v)
    <3> DEFINE c == call[v]
               code == FailureBeforeClaim(NextProof(c), c.registry, c.now)
               n == Len(c.results)
               x == Extended(c, code)
    <3>1. /\ c # NoCall /\ HasNext(c) /\ code \notin {"none", "POLICY", "NONCE_REPLAY"}
          /\ call' = [call EXCEPT ![v] = x]
          /\ UNCHANGED <<registry, burned, answer, credited>>
      BY <2>2, RejectEffect
    <3>2. CallInv(c) /\ answer[v] = NoAnswer
      BY <3>1, StillOpen
    <3>3. /\ Len(x.results) = n + 1 /\ n \in Nat
          /\ x.doc = c.doc /\ x.results[n + 1].code = code
          /\ \A i \in 1 .. n : x.results[i] = c.results[i]
      BY <3>1, <3>2, RecordKeepsCall
    <3> HIDE DEF x, code
    <3>4. \A k : Claims(x, NoAnswer, k) \subseteq Claims(c, NoAnswer, k)
      <4>1. \A i \in 1 .. n + 1 : i = n + 1 \/ i \in 1 .. n
        BY <3>3
      <4> QED BY <3>1, <3>3, <4>1 DEF Claims
    <3>5. call'[v] = x /\ \A u \in Verifiers : u # v => call'[u] = call[u]
      BY <3>1 DEF DocumentInv
    <3> QED BY <3>1, <3>2, <3>4, <3>5, OnceKept
  <2>3. CASE ClaimProof(v)
    <3> DEFINE c == call[v]
               k0 == NonceKey(NextProof(c).event)
               n == Len(c.results)
    <3>1. /\ c # NoCall /\ HasNext(c)
          /\ FailureBeforeClaim(NextProof(c), c.registry, c.now) = "none"
          /\ UNCHANGED <<registry, answer, credited>>
          /\ \/ /\ k0 \in burned /\ UNCHANGED burned
                /\ call' = [call EXCEPT ![v] = Extended(c, "NONCE_REPLAY")]
             \/ /\ k0 \notin burned /\ burned' = burned \union {k0}
                /\ call' = [call EXCEPT ![v] = Extended(c, Outcome(c))]
      BY <2>3, ClaimEffect
    <3>2. CallInv(c) /\ answer[v] = NoAnswer
      BY <3>1, StillOpen
    <3>3. /\ k0 \in NonceKeys /\ n \in Nat /\ NextProof(c) = c.doc.proofs[n + 1]
      BY <3>1, <3>2, TheNextProof
    <3>4. CASE k0 \in burned /\ UNCHANGED burned /\ call' = [call EXCEPT ![v] = Extended(c, "NONCE_REPLAY")]
      <4> DEFINE x == Extended(c, "NONCE_REPLAY")
      <4>1. /\ Len(x.results) = n + 1 /\ x.doc = c.doc /\ x.results[n + 1].code = "NONCE_REPLAY"
            /\ \A i \in 1 .. n : x.results[i] = c.results[i]
        BY <3>1, <3>2, RecordKeepsCall
      <4> HIDE DEF x
      <4>2. \A k : Claims(x, NoAnswer, k) \subseteq Claims(c, NoAnswer, k)
        <5>1. \A i \in 1 .. n + 1 : i = n + 1 \/ i \in 1 .. n
          BY <3>3
        <5> QED BY <3>1, <3>3, <4>1, <5>1 DEF Claims
      <4>3. call'[v] = x /\ \A u \in Verifiers : u # v => call'[u] = call[u]
        BY <3>4 DEF DocumentInv, x
      <4> QED BY <3>1, <3>2, <3>4, <4>2, <4>3, OnceKept
    <3>5. CASE /\ k0 \notin burned /\ burned' = burned \union {k0}
               /\ call' = [call EXCEPT ![v] = Extended(c, Outcome(c))]
      <4> DEFINE x == Extended(c, Outcome(c))
      <4>1. /\ Len(x.results) = n + 1 /\ x.doc = c.doc
            /\ \A i \in 1 .. n : x.results[i] = c.results[i]
        BY <3>1, <3>2, RecordKeepsCall DEF Outcome
      <4> HIDE DEF x
      <4>2. \A k : Claims(x, NoAnswer, k) \subseteq
                     Claims(c, NoAnswer, k) \union (IF k = k0 THEN {n + 1} ELSE {})
        <5>1. \A i \in 1 .. n + 1 : i = n + 1 \/ i \in 1 .. n
          BY <3>3
        <5> QED BY <3>1, <3>3, <4>1, <5>1 DEF Claims
      <4>3. call'[v] = x /\ \A u \in Verifiers : u # v => call'[u] = call[u]
        BY <3>5 DEF DocumentInv, x
      <4>4. \A u \in Verifiers, k \in NonceKeys :
              Claims(call'[u], answer'[u], k) \subseteq
                Claims(call[u], answer[u], k) \union (IF k = k0 /\ u = v THEN {n + 1} ELSE {})
        <5> SUFFICES ASSUME NEW u \in Verifiers, NEW k \in NonceKeys
                     PROVE  Claims(call'[u], answer'[u], k) \subseteq
                              Claims(call[u], answer[u], k) \union (IF k = k0 /\ u = v THEN {n + 1} ELSE {})
          OBVIOUS
        <5>1. CASE u = v
          BY <3>1, <3>2, <4>2, <4>3, <5>1
        <5>2. CASE u # v
          BY <3>1, <4>3, <5>2
        <5> QED BY <5>1, <5>2
      <4> SUFFICES ASSUME NEW k \in NonceKeys
                   PROVE  Once(k, credited[k], burned', ClaimsOn(k)')
        BY <3>1 DEF OnceInv, Once
      <4>5. Once(k, credited[k], burned, ClaimsOn(k))
        BY DEF OnceInv
      <4>6. CASE k = k0
        <5>1. k \notin burned /\ k \in burned'
          BY <3>5, <4>6
        <5>2. credited[k] <= 1 /\ credited[k] # 1
          BY <4>5, <5>1 DEF Once
        <5>3. \A u \in Verifiers : ClaimsOn(k)[u] = {}
          BY <4>5, <5>1 DEF Once
        <5>4. \A u \in Verifiers : ClaimsOn(k)'[u] \subseteq IF u = v THEN {n + 1} ELSE {}
          BY <4>4, <4>6, <5>3 DEF ClaimsOn
        <5>5. ASSUME NEW u \in Verifiers, NEW w \in Verifiers,
                     NEW i \in ClaimsOn(k)'[u], NEW j \in ClaimsOn(k)'[w]
              PROVE  u = w /\ i = j
          <6>1. u = v /\ w = v
            BY <5>4, <5>5
          <6>2. i = n + 1 /\ j = n + 1
            BY <5>4, <5>5, <6>1
          <6> QED BY <6>1, <6>2
        <5> QED BY <5>1, <5>2, <5>5 DEF Once
      <4>7. CASE k # k0
        <5>1. \A u \in Verifiers : ClaimsOn(k)'[u] \subseteq ClaimsOn(k)[u]
          BY <4>4, <4>7 DEF ClaimsOn
        <5>2. burned \subseteq burned'
          BY <3>5
        <5> QED BY <4>5, <5>1, <5>2, FewerClaims
      <4> QED BY <4>6, <4>7
    <3> QED BY <3>1, <3>4, <3>5
  <2>4. CASE Answer(v)
    <3> DEFINE c == call[v]
               S(k) == {i \in Vouched(c) : NonceKey(c.doc.proofs[i].event) = k}
    <3>1. /\ c # NoCall /\ answer[v] = NoAnswer /\ CallInv(c) /\ UNCHANGED <<burned, call>>
          /\ credited' = [k \in NonceKeys |-> credited[k] + Cardinality(S(k))]
      BY <2>4, AnswerEffect
    <3>2. PICK a \in Answers : answer' = [answer EXCEPT ![v] = a]
      BY <2>4, AnswerEffect
    <3>3. answer'[v] # NoAnswer /\ \A u \in Verifiers : u # v => answer'[u] = answer[u]
      <4>1. a.kind # NoAnswer.kind
        BY DEF Answers, NoAnswer
      <4> QED BY <3>2, <4>1 DEF DocumentInv
    <3>4. \A k : S(k) \subseteq Claims(c, NoAnswer, k)
      BY <3>1, VouchedIsClaimed
    <3>5. \A k \in NonceKeys : credited[k] \in Nat
      BY DEF DocumentInv
    <3>6. \A k : Claims(call'[v], answer'[v], k) = {}
      BY <3>3 DEF Claims
    <3> SUFFICES ASSUME NEW k \in NonceKeys
                 PROVE  Once(k, credited'[k], burned', ClaimsOn(k)')
      BY DEF OnceInv, Once
    <3>7. \A u \in Verifiers : ClaimsOn(k)'[u] = IF u = v THEN {} ELSE ClaimsOn(k)[u]
      BY <3>1, <3>3, <3>6 DEF ClaimsOn
    <3>13. Once(k, credited[k], burned', ClaimsOn(k))
      BY <3>1 DEF OnceInv
    <3>11. credited'[k] = credited[k] + Cardinality(S(k))
      BY <3>1
    <3>12. S(k) \subseteq ClaimsOn(k)[v]
      BY <3>1, <3>4 DEF ClaimsOn
    <3> HIDE DEF S
    <3>8. CASE S(k) = {}
      <4>1. Cardinality(S(k)) = 0
        BY <3>8, FS_EmptySet
      <4>2. credited'[k] = credited[k]
        BY <3>5, <3>11, <4>1
      <4> QED BY <3>7, <3>13, <4>2, FewerClaims
    <3>9. CASE S(k) # {}
      <4>1. PICK i : i \in S(k)
        BY <3>9
      <4>2. \A j \in ClaimsOn(k)[v] : i = j
        BY <3>13, <3>12, <4>1 DEF Once
      <4>3. S(k) = {i}
        BY <3>12, <4>1, <4>2
      <4>4. Cardinality(S(k)) = 1
        BY <4>3, FS_Singleton
      <4>5. credited[k] # 1 /\ credited[k] <= 1 /\ k \in burned'
        BY <3>13, <3>12, <4>1 DEF Once
      <4>6. credited'[k] = 1
        BY <3>5, <3>11, <4>4, <4>5
      <4>7. \A u \in Verifiers : u # v => ClaimsOn(k)[u] = {}
        BY <3>13, <3>12, <4>1 DEF Once
      <4>8. \A u \in Verifiers : ClaimsOn(k)'[u] = {}
        BY <3>7, <4>7
      <4> QED BY <4>5, <4>6, <4>8 DEF Once
    <3> QED BY <3>8, <3>9
  <2>5. CASE Return(v)
    <3>1. /\ call'[v] = NoCall
          /\ \A u \in Verifiers : u # v => call'[u] = call[u] /\ answer'[u] = answer[u]
      BY <2>5 DEF Return, DocumentInv
    <3>2. \A a, k : Claims(call'[v], a, k) = {}
      BY <3>1 DEF Claims
    <3> QED BY <2>5, <3>1, <3>2, OnceKept DEF Return
  <2>6. CASE Throw(v)
    <3>1. /\ call'[v] = NoCall /\ UNCHANGED <<answer, credited>> /\ burned \subseteq burned'
          /\ \A u \in Verifiers : u # v => call'[u] = call[u]
      BY <2>6, ThrowEffect DEF DocumentInv
    <3>2. \A a, k : Claims(call'[v], a, k) = {}
      BY <3>1 DEF Claims
    <3> QED BY <3>1, <3>2, OnceKept
  <2> QED BY <1>2, <2>1, <2>2, <2>3, <2>4, <2>5, <2>6, ServeKinds
<1>3. CASE UNCHANGED vars
  BY <1>3, OnceKept DEF vars
<1> QED BY <1>1, <1>2, <1>3 DEF Next
-------------------------------------------------------------------------------
(* The theorems *)

\* Before the first call nothing is on record and nothing is burned.
LEMMA EvidenceInit == Init => EvidenceInv
<1> SUFFICES ASSUME Init PROVE DocumentInv /\ OnceInv
  BY DEF EvidenceInv
<1>1. DocumentInv
  BY EvidenceAssumption DEF Init, DocumentInv, AnswerInv
<1>2. ASSUME NEW k \in NonceKeys PROVE Once(k, credited[k], burned, ClaimsOn(k))
  BY DEF Init, Once, ClaimsOn, Claims
<1> QED BY <1>1, <1>2 DEF OnceInv

\* ... and no step of a command or of the operator breaks the invariant.
LEMMA EvidenceStep == EvidenceInv /\ [Next]_vars => EvidenceInv'
BY DocumentStep, OnceStep DEF EvidenceInv

\* The invariant, whoever takes the steps.
LEMMA EvidenceHolds == Spec => []EvidenceInv
<1> QED BY EvidenceInit, EvidenceStep, PTL DEF Spec

\* The results on record of a call, one by one, and the document it is about.
LEMMA ResultsOf ==
  ASSUME NEW c, CallInv(c), NEW i \in 1 .. Len(c.results)
  PROVE  /\ c.results[i] \in Results /\ ResultOK(c, i) /\ i \in 1 .. Len(c.doc.proofs)
         /\ DOMAIN c.results = 1 .. Len(c.results)
         /\ c.doc.proofs[i] \in ProofRecords /\ c.doc \in DocumentRecords
<1>1. c \in CallRecords /\ c.results \in Seq(Results) /\ c.doc \in Documents
  BY DEF CallInv, CallRecords
<1>2. /\ Len(c.results) \in Nat /\ Len(c.doc.proofs) \in Nat
      /\ Len(c.results) <= Len(c.doc.proofs)
  BY <1>1, ProofsOf, LenProperties DEF CallInv
<1>3. i \in 1 .. Len(c.doc.proofs)
  BY <1>2
<1>4. c.results[i] \in Results
  BY <1>1, ElementOfSeq
<1>5. DOMAIN c.results = 1 .. Len(c.results)
  BY <1>1, LenProperties
<1> QED BY <1>1, <1>3, <1>4, <1>5, ProofsOf DEF CallInv

\* Registry, nonce store, calls, answers and credits are of the kinds the code gives
\* them; a result names a binding unless its envelope is malformed.
THEOREM DocumentsTypeCorrect == Spec => []TypeOK
<1>1. EvidenceInv => TypeOK
  <2> SUFFICES ASSUME DocumentInv PROVE TypeOK
    BY DEF EvidenceInv
  <2>1. ASSUME NEW v \in Verifiers, call[v] # NoCall PROVE CallOK(call[v])
    <3> DEFINE c == call[v]
    <3>1. CallInv(c) /\ c \in CallRecords
      BY <2>1 DEF DocumentInv, CallInv
    <3>2. DOMAIN c.results = 1 .. Len(c.results)
      BY <3>1, LenProperties DEF CallRecords
    <3> HIDE DEF c
    <3>3. ASSUME NEW i \in 1 .. Len(c.results)
          PROVE  /\ c.results[i] \in [code : Codes, binding : Bindings]
                 /\ c.results[i].binding = "none" <=> c.results[i].code = "PROOF_ENVELOPE"
      <4>1. ResultOK(c, i) /\ c.results[i] \in Results
        BY <3>1, ResultsOf
      <4>2. c.results[i].binding = "none" <=> ~c.doc.proofs[i].formed
        BY <4>1 DEF ResultOK, Binding
      <4>3. c.results[i].code = "PROOF_ENVELOPE" <=> ~c.doc.proofs[i].formed
        BY <4>1, FailureIs DEF ResultOK
      <4> QED BY <4>1, <4>2, <4>3 DEF Results
    <3> QED BY <3>1, <3>2, <3>3 DEF CallOK, CallInv, CallRecords, c
  <2> QED BY <2>1 DEF DocumentInv, TypeOK
<1> QED BY <1>1, EvidenceHolds, PTL

\* INV-04 for documents: however an event is wrapped and wherever it is presented, one
\* answer vouches for it at most, once.
THEOREM CreditedOnceHolds == Spec => []CreditedOnce
<1>1. EvidenceInv => CreditedOnce
  BY DEF EvidenceInv, OnceInv, Once, CreditedOnce
<1> QED BY <1>1, EvidenceHolds, PTL

\* A call that was answered with ok has a result without fault for every proof.
LEMMA AllowedMeansVerified ==
  ASSUME DocumentInv, NEW v \in Verifiers, answer[v].kind = "decision", answer[v].ok
  PROVE  LET c == call[v] IN
         /\ CallInv(c) /\ Opened(c.doc) /\ Len(c.results) = Len(c.doc.proofs)
         /\ answer[v].binding = OverallBinding(c)
         /\ \A i \in 1 .. Len(c.doc.proofs) :
              /\ c.results[i].binding = Binding(c.doc.proofs[i])
              /\ c.doc.proofs[i] \in ProofRecords /\ c.doc.proofs[i].formed
              /\ c.doc.proofs[i].root \in {NoRoot, c.registry}
              /\ Satisfies(c.doc.proofs[i], EffectivePolicy(c), c.now)
<1> DEFINE c == call[v]
<1>1. answer[v] # NoAnswer
  BY DEF NoAnswer
<1>2. /\ c # NoCall /\ ~HasNext(c) /\ CallInv(c) /\ Verified(c)
      /\ answer[v].binding = OverallBinding(c)
  BY <1>1 DEF DocumentInv, AnswerInv
<1> HIDE DEF c
<1>3. Opened(c.doc) /\ \A i \in DOMAIN c.results : c.results[i].code = "none"
  BY <1>2 DEF Verified
<1>4. c.results \in Seq(Results) /\ c.doc \in Documents
  BY <1>2 DEF CallInv, CallRecords
<1>5. /\ Len(c.results) \in Nat /\ Len(c.doc.proofs) \in Nat
      /\ DOMAIN c.results = 1 .. Len(c.results)
  BY <1>4, ProofsOf, LenProperties
<1>6. Len(c.results) = Len(c.doc.proofs)
  BY <1>2, <1>3, <1>5 DEF HasNext, CallInv
<1>7. ASSUME NEW i \in 1 .. Len(c.doc.proofs)
      PROVE  /\ c.results[i].binding = Binding(c.doc.proofs[i])
             /\ c.doc.proofs[i] \in ProofRecords /\ c.doc.proofs[i].formed
             /\ c.doc.proofs[i].root \in {NoRoot, c.registry}
             /\ Satisfies(c.doc.proofs[i], EffectivePolicy(c), c.now)
  <2>1. ResultOK(c, i) /\ c.results[i].code = "none" /\ c.doc.proofs[i] \in ProofRecords
    BY <1>2, <1>3, <1>5, <1>6, ResultsOf
  <2>2. FailureBeforeClaim(c.doc.proofs[i], c.registry, c.now) = "none"
    BY <2>1 DEF ResultOK
  <2> QED BY <2>1, <2>2, FailureIs DEF ResultOK
<1> QED BY <1>2, <1>3, <1>6, <1>7 DEF c

\* No registry is the absence of one.
LEMMA NoRootIsNone == NoRoot \notin Registries
<1> SUFFICES ASSUME NoRoot \in Registries PROVE FALSE
  OBVIOUS
<1>1. "kind" \in DOMAIN NoRoot
  BY DEF NoRoot
<1>2. DOMAIN NoRoot = {"apps", "keys", "eligible"}
  BY DEF Registries
<1> QED BY <1>1, <1>2

\* POLICY_MODEL.md: what is allowed satisfies, proof by proof, the policy that the
\* verifier asked for, whatever policy the passport brings.
THEOREM PolicyIsHonouredHolds == Spec => []PolicyIsHonoured
<1>1. EvidenceInv => PolicyIsHonoured
  <2> SUFFICES ASSUME DocumentInv, NEW v \in Verifiers,
                      answer[v].kind = "decision", answer[v].ok, call[v].asked # NoPolicy,
                      NEW i \in DOMAIN call[v].doc.proofs
               PROVE  LET c == call[v]
                          p == c.doc.proofs[i]
                      IN /\ p.event \in c.asked.admits
                         /\ c.now - p.event.ts <= c.asked.max_age
                         /\ c.asked.require_epoch_bound => p.root = c.registry
    BY DEF EvidenceInv, PolicyIsHonoured
  <2> DEFINE c == call[v]
             p == c.doc.proofs[i]
  <2>1. CallInv(c) /\ c.doc \in Documents
    BY AllowedMeansVerified DEF CallInv, CallRecords
  <2>2. i \in 1 .. Len(c.doc.proofs)
    BY <2>1, ProofsOf, LenProperties
  <2>3. p.root \in {NoRoot, c.registry} /\ Satisfies(p, EffectivePolicy(c), c.now)
    BY <2>2, AllowedMeansVerified
  <2>4. EffectivePolicy(c) = c.asked
    BY DEF EffectivePolicy
  <2> QED BY <2>3, <2>4 DEF Satisfies
<1> QED BY <1>1, EvidenceHolds, PTL

\* passport.js: what is allowed as EPOCH_BOUND was pinned to the verifier's registry in
\* every proof, what is allowed as LOCAL in none.
THEOREM BindingIsHonestHolds == Spec => []BindingIsHonest
<1>1. EvidenceInv => BindingIsHonest
  <2> SUFFICES ASSUME DocumentInv, NEW v \in Verifiers, answer[v].kind = "decision", answer[v].ok
               PROVE  LET c == call[v]
                          roots == {c.doc.proofs[i].root : i \in DOMAIN c.doc.proofs}
                      IN /\ answer[v].binding = "EPOCH_BOUND" <=> roots = {c.registry}
                         /\ answer[v].binding = "LOCAL" <=> roots = {NoRoot}
    BY DEF EvidenceInv, BindingIsHonest
  <2> DEFINE c == call[v]
             m == Len(c.doc.proofs)
             bindings == {c.results[i].binding : i \in DOMAIN c.results}
             roots == {c.doc.proofs[i].root : i \in DOMAIN c.doc.proofs}
  <2>1. /\ CallInv(c) /\ Opened(c.doc) /\ Len(c.results) = m
        /\ answer[v].binding = OverallBinding(c)
    BY AllowedMeansVerified
  <2>2. \A i \in 1 .. m :
          /\ c.results[i].binding = Binding(c.doc.proofs[i])
          /\ c.doc.proofs[i].formed /\ c.doc.proofs[i].root \in {NoRoot, c.registry}
    BY AllowedMeansVerified
  <2> HIDE DEF c
  <2>3. c.doc \in Documents /\ c.results \in Seq(Results) /\ c.registry \in Registries
    BY <2>1 DEF CallInv, CallRecords
  <2>4. m \in Nat /\ DOMAIN c.results = 1 .. m /\ DOMAIN c.doc.proofs = 1 .. m
    BY <2>1, <2>3, ProofsOf, LenProperties
  <2>5. (c.doc.kind = "proof" /\ m = 1) \/ m # 0
    BY <2>1, <2>3, EvidenceAssumption DEF Opened
  <2> HIDE DEF m
  <2>6. 1 \in 1 .. m
    <3>1. m \in Nat /\ m # 0
      BY <2>4, <2>5
    <3> QED BY <3>1
  <2>7. c.registry # NoRoot
    BY <2>3, NoRootIsNone
  <2>8. \A i \in 1 .. m :
          /\ c.results[i].binding = "EPOCH_BOUND" <=> c.doc.proofs[i].root = c.registry
          /\ c.results[i].binding = "LOCAL" <=> c.doc.proofs[i].root = NoRoot
          /\ c.results[i].binding \in {"EPOCH_BOUND", "LOCAL"}
    BY <2>2, <2>7 DEF Binding
  <2>9. /\ roots = {c.registry} <=> \A i \in 1 .. m : c.doc.proofs[i].root = c.registry
        /\ roots = {NoRoot} <=> \A i \in 1 .. m : c.doc.proofs[i].root = NoRoot
    BY <2>4, <2>6
  <2>10. /\ bindings = {"EPOCH_BOUND"} <=> \A i \in 1 .. m : c.results[i].binding = "EPOCH_BOUND"
         /\ bindings = {"LOCAL"} <=> \A i \in 1 .. m : c.results[i].binding = "LOCAL"
    BY <2>4, <2>6
  <2>11. c.doc.kind = "proof" => m = 1
    BY <2>3, EvidenceAssumption DEF m
  <2>12. c.doc.kind = "proof" => bindings = {c.results[1].binding}
    BY <2>4, <2>11
  <2>13. /\ OverallBinding(c) = "EPOCH_BOUND" <=> bindings = {"EPOCH_BOUND"}
         /\ OverallBinding(c) = "LOCAL" <=> bindings = {"LOCAL"}
    <3>1. c.results[1].binding \in bindings
      BY <2>4, <2>6
    <3>2. OverallBinding(c) =
            IF c.doc.kind = "proof" \/ bindings \in {{"EPOCH_BOUND"}, {"LOCAL"}}
            THEN c.results[1].binding ELSE "MIXED"
      BY <2>1 DEF OverallBinding
    <3> HIDE DEF bindings
    <3> QED BY <2>12, <3>1, <3>2
  <2> HIDE DEF roots, bindings
  <2>14. /\ answer[v].binding = "EPOCH_BOUND" <=> roots = {c.registry}
         /\ answer[v].binding = "LOCAL" <=> roots = {NoRoot}
    BY <2>1, <2>8, <2>9, <2>10, <2>13
  <2> QED BY <2>14 DEF c, roots
<1> QED BY <1>1, EvidenceHolds, PTL

\* INV-05 for documents: a nonce is burned only for a proof of an intact document that
\* is pinned to no other registry and whose key the verifier's registry has active.
THEOREM BurnsInTheRightEpochHolds == Spec => BurnsInTheRightEpoch
<1> DEFINE Sponsored(k) == \E v \in Verifiers :
             /\ call[v] # NoCall /\ HasNext(call[v])
             /\ Opened(call[v].doc)
             /\ LET p == NextProof(call[v]) IN
                  /\ NonceKey(p.event) = k
                  /\ p.formed /\ p.root \in {NoRoot, call[v].registry}
                  /\ call[v].registry.keys[<<p.event.app, p.event.key>>] = "active"
<1>1. EvidenceInv /\ [Next]_vars => \A k \in burned' \ burned : Sponsored(k)
  <2> SUFFICES ASSUME DocumentInv, [Next]_vars, NEW k \in burned' \ burned PROVE Sponsored(k)
    BY DEF EvidenceInv
  <2>1. CASE RegisterKey \/ RevokeKey
    BY <2>1, EditEffect DEF DocumentInv
  <2>2. ASSUME NEW v \in Verifiers, Serve(v) PROVE Sponsored(k)
    <3>1. ASSUME call[v] # NoCall, HasNext(call[v]),
                 FailureBeforeClaim(NextProof(call[v]), call[v].registry, call[v].now) = "none",
                 burned' \in {burned, burned \union {NonceKey(NextProof(call[v]).event)}}
          PROVE  Sponsored(k)
      <4> DEFINE c == call[v]
                 p == NextProof(c)
      <4>1. NonceKey(p.event) = k
        BY <3>1
      <4>2. p.formed /\ p.root \in {NoRoot, c.registry} /\ keyActive(p.event, c.registry)
        BY <3>1, FailureIs DEF PassesGates
      <4>3. Opened(c.doc)
        BY <3>1 DEF HasNext
      <4> QED BY <3>1, <4>1, <4>2, <4>3 DEF keyActive
    <3>2. CASE ClaimProof(v)
      BY <3>1, <3>2, ClaimEffect
    <3>3. CASE Throw(v)
      BY <3>1, <3>3, ThrowEffect
    <3>4. CASE ~ClaimProof(v) /\ ~Throw(v)
      <4>1. UNCHANGED burned
        BY <2>2, <3>4, ServeKinds DEF Present, RejectProof, Answer, Return
      <4> QED BY <4>1
    <3> QED BY <3>2, <3>3, <3>4
  <2>3. CASE UNCHANGED vars
    BY <2>3 DEF vars
  <2> QED BY <2>1, <2>2, <2>3 DEF Next
<1>2. [][\A k \in burned' \ burned : Sponsored(k)]_vars => BurnsInTheRightEpoch
  BY DEF BurnsInTheRightEpoch
<1> QED BY <1>1, <1>2, EvidenceHolds, PTL DEF Spec
-------------------------------------------------------------------------------
(* The server *)

\* The server's requests are the commands of a verifier, one at a time, with a
\* registry that stays and a store that does not fail.
ServerSpec == Init /\ [][\E v \in Verifiers : Request(v)]_vars

\* app/server.mjs: what the endpoints do is something the commands could have done, so
\* that every theorem above is one about the server.
THEOREM ServerImplementsCommands == ServerSpec => Spec
<1>1. (\E v \in Verifiers : Request(v)) => Next
  BY DEF Request, ServeVerifyProof, ServeVerifyPassport, ServeDecide, ServeDispute, Next, Serve,
         cmdProofVerify, cmdPassportVerify, cmdDecide, cmdDispute
<1>2. [\E v \in Verifiers : Request(v)]_vars => [Next]_vars
  BY <1>1
<1> QED BY <1>2, PTL DEF ServerSpec, Spec
===============================================================================
