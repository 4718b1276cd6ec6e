-------------------------------- MODULE Evidence --------------------------------
(***************************************************************************)
(* src/src/piproof.js, passport.js, policy.js, dispute.js and the decide   *)
(* of sdk.js: documents that carry signed events from one application to   *)
(* another, and what verifiers answer about them.                          *)
(*                                                                         *)
(*   document = PiProof        one event, perhaps pinned to a registry     *)
(*            | Passport       several PiProofs, perhaps with a policy     *)
(*                                                                         *)
(* A call is given the verifier's registry and takes one reading of its    *)
(* clock.  It verifies the proofs of the document in turn; the gates and   *)
(* the policy are pure, so all that other verifiers see of it, and it of   *)
(* them, are the claims in the shared nonce store, one for each proof.     *)
(***************************************************************************)
EXTENDS Gates, Sequences, FiniteSets

CONSTANTS
  Verifiers,  \* processes that share the nonce store and the registry file
  Nonces,
  Events,     \* signed events
  Documents,  \* documents that are presented, any number of times
  Policies,   \* policies that callers ask for
  Genesis,    \* the registry to begin with
  Times       \* clock readings

NoRoot == [kind |-> "none"]
NoPolicy == [kind |-> "none"]
NonceKeys == Apps \X Nonces

\* A policy: the rules on the event alone (issuers, classes, weights, eligibility
\* flags) are the set of events that pass them.
PolicyRules == [require_epoch_bound : BOOLEAN, admits : SUBSET Events, max_age : Nat]
\* `formed' says whether the envelope is, `root' is the registry it is pinned to.
ProofRecords == [event : Events, root : Registries \union {NoRoot}, formed : BOOLEAN]
\* `intact' says whether evidence_root is the hash of the proofs.
DocumentRecords ==
  [kind : {"proof", "passport"}, formed : BOOLEAN, intact : BOOLEAN,
   policy : PolicyRules \union {NoPolicy}, proofs : Seq(ProofRecords)]

ASSUME EvidenceAssumption ==
  /\ Events \subseteq [app : Apps, key : KeyIds, nonce : Nonces, uid : Uids, ts : Int,
                       declared : BOOLEAN, defect : Defects]
  /\ Genesis \in Registries /\ Times \subseteq Int
  /\ Policies \subseteq PolicyRules \union {NoPolicy}
  /\ Documents \subseteq DocumentRecords
  /\ \A d \in Documents :
       \/ d.kind = "proof" /\ Len(d.proofs) = 1 /\ d.policy = NoPolicy
       \/ d.kind = "passport" /\ (Len(d.proofs) = 0 => ~d.formed)

VARIABLES
  registry,  \* the registry file
  burned,    \* the nonce store
  call,      \* call[v]: the call v is in
  answer,    \* answer[v]: what it has come to
  credited   \* history: how many answers credited an event with this nonce key

vars == <<registry, burned, call, answer, credited>>

NoCall == [kind |-> "none"]
NoAnswer == [kind |-> "none"]

Init ==
  /\ registry = Genesis
  /\ burned = {}
  /\ call = [v \in Verifiers |-> NoCall]
  /\ answer = [v \in Verifiers |-> NoAnswer]
  /\ credited = [k \in NonceKeys |-> 0]

Publish(r) == registry' = r /\ UNCHANGED <<burned, call, answer, credited>>

RegisterKey == \E a \in Apps, id \in KeyIds : Publish(registerKey(registry, a, id))
RevokeKey == \E a \in Apps, id \in KeyIds : Publish(revokeKey(registry, a, id))
-------------------------------------------------------------------------------
(* verifyPiProof *)

\* Mutant: the binding is reported although the envelope is malformed.
Binding_always(p) == IF p.root = NoRoot THEN "LOCAL" ELSE "EPOCH_BOUND"

Binding(p) == IF ~p.formed THEN "none" ELSE IF p.root = NoRoot THEN "LOCAL" ELSE "EPOCH_BOUND"

\* Mutants: a pinned proof is verified in any epoch; the policy of the passport
\* comes before the one the verifier asks for.
FailureBeforeClaim_anyEpoch(p, r, now) ==
  IF ~p.formed THEN "PROOF_ENVELOPE" ELSE FailedCheck(p.event, r, now)
EffectivePolicy_passportFirst(c) == IF c.doc.policy # NoPolicy THEN c.doc.policy ELSE c.asked

\* The step that fails before the nonce is claimed, or "none".
FailureBeforeClaim(p, r, now) ==
  IF ~p.formed THEN "PROOF_ENVELOPE"
  ELSE IF p.root \notin {NoRoot, r} THEN "REGISTRY_ROOT"
  ELSE FailedCheck(p.event, r, now)

\* evaluatePolicy: no rule is violated.
Satisfies(p, policy, now) ==
  policy # NoPolicy =>
    /\ policy.require_epoch_bound => p.root # NoRoot
    /\ p.event \in policy.admits
    /\ now - p.event.ts <= policy.max_age

\* policyOverride ?? passport.policy
EffectivePolicy(c) == IF c.asked # NoPolicy THEN c.asked ELSE c.doc.policy

Opened(d) == d.kind = "proof" \/ (d.formed /\ d.intact)

\* A document is presented, for a decision or for a dispute report.
Present(v, op, d, policy, now) ==
  /\ call[v] = NoCall
  /\ call' = [call EXCEPT ![v] =
       [op |-> op, doc |-> d, asked |-> policy, registry |-> registry, now |-> now,
        results |-> <<>>]]
  /\ UNCHANGED <<registry, burned, answer, credited>>

HasNext(c) == Opened(c.doc) /\ Len(c.results) < Len(c.doc.proofs)
NextProof(c) == c.doc.proofs[Len(c.results) + 1]

Record(v, p, code) ==
  call' = [call EXCEPT ![v].results = Append(@, [code |-> code, binding |-> Binding(p)])]

\* The next proof fails before its nonce is claimed.
RejectProof(v) ==
  /\ call[v] # NoCall /\ HasNext(call[v])
  /\ LET c == call[v]
         failed == FailureBeforeClaim(NextProof(c), c.registry, c.now)
     IN failed # "none" /\ Record(v, NextProof(c), failed)
  /\ UNCHANGED <<registry, burned, answer, credited>>

\* Mutant: the claim is not looked at.
ClaimProof_unchecked(v) ==
  /\ call[v] # NoCall /\ HasNext(call[v])
  /\ LET c == call[v]
         p == NextProof(c)
     IN /\ FailureBeforeClaim(p, c.registry, c.now) = "none"
        /\ burned' = burned \union {NonceKey(p.event)}
        /\ Record(v, p, IF Satisfies(p, EffectivePolicy(c), c.now) THEN "none" ELSE "POLICY")
  /\ UNCHANGED <<registry, answer, credited>>

\* The next proof passes G1 to G8 and its nonce is claimed.  Only after that
\* is the policy evaluated.
ClaimProof(v) ==
  /\ call[v] # NoCall /\ HasNext(call[v])
  /\ LET c == call[v]
         p == NextProof(c)
     IN /\ FailureBeforeClaim(p, c.registry, c.now) = "none"
        /\ \/ /\ NonceKey(p.event) \in burned
              /\ Record(v, p, "NONCE_REPLAY")
              /\ UNCHANGED burned
           \/ /\ NonceKey(p.event) \notin burned
              /\ burned' = burned \union {NonceKey(p.event)}
              /\ Record(v, p, IF Satisfies(p, EffectivePolicy(c), c.now) THEN "none" ELSE "POLICY")
  /\ UNCHANGED <<registry, answer, credited>>

\* claimIfAbsent throws, the key burned or not, and the whole call with it.
Throw(v) ==
  /\ call[v] # NoCall /\ HasNext(call[v])
  /\ LET c == call[v]
         p == NextProof(c)
     IN /\ FailureBeforeClaim(p, c.registry, c.now) = "none"
        /\ burned' \in {burned, burned \union {NonceKey(p.event)}}
  /\ call' = [call EXCEPT ![v] = NoCall]
  /\ UNCHANGED <<registry, answer, credited>>
-------------------------------------------------------------------------------
(* Answers: decide, and buildDisputeReport *)

Verified(c) ==
  /\ Opened(c.doc)
  /\ \A i \in DOMAIN c.results : c.results[i].code = "none"

\* Mutant: one pinned proof makes the passport pinned.
OverallBinding_any(c) ==
  LET bindings == {c.results[i].binding : i \in DOMAIN c.results} IN
  IF "EPOCH_BOUND" \in bindings THEN "EPOCH_BOUND" ELSE "LOCAL"

\* A passport is as pinned as its weakest proof.
OverallBinding(c) ==
  LET bindings == {c.results[i].binding : i \in DOMAIN c.results} IN
  IF ~Opened(c.doc) THEN "none"
  ELSE IF c.doc.kind = "proof" \/ bindings \in {{"EPOCH_BOUND"}, {"LOCAL"}}
    THEN c.results[1].binding
    ELSE "MIXED"

\* The steps that failed for some proof or for the passport.  A policy is no step.
FailedSteps(c) ==
  ({c.results[i].code : i \in DOMAIN c.results} \ {"none", "POLICY"})
  \union (IF ~c.doc.formed THEN {"PASSPORT_ENVELOPE"} ELSE {})
  \union (IF c.doc.formed /\ ~c.doc.intact THEN {"EVIDENCE_ROOT"} ELSE {})

\* The steps that the chain of questions looks at.
Consulted == {"EVIDENCE_ROOT", "REGISTRY_ROOT", "NONCE_REPLAY", "KEY_ACTIVE", "WEIGHT_BOUND"}

Verdict(c) ==
  IF c.doc.proofs = <<>> THEN "UNVERIFIABLE"
  ELSE IF FailedSteps(c) \intersect Consulted # {} THEN "INVALID" ELSE "VALID"

\* The proofs that an answer vouches for: all those of an allowed document, and
\* those of a document reported VALID that got as far as the nonce store.
Vouched(c) ==
  IF c.op = "decide" THEN {i \in DOMAIN c.results : Verified(c)}
  ELSE {i \in DOMAIN c.results :
          /\ Verdict(c) = "VALID"
          /\ FailureBeforeClaim(c.doc.proofs[i], c.registry, c.now) = "none"}

Answer(v) ==
  /\ call[v] # NoCall /\ answer[v] = NoAnswer /\ ~HasNext(call[v])
  /\ LET c == call[v] IN
       /\ answer' = [answer EXCEPT ![v] =
            IF c.op = "decide"
            THEN [kind |-> "decision", ok |-> Verified(c), binding |-> OverallBinding(c)]
            ELSE [kind |-> "report", verdict |-> Verdict(c)]]
       /\ credited' = [k \in NonceKeys |-> credited[k] +
            Cardinality({i \in Vouched(c) : NonceKey(c.doc.proofs[i].event) = k})]
  /\ UNCHANGED <<registry, burned, call>>

Return(v) ==
  /\ answer[v] # NoAnswer
  /\ call' = [call EXCEPT ![v] = NoCall]
  /\ answer' = [answer EXCEPT ![v] = NoAnswer]
  /\ UNCHANGED <<registry, burned, credited>>

Work(v) == RejectProof(v) \/ ClaimProof(v) \/ Answer(v) \/ Return(v)
-------------------------------------------------------------------------------
(* The commands of cli.js, with --nonces.  What a command expects to be a  *)
(* proof, or a passport, and is not, is one whose envelope is malformed.   *)

Open(v, op, documents) ==
  \E d \in documents, policy \in Policies, now \in Times : Present(v, op, d, policy, now)
OfKind(kind) == {d \in Documents : d.kind = kind}

cmdProofVerify(v) == Open(v, "decide", OfKind("proof"))
cmdPassportVerify(v) == Open(v, "decide", OfKind("passport"))
cmdDecide(v) == Open(v, "decide", Documents)
cmdDispute(v) == Open(v, "dispute", Documents)

Serve(v) ==
  \/ cmdProofVerify(v) \/ cmdPassportVerify(v) \/ cmdDecide(v) \/ cmdDispute(v)
  \/ Work(v) \/ Throw(v)

Next == RegisterKey \/ RevokeKey \/ \E v \in Verifiers : Serve(v)

Spec == Init /\ [][Next]_vars
-------------------------------------------------------------------------------
(* Properties *)

Codes == {"none", "POLICY", "PROOF_ENVELOPE", "REGISTRY_ROOT", "NONCE_REPLAY"}
           \union {Checks[i] : i \in DOMAIN Checks}
Bindings == {"none", "LOCAL", "EPOCH_BOUND", "MIXED"}
CallOK(c) ==
  /\ c.op \in {"decide", "dispute"} /\ c.doc \in Documents
  /\ c.asked \in Policies /\ c.registry \in Registries /\ c.now \in Times
  /\ Len(c.results) <= Len(c.doc.proofs)
  /\ \A i \in DOMAIN c.results :
       /\ c.results[i] \in [code : Codes, binding : Bindings]
       /\ c.results[i].binding = "none" <=> c.results[i].code = "PROOF_ENVELOPE"
Answers == [kind : {"decision"}, ok : BOOLEAN, binding : Bindings]
             \union [kind : {"report"}, verdict : {"VALID", "INVALID", "UNVERIFIABLE"}]

\* The values each variable may take; a result has a binding unless its envelope is
\* malformed.
TypeOK ==
  /\ registry \in Registries
  /\ burned \subseteq NonceKeys
  /\ \A v \in Verifiers : call[v] = NoCall \/ CallOK(call[v])
  /\ answer \in [Verifiers -> Answers \union {NoAnswer}]
  /\ credited \in [NonceKeys -> Nat]

\* INV-04 for documents: however one event is wrapped (alone, pinned, twice in one
\* passport, in several passports) and wherever it is presented, for a
\* decision or in a dispute, at most one answer vouches for it, once.
CreditedOnce == \A k \in NonceKeys : credited[k] <= 1

\* POLICY_MODEL.md: what a verifier allows satisfies, proof by proof, the policy
\* the verifier asked for, whatever policy the passport brings along; and if
\* it asked for pinned evidence, each proof is pinned to the registry of this
\* very verifier.
PolicyIsHonoured ==
  \A v \in Verifiers :
    answer[v].kind = "decision" /\ answer[v].ok /\ call[v].asked # NoPolicy =>
      LET rules == call[v].asked IN
      \A i \in DOMAIN call[v].doc.proofs :
        LET p == call[v].doc.proofs[i] IN
        /\ p.event \in rules.admits
        /\ call[v].now - p.event.ts <= rules.max_age
        /\ rules.require_epoch_bound => p.root = call[v].registry

\* passport.js: "a passport is only as epoch-pinned as its weakest proof": what is
\* allowed as EPOCH_BOUND was pinned to the verifier's registry in every proof, what
\* is allowed as LOCAL in none.
BindingIsHonest ==
  \A v \in Verifiers :
    answer[v].kind = "decision" /\ answer[v].ok =>
      LET roots == {call[v].doc.proofs[i].root : i \in DOMAIN call[v].doc.proofs} IN
      /\ answer[v].binding = "EPOCH_BOUND" <=> roots = {call[v].registry}
      /\ answer[v].binding = "LOCAL" <=> roots = {NoRoot}

\* INV-05 for documents: a nonce is burned only on behalf of a proof whose
\* document is what its evidence root says, that is not pinned to another
\* registry, and whose key the verifier's registry has as active.
BurnsInTheRightEpoch ==
  [][\A k \in burned' \ burned : \E v \in Verifiers :
       /\ call[v] # NoCall /\ HasNext(call[v])
       /\ Opened(call[v].doc)
       /\ LET p == NextProof(call[v]) IN
            /\ NonceKey(p.event) = k
            /\ p.formed /\ p.root \in {NoRoot, call[v].registry}
            /\ call[v].registry.keys[<<p.event.app, p.event.key>>] = "active"]_vars

\* dispute.js: "VALID: every layer checked here passed": what is reported VALID has
\* been verified, every proof of it.
ValidMeansVerified ==
  \A v \in Verifiers :
    answer[v].kind = "report" /\ answer[v].verdict = "VALID" => Verified(call[v])
===============================================================================
