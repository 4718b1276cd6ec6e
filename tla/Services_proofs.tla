---------------------------- MODULE Services_proofs ----------------------------
(***************************************************************************)
(* The services around the documents.  First each of them under its own    *)
(* specification: the page in the browser, escrow attestations, the Python *)
(* verifier and the way of a signed value; then all of them in Services.   *)
(*                                                                         *)
(* The argument for signed values goes by the depth of nesting: what one   *)
(* level of canonicalize and JSON.parse does with the parts of a value is  *)
(* stated of any functions that keep the canonical forms of the parts      *)
(* (KeepsTexts) and their meanings (KeepsMeaning), and the functions of    *)
(* each level are such functions for the level above.                      *)
(***************************************************************************)
EXTENDS Services, Evidence_proofs, Dashboard_proofs

-------------------------------------------------------------------------------
(* The page: verifyEventOffline and verify.js are one pipeline *)

\* What the page says of an event, fault by fault.
LEMMA OfflineIs ==
  ASSUME NEW e, NEW r, NEW now
  PROVE  verifyEventOffline(e, r, now) =
           IF e.defect = "schema" THEN "SCHEMA"
           ELSE IF e.app \notin r.apps THEN "UNKNOWN_APP"
           ELSE IF r.keys[<<e.app, e.key>>] = "unknown" THEN "UNKNOWN_KEY"
           ELSE IF r.keys[<<e.app, e.key>>] = "revoked" THEN "REVOKED_KEY"
           ELSE IF e.defect = "canonical" THEN "CANONICALIZATION"
           ELSE IF e.defect = "signature" THEN "INVALID_SIGNATURE"
           ELSE IF now - e.ts < -W THEN "TIMESTAMP_IN_FUTURE"
           ELSE IF TooOld(now - e.ts) THEN "TIMESTAMP_EXPIRED"
           ELSE IF e.defect = "weight" THEN "WEIGHT_OVERFLOW"
           ELSE IF ~e.declared \/ e.uid \notin r.eligible THEN "INELIGIBLE_USER"
           ELSE "none"
<1> DEFINE faults == Faults(e, r, now)
           First(i) == faults[i] /\ \A j \in 1 .. i - 1 : ~faults[j]
           first == {i \in DOMAIN faults : First(i)}
<1>1. /\ DOMAIN faults = 1 .. 10
      /\ faults[1] = (e.defect = "schema")
      /\ faults[2] = (e.app \notin r.apps)
      /\ faults[3] = (r.keys[<<e.app, e.key>>] = "unknown")
      /\ faults[4] = (r.keys[<<e.app, e.key>>] = "revoked")
      /\ faults[5] = (e.defect = "canonical")
      /\ faults[6] = (e.defect = "signature")
      /\ faults[7] = (now - e.ts < -W)
      /\ faults[8] = (TooOld(now - e.ts))
      /\ faults[9] = (e.defect = "weight")
      /\ faults[10] = (~e.declared \/ e.uid \notin r.eligible)
  BY DEF Faults
<1>2. /\ OfflineCodes[1] = "SCHEMA" /\ OfflineCodes[2] = "UNKNOWN_APP"
      /\ OfflineCodes[3] = "UNKNOWN_KEY" /\ OfflineCodes[4] = "REVOKED_KEY"
      /\ OfflineCodes[5] = "CANONICALIZATION" /\ OfflineCodes[6] = "INVALID_SIGNATURE"
      /\ OfflineCodes[7] = "TIMESTAMP_IN_FUTURE" /\ OfflineCodes[8] = "TIMESTAMP_EXPIRED"
      /\ OfflineCodes[9] = "WEIGHT_OVERFLOW" /\ OfflineCodes[10] = "INELIGIBLE_USER"
  BY DEF OfflineCodes
<1>3. verifyEventOffline(e, r, now) =
        IF first = {} THEN "none" ELSE OfflineCodes[CHOOSE i \in first : TRUE]
  BY DEF verifyEventOffline
<1> HIDE DEF faults
<1>4. /\ DOMAIN faults = 1 .. 10
      /\ faults[1] <=> e.defect = "schema"
      /\ faults[2] <=> e.app \notin r.apps
      /\ faults[3] <=> r.keys[<<e.app, e.key>>] = "unknown"
      /\ faults[4] <=> r.keys[<<e.app, e.key>>] = "revoked"
      /\ faults[5] <=> e.defect = "canonical"
      /\ faults[6] <=> e.defect = "signature"
      /\ faults[7] <=> now - e.ts < -W
      /\ faults[8] <=> TooOld(now - e.ts)
      /\ faults[9] <=> e.defect = "weight"
      /\ faults[10] <=> ~e.declared \/ e.uid \notin r.eligible
  BY <1>1
<1>5. ASSUME NEW i \in 1 .. 10, First(i)
      PROVE  verifyEventOffline(e, r, now) = OfflineCodes[i]
  <2>1. i \in first
    BY <1>4, <1>5
  <2>2. ASSUME NEW j \in first PROVE j = i
    <3>1. j \in 1 .. 10 /\ First(j)
      BY <1>4, <2>2
    <3>2. ~(j < i) /\ ~(i < j)
      BY <1>5, <3>1
    <3> QED BY <3>1, <3>2
  <2> HIDE DEF first
  <2> QED BY <1>3, <2>1, <2>2
<1>6. CASE first = {}
  <2>1. \A i \in 1 .. 10 : ~First(i)
    BY <1>4, <1>6
  <2>2. /\ ~faults[1] /\ ~faults[2] /\ ~faults[3] /\ ~faults[4] /\ ~faults[5]
        /\ ~faults[6] /\ ~faults[7] /\ ~faults[8] /\ ~faults[9] /\ ~faults[10]
    BY <2>1
  <2> QED BY <1>4, <1>3, <1>6, <2>2
<1>7. CASE first # {}
  <2>1. PICK i \in 1 .. 10 : First(i)
    BY <1>4, <1>7
  <2>2. verifyEventOffline(e, r, now) = OfflineCodes[i]
    BY <1>5, <2>1
  <2>3. /\ i = 1 => faults[1]
        /\ i > 1 => ~faults[1]
        /\ i = 2 => faults[2]
        /\ i > 2 => ~faults[2]
        /\ i = 3 => faults[3]
        /\ i > 3 => ~faults[3]
        /\ i = 4 => faults[4]
        /\ i > 4 => ~faults[4]
        /\ i = 5 => faults[5]
        /\ i > 5 => ~faults[5]
        /\ i = 6 => faults[6]
        /\ i > 6 => ~faults[6]
        /\ i = 7 => faults[7]
        /\ i > 7 => ~faults[7]
        /\ i = 8 => faults[8]
        /\ i > 8 => ~faults[8]
        /\ i = 9 => faults[9]
        /\ i > 9 => ~faults[9]
        /\ i = 10 => faults[10]
    BY <2>1
  <2> HIDE DEF First, first
  <2>4. i \in {1, 2, 3, 4, 5, 6, 7, 8, 9, 10}
    OBVIOUS
  <2> QED BY <1>4, <1>2, <2>2, <2>3, <2>4
<1> QED BY <1>6, <1>7

\* The page finds nothing wrong with an event, or the check at which a live verifier
\* with the same registry and clock stops.
LEMMA OneVerdict ==
  ASSUME NEW e \in Events, NEW r \in Registries, NEW now \in Int
  PROVE  LET code == verifyEventOffline(e, r, now)
             check == FailedCheck(e, r, now)
         IN (code = "none" <=> check = "none") /\ (code # "none" => check = CheckOf(code))
<1> DEFINE code == verifyEventOffline(e, r, now)
           check == FailedCheck(e, r, now)
           status == r.keys[<<e.app, e.key>>]
<1>1. e.app \in Apps /\ e.key \in KeyIds /\ e.ts \in Int /\ e.defect \in Defects
  BY EvidenceAssumption
<1>2. status \in {"unknown", "active", "revoked"}
  BY <1>1 DEF Registries, KeyStatuses
<1>3. e.defect \in {"none", "schema", "canonical", "signature", "weight"}
  BY <1>1 DEF Defects
<1>4. fresh(e, now) <=> ~(now - e.ts < -W) /\ ~TooOld(now - e.ts)
  BY <1>1, WindowAssumption DEF fresh, TooOld
<1>5. code = IF e.defect = "schema" THEN "SCHEMA"
             ELSE IF e.app \notin r.apps THEN "UNKNOWN_APP"
             ELSE IF status = "unknown" THEN "UNKNOWN_KEY"
             ELSE IF status = "revoked" THEN "REVOKED_KEY"
             ELSE IF e.defect = "canonical" THEN "CANONICALIZATION"
             ELSE IF e.defect = "signature" THEN "INVALID_SIGNATURE"
             ELSE IF now - e.ts < -W THEN "TIMESTAMP_IN_FUTURE"
             ELSE IF TooOld(now - e.ts) THEN "TIMESTAMP_EXPIRED"
             ELSE IF e.defect = "weight" THEN "WEIGHT_OVERFLOW"
             ELSE IF ~e.declared \/ e.uid \notin r.eligible THEN "INELIGIBLE_USER"
             ELSE "none"
  BY OfflineIs
<1>6. check = IF e.defect = "schema" THEN "SCHEMA"
              ELSE IF e.app \notin r.apps THEN "APP_KNOWN"
              ELSE IF status # "active" THEN "KEY_ACTIVE"
              ELSE IF e.defect = "canonical" THEN "CANONICALIZATION"
              ELSE IF e.defect = "signature" THEN "SIGNATURE"
              ELSE IF ~fresh(e, now) THEN "TIMESTAMP_FRESHNESS"
              ELSE IF e.defect = "weight" THEN "WEIGHT_BOUND"
              ELSE IF ~(e.declared /\ e.uid \in r.eligible) THEN "ELIGIBILITY"
              ELSE "none"
  BY FailedCheckIs DEF schemaOk, appKnown, keyActive, canonicalOk, signatureOk, weightOk, eligible
<1>7. /\ CheckOf("SCHEMA") = "SCHEMA"
      /\ CheckOf("UNKNOWN_APP") = "APP_KNOWN"
      /\ CheckOf("UNKNOWN_KEY") = "KEY_ACTIVE"
      /\ CheckOf("REVOKED_KEY") = "KEY_ACTIVE"
      /\ CheckOf("CANONICALIZATION") = "CANONICALIZATION"
      /\ CheckOf("INVALID_SIGNATURE") = "SIGNATURE"
      /\ CheckOf("TIMESTAMP_IN_FUTURE") = "TIMESTAMP_FRESHNESS"
      /\ CheckOf("TIMESTAMP_EXPIRED") = "TIMESTAMP_FRESHNESS"
      /\ CheckOf("WEIGHT_OVERFLOW") = "WEIGHT_BOUND"
      /\ CheckOf("INELIGIBLE_USER") = "ELIGIBILITY"
  BY DEF CheckOf
<1> HIDE DEF code, check, status
<1>8. (code = "none" <=> check = "none") /\ (code # "none" => check = CheckOf(code))
  BY <1>2, <1>3, <1>4, <1>5, <1>6, <1>7
<1> QED BY <1>8 DEF code, check

\* summarize finds the first code that is not "none".
LEMMA FirstCode ==
  ASSUME NEW n \in Nat, NEW codes, DOMAIN codes = 1 .. n
  PROVE  \/ summarize(codes) = "none" /\ \A i \in 1 .. n : codes[i] = "none"
         \/ \E i \in 1 .. n : /\ codes[i] # "none" /\ summarize(codes) = codes[i]
                              /\ \A j \in 1 .. i - 1 : codes[j] = "none"
<1> DEFINE First(i) == codes[i] # "none" /\ \A j \in 1 .. i - 1 : codes[j] = "none"
<1>1. CASE \A i \in 1 .. n : codes[i] = "none"
  BY <1>1 DEF summarize
<1>2. CASE \E i \in 1 .. n : codes[i] # "none"
  <2> DEFINE S == {i \in 1 .. n : codes[i] # "none"}
  <2>1. S \in SUBSET Nat /\ S # {}
    BY <1>2
  <2>2. PICK i \in S : \A j \in S : i <= j
    BY <2>1, Least
  <2>3. First(i)
    BY <2>2
  <2>4. summarize(codes) = codes[CHOOSE k \in DOMAIN codes : First(k)]
    BY <1>2 DEF summarize
  <2> DEFINE chosen == CHOOSE k \in DOMAIN codes : First(k)
  <2>5. chosen \in 1 .. n /\ First(chosen)
    BY <2>2, <2>3
  <2> HIDE DEF chosen
  <2> QED BY <2>4, <2>5 DEF chosen
<1> QED BY <1>1, <1>2

\* The page's copy of the registry and the answers on their way are of this visit, and
\* what the page says of a document is right.
GatewayInv ==
  /\ registry \in visited /\ visited \subseteq Registries
  /\ copy \in visited \union {NoCopy}
  /\ requests \in [1 .. MaxRequests -> visited \union {NoRequest, UnderWay}]
  /\ banner.kind \in {"none", "REGISTRY UNAVAILABLE", "verdict"}
  /\ GatewayAgrees /\ VerdictIsOfThisVisit

\* What the page says of a document agrees with the live pipeline.
LEMMA VerdictAgrees == copy \in Registries \union {NoCopy} /\ runDocument => GatewayAgrees'
<1> SUFFICES ASSUME copy \in Registries \union {NoCopy}, runDocument PROVE GatewayAgrees'
  OBVIOUS
<1>1. PICK d \in Documents, now \in PageTimes :
        \E codes \in {f \in [DOMAIN d.proofs -> {"none"} \union {OfflineCodes[i] : i \in DOMAIN OfflineCodes}] :
                        \A i \in DOMAIN f : f[i] \in Findings(d.proofs[i], now)},
           readable \in {TRUE, d.formed} :
          banner' = [kind |-> "verdict", doc |-> d, registry |-> copy, now |-> now,
                     code |-> IF readable THEN summarize(codes) ELSE "SCHEMA"]
  BY DEF runDocument
<1>2. PICK codes \in {f \in [DOMAIN d.proofs -> {"none"} \union {OfflineCodes[i] : i \in DOMAIN OfflineCodes}] :
                         \A i \in DOMAIN f : f[i] \in Findings(d.proofs[i], now)},
           readable \in {TRUE, d.formed} :
        banner' = [kind |-> "verdict", doc |-> d, registry |-> copy, now |-> now,
                   code |-> IF readable THEN summarize(codes) ELSE "SCHEMA"]
  BY <1>1
<1> DEFINE n == Len(d.proofs)
           Live(i) == FailedCheck(d.proofs[i].event, copy, now)
<1>3. copy \in Registries /\ now \in Int
  BY GatewayAssumption DEF runDocument
<1>4. n \in Nat /\ DOMAIN d.proofs = 1 .. n /\ DOMAIN codes = 1 .. n
      /\ \A i \in 1 .. n : d.proofs[i] \in ProofRecords
  BY ProofsOf, LenProperties
<1>5. ASSUME NEW i \in 1 .. n
      PROVE  /\ codes[i] = "none" => Live(i) = "none"
             /\ d.proofs[i].formed /\ codes[i] # "none" => Live(i) = CheckOf(codes[i])
  <2>1. codes[i] \in Findings(d.proofs[i], now)
    BY <1>4
  <2>2. d.proofs[i].event \in Events
    BY <1>4 DEF ProofRecords
  <2> QED BY <1>3, <2>1, <2>2, OneVerdict DEF Findings
<1>6. /\ banner'.kind = "verdict" /\ banner'.doc = d /\ banner'.registry = copy /\ banner'.now = now
      /\ banner'.code = IF readable THEN summarize(codes) ELSE "SCHEMA"
  BY <1>2
<1>7. /\ summarize(codes) = "none" => \A i \in 1 .. n : codes[i] = "none"
      /\ summarize(codes) # "none" =>
           \E i \in 1 .. n : /\ codes[i] # "none" /\ summarize(codes) = codes[i]
                             /\ \A j \in 1 .. i - 1 : codes[j] = "none"
  BY <1>4, FirstCode
<1>8. banner'.code = "none" => \A i \in 1 .. n : Live(i) = "none"
  BY <1>5, <1>6, <1>7
<1>9. ASSUME banner'.code # "none", d.formed, \A i \in 1 .. n : d.proofs[i].formed
      PROVE  \E i \in 1 .. n : /\ Live(i) = CheckOf(banner'.code)
                               /\ \A j \in 1 .. n : j < i => Live(j) = "none"
  <2>1. readable /\ banner'.code = summarize(codes)
    BY <1>6, <1>9
  <2>2. PICK i \in 1 .. n : /\ codes[i] # "none" /\ summarize(codes) = codes[i]
                            /\ \A j \in 1 .. i - 1 : codes[j] = "none"
    BY <1>7, <1>9, <2>1
  <2>3. Live(i) = CheckOf(banner'.code)
    BY <1>5, <1>9, <2>1, <2>2
  <2>4. ASSUME NEW j \in 1 .. n, j < i PROVE Live(j) = "none"
    <3>1. j \in 1 .. i - 1
      BY <1>4, <2>4
    <3> QED BY <1>5, <2>2, <3>1
  <2> QED BY <2>3, <2>4
<1> HIDE DEF n
<1> QED BY <1>4, <1>6, <1>8, <1>9 DEF GatewayAgrees

\* To begin with the page has no registry and says nothing.
LEMMA GatewayBegins == Init /\ PageInit => GatewayInv
BY EvidenceAssumption, GatewayAssumption
DEF Init, PageInit, GatewayInv, GatewayAgrees, VerdictIsOfThisVisit, NoBanner, NoRequests

\* One step of the page.
LEMMA PageStep == GatewayInv /\ Page /\ UNCHANGED registry => GatewayInv'
<1> SUFFICES ASSUME GatewayInv, Page, UNCHANGED registry PROVE GatewayInv'
  OBVIOUS
<1> DEFINE Slots == visited \union {NoRequest, UnderWay}
<1>1. /\ registry \in visited /\ visited \subseteq Registries
      /\ copy \in visited \union {NoCopy} /\ requests \in [1 .. MaxRequests -> Slots]
  BY DEF GatewayInv
<1>2. ASSUME UNCHANGED visited, copy' \in visited \union {NoCopy},
             requests' \in [1 .. MaxRequests -> Slots],
             \/ UNCHANGED banner
             \/ banner'.kind \in {"none", "REGISTRY UNAVAILABLE"}
      PROVE  GatewayInv'
  BY <1>1, <1>2 DEF GatewayInv, GatewayAgrees, VerdictIsOfThisVisit
<1>3. ASSUME NEW i \in DOMAIN requests, NEW x \in Slots
      PROVE  [requests EXCEPT ![i] = x] \in [1 .. MaxRequests -> Slots]
  BY <1>1
<1>4. ASSUME NEW i \in DOMAIN requests, requests[i] \notin {NoRequest, UnderWay}
      PROVE  requests[i] \in visited
  BY <1>1, <1>4
<1> HIDE DEF Slots
<1>5. registry \in Slots /\ NoRequest \in Slots /\ UnderWay \in Slots
  BY <1>1 DEF Slots
<1>6. CASE verifyText
  BY <1>1, <1>2, <1>3, <1>5, <1>6 DEF verifyText
<1>7. CASE ServeRegistry
  BY <1>1, <1>2, <1>3, <1>5, <1>7 DEF ServeRegistry
<1>8. CASE loadRegistry
  BY <1>1, <1>2, <1>3, <1>4, <1>5, <1>8 DEF loadRegistry
<1>9. CASE LoadFails
  <2>1. PICK i \in DOMAIN requests :
          /\ requests[i] # NoRequest
          /\ requests' = [requests EXCEPT ![i] = NoRequest]
          /\ copy' \in IF requests[i] = UnderWay THEN {copy} ELSE {copy, requests[i]}
    BY <1>9 DEF LoadFails
  <2>2. copy' \in visited \union {NoCopy}
    BY <1>1, <1>4, <2>1
  <2> QED BY <1>2, <1>3, <1>5, <1>9, <2>1, <2>2 DEF LoadFails
<1>10. CASE ReloadPage
  BY <1>1, <1>10 DEF ReloadPage, GatewayInv, GatewayAgrees, VerdictIsOfThisVisit, NoBanner,
                     NoRequests
<1>11. CASE runDocument
  <2>1. GatewayAgrees'
    BY <1>1, <1>11, VerdictAgrees
  <2>2. UNCHANGED <<copy, requests, visited>> /\ copy # NoCopy
    BY <1>11 DEF runDocument
  <2>3. banner'.kind = "verdict" /\ banner'.registry = copy
    BY <1>11 DEF runDocument
  <2> QED BY <1>1, <2>1, <2>2, <2>3 DEF GatewayInv, VerdictIsOfThisVisit, Slots
<1> QED BY <1>6, <1>7, <1>8, <1>9, <1>10, <1>11 DEF Page

\* Nothing the page does, and no edit of the registry, changes that.
LEMMA GatewayStep == GatewayInv /\ [GatewayNext]_<<vars, pageVars>> => GatewayInv'
<1> SUFFICES ASSUME GatewayInv, [GatewayNext]_<<vars, pageVars>> PROVE GatewayInv'
  OBVIOUS
<1>1. CASE Page /\ UNCHANGED vars
  BY <1>1, PageStep DEF vars
<1>2. CASE /\ RegisterKey \/ RevokeKey
           /\ visited' = visited \union {registry'} /\ UNCHANGED <<copy, requests, banner>>
  <2>1. registry \in Registries
    BY DEF GatewayInv
  <2>2. registry' \in Registries
    BY <1>2, <2>1, EditEffect
  <2>3. requests \in [1 .. MaxRequests -> visited' \union {NoRequest, UnderWay}]
    BY <1>2 DEF GatewayInv
  <2> QED BY <1>2, <2>2, <2>3 DEF GatewayInv, GatewayAgrees, VerdictIsOfThisVisit
<1>3. CASE UNCHANGED <<vars, pageVars>>
  BY <1>3 DEF GatewayInv, GatewayAgrees, VerdictIsOfThisVisit, pageVars, vars
<1> QED BY <1>1, <1>2, <1>3 DEF GatewayNext

\* offline-verifier.js and verify.js are two implementations of one pipeline: what the
\* page calls verified, or invalid and why, is what a live verifier with the page's
\* registry and clock finds.
THEOREM GatewayAgreesHolds == GatewaySpec => []GatewayAgrees
<1>1. GatewayInv => GatewayAgrees
  BY DEF GatewayInv
<1> QED BY <1>1, GatewayBegins, GatewayStep, PTL DEF GatewaySpec

\* However answers overtake each other, a verdict is about a registry that was in force at
\* some moment since the page was loaded.
THEOREM VerdictIsOfThisVisitHolds == GatewaySpec => []VerdictIsOfThisVisit
<1>1. GatewayInv => VerdictIsOfThisVisit
  BY DEF GatewayInv
<1> QED BY <1>1, GatewayBegins, GatewayStep, PTL DEF GatewaySpec
-------------------------------------------------------------------------------
(* Escrow attestations *)

\* Whoever was told that an attestation was accepted has a store that remembers it,
\* and, while replies are prompt, the answer is that of the store.
Remembered ==
  /\ ahead = {} /\ repeats = {}
  /\ \A v \in Verifiers, k \in GuardKeys : <<v, k>> \in answered => has(v, k)

EscrowInv == EscrowTypeOK /\ (~LateReplies => Remembered)

\* One step of one process keeps what was answered remembered.
LEMMA AttestStep ==
  ASSUME EscrowInv, NEW v \in Verifiers, Attest(v)
  PROVE  EscrowInv'
<1>1. /\ store \in {"memory", "file", "redis"} /\ UNCHANGED store
      /\ seen \in [Verifiers -> SUBSET GuardKeys] /\ shared \subseteq GuardKeys
      /\ underway \subseteq GuardKeys /\ ahead \subseteq Verifiers
      /\ \A u \in Verifiers : checking[u] = NoKey \/ checking[u] \in GuardKeys
      /\ answered \subseteq Verifiers \X GuardKeys /\ repeats \subseteq GuardKeys
  BY DEF EscrowInv, EscrowTypeOK, Attest, Examine, Admit, CallThrows, claimIfAbsent, compact,
         Reborn
<1>2. CASE Examine(v)
  <2>1. PICK a \in Attestations :
          /\ \/ ~has(v, nonceKey(a)) /\ ahead' = ahead \ {v}
             \/ v \in ahead /\ ahead' = ahead
          /\ checking' = [checking EXCEPT ![v] = nonceKey(a)]
          /\ repeats' = IF AnsweredBefore(v, nonceKey(a))
                        THEN repeats \union {nonceKey(a)} ELSE repeats
    <3> HIDE DEF nonceKey
    <3> QED BY <1>2, Zenon DEF Examine
  <2>2. nonceKey(a) \in GuardKeys
    BY DEF GuardKeys
  <2>3. UNCHANGED <<seen, shared, underway, answered>>
    BY <1>2 DEF Examine
  <2>4. EscrowTypeOK'
    BY <1>1, <2>1, <2>2, <2>3 DEF EscrowTypeOK
  <2>5. ASSUME ~LateReplies PROVE Remembered'
    <3>1. Remembered
      BY <2>5 DEF EscrowInv
    <3>2. ~AnsweredBefore(v, nonceKey(a))
      BY <2>1, <2>2, <3>1 DEF AnsweredBefore, Remembered, has
    <3> QED BY <1>1, <2>1, <2>3, <3>1, <3>2 DEF Remembered, has
  <2> QED BY <2>4, <2>5 DEF EscrowInv
<1>3. CASE Admit(v)
  <2>1. checking[v] \in GuardKeys
    BY <1>1, <1>3 DEF Admit
  <2>2. /\ checking' = [checking EXCEPT ![v] = NoKey] /\ UNCHANGED repeats
        /\ answered' = answered \union {<<v, checking[v]>>}
        /\ add(v, checking[v])
    BY <1>3 DEF Admit
  <2>3. EscrowTypeOK'
    BY <1>1, <2>1, <2>2 DEF EscrowTypeOK, add, bridgeVars
  <2>4. ASSUME ~LateReplies PROVE Remembered'
    <3>1. Remembered
      BY <2>4 DEF EscrowInv
    <3>2. /\ ahead' = {}
          /\ \/ store = "redis" /\ shared' = shared \union {checking[v]} /\ UNCHANGED seen
             \/ /\ store # "redis" /\ UNCHANGED shared
                /\ seen' = [seen EXCEPT ![v] = @ \union {checking[v]}]
      BY <2>2, <3>1 DEF add, Remembered, bridgeVars
    <3> QED BY <1>1, <2>1, <2>2, <3>1, <3>2 DEF Remembered, has
  <2> QED BY <2>3, <2>4 DEF EscrowInv
<1>4. CASE CallThrows(v)
  <2>1. EscrowTypeOK'
    <3>1. PICK k \in IF checking[v] = NoKey THEN EventKeys \union {NoKey} ELSE {checking[v]} :
            underway' = underway \union ({k} \ {NoKey})
      BY <1>4 DEF CallThrows
    <3>2. k \in GuardKeys \union {NoKey}
      BY <1>1, <3>1 DEF GuardKeys
    <3>3. ahead' \subseteq Verifiers
      BY <1>1, <1>4 DEF CallThrows
    <3> QED BY <1>1, <1>4, <3>1, <3>2, <3>3 DEF CallThrows, EscrowTypeOK
  <2>2. ASSUME ~LateReplies PROVE Remembered'
    BY <1>1, <1>4, <2>2 DEF CallThrows, EscrowInv, Remembered, has
  <2> QED BY <2>1, <2>2 DEF EscrowInv
<1>5. CASE claimIfAbsent(v)
  <2>1. PICK k \in EventKeys :
          /\ shared' = IF store = "memory" THEN shared ELSE shared \union {k}
          /\ seen' = [seen EXCEPT ![v] = CASE store = "memory" -> @ \union {k}
                                           [] store = "file" -> shared \union {k}
                                           [] store = "redis" -> @]
    BY <1>5 DEF claimIfAbsent
  <2>2. k \in GuardKeys
    BY DEF GuardKeys
  <2>3. /\ answered' = IF store = "file" THEN AnswersWithout(v) ELSE answered
        /\ ahead' \in {ahead, ahead \ {v}}
        /\ UNCHANGED <<underway, checking, repeats>>
    BY <1>5 DEF claimIfAbsent
  <2>4. EscrowTypeOK'
    BY <1>1, <2>1, <2>2, <2>3 DEF EscrowTypeOK, AnswersWithout
  <2>5. ASSUME ~LateReplies PROVE Remembered'
    <3>1. Remembered
      BY <2>5 DEF EscrowInv
    <3> QED BY <1>1, <2>1, <2>2, <2>3, <3>1 DEF Remembered, AnswersWithout, has
  <2> QED BY <2>4, <2>5 DEF EscrowInv
<1>6. CASE compact(v)
  <2>1. EscrowTypeOK'
    BY <1>1, <1>6 DEF compact, EscrowTypeOK, AnswersWithout, bridgeVars
  <2>2. ASSUME ~LateReplies PROVE Remembered'
    BY <1>1, <1>6, <2>2 DEF compact, EscrowInv, Remembered, AnswersWithout, bridgeVars, has
  <2> QED BY <2>1, <2>2 DEF EscrowInv
<1>7. CASE Reborn(v)
  <2>1. EscrowTypeOK'
    BY <1>1, <1>7 DEF Reborn, EscrowTypeOK, AnswersWithout
  <2>2. ASSUME ~LateReplies PROVE Remembered'
    BY <1>1, <1>7, <2>2 DEF Reborn, EscrowInv, Remembered, AnswersWithout, has
  <2> QED BY <2>1, <2>2 DEF EscrowInv
<1> QED BY <1>2, <1>3, <1>4, <1>5, <1>6, <1>7 DEF Attest

\* A SET that Redis executes late only makes it remember more.
LEMMA LateSetStep == EscrowInv /\ LateSet => EscrowInv'
BY DEF EscrowInv, EscrowTypeOK, Remembered, LateSet, has

\* To begin with no store has a key.
LEMMA EscrowBegins == EscrowInit => EscrowInv
BY DEF EscrowInit, EscrowInv, EscrowTypeOK, Remembered

\* What other services do leaves the stores alone.
LEMMA EscrowUndisturbed == EscrowInv /\ UNCHANGED escrowVars => EscrowInv'
BY DEF escrowVars, bridgeVars, EscrowInv, EscrowTypeOK, Remembered, has

\* Nor does any step of the attestations change that.
LEMMA EscrowStep == EscrowInv /\ [EscrowNext]_<<vars, escrowVars>> => EscrowInv'
BY AttestStep, LateSetStep, EscrowUndisturbed DEF EscrowNext

\* The invariant of the attestations holds at every moment.
LEMMA EscrowHolds == EscrowSpec => []EscrowInv
<1> QED BY EscrowBegins, EscrowStep, PTL DEF EscrowSpec

\* The stores hold nonce keys, whichever kind they are of.
THEOREM EscrowTypeCorrect == EscrowSpec => []EscrowTypeOK
<1>1. EscrowInv => EscrowTypeOK
  BY DEF EscrowInv
<1> QED BY <1>1, EscrowHolds, PTL

\* REPLAY_GUARD: provided Redis replies promptly, once an attestation was accepted and
\* the caller told so, no later call of a process that shares its memory lets it through
\* again, claims that throw and SETs that are executed late notwithstanding.
THEOREM NoSecondAdmissionHolds ==
  ASSUME ~LateReplies
  PROVE  EscrowSpec => []NoSecondAdmission
<1>1. EscrowInv => NoSecondAdmission
  BY DEF EscrowInv, Remembered, NoSecondAdmission
<1> QED BY <1>1, EscrowHolds, PTL
-------------------------------------------------------------------------------
(* The Python verifier *)

PythonProcesses ==
  [step : {"none", "up", "writing"}, seen : SUBSET NonceKeys, key : NonceKeys \union {<<>>},
   ok : BOOLEAN]

StateFileTypeOK ==
  /\ registry \in Registries
  /\ saved \subseteq NonceKeys /\ text \in {"parses", "empty", "mixed"}
  /\ python \in [Verifiers -> PythonProcesses]
  /\ \A v \in Verifiers : python[v].step = "writing" => python[v].key \in NonceKeys
  /\ allowed \subseteq NonceKeys /\ repeated \subseteq NonceKeys /\ crowded \in BOOLEAN

\* Process v knows what was allowed, and its own claim is not yet of it.
Remembers(v) ==
  python[v].step # "none" =>
    /\ allowed \subseteq python[v].seen
    /\ python[v].step = "writing" =>
         text = "empty" /\ python[v].key \in python[v].seen \ allowed

\* As long as processes come one at a time, a file that parses has all that was
\* allowed, and so has the process that is up.
SuccessorInv ==
  ~crowded =>
    /\ \A u, v \in Verifiers : python[u].step # "none" /\ python[v].step # "none" => u = v
    /\ text = "parses" => allowed \subseteq saved
    /\ \A v \in Verifiers : Remembers(v)
    /\ repeated = {}

StateFileInv == StateFileTypeOK /\ SuccessorInv

\* The nonce key of a proof is one.
LEMMA KeyOfProof ==
  ASSUME NEW p \in Proofs
  PROVE  NonceKey(p.event) \in NonceKeys
<1>1. PICK d \in Documents : p \in {d.proofs[i] : i \in DOMAIN d.proofs}
  BY DEF Proofs
<1>2. DOMAIN d.proofs = 1 .. Len(d.proofs)
  BY ProofsOf, LenProperties
<1> QED BY <1>1, <1>2, ProofsOf

\* Every step of a process keeps the order of things.
LEMMA PythonStep ==
  ASSUME StateFileInv, NEW v \in Verifiers, Python(v), UNCHANGED registry
  PROVE  StateFileInv'
<1>0. StateFileTypeOK /\ python[v] \in PythonProcesses
  BY DEF StateFileInv, StateFileTypeOK
<1>1. ASSUME NEW x \in PythonProcesses, python' = [python EXCEPT ![v] = x]
      PROVE  /\ python' \in [Verifiers -> PythonProcesses] /\ python'[v] = x
             /\ \A u \in Verifiers : u # v => python'[u] = python[u]
  BY <1>0, <1>1 DEF StateFileTypeOK
<1>2. CASE Construct(v)
  <2> DEFINE x == [NotUp EXCEPT !.step = "up", !.seen = saved]
  <2>1. x \in PythonProcesses /\ x.step = "up" /\ x.seen = saved
    BY <1>0 DEF NotUp, PythonProcesses, StateFileTypeOK
  <2>2. /\ python' = [python EXCEPT ![v] = x] /\ text = "parses"
        /\ crowded' = (crowded \/ \E u \in Verifiers : python[u].step # "none")
        /\ UNCHANGED <<saved, text, allowed, repeated>>
    BY <1>2 DEF Construct
  <2> HIDE DEF x
  <2>3. StateFileTypeOK'
    BY <1>0, <1>1, <2>1, <2>2 DEF StateFileTypeOK
  <2>4. ASSUME ~crowded'
        PROVE  ~crowded /\ \A u \in Verifiers : python[u].step = "none"
    BY <2>2, <2>4
  <2>5. SuccessorInv'
    BY <1>1, <2>1, <2>2, <2>4 DEF StateFileInv, SuccessorInv, Remembers
  <2> QED BY <2>3, <2>5 DEF StateFileInv
<1>3. CASE VerifyProof(v)
  <2>1. PICK p \in Proofs, policy \in Policies, now \in Times :
          LET k == NonceKey(p.event) IN
          /\ k \notin python[v].seen
          /\ python' = [python EXCEPT ![v] =
               [step |-> "writing", seen |-> @.seen \union {k}, key |-> k,
                ok |-> Satisfies(p, policy, now)]]
    BY <1>3 DEF VerifyProof
  <2> DEFINE k == NonceKey(p.event)
             ok == Satisfies(p, policy, now)
             x == [step |-> "writing", seen |-> python[v].seen \union {k}, key |-> k, ok |-> ok]
  <2>2. k \in NonceKeys
    BY KeyOfProof
  <2>3. ok \in BOOLEAN
    BY DEF Satisfies
  <2>4. python' = [python EXCEPT ![v] = x] /\ k \notin python[v].seen
    BY <2>1
  <2> HIDE DEF k, ok
  <2>5. x \in PythonProcesses /\ x.step = "writing" /\ x.key = k /\ x.seen = python[v].seen \union {k}
    BY <1>0, <2>2, <2>3 DEF PythonProcesses
  <2> HIDE DEF x
  <2>6. python[v].step = "up" /\ text' = "empty" /\ UNCHANGED <<saved, allowed, repeated, crowded>>
    BY <1>3 DEF VerifyProof
  <2>7. StateFileTypeOK'
    BY <1>0, <1>1, <2>2, <2>4, <2>5, <2>6 DEF StateFileTypeOK
  <2>8. SuccessorInv'
    BY <1>1, <2>4, <2>5, <2>6 DEF StateFileInv, SuccessorInv, Remembers
  <2> QED BY <2>7, <2>8 DEF StateFileInv
<1>4. CASE Dump(v)
  <2> DEFINE x == [python[v] EXCEPT !.step = "up"]
             k == python[v].key
  <2>1. x \in PythonProcesses /\ x.step = "up" /\ x.seen = python[v].seen
    BY <1>0 DEF PythonProcesses
  <2>2. /\ python' = [python EXCEPT ![v] = x] /\ python[v].step = "writing"
        /\ \/ saved' = python[v].seen /\ text' = "parses"
           \/ text # "empty" /\ text' = "mixed" /\ UNCHANGED saved
        /\ allowed' = IF python[v].ok THEN allowed \union {k} ELSE allowed
        /\ repeated' = IF python[v].ok /\ k \in allowed THEN repeated \union {k} ELSE repeated
        /\ UNCHANGED crowded
    BY <1>0, <1>4 DEF Dump, StateFileTypeOK
  <2> HIDE DEF x
  <2>3. python[v].seen \subseteq NonceKeys /\ k \in NonceKeys
    BY <1>0, <2>2 DEF PythonProcesses, StateFileTypeOK
  <2> HIDE DEF k
  <2>4. StateFileTypeOK'
    <3>1. saved' \subseteq NonceKeys /\ text' \in {"parses", "empty", "mixed"}
      BY <1>0, <2>2, <2>3 DEF StateFileTypeOK
    <3>2. allowed' \subseteq NonceKeys /\ repeated' \subseteq NonceKeys
      BY <1>0, <2>2, <2>3 DEF StateFileTypeOK
    <3> QED BY <1>0, <1>1, <2>1, <2>2, <3>1, <3>2 DEF StateFileTypeOK
  <2>5. ASSUME ~crowded
        PROVE  /\ \A u \in Verifiers : u # v => python'[u].step = "none"
               /\ text' = "parses" /\ saved' = python[v].seen
               /\ allowed' \subseteq python[v].seen /\ repeated' = {}
    <3>1. Remembers(v) /\ repeated = {}
      BY <2>5 DEF StateFileInv, SuccessorInv
    <3>2. text = "empty" /\ k \in python[v].seen /\ k \notin allowed /\ allowed \subseteq python[v].seen
      BY <2>2, <3>1 DEF Remembers, k
    <3>3. \A u \in Verifiers : u # v => python[u].step = "none"
      BY <2>2, <2>5 DEF StateFileInv, SuccessorInv
    <3> QED BY <1>1, <2>1, <2>2, <3>1, <3>2, <3>3
  <2>6. SuccessorInv'
    BY <1>1, <2>1, <2>2, <2>5 DEF SuccessorInv, Remembers
  <2> QED BY <2>4, <2>6 DEF StateFileInv
<1>5. CASE Quit(v)
  <2>1. NotUp \in PythonProcesses /\ NotUp.step = "none"
    BY DEF NotUp, PythonProcesses
  <2>2. python' = [python EXCEPT ![v] = NotUp] /\ UNCHANGED <<saved, text, allowed, repeated, crowded>>
    BY <1>5 DEF Quit
  <2>3. StateFileTypeOK'
    BY <1>0, <1>1, <2>1, <2>2 DEF StateFileTypeOK
  <2>4. SuccessorInv'
    BY <1>1, <2>1, <2>2 DEF StateFileInv, SuccessorInv, Remembers
  <2> QED BY <2>3, <2>4 DEF StateFileInv
<1>6. CASE Discard
  <2>1. StateFileTypeOK'
    BY <1>0, <1>6 DEF Discard, StateFileTypeOK
  <2>2. SuccessorInv'
    BY <1>6 DEF Discard, SuccessorInv, Remembers
  <2> QED BY <2>1, <2>2 DEF StateFileInv
<1> QED BY <1>2, <1>3, <1>4, <1>5, <1>6 DEF Python

\* To begin with the file is empty and nothing was allowed.
LEMMA StateFileBegins == Init /\ StateFileInit => StateFileInv
<1> SUFFICES ASSUME Init, StateFileInit PROVE StateFileInv
  OBVIOUS
<1>1. NotUp \in PythonProcesses /\ NotUp.step = "none"
  BY DEF NotUp, PythonProcesses
<1>2. \A v \in Verifiers : python[v] = NotUp
  BY DEF StateFileInit
<1>3. StateFileTypeOK
  BY <1>1, <1>2, EvidenceAssumption DEF Init, StateFileInit, StateFileTypeOK
<1>4. SuccessorInv
  BY <1>1, <1>2 DEF StateFileInit, SuccessorInv, Remembers
<1> QED BY <1>3, <1>4 DEF StateFileInv

\* What other services do leaves the state file alone.
LEMMA StateFileUndisturbed ==
  StateFileInv /\ registry' \in Registries /\ UNCHANGED stateFileVars => StateFileInv'
BY DEF stateFileVars, StateFileInv, StateFileTypeOK, SuccessorInv, Remembers

\* Nor does any step of a Python process change that.
LEMMA StateFileStep == StateFileInv /\ [PythonNext]_<<vars, stateFileVars>> => StateFileInv'
<1>1. ASSUME StateFileInv, NEW v \in Verifiers, Python(v), UNCHANGED vars PROVE StateFileInv'
  BY <1>1, PythonStep DEF vars
<1>2. ASSUME StateFileInv, UNCHANGED <<vars, stateFileVars>> PROVE StateFileInv'
  <2>1. registry' \in Registries
    BY <1>2 DEF vars, StateFileInv, StateFileTypeOK
  <2> QED BY <1>2, <2>1, StateFileUndisturbed
<1> QED BY <1>1, <1>2 DEF PythonNext

\* The invariant of the state file holds at every moment.
LEMMA StateFileHolds == PythonSpec => []StateFileInv
<1> QED BY StateFileBegins, StateFileStep, PTL DEF PythonSpec

\* NonceStore, "persist via state_file in the CLI": processes that run one after the
\* other never allow two proofs of one event, even if one dies in a write.
THEOREM SuccessorsRememberHolds == PythonSpec => []SuccessorsRemember
<1>1. StateFileInv => SuccessorsRemember
  BY DEF StateFileInv, SuccessorInv, SuccessorsRemember, StateFileTypeOK
<1> QED BY <1>1, StateFileHolds, PTL
-------------------------------------------------------------------------------
(* Signed values: what the recursive functions are *)

\* The levels of values, as their definition says.
LEMMA NestedIs ==
  Nested = [n \in 0 .. NESTING |-> IF n = 0 THEN Atoms ELSE ValuesOver(IF n = 0 THEN <<>> ELSE Nested[n - 1])]
<1> DEFINE Level(n, inner) == IF n = 0 THEN Atoms ELSE ValuesOver(inner)
           Is(m, g) == g = [n \in 0 .. m |-> Level(n, IF n = 0 THEN <<>> ELSE g[n - 1])]
           S == {m \in 0 .. NESTING : \E g : Is(m, g)}
<1>1. NESTING \in Nat
  BY CanonicalAssumption
<1>2. Nested = CHOOSE g : Is(NESTING, g)
  BY DEF Nested
<1> HIDE DEF Level
<1>3. 0 \in S
  <2> DEFINE g == [n \in 0 .. 0 |-> Level(n, <<>>)]
  <2>1. Is(0, g)
    OBVIOUS
  <2> HIDE DEF Is, g
  <2> QED BY <1>1, <2>1
<1>4. ASSUME NEW m \in 0 .. NESTING - 1, m \in S PROVE m + 1 \in S
  <2>1. PICK g : Is(m, g)
    BY <1>4
  <2> DEFINE h == [n \in 0 .. m + 1 |-> IF n = m + 1 THEN Level(m + 1, g[m]) ELSE g[n]]
  <2>2. ASSUME NEW n \in 0 .. m + 1
        PROVE  h[n] = Level(n, IF n = 0 THEN <<>> ELSE h[n - 1])
    <3>1. CASE n = m + 1
      <4>1. n # 0 /\ n - 1 = m /\ m \in 0 .. m + 1 /\ m # m + 1
        BY <3>1
      <4>2. h[n] = Level(m + 1, g[m]) /\ h[n - 1] = g[m]
        BY <3>1, <4>1
      <4> HIDE DEF h
      <4> QED BY <3>1, <4>1, <4>2
    <3>2. CASE n # m + 1
      <4>1. /\ n \in 0 .. m
            /\ n # 0 => n - 1 \in 0 .. m + 1 /\ n - 1 # m + 1
        BY <3>2
      <4>2. h[n] = g[n] /\ (n # 0 => h[n - 1] = g[n - 1])
        BY <3>2, <4>1
      <4>3. g[n] = Level(n, IF n = 0 THEN <<>> ELSE g[n - 1])
        BY <2>1, <4>1
      <4> HIDE DEF h
      <4> QED BY <4>2, <4>3
    <3> QED BY <3>1, <3>2
  <2>3. h = [n \in 0 .. m + 1 |-> h[n]]
    OBVIOUS
  <2> HIDE DEF h
  <2>4. Is(m + 1, h)
    BY <2>2, <2>3
  <2> HIDE DEF Is
  <2> QED BY <1>1, <2>4
<1>5. \E g : Is(NESTING, g)
  <2> HIDE DEF S
  <2>1. \A m \in 0 .. NESTING : m \in S
    BY <1>1, <1>3, <1>4, UpTo
  <2> QED BY <1>1, <2>1 DEF S
<1>6. Is(NESTING, Nested)
  <2> HIDE DEF Is
  <2> QED BY <1>2, <1>5
<1> QED BY <1>6 DEF Level

\* And those of texts.
LEMMA TextsIs ==
  Texts = [n \in 0 .. NESTING |-> IF n = 0 THEN JSONAtoms ELSE TextsOver(IF n = 0 THEN <<>> ELSE Texts[n - 1])]
<1> DEFINE Level(n, inner) == IF n = 0 THEN JSONAtoms ELSE TextsOver(inner)
           Is(m, g) == g = [n \in 0 .. m |-> Level(n, IF n = 0 THEN <<>> ELSE g[n - 1])]
           S == {m \in 0 .. NESTING : \E g : Is(m, g)}
<1>1. NESTING \in Nat
  BY CanonicalAssumption
<1>2. Texts = CHOOSE g : Is(NESTING, g)
  BY DEF Texts
<1> HIDE DEF Level
<1>3. 0 \in S
  <2> DEFINE g == [n \in 0 .. 0 |-> Level(n, <<>>)]
  <2>1. Is(0, g)
    OBVIOUS
  <2> HIDE DEF Is, g
  <2> QED BY <1>1, <2>1
<1>4. ASSUME NEW m \in 0 .. NESTING - 1, m \in S PROVE m + 1 \in S
  <2>1. PICK g : Is(m, g)
    BY <1>4
  <2> DEFINE h == [n \in 0 .. m + 1 |-> IF n = m + 1 THEN Level(m + 1, g[m]) ELSE g[n]]
  <2>2. ASSUME NEW n \in 0 .. m + 1
        PROVE  h[n] = Level(n, IF n = 0 THEN <<>> ELSE h[n - 1])
    <3>1. CASE n = m + 1
      <4>1. n # 0 /\ n - 1 = m /\ m \in 0 .. m + 1 /\ m # m + 1
        BY <3>1
      <4>2. h[n] = Level(m + 1, g[m]) /\ h[n - 1] = g[m]
        BY <3>1, <4>1
      <4> HIDE DEF h
      <4> QED BY <3>1, <4>1, <4>2
    <3>2. CASE n # m + 1
      <4>1. /\ n \in 0 .. m
            /\ n # 0 => n - 1 \in 0 .. m + 1 /\ n - 1 # m + 1
        BY <3>2
      <4>2. h[n] = g[n] /\ (n # 0 => h[n - 1] = g[n - 1])
        BY <3>2, <4>1
      <4>3. g[n] = Level(n, IF n = 0 THEN <<>> ELSE g[n - 1])
        BY <2>1, <4>1
      <4> HIDE DEF h
      <4> QED BY <4>2, <4>3
    <3> QED BY <3>1, <3>2
  <2>3. h = [n \in 0 .. m + 1 |-> h[n]]
    OBVIOUS
  <2> HIDE DEF h
  <2>4. Is(m + 1, h)
    BY <2>2, <2>3
  <2> HIDE DEF Is
  <2> QED BY <1>1, <2>4
<1>5. \E g : Is(NESTING, g)
  <2> HIDE DEF S
  <2>1. \A m \in 0 .. NESTING : m \in S
    BY <1>1, <1>3, <1>4, UpTo
  <2> QED BY <1>1, <2>1 DEF S
<1>6. Is(NESTING, Texts)
  <2> HIDE DEF Is
  <2> QED BY <1>2, <1>5
<1> QED BY <1>6 DEF Level

\* The canonical forms of values are made from those of their parts.
LEMMA CanonicalFormIs ==
  CanonicalForm = [n \in 0 .. NESTING |-> [value \in Nested[n] |->
     [depth \in 0 .. MAX_DEPTH + 1 |-> textOf(value, depth, IF n = 0 THEN <<>> ELSE CanonicalForm[n - 1])]]]
<1> DEFINE Level(n, inner) == [value \in Nested[n] |->
     [depth \in 0 .. MAX_DEPTH + 1 |-> textOf(value, depth, inner)]]
           Is(m, g) == g = [n \in 0 .. m |-> Level(n, IF n = 0 THEN <<>> ELSE g[n - 1])]
           S == {m \in 0 .. NESTING : \E g : Is(m, g)}
<1>1. NESTING \in Nat
  BY CanonicalAssumption
<1>2. CanonicalForm = CHOOSE g : Is(NESTING, g)
  BY DEF CanonicalForm
<1> HIDE DEF Level
<1>3. 0 \in S
  <2> DEFINE g == [n \in 0 .. 0 |-> Level(n, <<>>)]
  <2>1. Is(0, g)
    OBVIOUS
  <2> HIDE DEF Is, g
  <2> QED BY <1>1, <2>1
<1>4. ASSUME NEW m \in 0 .. NESTING - 1, m \in S PROVE m + 1 \in S
  <2>1. PICK g : Is(m, g)
    BY <1>4
  <2> DEFINE h == [n \in 0 .. m + 1 |-> IF n = m + 1 THEN Level(m + 1, g[m]) ELSE g[n]]
  <2>2. ASSUME NEW n \in 0 .. m + 1
        PROVE  h[n] = Level(n, IF n = 0 THEN <<>> ELSE h[n - 1])
    <3>1. CASE n = m + 1
      <4>1. n # 0 /\ n - 1 = m /\ m \in 0 .. m + 1 /\ m # m + 1
        BY <3>1
      <4>2. h[n] = Level(m + 1, g[m]) /\ h[n - 1] = g[m]
        BY <3>1, <4>1
      <4> HIDE DEF h
      <4> QED BY <3>1, <4>1, <4>2
    <3>2. CASE n # m + 1
      <4>1. /\ n \in 0 .. m
            /\ n # 0 => n - 1 \in 0 .. m + 1 /\ n - 1 # m + 1
        BY <3>2
      <4>2. h[n] = g[n] /\ (n # 0 => h[n - 1] = g[n - 1])
        BY <3>2, <4>1
      <4>3. g[n] = Level(n, IF n = 0 THEN <<>> ELSE g[n - 1])
        BY <2>1, <4>1
      <4> HIDE DEF h
      <4> QED BY <4>2, <4>3
    <3> QED BY <3>1, <3>2
  <2>3. h = [n \in 0 .. m + 1 |-> h[n]]
    OBVIOUS
  <2> HIDE DEF h
  <2>4. Is(m + 1, h)
    BY <2>2, <2>3
  <2> HIDE DEF Is
  <2> QED BY <1>1, <2>4
<1>5. \E g : Is(NESTING, g)
  <2> HIDE DEF S
  <2>1. \A m \in 0 .. NESTING : m \in S
    BY <1>1, <1>3, <1>4, UpTo
  <2> QED BY <1>1, <2>1 DEF S
<1>6. Is(NESTING, CanonicalForm)
  <2> HIDE DEF Is
  <2> QED BY <1>2, <1>5
<1> QED BY <1>6 DEF Level

\* And so is what JSON.parse makes of texts.
LEMMA ParsedIs ==
  Parsed = [n \in 0 .. NESTING |-> [t \in Texts[n] |-> valueOf(t, IF n = 0 THEN <<>> ELSE Parsed[n - 1])]]
<1> DEFINE Level(n, inner) == [t \in Texts[n] |-> valueOf(t, inner)]
           Is(m, g) == g = [n \in 0 .. m |-> Level(n, IF n = 0 THEN <<>> ELSE g[n - 1])]
           S == {m \in 0 .. NESTING : \E g : Is(m, g)}
<1>1. NESTING \in Nat
  BY CanonicalAssumption
<1>2. Parsed = CHOOSE g : Is(NESTING, g)
  BY DEF Parsed
<1> HIDE DEF Level
<1>3. 0 \in S
  <2> DEFINE g == [n \in 0 .. 0 |-> Level(n, <<>>)]
  <2>1. Is(0, g)
    OBVIOUS
  <2> HIDE DEF Is, g
  <2> QED BY <1>1, <2>1
<1>4. ASSUME NEW m \in 0 .. NESTING - 1, m \in S PROVE m + 1 \in S
  <2>1. PICK g : Is(m, g)
    BY <1>4
  <2> DEFINE h == [n \in 0 .. m + 1 |-> IF n = m + 1 THEN Level(m + 1, g[m]) ELSE g[n]]
  <2>2. ASSUME NEW n \in 0 .. m + 1
        PROVE  h[n] = Level(n, IF n = 0 THEN <<>> ELSE h[n - 1])
    <3>1. CASE n = m + 1
      <4>1. n # 0 /\ n - 1 = m /\ m \in 0 .. m + 1 /\ m # m + 1
        BY <3>1
      <4>2. h[n] = Level(m + 1, g[m]) /\ h[n - 1] = g[m]
        BY <3>1, <4>1
      <4> HIDE DEF h
      <4> QED BY <3>1, <4>1, <4>2
    <3>2. CASE n # m + 1
      <4>1. /\ n \in 0 .. m
            /\ n # 0 => n - 1 \in 0 .. m + 1 /\ n - 1 # m + 1
        BY <3>2
      <4>2. h[n] = g[n] /\ (n # 0 => h[n - 1] = g[n - 1])
        BY <3>2, <4>1
      <4>3. g[n] = Level(n, IF n = 0 THEN <<>> ELSE g[n - 1])
        BY <2>1, <4>1
      <4> HIDE DEF h
      <4> QED BY <4>2, <4>3
    <3> QED BY <3>1, <3>2
  <2>3. h = [n \in 0 .. m + 1 |-> h[n]]
    OBVIOUS
  <2> HIDE DEF h
  <2>4. Is(m + 1, h)
    BY <2>2, <2>3
  <2> HIDE DEF Is
  <2> QED BY <1>1, <2>4
<1>5. \E g : Is(NESTING, g)
  <2> HIDE DEF S
  <2>1. \A m \in 0 .. NESTING : m \in S
    BY <1>1, <1>3, <1>4, UpTo
  <2> QED BY <1>1, <2>1 DEF S
<1>6. Is(NESTING, Parsed)
  <2> HIDE DEF Is
  <2> QED BY <1>2, <1>5
<1> QED BY <1>6 DEF Level

\* And so is what values mean.
LEMMA MeaningsIs ==
  Meanings = [n \in 0 .. NESTING |-> [value \in Nested[n] |-> meaningOf(value, IF n = 0 THEN <<>> ELSE Meanings[n - 1])]]
<1> DEFINE Level(n, inner) == [value \in Nested[n] |-> meaningOf(value, inner)]
           Is(m, g) == g = [n \in 0 .. m |-> Level(n, IF n = 0 THEN <<>> ELSE g[n - 1])]
           S == {m \in 0 .. NESTING : \E g : Is(m, g)}
<1>1. NESTING \in Nat
  BY CanonicalAssumption
<1>2. Meanings = CHOOSE g : Is(NESTING, g)
  BY DEF Meanings
<1> HIDE DEF Level
<1>3. 0 \in S
  <2> DEFINE g == [n \in 0 .. 0 |-> Level(n, <<>>)]
  <2>1. Is(0, g)
    OBVIOUS
  <2> HIDE DEF Is, g
  <2> QED BY <1>1, <2>1
<1>4. ASSUME NEW m \in 0 .. NESTING - 1, m \in S PROVE m + 1 \in S
  <2>1. PICK g : Is(m, g)
    BY <1>4
  <2> DEFINE h == [n \in 0 .. m + 1 |-> IF n = m + 1 THEN Level(m + 1, g[m]) ELSE g[n]]
  <2>2. ASSUME NEW n \in 0 .. m + 1
        PROVE  h[n] = Level(n, IF n = 0 THEN <<>> ELSE h[n - 1])
    <3>1. CASE n = m + 1
      <4>1. n # 0 /\ n - 1 = m /\ m \in 0 .. m + 1 /\ m # m + 1
        BY <3>1
      <4>2. h[n] = Level(m + 1, g[m]) /\ h[n - 1] = g[m]
        BY <3>1, <4>1
      <4> HIDE DEF h
      <4> QED BY <3>1, <4>1, <4>2
    <3>2. CASE n # m + 1
      <4>1. /\ n \in 0 .. m
            /\ n # 0 => n - 1 \in 0 .. m + 1 /\ n - 1 # m + 1
        BY <3>2
      <4>2. h[n] = g[n] /\ (n # 0 => h[n - 1] = g[n - 1])
        BY <3>2, <4>1
      <4>3. g[n] = Level(n, IF n = 0 THEN <<>> ELSE g[n - 1])
        BY <2>1, <4>1
      <4> HIDE DEF h
      <4> QED BY <4>2, <4>3
    <3> QED BY <3>1, <3>2
  <2>3. h = [n \in 0 .. m + 1 |-> h[n]]
    OBVIOUS
  <2> HIDE DEF h
  <2>4. Is(m + 1, h)
    BY <2>2, <2>3
  <2> HIDE DEF Is
  <2> QED BY <1>1, <2>4
<1>5. \E g : Is(NESTING, g)
  <2> HIDE DEF S
  <2>1. \A m \in 0 .. NESTING : m \in S
    BY <1>1, <1>3, <1>4, UpTo
  <2> QED BY <1>1, <2>1 DEF S
<1>6. Is(NESTING, Meanings)
  <2> HIDE DEF Is
  <2> QED BY <1>2, <1>5
<1> QED BY <1>6 DEF Level

-------------------------------------------------------------------------------
(* Signed values: one level of them *)

Depths == 0 .. MAX_DEPTH + 1

\* Values that are not atoms are made of parts.
LEMMA ValueKinds ==
  ASSUME NEW S, NEW v \in ValuesOver(S)
  PROVE  \/ v \in Atoms
         \/ v.kind = "list" /\ v = [kind |-> "list", items |-> v.items] /\ v.items \in Seq(S)
         \/ /\ v.kind = "object" /\ v = [kind |-> "object", fields |-> v.fields]
            /\ v.fields \in [Strings -> S \union {Absent}]
BY DEF ValuesOver

\* And so are texts.
LEMMA TextKinds ==
  ASSUME NEW T, NEW t \in TextsOver(T)
  PROVE  \/ t \in JSONAtoms
         \/ t.kind = "list" /\ t = [kind |-> "list", items |-> t.items] /\ t.items \in Seq(T)
         \/ /\ t.kind = "object" /\ t = [kind |-> "object", members |-> t.members]
            /\ t.members \in Seq(Strings \X T)
BY DEF TextsOver

\* The canonical form of an atom is an atom with the same one, and tells its meaning.
LEMMA AtomTexts ==
  ASSUME NEW v \in Atoms, NEW d, NEW C, NEW P, NEW M
  PROVE  LET t == textOf(v, d, C) IN
         /\ t \in JSONAtoms \union {Error}
         /\ t # Error => /\ t \in Atoms /\ valueOf(t, P) = t /\ textOf(t, d, C) = t
                         /\ t = meaningOf(v, M)
<1>1. CASE v.kind = "string"
  <2>1. v.text \in Strings /\ v = [kind |-> "string", text |-> v.text]
    BY <1>1 DEF Atoms, JSONAtoms
  <2>2. NFC[v.text] \in Strings /\ NFC[NFC[v.text]] = NFC[v.text]
    BY <2>1, CanonicalAssumption
  <2> DEFINE t == [kind |-> "string", text |-> NFC[v.text]]
  <2>3. t \in JSONAtoms /\ t \in Atoms /\ t # Error
    BY <2>2 DEF Atoms, JSONAtoms, Error
  <2>4. textOf(v, d, C) = (IF d > MAX_DEPTH THEN Error ELSE t) /\ meaningOf(v, M) = t
    BY <1>1 DEF textOf, scalar, meaningOf
  <2>5. textOf(t, d, C) = (IF d > MAX_DEPTH THEN Error ELSE t) /\ valueOf(t, P) = t
    BY <2>2 DEF textOf, scalar, valueOf
  <2> HIDE DEF t
  <2> QED BY <2>3, <2>4, <2>5
<1>2. CASE v.kind # "string"
  <2>1. v.kind \in {"number", "null", "exotic"} /\ (v \in JSONAtoms \/ v.kind = "exotic")
    BY <1>2 DEF Atoms, JSONAtoms
  <2>2. textOf(v, d, C) \in {v, Error} /\ valueOf(v, P) = v /\ meaningOf(v, M) = v
    BY <2>1 DEF textOf, scalar, valueOf, meaningOf
  <2>3. v.kind = "exotic" => textOf(v, d, C) = Error
    BY DEF textOf, scalar
  <2> QED BY <2>1, <2>2, <2>3
<1> QED BY <1>1, <1>2

\* The kind of a value that has a canonical form is that of the form.
LEMMA SameKind ==
  ASSUME NEW v, NEW d, NEW C, textOf(v, d, C) # Error
  PROVE  textOf(v, d, C).kind = v.kind
BY DEF textOf, scalar

\* Two rising sequences of the same numbers are the same.
LEMMA SameOrder ==
  ASSUME NEW n \in Nat, NEW s \in [1 .. n -> Nat], NEW t \in [1 .. n -> Nat],
         \A i, j \in 1 .. n : i < j => s[i] < s[j], \A i, j \in 1 .. n : i < j => t[i] < t[j],
         \A i \in 1 .. n : \E j \in 1 .. n : s[i] = t[j],
         \A i \in 1 .. n : \E j \in 1 .. n : t[i] = s[j]
  PROVE  s = t
<1> DEFINE D == {i \in 1 .. n : s[i] # t[i]}
<1>1. SUFFICES ASSUME D # {} PROVE FALSE
  <2>1. D = {} => \A i \in 1 .. n : s[i] = t[i]
    OBVIOUS
  <2>2. s = [i \in 1 .. n |-> s[i]] /\ t = [i \in 1 .. n |-> t[i]]
    OBVIOUS
  <2>3. (\A i \in 1 .. n : s[i] = t[i]) => s = t
    BY <2>2
  <2> HIDE DEF D
  <2> QED BY <2>1, <2>3
<1>2. PICK i \in D : \A j \in D : i <= j
  <2>1. D \in SUBSET Nat
    OBVIOUS
  <2> HIDE DEF D
  <2> QED BY <1>1, <2>1, Least
<1>3. \A j \in 1 .. n : j < i => s[j] = t[j]
  BY <1>2
<1>4. PICK j \in 1 .. n : s[i] = t[j]
  BY <1>2
<1>5. PICK k \in 1 .. n : t[i] = s[k]
  BY <1>2
<1>6. i \in 1 .. n /\ s[i] # t[i] /\ s[i] \in Nat /\ t[i] \in Nat
  BY <1>2
<1> HIDE DEF D
<1>7. j # i /\ k # i
  BY <1>4, <1>5, <1>6
<1>8. ~(j < i)
  <2> SUFFICES ASSUME j < i PROVE FALSE
    OBVIOUS
  <2>1. s[j] < s[i] /\ s[j] = t[j]
    BY <1>3, <1>6
  <2> QED BY <1>4, <1>6, <2>1
<1>9. ~(k < i)
  <2> SUFFICES ASSUME k < i PROVE FALSE
    OBVIOUS
  <2>1. t[k] < t[i] /\ s[k] = t[k]
    BY <1>3, <1>6
  <2> QED BY <1>5, <1>6, <2>1
<1>10. i < j /\ i < k
  <2>1. i \in Int /\ j \in Int /\ k \in Int
    BY <1>6
  <2> QED BY <1>7, <1>8, <1>9, <2>1
<1>11. t[i] < t[j] /\ s[i] < s[k]
  BY <1>6, <1>10
<1>12. t[i] < s[i]
  BY <1>4, <1>11
<1>13. s[i] < t[i]
  BY <1>5, <1>11
<1>14. \A x, y \in Nat : ~(x < y /\ y < x)
  OBVIOUS
<1> QED BY <1>6, <1>12, <1>13, <1>14

\* The keys of an object in the order of their normal forms: each once, and if no two
\* have one form, in the order of these.
LEMMA KeysAre ==
  ASSUME NEW S, NEW fields \in [Strings -> S \union {Absent}]
  PROVE  LET K == Keys(fields)
             n == Cardinality(K)
             keys == SortedKeys(fields)
         IN /\ K \in SUBSET Strings /\ IsFiniteSet(K) /\ n \in Nat
            /\ keys \in [1 .. n -> K] /\ \A k \in K : \E i \in 1 .. n : keys[i] = k
            /\ \A i, j \in 1 .. n : keys[i] = keys[j] => i = j
            /\ ~Collides(fields) => \A i, j \in 1 .. n : i < j => NFC[keys[i]] < NFC[keys[j]]
<1> DEFINE K == Keys(fields)
           n == Cardinality(K)
           keys == SortedKeys(fields)
           Before(j, k) == NFC[j] < NFC[k] \/ (NFC[j] = NFC[k] /\ j < k)
           R == {jk \in K \X K : Before(jk[1], jk[2])}
<1>1. K \in SUBSET Strings
  BY DEF Keys
<1>2. IsFiniteSet(K) /\ n \in Nat
  BY <1>1, CanonicalAssumption, FS_Subset, FS_CardinalityType
<1>3. \A k \in K : k \in Nat /\ NFC[k] \in Nat
  BY <1>1, CanonicalAssumption
<1>4. \A j, k \in K : <<j, k>> \in R <=> Before(j, k)
  OBVIOUS
<1>5. keys = InOrder(K, R)
  BY DEF SortedKeys
<1> HIDE DEF K, R, keys
<1>6. TotalOrder(K, R)
  <2>1. \A x \in K : <<x, x>> \notin R
    BY <1>3, <1>4
  <2>2. \A x, y \in K : x # y => <<x, y>> \in R \/ <<y, x>> \in R
    BY <1>3, <1>4
  <2>3. ASSUME NEW x \in K, NEW y \in K, NEW z \in K, <<x, y>> \in R, <<y, z>> \in R
        PROVE  <<x, z>> \in R
    <3>1. Before(x, y) /\ Before(y, z)
      BY <1>4, <2>3
    <3>2. Before(x, z)
      BY <1>3, <3>1
    <3> QED BY <1>4, <3>2
  <2> QED BY <2>1, <2>2, <2>3 DEF TotalOrder
<1>7. /\ keys \in [1 .. n -> K]
      /\ \A i, j \in 1 .. n : i < j => <<keys[i], keys[j]>> \in R
      /\ \A i, j \in 1 .. n : keys[i] = keys[j] => i = j
      /\ \A k \in K : \E i \in 1 .. n : keys[i] = k
  BY <1>2, <1>5, <1>6, InOrderIs
<1>8. ASSUME ~Collides(fields), NEW i \in 1 .. n, NEW j \in 1 .. n, i < j
      PROVE  NFC[keys[i]] < NFC[keys[j]]
  <2>1. keys[i] \in K /\ keys[j] \in K
    BY <1>7
  <2>2. Before(keys[i], keys[j])
    BY <1>4, <1>7, <1>8, <2>1
  <2>3. keys[i] # keys[j]
    BY <1>2, <1>7, <1>8
  <2>4. NFC[keys[i]] # NFC[keys[j]]
    BY <1>8, <2>1, <2>3 DEF Collides, K
  <2> QED BY <2>2, <2>4
<1> QED BY <1>1, <1>2, <1>7, <1>8 DEF K, keys
-------------------------------------------------------------------------------
(* Signed values: what one level keeps of the level below *)

\* What inner returns for parts in S is a text in T or an error.
GivesTexts(S, T, inner) == \A x \in S, d \in Depths : inner[x][d] \in T \union {Error}

\* Every canonical form of a part is kept by JSON.parse and canonicalize.
KeepsTexts(S, C, P) ==
  \A x \in S, d \in Depths :
    C[x][d] # Error => P[C[x][d]] \in S /\ C[P[C[x][d]]][d] = C[x][d]

\* Parts with one canonical form have one meaning.
KeepsMeaning(S, C, M) ==
  \A x, y \in S, d \in Depths : C[x][d] # Error /\ C[x][d] = C[y][d] => M[x] = M[y]

\* What the calls for the items of a list return.
ItemTexts(items, d, C) == [i \in DOMAIN items |-> C[items[i]][d + 1]]

\* The canonical form of a list, if it has one.
LEMMA ListText ==
  ASSUME NEW items, NEW d \in Depths, NEW C,
         textOf([kind |-> "list", items |-> items], d, C) # Error
  PROVE  /\ d + 1 \in Depths /\ \A i \in DOMAIN items : ItemTexts(items, d, C)[i] # Error
         /\ textOf([kind |-> "list", items |-> items], d, C) =
              [kind |-> "list", items |-> ItemTexts(items, d, C)]
<1> DEFINE v == [kind |-> "list", items |-> items]
           texts == [i \in DOMAIN items |-> C[items[i]][d + 1]]
<1>1. v.kind = "list" /\ v.items = items
  OBVIOUS
<1>2. textOf(v, d, C) = IF d > MAX_DEPTH THEN Error
                        ELSE IF AllGood(texts) THEN [kind |-> "list", items |-> texts] ELSE Error
  BY <1>1 DEF textOf
<1>3. ~(d > MAX_DEPTH) /\ AllGood(texts) /\ textOf(v, d, C) = [kind |-> "list", items |-> texts]
  BY <1>2
<1>4. d + 1 \in Depths
  BY <1>3, CanonicalAssumption DEF Depths
<1>5. \A i \in DOMAIN items : texts[i] # Error
  BY <1>3 DEF AllGood
<1>6. ItemTexts(items, d, C) = texts
  BY DEF ItemTexts
<1> HIDE DEF texts
<1> QED BY <1>3, <1>4, <1>5, <1>6

\* What the calls for the members of an object return, in the order of the keys, and
\* the members of the text that is made of that.
PartTexts(fields, d, C) ==
  [i \in 1 .. Cardinality(Keys(fields)) |-> C[fields[SortedKeys(fields)[i]]][d + 1]]
Members(fields, d, C) ==
  [i \in 1 .. Cardinality(Keys(fields)) |-> <<NFC[SortedKeys(fields)[i]], PartTexts(fields, d, C)[i]>>]

\* The canonical form of an object, if it has one.
LEMMA ObjectText ==
  ASSUME NEW S, NEW fields \in [Strings -> S \union {Absent}], NEW d \in Depths, NEW C,
         textOf([kind |-> "object", fields |-> fields], d, C) # Error
  PROVE  /\ d + 1 \in Depths /\ ~Collides(fields)
         /\ \A i \in 1 .. Cardinality(Keys(fields)) :
              fields[SortedKeys(fields)[i]] \in S /\ PartTexts(fields, d, C)[i] # Error
         /\ textOf([kind |-> "object", fields |-> fields], d, C) =
              [kind |-> "object", members |-> Members(fields, d, C)]
<1> DEFINE v == [kind |-> "object", fields |-> fields]
           n == Cardinality(Keys(fields))
           keys == SortedKeys(fields)
           texts == [i \in 1 .. n |-> C[fields[keys[i]]][d + 1]]
           result == [kind |-> "object", members |-> [i \in 1 .. n |-> <<NFC[keys[i]], texts[i]>>]]
<1>1. v.kind = "object" /\ v.fields = fields
  OBVIOUS
<1>2. keys \in [1 .. n -> Keys(fields)]
  BY KeysAre
<1>3. DOMAIN keys = 1 .. n
  <2> HIDE DEF keys, n
  <2> QED BY <1>2
<1>4. textOf(v, d, C) = IF d > MAX_DEPTH THEN Error
                        ELSE IF ~Collides(fields) /\ AllGood(texts) THEN result ELSE Error
  BY <1>1, <1>3 DEF textOf
<1>5. PartTexts(fields, d, C) = texts /\ [kind |-> "object", members |-> Members(fields, d, C)] = result
  BY DEF PartTexts, Members
<1> HIDE DEF result, texts
<1>6. ~(d > MAX_DEPTH) /\ ~Collides(fields) /\ AllGood(texts) /\ textOf(v, d, C) = result
  BY <1>4
<1>7. d + 1 \in Depths
  BY <1>6, CanonicalAssumption DEF Depths
<1>8. \A i \in 1 .. n : texts[i] # Error
  BY <1>6 DEF AllGood, texts
<1>9. \A i \in 1 .. n : fields[keys[i]] \in S
  <2> SUFFICES ASSUME NEW i \in 1 .. n PROVE fields[keys[i]] \in S
    OBVIOUS
  <2> HIDE DEF keys, n
  <2>1. keys[i] \in Keys(fields)
    BY <1>2
  <2> QED BY <2>1 DEF Keys
<1> QED BY <1>5, <1>6, <1>7, <1>8, <1>9

\* The canonical form of a value is a text.
LEMMA TextTyped ==
  ASSUME NEW S, NEW T, NEW C, GivesTexts(S, T, C), NEW v \in ValuesOver(S), NEW d \in Depths
  PROVE  textOf(v, d, C) \in TextsOver(T) \union {Error}
<1> SUFFICES ASSUME textOf(v, d, C) # Error PROVE textOf(v, d, C) \in TextsOver(T)
  OBVIOUS
<1>1. CASE v \in Atoms
  BY <1>1, AtomTexts DEF TextsOver
<1>2. CASE v = [kind |-> "list", items |-> v.items] /\ v.items \in Seq(S)
  <2> DEFINE texts == [i \in DOMAIN v.items |-> C[v.items[i]][d + 1]]
  <2>1. /\ d + 1 \in Depths /\ \A i \in DOMAIN v.items : texts[i] # Error
        /\ textOf(v, d, C) = [kind |-> "list", items |-> texts]
    BY <1>2, ListText DEF ItemTexts
  <2>2. Len(v.items) \in Nat /\ DOMAIN v.items = 1 .. Len(v.items)
        /\ \A i \in 1 .. Len(v.items) : v.items[i] \in S
    BY <1>2, LenProperties, ElementOfSeq
  <2>3. \A i \in 1 .. Len(v.items) : texts[i] \in T
    BY <2>1, <2>2 DEF GivesTexts
  <2>4. texts \in [1 .. Len(v.items) -> T]
    BY <2>2, <2>3
  <2>5. texts \in Seq(T)
    <3> HIDE DEF texts
    <3> QED BY <2>2, <2>4
  <2> HIDE DEF texts
  <2> QED BY <2>1, <2>5 DEF TextsOver
<1>3. CASE v = [kind |-> "object", fields |-> v.fields] /\ v.fields \in [Strings -> S \union {Absent}]
  <2>0. PICK fields \in [Strings -> S \union {Absent}] : v = [kind |-> "object", fields |-> fields]
    BY <1>3
  <2> DEFINE n == Cardinality(Keys(fields))
             keys == SortedKeys(fields)
             texts == PartTexts(fields, d, C)
             members == Members(fields, d, C)
  <2>1. /\ d + 1 \in Depths /\ \A i \in 1 .. n : fields[keys[i]] \in S /\ texts[i] # Error
        /\ textOf(v, d, C) = [kind |-> "object", members |-> members]
    <3>1. textOf(v, d, C) = textOf([kind |-> "object", fields |-> fields], d, C)
      BY <2>0
    <3>2. /\ d + 1 \in Depths /\ \A i \in 1 .. n : fields[keys[i]] \in S /\ texts[i] # Error
          /\ textOf([kind |-> "object", fields |-> fields], d, C) = [kind |-> "object", members |-> members]
      BY <3>1, ObjectText
    <3> QED BY <3>1, <3>2
  <2>2. n \in Nat /\ keys \in [1 .. n -> Keys(fields)] /\ Keys(fields) \in SUBSET Strings
    BY KeysAre
  <2>3. \A i \in 1 .. n : texts[i] \in T
    BY <2>1 DEF GivesTexts, PartTexts
  <2>4. \A i \in 1 .. n : NFC[keys[i]] \in Strings
    <3> HIDE DEF n, keys
    <3> QED BY <2>2, CanonicalAssumption
  <2>5. members = [i \in 1 .. n |-> <<NFC[keys[i]], texts[i]>>]
    BY DEF Members
  <2> HIDE DEF n, keys, texts, members
  <2>6. members \in [1 .. n -> Strings \X T]
    BY <2>3, <2>4, <2>5
  <2>7. members \in Seq(Strings \X T)
    BY <2>2, <2>6
  <2> QED BY <2>1, <2>7 DEF TextsOver
<1> QED BY <1>1, <1>2, <1>3, ValueKinds

\* canonical.js:45-46, for one level: "idempotent under parse -> canonicalize".
LEMMA RoundTrip ==
  ASSUME NEW S, NEW C, NEW P, KeepsTexts(S, C, P), Absent \notin S,
         NEW v \in ValuesOver(S), NEW d \in Depths, textOf(v, d, C) # Error
  PROVE  LET t == textOf(v, d, C) IN
         valueOf(t, P) \in ValuesOver(S) /\ textOf(valueOf(t, P), d, C) = t
<1> DEFINE t == textOf(v, d, C)
<1>1. CASE v \in Atoms
  <2>1. t \in Atoms /\ valueOf(t, P) = t /\ textOf(t, d, C) = t
    BY <1>1, AtomTexts
  <2> HIDE DEF t
  <2>2. t \in ValuesOver(S)
    BY <2>1 DEF ValuesOver
  <2> QED BY <2>1, <2>2 DEF t
<1>2. CASE v = [kind |-> "list", items |-> v.items] /\ v.items \in Seq(S)
  <2> DEFINE l == Len(v.items)
             texts == [i \in DOMAIN v.items |-> C[v.items[i]][d + 1]]
             items == [i \in DOMAIN texts |-> P[texts[i]]]
             again == [i \in DOMAIN items |-> C[items[i]][d + 1]]
             back == [kind |-> "list", items |-> items]
  <2>1. /\ d + 1 \in Depths /\ \A i \in DOMAIN v.items : texts[i] # Error
        /\ t = [kind |-> "list", items |-> texts]
    BY <1>2, ListText DEF ItemTexts
  <2>2. l \in Nat /\ DOMAIN v.items = 1 .. l /\ \A i \in 1 .. l : v.items[i] \in S
    BY <1>2, LenProperties, ElementOfSeq
  <2>3. \A i \in 1 .. l : P[texts[i]] \in S /\ C[P[texts[i]]][d + 1] = texts[i]
    BY <2>1, <2>2 DEF KeepsTexts
  <2>4. DOMAIN texts = 1 .. l /\ texts = [i \in 1 .. l |-> texts[i]]
    BY <2>2
  <2> HIDE DEF texts
  <2>5. valueOf(t, P) = back
    <3> HIDE DEF t
    <3> QED BY <2>1 DEF valueOf
  <2>6. items \in [1 .. l -> S] /\ DOMAIN items = 1 .. l
    BY <2>3, <2>4
  <2>7. \A i \in 1 .. l : again[i] = texts[i]
    BY <2>3, <2>4
  <2>8. again = texts
    BY <2>4, <2>7
  <2>9. AllGood(again)
    BY <2>1, <2>2, <2>4, <2>8 DEF AllGood
  <2>10. items \in Seq(S)
    <3> HIDE DEF items, l
    <3> QED BY <2>2, <2>6
  <2>11. ~(d > MAX_DEPTH)
    BY <2>1, CanonicalAssumption DEF Depths
  <2> HIDE DEF items, again
  <2>12. back.kind = "list" /\ back.items = items
    OBVIOUS
  <2>13. textOf(back, d, C) = [kind |-> "list", items |-> again]
    BY <2>9, <2>11, <2>12 DEF textOf, again
  <2>14. back \in ValuesOver(S)
    BY <2>10 DEF ValuesOver
  <2> QED BY <2>1, <2>5, <2>8, <2>13, <2>14
<1>3. CASE v = [kind |-> "object", fields |-> v.fields] /\ v.fields \in [Strings -> S \union {Absent}]
  <2>0. PICK given \in [Strings -> S \union {Absent}] : v = [kind |-> "object", fields |-> given]
    BY <1>3
  <2> DEFINE K == Keys(given)
             n == Cardinality(K)
             keys == SortedKeys(given)
             texts == [i \in 1 .. n |-> C[given[keys[i]]][d + 1]]
             norm == [i \in 1 .. n |-> NFC[keys[i]]]
             members == [i \in 1 .. n |-> <<norm[i], texts[i]>>]
  <2>1. /\ d + 1 \in Depths /\ ~Collides(given)
        /\ \A i \in 1 .. n : given[keys[i]] \in S /\ texts[i] # Error
        /\ t = [kind |-> "object", members |-> members]
    <3>1. Members(given, d, C) = members /\ PartTexts(given, d, C) = texts
      BY DEF Members, PartTexts
    <3>2. /\ d + 1 \in Depths /\ ~Collides(given)
          /\ \A i \in 1 .. n : given[keys[i]] \in S /\ PartTexts(given, d, C)[i] # Error
          /\ t = [kind |-> "object", members |-> Members(given, d, C)]
      <4>1. t = textOf([kind |-> "object", fields |-> given], d, C)
        BY <2>0
      <4>2. textOf([kind |-> "object", fields |-> given], d, C) # Error
        BY <4>1
      <4>3. /\ d + 1 \in Depths /\ ~Collides(given)
            /\ \A i \in 1 .. n : given[keys[i]] \in S /\ PartTexts(given, d, C)[i] # Error
            /\ textOf([kind |-> "object", fields |-> given], d, C) =
                 [kind |-> "object", members |-> Members(given, d, C)]
        BY <4>2, ObjectText
      <4> QED BY <4>1, <4>3, Zenon
    <3> HIDE DEF members, texts
    <3> QED BY <3>1, <3>2
  <2>2. /\ n \in Nat /\ keys \in [1 .. n -> K] /\ K \in SUBSET Strings
        /\ \A i, j \in 1 .. n : i < j => NFC[keys[i]] < NFC[keys[j]]
    BY <2>1, KeysAre
  <2> HIDE DEF n, keys, t, K
  <2>3. \A i \in 1 .. n : P[texts[i]] \in S /\ C[P[texts[i]]][d + 1] = texts[i]
    BY <2>1 DEF KeepsTexts
  <2>4. \A i \in 1 .. n : keys[i] \in Strings
    BY <2>2
  <2>5. \A i \in 1 .. n : norm[i] \in Strings /\ norm[i] \in Nat /\ NFC[norm[i]] = norm[i]
    BY <2>4, CanonicalAssumption
  <2>6. \A i, j \in 1 .. n : i < j => norm[i] < norm[j]
    BY <2>2
  <2>7. DOMAIN norm = 1 .. n /\ norm \in [1 .. n -> Nat]
    <3>1. norm = [i \in 1 .. n |-> norm[i]]
      OBVIOUS
    <3> HIDE DEF norm
    <3> QED BY <2>5, <3>1
  <2> HIDE DEF norm, texts
  <2>8. \A i, j \in 1 .. n : norm[i] = norm[j] => i = j
    BY <2>2, <2>5, <2>6
  <2> DEFINE I == DOMAIN members
             Latest(k) == CHOOSE i \in I : /\ members[i][1] = k
                                           /\ \A j \in I : members[j][1] = k => j <= i
             fields == [k \in Strings |-> IF \E i \in I : members[i][1] = k
                                          THEN P[members[Latest(k)][2]] ELSE Absent]
             back == [kind |-> "object", fields |-> fields]
  <2>9. I = 1 .. n /\ \A i \in 1 .. n : members[i][1] = norm[i] /\ members[i][2] = texts[i]
    OBVIOUS
  <2>10. valueOf(t, P) = back
    <3>1. t.kind = "object" /\ t.members = members
      BY <2>1
    <3> HIDE DEF t, members
    <3> QED BY <3>1 DEF valueOf
  <2> HIDE DEF members, I
  <2>11. \A i \in 1 .. n : Latest(norm[i]) = i
    <3> SUFFICES ASSUME NEW i \in 1 .. n PROVE Latest(norm[i]) = i
      OBVIOUS
    <3>1. i \in I /\ members[i][1] = norm[i] /\ \A j \in I : members[j][1] = norm[i] => j <= i
      BY <2>2, <2>8, <2>9
    <3>2. \A l \in I : members[l][1] = norm[i] => l = i
      BY <2>8, <2>9
    <3> QED BY <3>1, <3>2
  <2> HIDE DEF Latest
  <2>12. ASSUME NEW i \in 1 .. n PROVE fields[norm[i]] = P[texts[i]] /\ fields[norm[i]] \in S
    <3>1. norm[i] \in Strings /\ i \in I /\ members[i][1] = norm[i]
      BY <2>5, <2>9
    <3>2. fields[norm[i]] = P[members[Latest(norm[i])][2]]
      BY <3>1
    <3>3. fields[norm[i]] = P[texts[i]]
      BY <2>9, <2>11, <3>2
    <3> QED BY <2>3, <3>3
  <2>13. \A k \in Strings : (\A i \in 1 .. n : norm[i] # k) => fields[k] = Absent
    BY <2>9
  <2>14. fields \in [Strings -> S \union {Absent}]
    <3> SUFFICES ASSUME NEW k \in Strings PROVE fields[k] \in S \union {Absent}
      <4>1. fields = [k \in Strings |-> fields[k]]
        OBVIOUS
      <4> HIDE DEF fields
      <4> QED BY <4>1
    <3> HIDE DEF fields
    <3>1. CASE \E i \in 1 .. n : norm[i] = k
      BY <2>12, <3>1
    <3>2. CASE \A i \in 1 .. n : norm[i] # k
      BY <2>13, <3>2
    <3> QED BY <3>1, <3>2
  <2> HIDE DEF fields
  <2> DEFINE L == Keys(fields)
             o == Cardinality(L)
             order == SortedKeys(fields)
  <2>15. L = {norm[i] : i \in 1 .. n}
    <3>1. \A i \in 1 .. n : norm[i] \in L
      BY <2>5, <2>12, <2>14 DEF Keys
    <3>2. \A k \in L : \E i \in 1 .. n : norm[i] = k
      BY <2>13, <2>14 DEF Keys
    <3> HIDE DEF L
    <3> QED BY <3>1, <3>2
  <2>16. ~Collides(fields)
    <3>1. \A k \in L : NFC[k] = k
      <4> HIDE DEF L
      <4> QED BY <2>5, <2>15
    <3> QED BY <3>1 DEF Collides
  <2>17. /\ o \in Nat /\ order \in [1 .. o -> L] /\ \A k \in L : \E i \in 1 .. o : order[i] = k
         /\ \A i, j \in 1 .. o : i < j => NFC[order[i]] < NFC[order[j]]
    BY <2>14, <2>16, KeysAre
  <2> HIDE DEF order
  <2>18. o = n
    <3>1. norm \in Bijection(1 .. n, L)
      <4> HIDE DEF L
      <4>1. norm \in [1 .. n -> L]
        BY <2>7, <2>15
      <4>2. \A k \in L : \E i \in 1 .. n : norm[i] = k
        BY <2>15
      <4> QED BY <2>8, <4>1, <4>2 DEF Bijection, Injection, Surjection, IsInjective
    <3>2. IsFiniteSet(1 .. n) /\ Cardinality(1 .. n) = n
      BY <2>2, FS_Interval
    <3> HIDE DEF L
    <3> QED BY <3>1, <3>2, FS_Bijection DEF ExistsBijection
  <2> HIDE DEF L, o
  <2>19. \A i \in 1 .. n : order[i] \in L /\ NFC[order[i]] = order[i] /\ order[i] \in Nat
    <3> SUFFICES ASSUME NEW i \in 1 .. n
                 PROVE  order[i] \in L /\ NFC[order[i]] = order[i] /\ order[i] \in Nat
      OBVIOUS
    <3>1. order[i] \in L
      BY <2>17, <2>18
    <3> QED BY <2>5, <2>15, <3>1
  <2>20. order = norm
    <3>1. order \in [1 .. n -> Nat]
      BY <2>17, <2>18, <2>19
    <3>2. \A i, j \in 1 .. n : i < j => order[i] < order[j]
      BY <2>17, <2>18, <2>19
    <3>3. \A i \in 1 .. n : \E j \in 1 .. n : order[i] = norm[j]
      BY <2>15, <2>19
    <3>4. \A i \in 1 .. n : \E j \in 1 .. n : norm[i] = order[j]
      BY <2>15, <2>17, <2>18
    <3> QED BY <2>2, <2>6, <2>7, <3>1, <3>2, <3>3, <3>4, SameOrder
  <2> DEFINE again == [i \in 1 .. n |-> C[fields[norm[i]]][d + 1]]
  <2>21. \A i \in 1 .. n : again[i] = texts[i]
    BY <2>3, <2>12
  <2>22. [i \in 1 .. n |-> <<NFC[norm[i]], again[i]>>] = members
    BY <2>5, <2>21 DEF members
  <2>23. AllGood(again)
    BY <2>1, <2>21 DEF AllGood
  <2>24. ~(d > MAX_DEPTH)
    BY <2>1, CanonicalAssumption DEF Depths
  <2>25. back.kind = "object" /\ back.fields = fields
    OBVIOUS
  <2>26. textOf(back, d, C) = [kind |-> "object", members |-> [i \in 1 .. n |-> <<NFC[norm[i]], again[i]>>]]
    <3>1. SortedKeys(back.fields) = norm /\ DOMAIN norm = 1 .. n /\ ~Collides(back.fields)
      BY <2>7, <2>16, <2>20, <2>25 DEF order
    <3> HIDE DEF back
    <3>2. again = [i \in DOMAIN norm |-> C[back.fields[norm[i]]][d + 1]]
      BY <2>25, <3>1
    <3> HIDE DEF again
    <3> QED BY <2>23, <2>24, <2>25, <3>1, <3>2 DEF textOf
  <2>27. back \in ValuesOver(S)
    BY <2>14 DEF ValuesOver
  <2> HIDE DEF back, again
  <2> QED BY <2>1, <2>10, <2>22, <2>26, <2>27 DEF t
<1> QED BY <1>1, <1>2, <1>3, ValueKinds

\* One canonical form never stands for two meanings, for one level.
LEMMA OneMeaning ==
  ASSUME NEW S, NEW C, NEW M, KeepsMeaning(S, C, M), NEW v \in ValuesOver(S), NEW w \in ValuesOver(S),
         NEW d \in Depths, textOf(v, d, C) # Error, textOf(v, d, C) = textOf(w, d, C)
  PROVE  meaningOf(v, M) = meaningOf(w, M)
<1>1. v.kind = w.kind
  BY SameKind
<1>2. \A x \in Atoms : x.kind # "list" /\ x.kind # "object"
  BY DEF Atoms, JSONAtoms
<1>3. CASE v \in Atoms /\ w \in Atoms
  <2>1. textOf(v, d, C) = meaningOf(v, M) /\ textOf(w, d, C) = meaningOf(w, M)
    BY <1>3, AtomTexts
  <2> QED BY <2>1
<1>4. CASE v.kind = "list" /\ w.kind = "list"
  <2>1. PICK p \in Seq(S) : v = [kind |-> "list", items |-> p]
    BY <1>2, <1>4, ValueKinds
  <2>2. PICK q \in Seq(S) : w = [kind |-> "list", items |-> q]
    BY <1>2, <1>4, ValueKinds
  <2> DEFINE s == ItemTexts(p, d, C)
             t == ItemTexts(q, d, C)
  <2>3. /\ d + 1 \in Depths /\ \A i \in DOMAIN p : s[i] # Error
        /\ textOf([kind |-> "list", items |-> p], d, C) = [kind |-> "list", items |-> s]
    <3>1. textOf([kind |-> "list", items |-> p], d, C) # Error
      BY <2>1
    <3> QED BY <3>1, ListText
  <2>4. textOf([kind |-> "list", items |-> q], d, C) = [kind |-> "list", items |-> t]
    <3>1. textOf([kind |-> "list", items |-> q], d, C) # Error
      BY <2>2
    <3> QED BY <3>1, ListText
  <2>5. s = t
    <3> HIDE DEF s, t
    <3>1. [kind |-> "list", items |-> s] = [kind |-> "list", items |-> t]
      BY <2>1, <2>2, <2>3, <2>4
    <3> QED BY <3>1
  <2>6. DOMAIN p = DOMAIN q /\ \A i \in DOMAIN p : C[p[i]][d + 1] # Error /\ C[p[i]][d + 1] = C[q[i]][d + 1]
    <3>1. DOMAIN s = DOMAIN p /\ DOMAIN t = DOMAIN q
      BY DEF ItemTexts
    <3>2. DOMAIN p = DOMAIN q
      <4> HIDE DEF s, t
      <4> QED BY <2>5, <3>1
    <3>3. \A i \in DOMAIN p : s[i] = C[p[i]][d + 1] /\ t[i] = C[q[i]][d + 1]
      BY <3>2 DEF ItemTexts
    <3> HIDE DEF s, t
    <3> QED BY <2>3, <2>5, <3>2, <3>3
  <2>7. \A i \in DOMAIN p : p[i] \in S /\ q[i] \in S
    <3>1. DOMAIN p = 1 .. Len(p) /\ DOMAIN q = 1 .. Len(q)
      BY LenProperties
    <3> QED BY <2>6, <3>1, ElementOfSeq
  <2>8. \A i \in DOMAIN p : M[p[i]] = M[q[i]]
    BY <2>3, <2>6, <2>7 DEF KeepsMeaning
  <2>9. [i \in DOMAIN p |-> M[p[i]]] = [i \in DOMAIN q |-> M[q[i]]]
    BY <2>6, <2>8
  <2>10. /\ meaningOf(v, M) = [kind |-> "list", items |-> [i \in DOMAIN p |-> M[p[i]]]]
         /\ meaningOf(w, M) = [kind |-> "list", items |-> [i \in DOMAIN q |-> M[q[i]]]]
    BY <2>1, <2>2 DEF meaningOf
  <2> QED BY <2>9, <2>10
<1>5. ASSUME NEW h \in [Strings -> S \union {Absent}],
             textOf([kind |-> "object", fields |-> h], d, C) # Error
      PROVE  /\ d + 1 \in Depths
             /\ \A i \in 1 .. Cardinality(Keys(h)) :
                  h[SortedKeys(h)[i]] \in S /\ PartTexts(h, d, C)[i] # Error
             /\ textOf([kind |-> "object", fields |-> h], d, C) =
                  [kind |-> "object", members |-> Members(h, d, C)]
  BY <1>5, ObjectText
<1>6. CASE v.kind = "object" /\ w.kind = "object"
  <2>1. PICK f \in [Strings -> S \union {Absent}] : v = [kind |-> "object", fields |-> f]
    BY <1>2, <1>6, ValueKinds
  <2>2. PICK g \in [Strings -> S \union {Absent}] : w = [kind |-> "object", fields |-> g]
    BY <1>2, <1>6, ValueKinds
  <2> DEFINE n == Cardinality(Keys(f))
             o == Cardinality(Keys(g))
             keys == SortedKeys(f)
             others == SortedKeys(g)
  <2>3. /\ d + 1 \in Depths
        /\ \A i \in 1 .. n : f[keys[i]] \in S /\ PartTexts(f, d, C)[i] # Error
        /\ textOf([kind |-> "object", fields |-> f], d, C) =
             [kind |-> "object", members |-> Members(f, d, C)]
    <3>1. textOf([kind |-> "object", fields |-> f], d, C) # Error
      BY <2>1
    <3> QED BY <1>5, <3>1
  <2>4. /\ \A i \in 1 .. o : g[others[i]] \in S
        /\ textOf([kind |-> "object", fields |-> g], d, C) =
             [kind |-> "object", members |-> Members(g, d, C)]
    <3>1. textOf([kind |-> "object", fields |-> g], d, C) # Error
      BY <2>2
    <3> QED BY <1>5, <3>1
  <2>5. Members(f, d, C) = Members(g, d, C)
    <3>1. [kind |-> "object", members |-> Members(f, d, C)]
            = [kind |-> "object", members |-> Members(g, d, C)]
      BY <2>1, <2>2, <2>3, <2>4
    <3> QED BY <3>1
  <2>6. /\ n \in Nat /\ keys \in [1 .. n -> Keys(f)] /\ \A k \in Keys(f) : \E i \in 1 .. n : keys[i] = k
    BY KeysAre
  <2>7. /\ o \in Nat /\ others \in [1 .. o -> Keys(g)] /\ \A k \in Keys(g) : \E i \in 1 .. o : others[i] = k
    BY KeysAre
  <2>8. /\ DOMAIN Members(f, d, C) = 1 .. n
        /\ \A i \in 1 .. n : Members(f, d, C)[i] = <<NFC[keys[i]], C[f[keys[i]]][d + 1]>>
                             /\ PartTexts(f, d, C)[i] = C[f[keys[i]]][d + 1]
    BY DEF Members, PartTexts
  <2>9. /\ DOMAIN Members(g, d, C) = 1 .. o
        /\ \A i \in 1 .. o : Members(g, d, C)[i] = <<NFC[others[i]], C[g[others[i]]][d + 1]>>
    BY DEF Members, PartTexts
  <2> HIDE DEF n, o, keys, others
  <2>10. n = o
    <3>1. 1 .. n = 1 .. o
      BY <2>5, <2>8, <2>9
    <3>2. (n >= 1 => n \in 1 .. o) /\ (o >= 1 => o \in 1 .. n)
      BY <2>6, <2>7, <3>1
    <3> QED BY <2>6, <2>7, <3>2
  <2>11. ASSUME NEW i \in 1 .. n
         PROVE  NFC[keys[i]] = NFC[others[i]] /\ M[f[keys[i]]] = M[g[others[i]]]
    <3>1. NFC[keys[i]] = NFC[others[i]] /\ C[f[keys[i]]][d + 1] = C[g[others[i]]][d + 1]
      BY <2>5, <2>8, <2>9, <2>10
    <3>2. C[f[keys[i]]][d + 1] # Error /\ f[keys[i]] \in S /\ g[others[i]] \in S
      BY <2>3, <2>4, <2>8, <2>10
    <3> QED BY <2>3, <3>1, <3>2 DEF KeepsMeaning
  <2> DEFINE A == {<<NFC[k], M[f[k]]>> : k \in Keys(f)}
             B == {<<NFC[k], M[g[k]]>> : k \in Keys(g)}
  <2>12. A = {<<NFC[keys[i]], M[f[keys[i]]]>> : i \in 1 .. n}
    BY <2>6
  <2>13. B = {<<NFC[others[i]], M[g[others[i]]]>> : i \in 1 .. n}
    BY <2>7, <2>10
  <2>14. A = B
    <3> HIDE DEF A, B
    <3> QED BY <2>11, <2>12, <2>13
  <2>15. /\ meaningOf(v, M) = [kind |-> "object", fields |-> A, count |-> n]
         /\ meaningOf(w, M) = [kind |-> "object", fields |-> B, count |-> o]
    BY <2>1, <2>2 DEF meaningOf, n, o
  <2> HIDE DEF A, B
  <2> QED BY <2>10, <2>14, <2>15
<1> QED BY <1>1, <1>2, <1>3, <1>4, <1>6, ValueKinds
-------------------------------------------------------------------------------
(* Signed values: all levels *)

\* What holds of the values that are nested at most n deep.
Sound(n) ==
  /\ Absent \notin Nested[n]
  /\ GivesTexts(Nested[n], Texts[n], CanonicalForm[n])
  /\ KeepsTexts(Nested[n], CanonicalForm[n], Parsed[n])
  /\ KeepsMeaning(Nested[n], CanonicalForm[n], Meanings[n])

\* The functions of one level, in terms of the level below.
LEMMA Levels ==
  ASSUME NEW n \in 0 .. NESTING, NEW C, NEW P, NEW M,
         C = IF n = 0 THEN <<>> ELSE CanonicalForm[n - 1],
         P = IF n = 0 THEN <<>> ELSE Parsed[n - 1],
         M = IF n = 0 THEN <<>> ELSE Meanings[n - 1]
  PROVE  /\ Nested[n] = IF n = 0 THEN Atoms ELSE ValuesOver(Nested[n - 1])
         /\ Texts[n] = IF n = 0 THEN JSONAtoms ELSE TextsOver(Texts[n - 1])
         /\ \A v \in Nested[n], d \in Depths : CanonicalForm[n][v][d] = textOf(v, d, C)
         /\ \A t \in Texts[n] : Parsed[n][t] = valueOf(t, P)
         /\ \A v \in Nested[n] : Meanings[n][v] = meaningOf(v, M)
<1>1. Nested[n] = IF n = 0 THEN Atoms ELSE ValuesOver(IF n = 0 THEN <<>> ELSE Nested[n - 1])
  <2> DEFINE f(m) == IF m = 0 THEN Atoms ELSE ValuesOver(IF m = 0 THEN <<>> ELSE Nested[m - 1])
  <2>1. Nested = [m \in 0 .. NESTING |-> f(m)]
    BY NestedIs
  <2> HIDE DEF f
  <2>2. Nested[n] = f(n)
    BY <2>1
  <2> QED BY <2>2 DEF f
<1>2. Texts[n] = IF n = 0 THEN JSONAtoms ELSE TextsOver(IF n = 0 THEN <<>> ELSE Texts[n - 1])
  <2> DEFINE f(m) == IF m = 0 THEN JSONAtoms ELSE TextsOver(IF m = 0 THEN <<>> ELSE Texts[m - 1])
  <2>1. Texts = [m \in 0 .. NESTING |-> f(m)]
    BY TextsIs
  <2> HIDE DEF f
  <2>2. Texts[n] = f(n)
    BY <2>1
  <2> QED BY <2>2 DEF f
<1>3. CanonicalForm[n] = [v \in Nested[n] |-> [d \in Depths |-> textOf(v, d, C)]]
  <2> DEFINE f(m, inner) == [v \in Nested[m] |-> [d \in 0 .. MAX_DEPTH + 1 |-> textOf(v, d, inner)]]
  <2>1. CanonicalForm = [m \in 0 .. NESTING |-> f(m, IF m = 0 THEN <<>> ELSE CanonicalForm[m - 1])]
    BY CanonicalFormIs
  <2> HIDE DEF f
  <2>2. CanonicalForm[n] = f(n, C)
    BY <2>1
  <2> QED BY <2>2 DEF f, Depths
<1>4. Parsed[n] = [t \in Texts[n] |-> valueOf(t, P)]
  <2> DEFINE f(m, inner) == [t \in Texts[m] |-> valueOf(t, inner)]
  <2>1. Parsed = [m \in 0 .. NESTING |-> f(m, IF m = 0 THEN <<>> ELSE Parsed[m - 1])]
    BY ParsedIs
  <2> HIDE DEF f
  <2>2. Parsed[n] = f(n, P)
    BY <2>1
  <2> QED BY <2>2 DEF f
<1>5. Meanings[n] = [v \in Nested[n] |-> meaningOf(v, M)]
  <2> DEFINE f(m, inner) == [v \in Nested[m] |-> meaningOf(v, inner)]
  <2>1. Meanings = [m \in 0 .. NESTING |-> f(m, IF m = 0 THEN <<>> ELSE Meanings[m - 1])]
    BY MeaningsIs
  <2> HIDE DEF f
  <2>2. Meanings[n] = f(n, M)
    BY <2>1
  <2> QED BY <2>2 DEF f
<1> QED BY <1>1, <1>2, <1>3, <1>4, <1>5

\* Atoms have canonical forms that are kept and tell their meaning.
LEMMA AtomsSound == Sound(0)
<1> DEFINE N == <<>>
<1>1. 0 \in 0 .. NESTING
  BY CanonicalAssumption
<1>2. /\ Nested[0] = Atoms /\ Texts[0] = JSONAtoms
      /\ \A v \in Atoms, d \in Depths : CanonicalForm[0][v][d] = textOf(v, d, N)
      /\ \A t \in JSONAtoms : Parsed[0][t] = valueOf(t, N)
      /\ \A v \in Atoms : Meanings[0][v] = meaningOf(v, N)
  BY <1>1, Levels
<1> HIDE DEF N
<1>3. \A v \in Atoms, d \in Depths :
        LET t == textOf(v, d, N) IN
        /\ t \in JSONAtoms \union {Error}
        /\ t # Error => /\ t \in Atoms /\ valueOf(t, N) = t /\ textOf(t, d, N) = t
                        /\ t = meaningOf(v, N)
  BY AtomTexts
<1>4. Absent \notin Atoms /\ Error \notin JSONAtoms
  BY DEF Absent, Atoms, JSONAtoms, Error
<1>5. GivesTexts(Atoms, JSONAtoms, CanonicalForm[0])
  BY <1>2, <1>3 DEF GivesTexts
<1>6. KeepsTexts(Atoms, CanonicalForm[0], Parsed[0])
  <2> SUFFICES ASSUME NEW v \in Atoms, NEW d \in Depths, CanonicalForm[0][v][d] # Error
               PROVE  LET t == CanonicalForm[0][v][d] IN
                      Parsed[0][t] \in Atoms /\ CanonicalForm[0][Parsed[0][t]][d] = t
    BY DEF KeepsTexts
  <2>1. CanonicalForm[0][v][d] = textOf(v, d, N)
    BY <1>2
  <2>2. /\ textOf(v, d, N) \in JSONAtoms /\ textOf(v, d, N) \in Atoms
        /\ valueOf(textOf(v, d, N), N) = textOf(v, d, N)
        /\ textOf(textOf(v, d, N), d, N) = textOf(v, d, N)
    BY <1>3, <2>1
  <2> QED BY <1>2, <2>1, <2>2
<1>7. KeepsMeaning(Atoms, CanonicalForm[0], Meanings[0])
  BY <1>2, <1>3 DEF KeepsMeaning
<1> QED BY <1>2, <1>4, <1>5, <1>6, <1>7 DEF Sound

\* And so have values that are made of such.
LEMMA LevelSound ==
  ASSUME NEW n \in 0 .. NESTING - 1, Sound(n)
  PROVE  Sound(n + 1)
<1> DEFINE m == n + 1
           S == Nested[n]
           C == CanonicalForm[n]
           P == Parsed[n]
           M == Meanings[n]
<1>1. m \in 0 .. NESTING /\ m # 0 /\ m - 1 = n
  BY CanonicalAssumption
<1>2. /\ Nested[m] = ValuesOver(S) /\ Texts[m] = TextsOver(Texts[n])
      /\ \A v \in Nested[m], d \in Depths : CanonicalForm[m][v][d] = textOf(v, d, C)
      /\ \A t \in Texts[m] : Parsed[m][t] = valueOf(t, P)
      /\ \A v \in Nested[m] : Meanings[m][v] = meaningOf(v, M)
  <2> HIDE DEF m
  <2>1. C = (IF m = 0 THEN <<>> ELSE CanonicalForm[m - 1]) /\ P = (IF m = 0 THEN <<>> ELSE Parsed[m - 1])
        /\ M = IF m = 0 THEN <<>> ELSE Meanings[m - 1]
    BY <1>1
  <2> HIDE DEF C, P, M
  <2> QED BY <1>1, <2>1, Levels
<1>3. /\ Absent \notin S /\ GivesTexts(S, Texts[n], C) /\ KeepsTexts(S, C, P) /\ KeepsMeaning(S, C, M)
  BY DEF Sound
<1> HIDE DEF m, S, C, P, M
<1>4. Absent \notin Nested[m]
  <2>1. Absent \notin Atoms
    BY DEF Absent, Atoms, JSONAtoms
  <2> QED BY <1>2, <2>1 DEF ValuesOver, Absent
<1>5. \A v \in Nested[m], d \in Depths : textOf(v, d, C) \in Texts[m] \union {Error}
  BY <1>2, <1>3, TextTyped
<1>6. GivesTexts(Nested[m], Texts[m], CanonicalForm[m])
  BY <1>2, <1>5 DEF GivesTexts
<1>7. KeepsTexts(Nested[m], CanonicalForm[m], Parsed[m])
  <2> SUFFICES ASSUME NEW v \in Nested[m], NEW d \in Depths, CanonicalForm[m][v][d] # Error
               PROVE  LET t == CanonicalForm[m][v][d] IN
                      Parsed[m][t] \in Nested[m] /\ CanonicalForm[m][Parsed[m][t]][d] = t
    BY DEF KeepsTexts
  <2>1. CanonicalForm[m][v][d] = textOf(v, d, C) /\ v \in ValuesOver(S)
    BY <1>2
  <2>2. /\ valueOf(textOf(v, d, C), P) \in ValuesOver(S)
        /\ textOf(valueOf(textOf(v, d, C), P), d, C) = textOf(v, d, C)
    BY <1>3, <2>1, RoundTrip
  <2>3. textOf(v, d, C) \in Texts[m]
    BY <1>5, <2>1
  <2> QED BY <1>2, <2>1, <2>2, <2>3
<1>8. KeepsMeaning(Nested[m], CanonicalForm[m], Meanings[m])
  <2> SUFFICES ASSUME NEW v \in Nested[m], NEW w \in Nested[m], NEW d \in Depths,
                      CanonicalForm[m][v][d] # Error, CanonicalForm[m][v][d] = CanonicalForm[m][w][d]
               PROVE  Meanings[m][v] = Meanings[m][w]
    BY DEF KeepsMeaning
  <2>1. CanonicalForm[m][v][d] = textOf(v, d, C) /\ CanonicalForm[m][w][d] = textOf(w, d, C)
        /\ v \in ValuesOver(S) /\ w \in ValuesOver(S)
    BY <1>2
  <2>2. textOf(v, d, C) # Error /\ textOf(v, d, C) = textOf(w, d, C)
    BY <2>1
  <2>3. meaningOf(v, M) = meaningOf(w, M)
    BY <1>3, <2>1, <2>2, OneMeaning
  <2> QED BY <1>2, <2>3
<1> QED BY <1>4, <1>6, <1>7, <1>8 DEF Sound, m

\* For every value that is issued: its canonical form is kept by JSON.parse and
\* canonicalize, and tells what the value means.
LEMMA CanonicalIsSound ==
  ASSUME NEW v \in Values, canonicalize(v, 0) # Error
  PROVE  /\ isCanonical(canonicalize(v, 0))
         /\ \A w \in Values : canonicalize(w, 0) = canonicalize(v, 0) => Meaning(w) = Meaning(v)
<1>1. NESTING \in Nat /\ Values \subseteq Nested[NESTING] /\ 0 \in Depths
  BY CanonicalAssumption DEF Depths
<1>2. Sound(NESTING)
  <2> DEFINE S == {n \in 0 .. NESTING : Sound(n)}
  <2>1. 0 \in S
    BY <1>1, AtomsSound
  <2>2. \A n \in 0 .. NESTING - 1 : n \in S => n + 1 \in S
    BY <1>1, LevelSound
  <2>3. \A n \in 0 .. NESTING : n \in S
    <3> HIDE DEF S
    <3> QED BY <1>1, <2>1, <2>2, UpTo
  <2> QED BY <1>1, <2>3
<1>3. isCanonical(canonicalize(v, 0))
  BY <1>1, <1>2 DEF Sound, KeepsTexts, isCanonical, canonicalize, parse
<1>4. \A w \in Values : canonicalize(w, 0) = canonicalize(v, 0) => Meaning(w) = Meaning(v)
  BY <1>1, <1>2 DEF Sound, KeepsMeaning, canonicalize, Meaning
<1> QED BY <1>3, <1>4

\* A value that was signed has a canonical form; and what the verifier found.
WireInv ==
  /\ issued # NoLetter =>
       issued \in Values /\ letter \in Values /\ canonicalize(issued, 0) # Error
  /\ issued = NoLetter => letter = NoLetter /\ outcome = "none"
  /\ outcome \in {"none", "CANONICALIZATION", "SIGNATURE", "verified"}
  /\ outcome = "verified" => canonicalize(letter, 0) = canonicalize(issued, 0)
  /\ SignedValuesVerify

\* The invariant of the way of a signed value.
LEMMA WireStep == WireInv /\ [WireNext]_wireVars => WireInv'
<1> SUFFICES ASSUME WireInv, [WireNext]_wireVars PROVE WireInv'
  OBVIOUS
<1>1. CASE UNCHANGED wireVars
  BY <1>1 DEF wireVars, WireInv, SignedValuesVerify
<1>2. CASE Sign
  <2>1. PICK value \in Values : canonicalize(value, 0) # Error /\ issued' = value /\ letter' = value
    BY <1>2 DEF Sign
  <2>2. outcome' = outcome /\ outcome = "none"
    <3>1. outcome' = outcome /\ issued = NoLetter
      BY <1>2 DEF Sign
    <3> QED BY <3>1 DEF WireInv
  <2> QED BY <2>1, <2>2 DEF WireInv, SignedValuesVerify
<1>3. CASE Replace
  BY <1>3 DEF Replace, WireInv, SignedValuesVerify
<1>4. CASE Check
  <2>1. issued \in Values /\ letter \in Values /\ canonicalize(issued, 0) # Error /\ letter # NoLetter
    BY <1>4 DEF Check, WireInv
  <2> DEFINE c1 == canonicalize(letter, 0)
  <2>2. /\ outcome' = IF c1 = Error \/ ~isCanonical(c1) THEN "CANONICALIZATION"
                      ELSE IF c1 # canonicalize(issued, 0) THEN "SIGNATURE" ELSE "verified"
        /\ UNCHANGED <<issued, letter>>
    BY <1>4 DEF Check
  <2>3. letter = issued => c1 # Error /\ isCanonical(c1)
    BY <2>1, CanonicalIsSound
  <2> QED BY <2>1, <2>2, <2>3 DEF WireInv, SignedValuesVerify
<1>5. CASE Dismiss
  BY <1>5 DEF Dismiss, WireInv, SignedValuesVerify
<1> QED BY <1>1, <1>2, <1>3, <1>4, <1>5 DEF WireNext

\* And what follows from it.
LEMMA WireImplies == WireInv => SignedValuesVerify /\ VerifiedMeansSigned
<1> SUFFICES ASSUME WireInv, outcome = "verified" PROVE Meaning(letter) = Meaning(issued)
  BY DEF WireInv, VerifiedMeansSigned
<1>1. issued \in Values /\ letter \in Values /\ canonicalize(issued, 0) # Error
      /\ canonicalize(letter, 0) = canonicalize(issued, 0)
  BY DEF WireInv
<1> QED BY <1>1, CanonicalIsSound

\* Nothing has been signed at first.
LEMMA WireBegins == WireInit => WireInv
BY DEF WireInit, WireInv, SignedValuesVerify

\* canonical.js:45-46, for values of any size over any strings: what could be signed and
\* arrives unchanged passes both gates.
THEOREM SignedValuesVerifyHolds == WireSpec => []SignedValuesVerify
<1>1. WireInv => SignedValuesVerify
  BY WireImplies
<1> QED BY <1>1, WireBegins, WireStep, PTL DEF WireSpec

\* What is verified under a signature means, field by field, what its issuer signed.
THEOREM VerifiedMeansSignedHolds == WireSpec => []VerifiedMeansSigned
<1>1. WireInv => VerifiedMeansSigned
  BY WireImplies
<1> QED BY <1>1, WireBegins, WireStep, PTL DEF WireSpec
-------------------------------------------------------------------------------
(* All services *)

\* What the last result of the dashboard may be.
ShownOK == shown.kind \in {"none", "TypeError", "snapshot", "report", "comparison"}

\* A result is of one of these kinds.
LEMMA ShownStep == ShownOK /\ [Publication]_dashboardVars => ShownOK'
BY DEF ShownOK, Publication, Collect, TakeSample, Assemble, Report, Compare, TypeError, dashboardVars

\* The page does nothing while another service is at work.
PageIdle ==
  copy = NoCopy /\ requests = NoRequests /\ banner = NoBanner /\ visited \subseteq Registries
PageInv == IF service = "gateway" THEN GatewayInv ELSE PageIdle

\* Either way what the page says is right.
LEMMA PageIsRight ==
  PageInv => /\ copy \in Registries \union {NoCopy} /\ visited \subseteq Registries
             /\ requests \in [1 .. MaxRequests -> Registries \union {NoRequest, UnderWay}]
             /\ GatewayAgrees /\ VerdictIsOfThisVisit
<1>1. CASE service = "gateway"
  BY <1>1 DEF PageInv, GatewayInv
<1>2. CASE service # "gateway"
  BY <1>2 DEF PageInv, PageIdle, GatewayAgrees, VerdictIsOfThisVisit, NoBanner, NoRequests
<1> QED BY <1>1, <1>2

\* Each service's part of the invariant.
ServicesInv ==
  EvidenceInv /\ PageInv /\ EscrowInv /\ DashboardInv /\ ShownOK /\ StateFileInv /\ WireInv

\* To begin with each is as it would be alone.
LEMMA ServicesBegin == ServicesInit => ServicesInv
<1> SUFFICES ASSUME ServicesInit PROVE ServicesInv
  OBVIOUS
<1>1. Init /\ PageInit /\ EscrowInit /\ DashboardInit /\ StateFileInit /\ WireInit
  BY DEF ServicesInit
<1>2. ShownOK
  BY <1>1 DEF DashboardInit, Nothing, ShownOK
<1>3. PageInv
  BY <1>1, GatewayBegins, EvidenceAssumption DEF PageInv, PageIdle, PageInit, Init
<1> QED BY <1>1, <1>2, <1>3, EvidenceInit, EscrowBegins, DashboardBegins, StateFileBegins,
           WireBegins DEF ServicesInv

\* What a step of the services is for each of them.
LEMMA StepsOfServices ==
  ASSUME [ServicesNext]_servicesVars
  PROVE  /\ [Next]_vars
         /\ UNCHANGED service
         /\ IF service = "gateway" THEN [GatewayNext]_<<vars, pageVars>> ELSE UNCHANGED pageVars
         /\ [EscrowNext]_<<vars, escrowVars>> \/ UNCHANGED escrowVars
         /\ [Publication]_dashboardVars
         /\ [PythonNext]_<<vars, stateFileVars>> \/ UNCHANGED stateFileVars
         /\ [WireNext]_wireVars
<1>1. CASE UNCHANGED servicesVars
  BY <1>1 DEF servicesVars
<1>2. CASE Documented /\ UNCHANGED <<service, dashboardVars, stateFileVars, wireVars>>
  <2>1. Next
    BY <1>2 DEF Documented, Request, ServeVerifyProof, ServeVerifyPassport, ServeDecide,
                ServeDispute, Next, Serve, cmdProofVerify, cmdPassportVerify, cmdDecide, cmdDispute
  <2> QED BY <1>2, <2>1 DEF Documented
<1>3. CASE Browsed /\ UNCHANGED <<service, dashboardVars, stateFileVars, wireVars>>
  <2>1. [Next]_vars
    BY <1>3 DEF Browsed, GatewayNext, Next
  <2> QED BY <1>3, <2>1 DEF Browsed
<1>4. CASE Attested /\ UNCHANGED <<service, dashboardVars, stateFileVars, wireVars>>
  <2>1. [Next]_vars
    BY <1>4 DEF Attested, EscrowNext, Next
  <2> QED BY <1>4, <2>1 DEF Attested
<1>5. CASE Publication /\ UNCHANGED <<service, vars, pageVars, escrowVars, stateFileVars, wireVars>>
  BY <1>5
<1>6. CASE PythonNext /\ UNCHANGED <<service, pageVars, escrowVars, dashboardVars, wireVars>>
  BY <1>6 DEF PythonNext
<1>7. CASE /\ WireNext
           /\ UNCHANGED <<service, vars, pageVars, escrowVars, dashboardVars, stateFileVars>>
  BY <1>7
<1> QED BY <1>1, <1>2, <1>3, <1>4, <1>5, <1>6, <1>7 DEF ServicesNext

\* No step of one service disturbs another.
LEMMA ServicesStep == ServicesInv /\ [ServicesNext]_servicesVars => ServicesInv'
<1> SUFFICES ASSUME ServicesInv, [ServicesNext]_servicesVars PROVE ServicesInv'
  OBVIOUS
<1>1. EvidenceInv'
  BY StepsOfServices, EvidenceStep DEF ServicesInv
<1>2. registry' \in Registries
  BY <1>1 DEF EvidenceInv, DocumentInv
<1>3. PageInv'
  <2>1. CASE service = "gateway"
    BY <2>1, StepsOfServices, GatewayStep DEF ServicesInv, PageInv
  <2>2. CASE service # "gateway"
    BY <2>2, StepsOfServices DEF ServicesInv, PageInv, PageIdle, pageVars
  <2> QED BY <2>1, <2>2
<1>4. EscrowInv'
  BY StepsOfServices, EscrowStep, EscrowUndisturbed DEF ServicesInv
<1>5. DashboardInv' /\ ShownOK'
  BY StepsOfServices, DashboardStep, ShownStep DEF ServicesInv
<1>6. StateFileInv'
  BY <1>2, StepsOfServices, StateFileStep, StateFileUndisturbed DEF ServicesInv
<1>7. WireInv'
  BY StepsOfServices, WireStep DEF ServicesInv
<1> QED BY <1>1, <1>3, <1>4, <1>5, <1>6, <1>7 DEF ServicesInv

\* The invariant of all services holds at every moment.
LEMMA ServicesHold == ServicesSpec => []ServicesInv
<1> QED BY ServicesBegin, ServicesStep, PTL DEF ServicesSpec

\* Whichever service is at work, what happens to documents is what commands do, and
\* what happens to signed values is what signing and verifying do.
THEOREM ServicesImplement == ServicesSpec => Spec /\ WireSpec
<1>1. ServicesInit => Init /\ WireInit
  BY DEF ServicesInit
<1>2. [ServicesNext]_servicesVars => [Next]_vars /\ [WireNext]_wireVars
  BY StepsOfServices
<1> QED BY <1>1, <1>2, PTL DEF ServicesSpec, Spec, WireSpec

\* The values each variable may take, whichever service is at work.
THEOREM ServicesTypeCorrect == ServicesSpec => []ServicesTypeOK
<1>1. TypeOK /\ ServicesInv => ServicesTypeOK
  BY PageIsRight
  DEF ServicesInv, ServicesTypeOK, EscrowInv, StateFileInv, StateFileTypeOK, ShownOK,
         WireInv
<1> QED BY <1>1, ServicesHold, ServicesImplement, DocumentsTypeCorrect, PTL

\* What is proved of each service alone is so in Services, which the runs check: a step of
\* one service leaves the state of the others as it is, but for the registry.
THEOREM ServicesAreSafe ==
  ServicesSpec =>
    /\ [](CreditedOnce /\ PolicyIsHonoured /\ BindingIsHonest)
    /\ [](GatewayAgrees /\ VerdictIsOfThisVisit /\ SuccessorsRemember)
    /\ [](~LateReplies => NoSecondAdmission)
    /\ [](IntactFloorHolds /\ PoolReportIsSound /\ ManifestWeighsDown)
    /\ [](SignedValuesVerify /\ VerifiedMeansSigned)
    /\ BurnsInTheRightEpoch /\ ScoreNeverFalls
<1>1. ServicesInv => /\ GatewayAgrees /\ VerdictIsOfThisVisit /\ SuccessorsRemember
                     /\ (~LateReplies => NoSecondAdmission)
  BY PageIsRight
  DEF ServicesInv, EscrowInv, Remembered, NoSecondAdmission, StateFileInv, StateFileTypeOK,
      SuccessorInv, SuccessorsRemember
<1>2. ServicesInv => IntactFloorHolds /\ PoolReportIsSound /\ ManifestWeighsDown
  BY WeighsDown DEF ServicesInv, DashboardInv
<1>3. ServicesInv /\ [ServicesNext]_servicesVars => [ScoresKept]_dashboardVars
  <2> SUFFICES ASSUME ServicesInv, [ServicesNext]_servicesVars, ~UNCHANGED dashboardVars
               PROVE  ScoresKept
    OBVIOUS
  <2>1. Publication
    BY StepsOfServices
  <2> QED BY <2>1, ScoresStep DEF ServicesInv
<1>4. ServicesSpec => [][ScoresKept]_dashboardVars
  BY <1>3, ServicesHold, PTL DEF ServicesSpec
<1>5. ServicesSpec => ScoreNeverFalls
  BY <1>4, PTL DEF ScoreNeverFalls, ScoresKept
<1>6. ServicesSpec => [](SignedValuesVerify /\ VerifiedMeansSigned)
  BY ServicesImplement, SignedValuesVerifyHolds, VerifiedMeansSignedHolds, PTL
<1>7. ServicesSpec => [](CreditedOnce /\ PolicyIsHonoured /\ BindingIsHonest) /\ BurnsInTheRightEpoch
  BY ServicesImplement, CreditedOnceHolds, PolicyIsHonouredHolds, BindingIsHonestHolds,
     BurnsInTheRightEpochHolds, PTL
<1>8. ServicesSpec => [](/\ GatewayAgrees /\ VerdictIsOfThisVisit /\ SuccessorsRemember
                        /\ IntactFloorHolds /\ PoolReportIsSound /\ ManifestWeighsDown)
  BY <1>1, <1>2, ServicesHold, PTL
<1>9. ServicesSpec => [](~LateReplies => NoSecondAdmission)
  BY <1>1, ServicesHold, PTL
<1> QED BY <1>5, <1>6, <1>7, <1>8, <1>9, PTL

================================================================================
