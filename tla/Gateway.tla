-------------------------------- MODULE Gateway --------------------------------
(***************************************************************************)
(* src/app/gateway.app.mjs and src/src/offline-verifier.js: a page that    *)
(* verifies documents in the browser.  It fetches the server's registry    *)
(* and keeps its copy until the page is loaded anew; it has a clock of its *)
(* own and no nonce store.  It looks at the events of a document alone:    *)
(* envelope, evidence root, policy and pinned registry are ignored.        *)
(***************************************************************************)
EXTENDS Evidence

CONSTANTS
  PageTimes,   \* readings of the visitor's clock
  MaxRequests  \* how many requests for the registry may be under way

ASSUME GatewayAssumption == PageTimes \subseteq Int /\ MaxRequests \in Nat

VARIABLES
  copy,      \* REGISTRY: the page's registry, or NoCopy
  requests,  \* requests for it: none, under way, or answered with a registry
  banner,    \* what the page says, and of what
  visited    \* history: the registries in force since the page was loaded

pageVars == <<copy, requests, banner, visited>>

NoCopy == [kind |-> "none"]
NoBanner == [kind |-> "none"]
NoRequest == [kind |-> "none"]
UnderWay == [kind |-> "under way"]
NoRequests == [i \in 1 .. MaxRequests |-> NoRequest]

PageInit ==
  copy = NoCopy /\ requests = NoRequests /\ banner = NoBanner /\ visited = {registry}
-------------------------------------------------------------------------------
(* verifyEventOffline *)

OfflineCodes ==
  <<"SCHEMA", "UNKNOWN_APP", "UNKNOWN_KEY", "REVOKED_KEY", "CANONICALIZATION",
    "INVALID_SIGNATURE", "TIMESTAMP_IN_FUTURE", "TIMESTAMP_EXPIRED", "WEIGHT_OVERFLOW",
    "INELIGIBLE_USER">>

\* Mutant: the window is open at its ends.
TooOld_early(delta) == delta >= W

TooOld(delta) == delta > W

\* What is wrong with an event, in the order in which it is looked for.
Faults(e, r, now) ==
  LET status == r.keys[<<e.app, e.key>>]
      delta == now - e.ts
  IN <<e.defect = "schema", e.app \notin r.apps, status = "unknown", status = "revoked",
       e.defect = "canonical", e.defect = "signature", delta < -W, TooOld(delta),
       e.defect = "weight", ~e.declared \/ e.uid \notin r.eligible>>

\* The code, or "none": NONCE_REPLAY is reported as UNVERIFIABLE and stops nothing.
verifyEventOffline(e, r, now) ==
  LET faults == Faults(e, r, now)
      first == {i \in DOMAIN faults : faults[i] /\ \A j \in 1 .. i - 1 : ~faults[j]}
  IN IF first = {} THEN "none" ELSE OfflineCodes[CHOOSE i \in first : TRUE]
-------------------------------------------------------------------------------
(* The page *)

\* verifyText while there is no copy; an impatient visitor starts it several times.
verifyText ==
  /\ copy = NoCopy
  /\ \E i \in DOMAIN requests :
       requests[i] = NoRequest /\ requests' = [requests EXCEPT ![i] = UnderWay]
  /\ UNCHANGED <<copy, banner, visited>>

\* The server answers with the registry of the moment; the answer is then on its way.
ServeRegistry ==
  /\ \E i \in DOMAIN requests :
       requests[i] = UnderWay /\ requests' = [requests EXCEPT ![i] = registry]
  /\ UNCHANGED <<copy, banner, visited>>

\* An answer takes the place of the copy, even of a newer one.
loadRegistry ==
  /\ \E i \in DOMAIN requests :
       /\ requests[i] \notin {NoRequest, UnderWay}
       /\ requests' = [requests EXCEPT ![i] = NoRequest] /\ copy' = requests[i]
  /\ UNCHANGED <<banner, visited>>

\* The request fails, or what comes after REGISTRY was set does (the digest).
LoadFails ==
  /\ \E i \in DOMAIN requests :
       /\ requests[i] # NoRequest
       /\ requests' = [requests EXCEPT ![i] = NoRequest]
       /\ copy' \in IF requests[i] = UnderWay THEN {copy} ELSE {copy, requests[i]}
  /\ banner' = [kind |-> "REGISTRY UNAVAILABLE"]
  /\ UNCHANGED visited

\* Mutant: the browser restores the page as it was.
ReloadPage_restored ==
  UNCHANGED copy /\ requests' = NoRequests /\ banner' = NoBanner /\ visited' = {registry}

ReloadPage ==
  copy' = NoCopy /\ requests' = NoRequests /\ banner' = NoBanner /\ visited' = {registry}

\* In a malformed proof the page may find an event none the less.
Findings(p, now) ==
  {verifyEventOffline(p.event, copy, now)} \union (IF p.formed THEN {} ELSE {"SCHEMA"})

\* summarize: the first code that is not "none", if any.
summarize(codes) ==
  IF \A i \in DOMAIN codes : codes[i] = "none" THEN "none"
  ELSE codes[CHOOSE i \in DOMAIN codes :
               codes[i] # "none" /\ \A j \in 1 .. i - 1 : codes[j] = "none"]

\* A malformed passport is read as a passport, or as an event and so fails.
runDocument ==
  /\ copy # NoCopy
  /\ \E d \in Documents, now \in PageTimes :
       \E codes \in {f \in [DOMAIN d.proofs -> {"none"} \union {OfflineCodes[i] : i \in DOMAIN OfflineCodes}] :
                       \A i \in DOMAIN f : f[i] \in Findings(d.proofs[i], now)},
          readable \in {TRUE, d.formed} :
         banner' = [kind |-> "verdict", doc |-> d, registry |-> copy, now |-> now,
                    code |-> IF readable THEN summarize(codes) ELSE "SCHEMA"]
  /\ UNCHANGED <<copy, requests, visited>>

Page == verifyText \/ ServeRegistry \/ loadRegistry \/ LoadFails \/ ReloadPage \/ runDocument

\* The page while the registry behind it is edited.
GatewayNext ==
  \/ Page /\ UNCHANGED vars
  \/ /\ RegisterKey \/ RevokeKey
     /\ visited' = visited \union {registry'} /\ UNCHANGED <<copy, requests, banner>>

GatewaySpec == Init /\ PageInit /\ [][GatewayNext]_<<vars, pageVars>>
-------------------------------------------------------------------------------
(* Properties *)

\* The check of the pipeline that a code of the page is about.
CheckOf(code) ==
  CASE code = "UNKNOWN_APP" -> "APP_KNOWN"
    [] code \in {"UNKNOWN_KEY", "REVOKED_KEY"} -> "KEY_ACTIVE"
    [] code = "INVALID_SIGNATURE" -> "SIGNATURE"
    [] code \in {"TIMESTAMP_IN_FUTURE", "TIMESTAMP_EXPIRED"} -> "TIMESTAMP_FRESHNESS"
    [] code = "WEIGHT_OVERFLOW" -> "WEIGHT_BOUND"
    [] code = "INELIGIBLE_USER" -> "ELIGIBILITY"
    [] OTHER -> code

\* offline-verifier.js and verify.js are two implementations of one pipeline.  What
\* the page calls verified passes, event by event, the gates G1 to G8 of a live
\* verifier that has the registry and clock the page had; and what it calls invalid, for
\* a document that is well formed, such a verifier rejects, some event of it, at
\* the check that the page names.
GatewayAgrees ==
  banner.kind = "verdict" =>
    LET Live(i) == FailedCheck(banner.doc.proofs[i].event, banner.registry, banner.now)
        proofs == DOMAIN banner.doc.proofs
    IN /\ banner.code = "none" => \A i \in proofs : Live(i) = "none"
       /\ banner.code # "none" /\ banner.doc.formed /\ (\A i \in proofs : banner.doc.proofs[i].formed)
            => \E i \in proofs :
                 /\ Live(i) = CheckOf(banner.code)
                 /\ \A j \in proofs : j < i => Live(j) = "none"

\* However answers overtake each other and edits of the registry, a verdict is about a
\* registry that was in force at some moment since the page was loaded: to see a
\* revocation it is enough to load the page anew.
VerdictIsOfThisVisit == banner.kind = "verdict" => banner.registry \in visited
===============================================================================
