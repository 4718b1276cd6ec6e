--------------------------------- MODULE Gates ---------------------------------
(***************************************************************************)
(* src/src/verify.js, gates G1 to G8: what of an event is checked, against *)
(* a registry and one reading of the clock, before its nonce is claimed.   *)
(* The checks that look at the event alone are its `defect'.               *)
(***************************************************************************)
EXTENDS Integers, Registry

CONSTANT W   \* TIMESTAMP_WINDOW_MS

ASSUME WindowAssumption == W \in Nat

Defects == {"none", "schema", "canonical", "signature", "weight"}

\* Mutant: nonces of all apps share one name space.
NonceKey_withoutApp(e) == e.nonce

NonceKey(e) == <<e.app, e.nonce>>

\* Mutants: revocation is not looked at; the past side of the window is not; the
\* issuer's own flags suffice.
keyActive_known(e, r) == r.keys[<<e.app, e.key>>] # "unknown"
fresh_futureOnly(e, now) == -W <= now - e.ts
eligible_selfDeclared(e, r) == e.declared

schemaOk(e) == e.defect # "schema"
appKnown(e, r) == e.app \in r.apps
keyActive(e, r) == r.keys[<<e.app, e.key>>] = "active"
canonicalOk(e) == e.defect # "canonical"
signatureOk(e) == e.defect # "signature"
fresh(e, now) == -W <= now - e.ts /\ now - e.ts <= W
weightOk(e) == e.defect # "weight"
eligible(e, r) == e.declared /\ e.uid \in r.eligible

PassesGates(e, r, now) ==
  /\ schemaOk(e) /\ appKnown(e, r) /\ keyActive(e, r)
  /\ canonicalOk(e) /\ signatureOk(e) /\ fresh(e, now)
  /\ weightOk(e) /\ eligible(e, r)

Checks == <<"SCHEMA", "APP_KNOWN", "KEY_ACTIVE", "CANONICALIZATION", "SIGNATURE",
            "TIMESTAMP_FRESHNESS", "WEIGHT_BOUND", "ELIGIBILITY">>

\* The check at which the pipeline stops before G9, or "none".
FailedCheck(e, r, now) ==
  LET pass == <<schemaOk(e), appKnown(e, r), keyActive(e, r), canonicalOk(e),
                signatureOk(e), fresh(e, now), weightOk(e), eligible(e, r)>>
      First(i) == ~pass[i] /\ \A j \in 1 .. i - 1 : pass[j]
  IN IF PassesGates(e, r, now) THEN "none"
     ELSE Checks[CHOOSE i \in DOMAIN Checks : First(i)]
===============================================================================
