-------------------------------- MODULE Escrow --------------------------------
(***************************************************************************)
(* src/src/escrow.js: signed attestations that an escrow key is revoked.   *)
(* Their nonces are kept in a nonce store next to those of the events, but *)
(* guarded by has() followed by add(), not by claimIfAbsent.  What has()   *)
(* and add() do depends on the store:                                      *)
(*                                                                         *)
(*   memory   a set in the process                                         *)
(*   file     a set in the process too: only claimIfAbsent and compact     *)
(*            use the log, and they replace the set by what the log says   *)
(*   redis    EXISTS and SET, two requests to a server that all share,     *)
(*            over a bridge that, once a call has timed out, may answer    *)
(*            with the reply of an earlier call (see RedisBridge)          *)
(*                                                                         *)
(* An attestation that is rejected leaves no trace.                        *)
(***************************************************************************)
EXTENDS Evidence

CONSTANTS
  ESCROW_APP_ID,
  Attestations,  \* attestations that are presented, any number of times
  EventKeys,     \* nonce keys of events that are claimed from the same store
  MaxAge,        \* maxAgeMs
  Instants,      \* clock readings
  LateReplies    \* Redis may take longer than timeoutMs

VARIABLES
  store,     \* the kind of store
  seen,      \* seen[v]: the set in process v
  shared,    \* the log, or what Redis has
  underway,  \* keys of SETs that were given up, but that Redis may still execute
  ahead,     \* processes that have given up a call whose reply may still come
  checking,  \* checking[v]: the key that v has found to be absent, or NoKey
  answered,  \* history: <<v, k>>: process v, still alive, has accepted k and said so
  repeats    \* history: keys that passed the guard although acceptance had been answered

bridgeVars == <<underway, ahead>>
escrowVars == <<store, seen, shared, bridgeVars, checking, answered, repeats>>

States == {"ACTIVE", "SIGNING_AUTHORITY_REVOKED"}
AttestationFields == {"escrow", "nonce", "key", "at", "state", "defect"}
NoKey == <<>>

\* What a controller issues.
createRevocationAttestation(escrow, key, at, nonce) ==
  [escrow |-> escrow, nonce |-> nonce, key |-> key, at |-> at,
   state |-> "SIGNING_AUTHORITY_REVOKED", defect |-> "none"]

ASSUME EscrowAssumption ==
  /\ ESCROW_APP_ID \in Apps /\ MaxAge \in Nat /\ Instants \subseteq Int
  /\ LateReplies \in BOOLEAN
  /\ \A a \in Attestations :
       /\ DOMAIN a = AttestationFields
       /\ a.key \in KeyIds /\ a.at \in Int /\ a.state \in States
       /\ a.defect \in {"none", "schema", "canonical", "signature"}

nonceKey(a) == <<a.escrow, a.nonce>>
GuardKeys == {nonceKey(a) : a \in Attestations} \union EventKeys

EscrowInit ==
  /\ store \in {"memory", "file", "redis"}
  /\ seen = [v \in Verifiers |-> {}] /\ shared = {}
  /\ underway = {} /\ ahead = {}
  /\ checking = [v \in Verifiers |-> NoKey]
  /\ answered = {} /\ repeats = {}

\* SCHEMA, CANONICALIZATION, KEY_ACTIVE, SIGNATURE and FRESHNESS pass.
Authentic(a, now) ==
  /\ a.defect = "none"
  /\ registry.keys[<<ESCROW_APP_ID, a.key>>] = "active"
  /\ now - a.at \in -MaxAge .. MaxAge

has(v, k) == k \in (IF store = "redis" THEN shared ELSE seen[v])

\* An acceptance was answered before, by a process whose memory v shares.
AnsweredBefore(v, k) ==
  \E u \in Verifiers : <<u, k>> \in answered /\ (u = v \/ store = "redis")

\* verifyRevocationAttestation, up to has().  A process that is ahead may take an
\* earlier call's reply for the answer, and then stays ahead.
Examine(v) ==
  /\ checking[v] = NoKey
  /\ \E a \in Attestations, now \in Instants :
       LET k == nonceKey(a) IN
       /\ Authentic(a, now)
       /\ \/ ~has(v, k) /\ ahead' = ahead \ {v}
          \/ v \in ahead /\ UNCHANGED ahead
       /\ checking' = [checking EXCEPT ![v] = k]
       /\ repeats' = IF AnsweredBefore(v, k) THEN repeats \union {k} ELSE repeats
  /\ UNCHANGED <<store, seen, shared, underway, answered>>

\* Mutant: add() writes the process's own set, as those of the other stores do.
add_local(v, k) == seen' = [seen EXCEPT ![v] = @ \union {k}] /\ UNCHANGED <<shared, bridgeVars>>

add(v, k) ==
  \/ /\ store # "redis"
     /\ seen' = [seen EXCEPT ![v] = @ \union {k}]
     /\ UNCHANGED <<shared, bridgeVars>>
  \/ /\ store = "redis"
     /\ shared' = shared \union {k} /\ ahead' = ahead \ {v}
     /\ UNCHANGED <<seen, underway>>
  \/ /\ v \in ahead
     /\ underway' = underway \union {k}
     /\ UNCHANGED <<seen, shared, ahead>>

\* add(), and the answer
Admit(v) ==
  /\ checking[v] # NoKey
  /\ add(v, checking[v])
  /\ checking' = [checking EXCEPT ![v] = NoKey]
  /\ answered' = answered \union {<<v, checking[v]>>}
  /\ UNCHANGED <<store, repeats>>

\* A call to Redis throws: has(), add() or a claim.  Nobody has been answered, but
\* what it was to set may be set later, and its reply may come after a timeout.
CallThrows(v) ==
  /\ store = "redis"
  /\ \E k \in IF checking[v] = NoKey THEN EventKeys \union {NoKey} ELSE {checking[v]} :
       underway' = underway \union ({k} \ {NoKey})
  /\ ahead' \in IF LateReplies THEN {ahead, ahead \union {v}} ELSE {ahead}
  /\ checking' = [checking EXCEPT ![v] = NoKey]
  /\ UNCHANGED <<store, seen, shared, answered, repeats>>

\* Redis executes a SET that was given up.
LateSet ==
  /\ \E k \in underway : shared' = shared \union {k} /\ underway' = underway \ {k}
  /\ UNCHANGED <<store, seen, ahead, checking, answered, repeats>>

\* The answers that are still remembered when v has forgotten its own.
AnswersWithout(v) == {x \in answered : x[1] # v}

\* An event is claimed from the same store.  A file store forgets, along with the
\* rest of its set, what was added to it.
claimIfAbsent(v) ==
  /\ checking[v] = NoKey
  /\ \E k \in EventKeys :
       /\ shared' = IF store = "memory" THEN shared ELSE shared \union {k}
       /\ seen' = [seen EXCEPT ![v] = CASE store = "memory" -> @ \union {k}
                                        [] store = "file" -> shared \union {k}
                                        [] store = "redis" -> @]
       /\ answered' = IF store = "file" THEN AnswersWithout(v) ELSE answered
  /\ ahead' \in {ahead, ahead \ {v}}
  /\ UNCHANGED <<store, underway, checking, repeats>>

\* So it does when the log is compacted, or when a claim throws after the log was
\* loaded.
compact(v) ==
  /\ store = "file" /\ checking[v] = NoKey
  /\ seen' = [seen EXCEPT ![v] = shared]
  /\ answered' = AnswersWithout(v)
  /\ UNCHANGED <<store, shared, bridgeVars, checking, repeats>>

\* The process ends and another takes its place.
Reborn(v) ==
  /\ seen' = [seen EXCEPT ![v] = IF store = "file" THEN shared ELSE {}]
  /\ ahead' = ahead \ {v}
  /\ checking' = [checking EXCEPT ![v] = NoKey]
  /\ answered' = IF store = "redis" THEN answered ELSE AnswersWithout(v)
  /\ UNCHANGED <<store, shared, underway, repeats>>

Attest(v) ==
  \/ Examine(v) \/ Admit(v) \/ CallThrows(v)
  \/ claimIfAbsent(v) \/ compact(v) \/ Reborn(v)

\* Attestations while the registry is edited.
EscrowNext ==
  \/ (LateSet \/ \E v \in Verifiers : Attest(v)) /\ UNCHANGED vars
  \/ (RegisterKey \/ RevokeKey) /\ UNCHANGED escrowVars

EscrowSpec == Init /\ EscrowInit /\ [][EscrowNext]_<<vars, escrowVars>>
-------------------------------------------------------------------------------
(* Properties *)

EscrowTypeOK ==
  /\ store \in {"memory", "file", "redis"}
  /\ seen \in [Verifiers -> SUBSET GuardKeys] /\ shared \subseteq GuardKeys
  /\ underway \subseteq GuardKeys /\ ahead \subseteq Verifiers
  /\ \A v \in Verifiers : checking[v] = NoKey \/ checking[v] \in GuardKeys
  /\ answered \subseteq Verifiers \X GuardKeys /\ repeats \subseteq GuardKeys

\* REPLAY_GUARD: once an attestation was accepted and the caller told so, no call
\* that begins later lets it through again: with Redis, provided replies are
\* prompt, whichever process is asked and whatever died or threw meanwhile; with
\* the other stores, the same process as long as it lives and, if its store is a
\* file, neither claims an event nor compacts the log.  (Of two calls that run at
\* the same time both may accept, and nothing more is promised.)
NoSecondAdmission == repeats = {}
===============================================================================
