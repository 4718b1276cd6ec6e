------------------------------ MODULE PepVerifier ------------------------------
(***************************************************************************)
(* src/src/verify.js: verifiers that share one nonce store and one         *)
(* registry file.  A call reads the registry, evaluates gates G1-G8 at one *)
(* reading of its clock, and only then claims the nonce (G9).  The store   *)
(* is the atomic object of NonceClaim, which FileNonceStore implements;    *)
(* here its claims may expire, as those of RedisNonceStore with ttlMs do.  *)
(*                                                                         *)
(* What the properties are about is the time that passes between these     *)
(* steps: the registry changes, the event ages, the claim expires.         *)
(***************************************************************************)
EXTENDS Integers, Gates, RegistryFile

CONSTANTS
  Verifiers,  \* verifier instances
  Nonces,
  Events,     \* signed events that callers may present, any number of times
  Skew,       \* bound on |verifier's clock - real time|
  Delay,      \* bound on the time from a clock reading to the store's decision
  Expires,    \* the store was given a ttlMs
  TTL,        \* ... and this is it
  MaxClock    \* bound on the model's time

NonceKeys == Apps \X Nonces

ASSUME ParametersAssumption ==
  /\ Events \subseteq [app : Apps, key : KeyIds, nonce : Nonces, uid : Uids, ts : Int,
                       declared : BOOLEAN, defect : Defects]
  /\ Skew \in Nat /\ Delay \in Nat /\ TTL \in Nat /\ MaxClock \in Nat
  /\ Expires \in BOOLEAN

VARIABLES
  clock,      \* real time
  copy,       \* copy[v]: v's registry argument during a call, else NoCopy
  event,      \* event[v]: the event v claims the nonce of
  deadline,   \* deadline[v]: latest time for the store to decide v's claim
  burned,     \* the store: keys that are refused now
  call,       \* the store: the claimIfAbsent call v is in
  accepts,    \* the store: calls that returned true
  expiry,     \* expiry[k]: last instant at which a burned k is remembered
  accepted,   \* accepted[e]: ACCEPT answers given for e so far
  witnessed   \* history: keys active, and users eligible, at some time since v's
              \* call began

storeVars == <<burned, call, accepts, expiry>>
vars == <<clock, fileVars, copy, event, deadline, storeVars, accepted, witnessed>>

Store == INSTANCE NonceClaim WITH Procs <- Verifiers, Keys <- NonceKeys

NoCopy == [kind |-> "none"]
NoEvent == [kind |-> "none"]
Loaded(r) == [kind |-> "loaded", registry |-> r]

Idle(v) == copy[v] = NoCopy

Facts(r) ==
  [active |-> {k \in Apps \X KeyIds : r.keys[k] = "active"}, eligible |-> r.eligible]
Nothing == [active |-> {}, eligible |-> {}]

Init ==
  /\ clock = 0
  /\ FileInit
  /\ copy = [v \in Verifiers |-> NoCopy]
  /\ event = [v \in Verifiers |-> NoEvent]
  /\ deadline = [v \in Verifiers |-> 0]
  /\ Store!Init
  /\ expiry = [k \in NonceKeys |-> 0]
  /\ accepted = [e \in Events |-> 0]
  /\ witnessed = [v \in Verifiers |-> Nothing]
-------------------------------------------------------------------------------
(* The operator's side: commands on the registry file, and the passing of time *)

Operate ==
  /\ \E c \in Commands : Command(c)
  /\ witnessed' = [v \in Verifiers |->
       IF Idle(v) THEN witnessed[v]
       ELSE [active |-> witnessed[v].active \union Facts(registry').active,
             eligible |-> witnessed[v].eligible \union Facts(registry').eligible]]
  /\ UNCHANGED <<clock, copy, event, deadline, storeVars, accepted>>

\* Time stops for nobody, except that a store decides a claim within Delay of
\* the clock reading or not at all.  Keys past their expiry leave the store.
Tick ==
  /\ clock < MaxClock
  /\ \A v \in Verifiers : call[v] \in {Store!Pending(k) : k \in NonceKeys} => clock < deadline[v]
  /\ clock' = clock + 1
  /\ burned' = {k \in burned : Expires => clock' <= expiry[k]}
  /\ UNCHANGED <<fileVars, copy, event, deadline, call, accepts, expiry, accepted, witnessed>>
-------------------------------------------------------------------------------
(* verifySignedEvent *)

\* The caller reads the registry, if it can, and calls verifySignedEvent with it.
Load(v) ==
  /\ Idle(v) /\ contents = "parses"
  /\ copy' = [copy EXCEPT ![v] = Loaded(registry)]
  /\ witnessed' = [witnessed EXCEPT ![v] = Facts(registry)]
  /\ UNCHANGED <<clock, fileVars, event, deadline, storeVars, accepted>>

Finish(v) ==
  /\ copy' = [copy EXCEPT ![v] = NoCopy]
  /\ event' = [event EXCEPT ![v] = NoEvent]
  /\ deadline' = [deadline EXCEPT ![v] = 0]
  /\ witnessed' = [witnessed EXCEPT ![v] = Nothing]

\* A rejection by a gate before G9: the store is not touched.
Reject(v, e, now) ==
  /\ ~Idle(v) /\ event[v] = NoEvent
  /\ ~PassesGates(e, copy[v].registry, now)
  /\ Finish(v)
  /\ UNCHANGED <<clock, fileVars, storeVars, accepted>>

\* The event passes G1-G8 and claimIfAbsent(`${app_id}:${nonce}`) is called.
Pass(v, e, now) ==
  /\ ~Idle(v) /\ event[v] = NoEvent
  /\ PassesGates(e, copy[v].registry, now)
  /\ event' = [event EXCEPT ![v] = e]
  /\ deadline' = [deadline EXCEPT ![v] = clock + Delay]
  /\ Store!Invoke(v, NonceKey(e))
  /\ UNCHANGED <<clock, fileVars, copy, expiry, accepted, witnessed>>

\* The store decides: SET key 1 [PX ttlMs] NX, or its equivalent.
Claim(v) ==
  /\ event[v] # NoEvent
  /\ LET k == NonceKey(event[v]) IN
       \/ /\ Store!Win(v, k)
          /\ expiry' = [expiry EXCEPT ![k] = clock + TTL]
       \/ Store!Lose(v, k) /\ UNCHANGED expiry
  /\ UNCHANGED <<clock, fileVars, copy, event, deadline, accepted, witnessed>>

\* ACCEPT or REPLAY_DETECTED.
Answer(v) ==
  /\ event[v] # NoEvent
  /\ Store!Return(v, NonceKey(event[v]))
  /\ accepted' = [accepted EXCEPT ![event[v]] =
       IF call[v] = Store!Decided(NonceKey(event[v]), TRUE) THEN @ + 1 ELSE @]
  /\ Finish(v)
  /\ UNCHANGED <<clock, fileVars, expiry>>

\* claimIfAbsent throws, the key claimed or not.
Throw(v) ==
  /\ Store!Throw(v)
  /\ Finish(v)
  /\ UNCHANGED <<clock, fileVars, expiry, accepted>>

Verify(v) ==
  \/ Load(v)
  \/ \E e \in Events, offset \in -Skew..Skew :
       Reject(v, e, clock + offset) \/ Pass(v, e, clock + offset)
  \/ Claim(v) \/ Answer(v) \/ Throw(v)

Next ==
  \/ Operate \/ Tick
  \/ \E v \in Verifiers : Verify(v)

Spec == Init /\ [][Next]_vars
-------------------------------------------------------------------------------
(* Properties *)

Calls ==
  {Store!NoCall} \union {Store!Pending(k) : k \in NonceKeys}
    \union {Store!Decided(k, won) : k \in NonceKeys, won \in BOOLEAN}

\* The values each variable may take.
TypeOK ==
  /\ clock \in Nat
  /\ FileTypeOK
  /\ copy \in [Verifiers -> {NoCopy} \union [kind : {"loaded"}, registry : Registries]]
  /\ event \in [Verifiers -> Events \union {NoEvent}]
  /\ deadline \in [Verifiers -> Nat]
  /\ burned \subseteq NonceKeys
  /\ call \in [Verifiers -> Calls]
  /\ accepts \in [NonceKeys -> Nat]
  /\ expiry \in [NonceKeys -> Nat]
  /\ accepted \in [Events -> Nat]
  /\ witnessed \in [Verifiers -> [active : SUBSET (Apps \X KeyIds), eligible : SUBSET Uids]]

\* Two presentations under one nonce that the store's memory is long enough to
\* tell apart: the last moment to win with the one comes before the claim that
\* won with the other expires.
Excludes(e, f) ==
  LET memory == TTL - 2 * W - 2 * Skew - Delay IN
  /\ NonceKey(e) = NonceKey(f)
  /\ Expires => e.ts - f.ts <= memory /\ f.ts - e.ts <= memory

\* INV-04: of presentations that exclude each other at most one is answered
\* ACCEPT, whichever verifiers they go to, however often and whenever.  In
\* particular no event is accepted twice if claims are kept 2W + 2 Skew + Delay.
AtMostOneAccept ==
  \A e, f \in Events : Excludes(e, f) =>
    IF e = f THEN accepted[e] <= 1 ELSE accepted[e] = 0 \/ accepted[f] = 0

\* No event is accepted twice, whatever TTL the operator has chosen.
ReplayNeverAccepted == \A e \in Events : accepted[e] <= 1

\* INV-05, -07, -08, -09: a key enters the store only on behalf of an
\* undamaged event whose signing key was active and whose user was eligible at
\* some time since that very call began, and whose timestamp is, by real time,
\* at most W plus the clock error and the store's latency away.
OnlyAdmissibleEventsBurn ==
  [][\A k \in burned' \ burned : \E v \in Verifiers :
       LET e == event[v] IN
       /\ e # NoEvent /\ NonceKey(e) = k
       /\ e.defect = "none" /\ e.declared
       /\ <<e.app, e.key>> \in witnessed[v].active
       /\ e.uid \in witnessed[v].eligible
       /\ clock - e.ts <= W + Skew + Delay
       /\ e.ts - clock <= W + Skew]_vars
===============================================================================
