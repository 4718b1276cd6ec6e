# A TLA+ development of the PIRC PEP reference

The repository is a reference implementation, in JavaScript, of a payment
evidence protocol: an application signs an event about a user, a verifier checks
it against a registry of keys and users, burns the event's nonce in a replay
store that other verifiers share, and answers ACCEPT or a rejection code.
Around that core there are portable proofs and passports built from it,
revocation attestations, an arbitration court, a command line and an
application server.

The modules here model the parts in which several actors or several steps can
disagree: the replay stores, the verification pipeline over a registry file that commands edit
and a running clock, the documents built from events and the services that handle them, and the
court with the server that hosts it; and the pure computations whose results they publish.
Paths below are relative to the root of the repository; `nonces.js` is `src/nonces.js` there, and
so on.

## 1. The system

### 1.1 Components

| component | state | operations | interacts with |
|---|---|---|---|
| File nonce store (`nonces.js`) | a log file, a lockfile, `${log}.tmp`; per process `this.seen` | `claimIfAbsent`, `compact`, inherited `has`/`add`/`size` | other processes, through the file system |
| Redis nonce store (`redis-nonces.js`) | a key space in Redis; per process a shared buffer, a worker thread, a socket | `claimIfAbsent`, `has`, `add`, `size`, `close` | worker thread (Atomics), Redis (TCP) |
| Registry (`registry.js`) | apps, signing keys with status, eligible users | `createRegistry`, `registerApp`, `registerKey`, `revokeKey`, `markEligible` | edited by the operator, read by verifiers |
| Command line (`cli.js`) | the registry file | `init-reg`, `add-key`, `revoke-key`, `eligible`: read, truncate, write; commands that verify documents | registry, verifiers, other commands |
| Verification pipeline (`verify.js`) | none of its own | `verifySignedEvent`, gates G1 to G9 | registry (argument), clock, nonce store |
| PiProof, passport, policy, SDK (`piproof.js`, `passport.js`, `policy*.js`, `sdk.js`) | none | build, inspect and verify proofs and collections of them; evaluate a policy | verification pipeline |
| Dispute engine (`dispute.js`) | none | a report with a verdict, from a verification | PiProof |
| Arbitration court (`court.js`) | roster of judges with reputation and fees; one object per case | file, evidence, deliberate, ballot, tally, window, challenge, settle, replay | the caller's sign functions |
| Application server (`app/server.mjs`) | `COURT_CASES`, a registry, a store in memory | handlers composed of court calls, document endpoints, `/api/snapshot`, `/registry.json` | court, pipeline, dashboard, gateway page |
| Offline verifier and gateway page (`offline-verifier.js`, `gateway.app.mjs`) | the page's copy of the registry | `verifyEventOffline` (no nonces), `loadRegistry`, `verifyText` | the server's registry |
| Revocation attestations (`escrow.js`) | entries in a replay store | issue, verify with a `has`/`add` guard | registry, nonce stores |
| Engagement scores, price floor (`engagement.js`, `pfloor.js`) | none | pure computations | dashboard |
| Dashboard (`dashboard.js`) | none | `assembleSnapshot` | escrow, engagement, price floor |
| Canonical form, schema, signatures (`canonical.js`, `schema.js`, `events.js`, `keys.js`) | none | pure functions | all of the above |
| SDKs in other languages (`sdk/`, `wasm/`) | the Python verifier's state file | the same gates; `NonceStore` | other processes with the same state file |
| Metrics, attack corpus, scripts | counters | - | - |

What makes each of the modelled components correct:

* **Nonce stores.** Of all claims of a key, by any process, at most one returns
  true (INV-04); the key of a claim that returned true is on stable storage and
  stays there (INV-11); the lock of a live holder is never taken (INV-12);
  a caller is never stuck; the lock of a dead process is reclaimed. Together:
  the store is an atomic claim-or-fail object.
* **Verification pipeline.** No event is accepted twice, whatever the number of
  verifiers and presentations and however the clocks run; a nonce is burned only
  for an event that was admissible while the call ran (INV-05, -07, -08, -09).
* **Documents.** However an event is wrapped, at most one answer vouches for it; an allowed
  document satisfies the verifier's policy and is as pinned as its answer says; a verdict VALID
  follows a verification.
* **Registry file.** A key that was revoked stays revoked until it is added again; only a command
  that ran at the same time can undo it.
* **Attestations.** Once an acceptance was answered, no later call that reads the memory in which it was kept
  accepts the same attestation key again.
* **Gateway page.** What it says of an event is what the pipeline would say with the page's
  registry and clock, and that registry was in force since the page was loaded.
* **Canonical form.** What was signed and arrives unchanged verifies; what verifies means what
  was signed.
* **Dashboard.** Scores grow with the verified events and manifests only weigh down (with a condition, see 3.3); a healthy
  pool lost no more than its tolerance; an intact floor has not fallen (likewise).
* **Python state file.** Claims outlive the process that made them, or nobody starts.
* **Court.** A ruling rests on enough validly signed ballots; reputation follows
  the rulings and nothing else; what was settled or given up stays so; the
  signed certificate says what its ballots say.
* **Application server.** Every case it answers for replays; the map of cases is bounded; a handler's
  calls are not torn apart by those of another.

### 1.2 What is hard to test

Every hazard is listed, with its line and the properties that cover it, in
`PROJECT.json`. They fall into these groups:

* *system calls of several processes interleave* in the lock protocol of the file
  store: the path that `unlink` removes is not the file that `stat` judged;
* *death, power loss and failing I/O* between the steps of a claim;
* *two threads and a server* that share one buffer in the Redis store, with
  replies that outlive the call that waits for them;
* *time passes inside a call*: the registry changes, the event ages, the claim
  expires;
* *long sequences of legal calls* in the court: tallies that are older than the
  ballots, challenges that reopen a deliberation, judges revoked in between;
* *nested steps*: gates, claim and policy of each proof of a passport, of which some fail after
  others have burned;
* *read, truncate, write*: the registry file and the Python state file are rewritten as a whole,
  by processes that may overlap or die in between;
* *stale copies*: the page's registry, the registry of a call, the set of a file store;
* *arrival order*: samples and events that come in any order, keys that sort
  differently once normalized;
* *waiting*: on a wedged holder, on a lost signal, on a dead process's lock.

## 2. Modules

```
NonceClaim          what a nonce store promises: an atomic claim-or-fail object
 ^  ^  ^
 |  |  +-- RedisBridge        implements it while replies are prompt  (TLC, proof)
 |  +----- FileNonceStore     implements it in the safe environment   (TLC, proof)
 +-------- PepVerifier        uses it as its store, with expiry
             |-- Gates              gates G1 to G8, what is checked before the claim
             +-- RegistryFile       commands on the registry file
                   +-- Registry     the operations on registry values (also below Gates)
Evidence            proofs, passports, policies, disputes, the commands for them; extends Gates
 ^
 |-- DocumentServer the server's document endpoints
 |-- Gateway        the page with its copy of the registry, and its own version of the gates
 |-- StateFile      the Python verifier and its state file
 +-- Escrow         attestations over the three kinds of nonce store
       +-- Dashboard          snapshots; extends Engagement and PriceFloor too
Canonical           the canonical form, and the way of a signed value
Ordering            sorting, used by Engagement, PriceFloor and Canonical
Services            Evidence and the services above and Canonical, one at a time, in one behaviour
Court               the arbitration court
 +-- AppServer      the court hosted by an embedder, or by the server and its handlers
MC*                 instances for TLC;   *_proofs   theorems
```

### 2.1 NonceClaim

`burned` is the set of keys the store refuses, `call[p]` what the call of `p` has
decided, `accepts[k]` how many calls returned true. A call is invoked, decided in
one atomic step (`Win` or `Lose`), and returns; it may throw at any time, with
its key burned or not. It is the abstract specification of both stores, and the
store of `PepVerifier`.

### 2.2 FileNonceStore

One action for each system call of `_acquireLock`, `claimIfAbsent`, `compact`
and `_releaseLock`, because other processes run in between.

| action | code |
|---|---|
| `Start` | the call of `claimIfAbsent(key)` or `compact()` |
| `OpenExclusive`, `RecordOwner` | `openSync(lockPath, 'wx')`, `writeSync` of the owner record |
| `ReadOwner`, `StatAndDecide`, `TakeOver` | `_readLockOwner`, `statSync` and the decision, `unlinkSync` of a stale lock |
| `Load` | `_load` under the lock, the pattern check, the lookup |
| `Append`, `Fsync` | `_appendDurably` |
| `WriteTmp`, `Rename` | the two halves of `compact`; `OldLogs` is what the rename replaces |
| `Release` | `_releaseLock` and the return of the operation |
| `LockAges`, `DeadlinePasses` | `staleLockMs` and `lockTimeoutMs` elapse |
| `Crash`, `PowerLoss`, `Restart` | the environment |

Abstractions. The log is the set of keys a reader would load plus one bit, `torn`,
for an unterminated last line. Time is two facts: this lockfile is older than
`staleLockMs` (`lock.stale`), this caller is past its deadline (`late`).
`StatAndDecide` includes the `kill(pid, 0)` test, which reads nothing that the
other steps of the loop change. A lockfile records its creator from the
start; readers see it only once `recorded` is set. Process ids are never reused
(a restart increments `epoch`). The environment is a parameter: `Crashing`,
`Restarting`, `MaxCrashes`, `Faults`, and `Stalls`, which says where a live
process may be delayed for longer than `staleLockMs`. The directory is never fsynced: with the fault
`rename_lost` a loss of power may put one of the logs that were `replaced` back.

### 2.3 Registry, RegistryFile, Gates and PepVerifier

`Registry` has the five mutators as operators on values, `Gates` the checks of an event against
one of them. In `RegistryFile` a command of `cli.js` is a process that runs once: `ReadRegistry`
(`readJson`; `init-reg` does not read), the change of its copy together with the truncation that
`writeFileSync` begins with (`cmdInitReg`, `cmdAddKey`, `cmdRevokeKey`, `cmdEligible`), and
`WriteRegistry`. Nothing obliges a command to go on. `contents` says whether the file parses: it does not
while it is empty, nor after two overlapping writes have left a mixture. `usable` and
`doubtful` are history variables: what the last command about a key said, and the keys on which a command that
overlapped with that one has written since.

In `PepVerifier` a verifier's call is `Load` (it gets a snapshot of the registry, if the file parses), then `Reject` or `Pass` (gates G1 to G8 at one
reading of its own clock, at most `Skew` off), then `Claim` (G9, decided by the
store within `Delay` of the clock reading), then `Answer` or `Throw`. The checks
that look at the event alone (schema, canonical form, signature, weight)
are its `defect`: what matters here is that such an event never burns a nonce.
`Tick` is real time; it also lets claims expire, if `Expires`, `TTL` after they were
won. The file store is the instance with `Expires = FALSE`.

`witnessed[v]` is a history variable: the keys that were active and users that
were eligible at some time since the call of `v` began. "The key was active" can
be promised in this sense only, because the snapshot may be stale when the nonce
is burned.

### 2.4 RedisBridge

The main thread of `_call` (`ClaimIfAbsent`, `StoreSeq`, `LoadDone`, `Wait`, `Wake`,
`Timeout`), the worker's loop (`Send`, `Receive`, `WriteReply`, `StoreDone`, `Notify`),
Redis (`Execute`) and the connection (`Drop`). The shared buffer is a
payload region used in both directions and four words (`SEQ`, `DONE`, the status and the reply's
length). A claim that was won makes a second round trip, `_bump`, whose result is ignored. `LateReplies`
says whether a reply may take longer than `timeoutMs`, `SlowNotify` whether the main thread may begin another
wait between the worker's store of `DONE` and its `Atomics.notify`, `Drops` whether connections break. A connection that closes under a request leaves the worker
`wedged`: the close handler discards `rx`, and the promise of the round trip never settles.
`has` and `add` are in `Escrow`. Not modelled: `size`, `close`, the handshake (AUTH, SELECT, PING) and
the RESP parser.

### 2.5 Evidence

A document is a value: a PiProof, or a passport, a sequence of PiProofs. A verifier's call is
`Present` (which document, for a decision of `sdk.js` or a report of `dispute.js`, with which
policy), then for each proof `RejectProof` or `ClaimProof` (or `Throw`, which ends the call),
then `Answer` and `Return`. Between two proofs other verifiers run; they share the nonce store,
and each call has one copy of the registry and one clock reading, as in the code.

Abstractions. A proof carries the registry it is pinned to instead of the hash of it, without
timestamps: registering a revoked key again restores the old root here and does not in the code, so
the model accepts more. Flags say whether an envelope is well-formed
(`formed`) and whether `evidence_root` is the hash of the proofs (`intact`). A policy is
`require_epoch_bound`, `max_age`, and the set of events that its other rules admit. The
operator only registers and revokes keys; the rest of the registry's life is in `RegistryFile`.
A malformed envelope still names an issuer. Reports without a registry, which
change nothing and are always UNVERIFIABLE, are left out. `credited` is a history
variable: how many answers (ALLOW, or VALID for a proof that reached the store) vouched for a nonce.

`Present` is reached through the commands `proof-verify`, `passport-verify`, `dispute` and `decide`
(`cmdProofVerify` and so on), which differ in the documents they take; or, in `DocumentServer`,
through the four endpoints, whose calls come one at a time: a handler awaits the body of its request
and nothing after it, so `NobodyServed` guards them.

### 2.6 Court and AppServer

Every mutator of the roster and of a case is an action, with the guards of the
code; the functions return errors in the order in which the guards are
conjoined, so a rejected call is a step that does not exist. Some consequences of the code that shape
the module:

* A case has at most one deliberation round: `openDeliberation` leaves the only
  statuses it accepts and no operation returns to them. `ROUNDS_EXHAUSTED` is
  unreachable, and the round's fields are fields of the case.
* Ballots carry `valid`, whether their signature verifies, because `castBallot`
  stores whatever the caller's sign function returned. `Spurious` are the keys in
  whose name that happens.
* Of the time only `late` (now is after `closes_at`) and `final` (now is after
  `challenge_deadline`) are kept.
* `StakeOf` counts staked units as a set, so that sums of stakes are cardinalities.
* A challenge by an unregistered key that is not upheld changes nothing that the module
  keeps.
* `assignPanel` sorts by (fee, reputation, id); the module says which judges end
  up among the first `QuorumJudges`.

`AppServer` hosts that court. `host` is chosen at the start, from `Hosts`: an embedder, who calls in any order
(`Library`), or the server, whose handlers make several calls each. A handler is one request with
its first call (`File`, `Demo`, `Ballot`, `Settle`) and a `plan`, the calls it still has to make, which
`Proceed` makes one by one; no other handler runs before the plan is empty, because a
handler awaits the request's body only. `shelf` is the map `COURT_CASES` in the order of insertion, with
eviction in `Keep`; `MapSet` also lets a case take the place, wherever in the map that is, of one filed in the same
millisecond with the same content, as its id is a hash of both.

### 2.7 Gateway

`verifyEventOffline` is translated on its own, from `offline-verifier.js`, check by check in the order of its early
returns, and compared with `Gates` by the property `GatewayAgrees`. The page (`verifyText`, `loadRegistry`,
`LoadFails`, `runDocument`, `ReloadPage`) keeps the registry it has fetched. Several requests for it may be
under way (`requests`); the server answers each with the registry of that moment (`ServeRegistry`), and answers arrive in any
order, so that an older one may replace a newer copy. The page looks at the events of a document
alone. A registry edit stands for a restart of the server with another registry. `visited` is a history variable: the
registries in force since the page was loaded.

### 2.8 Escrow

`Examine` is `verifyRevocationAttestation` up to `has`, `Admit` its `add` and answer. `store` is memory, file or Redis,
with `has` and `add` of each: a file store inherits both from the one in memory, and `claimIfAbsent` and `compact`, which
replace its set by the log, forget what was added. Over Redis a call may throw (`CallThrows`); its SET, if it was one, may still be
executed (`underway`, `LateSet`), and after a timeout the process is `ahead`: the next call may take the late reply for its own,
so that `Examine` may miss a key that is there and `Admit` may answer for a SET that Redis has not seen. Which reply is taken is not
followed, as `RedisBridge` does that for claims. `Reborn` is a death with a successor. `answered` and `repeats` are history
variables: `answered` loses what the code promises to nobody any more, when a file store's set is replaced or a
process in whose memory the set was has ended. Only accepted presentations are steps: the others change nothing.

### 2.9 Engagement, PriceFloor and Dashboard

Pure functions, checked by letting events and samples arrive in any order (`Collect`, `TakeSample`) and comparing
successive results of `Assemble`, `Report` and `Compare`. Numbers are exact: points are in tenths, a
score is multiplied by 20 `windowDays`, prices are fractions. The code uses doubles and rounds to six or more
places; monotone rounding keeps the order of scores, and for the floor the `Number.EPSILON` of `floorIntact` is
below what the model can tell apart. `NoManifest` is none at all; the empty manifest, which lists no action, is another
value and leaves no event counted. `Ordering` has what sorting does: an element stands behind as many as precede it.

### 2.10 StateFile

A Python process reads the state file when it starts (`Construct`), and for every accepted proof truncates it
(`VerifyProof`) and writes all of its set (`Dump`). `Quit` is an end or a death anywhere; `Discard` the only remedy
for a file that no longer parses. `crowded` records that two processes were up at once.

### 2.11 Canonical

Strings are numbers in the order in which JavaScript sorts them, `NFC` any idempotent function on them. `canonicalize`,
`parse` and `isCanonical` work on values and texts with objects, lists, numbers and strings. `textOf` and `valueOf` are one
call of `canonicalize` and of `JSON.parse`, given what the calls for the parts return; `CanonicalForm[n]` and `Parsed[n]` tie
them together for values that are nested up to `n` deep, and `NESTING` bounds how deep values are nested at all (`MAX_DEPTH`, how deep the
code follows them, may be less). Numbers are integers, of which those from 0 to `MAX_SAFE` are accepted. A value is issued (`Sign`),
perhaps replaced under the same signature (`Replace`), and checked (`Check`, the gates CANONICALIZATION and
SIGNATURE of `verify.js`). A signature is valid for one canonical text.

### 2.12 Services

Evidence and the services around it in one specification: `service` says which of them a behaviour is
about, because they share the registry, the documents and the attestations but, in the code, no process. The variables
of the others stay as they were. Each service also has a specification of its own, which its theorems are about:
`Spec` of `Evidence` for the documents, `GatewaySpec`, `EscrowSpec`, `PythonSpec`, `DashboardSpec` and `WireSpec`. That they hold
in the composition as well is `ServicesAreSafe`.

## 3. What is checked

| run | question | answer |
|---|---|---|
| `file_concurrent` | Three live processes on one host claim and compact; a holder may stall beyond the stale window after its record is written; fsync may fail. Is the store an atomic claim-or-fail object? | Yes: `MutualExclusion`, `AtMostOneAccept`, `LiveLockNeverStolen`, `ClaimsAreNeverDropped`, `ImplementsNonceClaim`. |
| `file_crash` | A process dies anywhere, power fails, record and fsync fail, a process comes back. | `AcceptIsDurable` and `AtMostOneAccept` hold with one contender at a time; every acquisition ends (`AcquisitionEnds`) and the lock of a dead process is reclaimed (`OrphanIsReclaimed`). |
| `file_takeover` | Two live contenders meet the lock of a third, dead process. | **Violated**: `AtMostOneAccept`. See 3.2. |
| `file_torn` | A process dies in the middle of an append and its successor claims. | **Violated**: `AcceptIsDurable`. |
| `pep_gates` | Two verifiers with inexact clocks, two commands that edit the registry file meanwhile, a store whose claims expire. | At most one acceptance per nonce (`AtMostOneAccept`); only admissible events burn nonces (`OnlyAdmissibleEventsBurn`); the file keeps what the last command about a key said, unless a command overlapped with it (`RegistryRemembers`). |
| `evidence_documents` | Two verifiers are given nine documents that wrap three events, for decisions and reports, while a key is revoked and registered again. | At most one answer vouches for an event (`CreditedOnce`); the verifier's policy and the reported binding can be relied on (`PolicyIsHonoured`, `BindingIsHonest`); nonces are burned only under the registry a proof is pinned to (`BurnsInTheRightEpoch`). These hold for the command line and for the server. |
| the same run, other services | The page, attestations, the dashboard, the Python verifier, signed values. | `GatewayAgrees`, `VerdictIsOfThisVisit`; `NoSecondAdmission`, replies of Redis being prompt; `ScoreNeverFalls`, `ManifestWeighsDown`, `PoolReportIsSound`, `IntactFloorHolds`; `SuccessorsRemember`; `SignedValuesVerify`, `VerifiedMeansSigned`. |
| `evidence_valid` | Has what a report calls VALID been verified? | **Violated**: `ValidMeansVerified`. |
| `redis_prompt` | Two processes, lost connections, every thread interleaving, replies within `timeoutMs`. | `AtMostOneAccept`, `ImplementsNonceClaim`; every call ends (`ClaimEnds`). |
| `redis_late` | The same with replies that may be late. | **Violated**: `AtMostOneAccept`. |
| `court_lifecycle` | All orders of an embedder's calls on a case and on the roster, and all orders of requests to the server with two cases, of which both may be demos that settle and are kept. | `VerdictHasQuorum`, `ReputationIsEarned`, `RulingIsFinal` for both; for the server `ServedCasesReplay`, `MapIsBounded`. |
| `court_stale` | Does a certificate say what its ballots say? | **Violated**: `RulingMatchesBallots`. |
| `court_unresolved` | Does a case of the server whose deliberation is over end? | **Violated**: `ExpiredCasesEndUnresolved`. |

What the passing runs leave out is either the subject of a run that fails or can be seen by changing a constant: 3.2 and 3.3
say for each finding and observation which. `file_concurrent` and `file_crash` exclude takeovers by two contenders (`file_takeover`), stalls
before the owner record, torn writes (`file_torn`) and lost renames; `redis_prompt` excludes late replies (`redis_late`) and late
notifications; `evidence_documents` excludes late replies to `has` and `add`; `pep_gates` has a TTL that is long enough.
`ManifestWeighsDown` and `IntactFloorHolds` are what is left of two documented claims that do not hold as they stand.

Every property of a passing run is accompanied in `PROJECT.json` by a mutated definition,
a plausible bug in the code, with which TLC finds the property violated.

### 3.1 Bounds, and why they are enough

* *File store.* The races need a holder, a slow contender and a fast one: three
  processes. Different keys meet only in the log, where they are independent;
  one key suffices for the races and a second, malformed one for the throw under the lock.
  Nothing bounds how often a process calls; the counter `accepts` stops by
  itself because a claim is won once. `MaxCrashes` is 2: a death and then a power loss, or
  two of the same. In `file_crash` one process comes back and one does not, so
  that the lock of a dead owner meets one contender (two are the subject of
  `file_takeover`).
* *Pipeline.* Two commands, each of which runs once: enough for one to write back what the other has changed, to
  meet a truncated file, or to leave a mixture of two texts. One app, key, nonce and user, and three events that share the
  nonce: an admissible one, one whose issuer does not vouch for the user, and one issued a unit later.
  `W = Skew = Delay = 1` keeps the three apart in the sum that matters;
  `TTL = 6` is 2W + 2 Skew + Delay + 1, so that events one unit apart still exclude
  each other, and `MaxClock = 7` lets claims expire after the last moment at which an event
  can be presented. The theorems cover all other values.
* *Documents.* An event can be alone, pinned to the current or to an older registry, twice in one passport, in two
  passports, next to a forged one, under an envelope or a root that is damaged, with a policy of the passport, the
  verifier, both or neither: nine documents. A second verifier is needed
  to burn a nonce between two proofs of a passport. One reading of the clock suffices, because the rules on age are told
  apart by the events; `pep_gates` is the run in which time passes.
* *Services.* The page's clock (`PageTimes`) reaches both ends of the window and beyond; with `MaxRequests = 2` an old
  answer can replace a newer copy. Five attestations share nonce keys with each other and with an event; the two readings of
  the clock lie at both sides of `MaxAge`. `MaxReceived = 3` events and samples: two pioneers, a tie or an overtaking,
  two steps of the pool. Values have up to two fields and lists up to three levels, with `MAX_DEPTH = 2` so that
  the depth limit is met; `MAX_SAFE = 2`, so that numbers lie on both sides of it; of three strings one normalizes to another that sorts elsewhere.
* *Redis.* `MaxOps = 4` round trips per process: two claims that are won with their `_bump`, or four that are not.
  The late-reply race needs two claims of one process; the wedge one.
* *Court.* Three judges of equal stakes, as in `server.mjs`, of which one suffices for the quorum's stake (by default 5 of 4), and
  a quorum of two judges: hung, tied and decided tallies all occur, a third ballot may come after a tally and contradict it, and
  one revocation or one invalid ballot can break the quorum. (The server has a quorum of all its three judges, with which no ballot comes after a
  tally.) One judge is also a referee, one publishes fees, one may be
  revoked, one casts ballots with bad signatures; `MaxRejected = 1` bounds lost
  challenges. Cases share only the roster, so an embedder has one case; the server has two, with
  `Limit = 1`, so that a case is evicted, takes another's place, or waits while a demo case runs. Both may be demos; they are
  decided two to one, settle and are kept, so that the map comes to exceed its limit. That a case takes the place of one in the
  middle of the map needs three cases, which are too many for TLC here; the theorems are about any number. `court_unresolved` needs one case.
* Symmetry is used over processes, verifiers and well-formed keys, in runs without
  liveness properties only.
* Deadlock is checked except in the Redis runs (`MaxOps` is used up), in the
  court runs (a settled or given-up case admits no further change once the roster is fixed) and in `pep_gates` (when
  both commands have run and left a file that does not parse, nobody can go on once time is up).

### 3.2 Findings

Each is the violation that a run finds, next to what the repository says; `PROJECT.json` has the quotations.

1. `nonces.js:173`, run `file_takeover`. A contender that judged a dead
   process's lock stale unlinks *the path*. If another contender reclaimed the lock
   in between and created its own, that live lock is removed and both enter;
   both claims of one key return true. SECURITY.md:67 promises that two verifiers on one machine
   cannot both win a claim.
2. `nonces.js:209`, run `file_torn`. After a torn line the next append continues
   that line. The claim was fsynced and returned true, but a reader finds the two keys run together: `_load` skips
   that line if it is malformed, and would take it for another key if it is not. The next claim of the key wins again.
   docs/FORMAL_MODEL.md:117-119 says that an ACCEPT survives a hard restart and that a crash costs one torn line.
3. `dispute.js:182`, run `evidence_valid`. The verdict follows a few named steps. A document
   whose envelope, signature, freshness or eligibility fails, or whose policy is violated (a
   policy leaves no step), is reported VALID. The module's header defines VALID as
   "every layer checked here passed".
4. `redis-nonces.js:271`, run `redis_late`. The reply of a call that timed out is
   taken for the answer to the next one, so the claim of another key is reported as
   won. The module's header promises that timeouts fail closed.
5. `court.js:398`, run `court_stale`. A ballot cast between `tallyRound` and
   `openChallengeWindow` enters the certificate but not the tally that decides it, and
   the panel signs a ruling its own ballots contradict. docs/COURT.md:12
   promises a signature over the exact tally.
6. `server.mjs:762`, run `court_unresolved`. The server decides a case on the ballot that completes the quorum and at no
   other time, so that a case whose deliberation ends without a quorum stays in deliberation. `court.js:36-37` says
   that quorum unmet and expired windows "all end UNRESOLVED", and docs/COURT.md:26 repeats it for the quorum.

### 3.3 Observations without a run

Met while modelling. The modules have the behaviour as the code has it; the properties make room for it, and the theorems name it among their
hypotheses. The first seven contradict the text of the repository that is cited with them; the first five of those are options of the modules, with which TLC finds
the violation within seconds.

* `nonces.js:255`, option `Faults = {"rename_lost"}`: `compact` syncs the temporary file but not the directory. Where a rename needs that to be
  durable, a loss of power brings the old log back, without the claims made since, although each was fsynced (`AcceptIsDurable`).
  `nonces.js:49-50` promises that a claim that returned true survives a hard restart.
* `nonces.js:133`, option `Stalls = {"unrecorded"}`: until the owner record is written the lock is anonymous and can be taken by
  age while its creator is alive (`LiveLockNeverStolen`). docs/FORMAL_MODEL.md:123-125 (INV-12) says that the lock of a live same-host process is never
  stolen, whatever its age; the comment at `nonces.js:47` does allow it for unparseable locks.
* `redis-nonces.js:213`, option `SlowNotify`: a call that finds `DONE` changed ends before the worker has notified; the notification then wakes the
  next call, which takes the old reply for its own, and answers are one call behind from then on. A key that another instance has won is won
  again (`AtMostOneAccept`). `redis-nonces.js:11-13` says that two instances can never both win.
* `redis-nonces.js:293`, option `LateReplies` of `Escrow`: `has` goes the same way as a claim and may get a late reply. An attestation whose acceptance
  was answered is then accepted again (`NoSecondAdmission`).
* `verify.js:85` with `redis-nonces.js:23-25`, option `TTL` = 2W of `PepVerifier`, with exact clocks: an event can be presented for 2W, plus clock error and
  latency, so that a claim kept for 2W is forgotten too early (`ReplayNeverAccepted`); the documentation of `ttlMs` asks only for more than the freshness
  window. The theorem `ReplayNeverAcceptedHolds` gives a sufficient TTL: 2W + 2 Skew + Delay.
* `engagement.js:180`: points follow the class that the *manifest* gives an action, and the role the class of the event. A manifest that lists
  an action in a higher class weighs it up; lines 17 and 18 promise the contrary. `ManifestWeighsDown` presumes that the manifest agrees with
  the events.
* `pfloor.js:165`: `floorIntact` compares the ratio of floor to spot, from which the quote reserve cancels out. A pool that is drained of quote
  tokens is "intact", although lines 158-159 say that the question is whether the floor is kept. `IntactFloorHolds` presumes that the spot price has not fallen.
* `engagement.js:194`: active days are counted wherever in time they lie, not within the window.
* `nonces.js:223, 244`: `FileNonceStore.claimIfAbsent` and `compact` replace the set by the log, in which keys from `add` are not. With a file
  store an attestation is accepted again after an event was claimed or the log compacted; no text of the repository says otherwise.
* `escrow.js:212`: the nonce key of an attestation is `escrow_id:nonce`, in the name space of the events' `app_id:nonce`.
* `server.mjs:735`: demo cases exceed the limit of the map by one each, until the next filed case makes room for one.
* With the default configuration of the court one AFFIRM of stake 5 beside two abstentions settles a case.
* `cli.js`: without `--nonces` a command has a store of its own, and so no replay protection.
* `server.mjs:267`: `/api/dispute` hands a named policy on without resolving it, unlike the other endpoints.
* `gateway.app.mjs:61`: a passport without proofs is shown as verified.
* `piproof_sdk.py:440`: the Python verifier resolves the policy after the nonce is burned, so that an unknown name costs a nonce; two processes at a time overwrite
  each other's claims.

### 3.4 Fairness

* `FileNonceStore`: weak fairness of `AcquireStep(p)` (a process in
  `_acquireLock` runs its loop) and of `DeadlinePasses(p)` (clocks advance), strong
  fairness of `LockAges` (the age of a file grows whatever contenders do in between). There is
  deliberately none for the critical section: a holder may be wedged for ever, and a caller must
  still get away. `AcquisitionEnds` presumes that new calls eventually cease, because
  the branch of the loop that retries at once (the lock vanished) does not look at the
  deadline.
* `RedisBridge`: weak fairness of the main thread inside a call and of the worker
  with the server. Nothing obliges a connection to break or a caller to call.
* `AppServer`, in `court_unresolved` only (`FairAppSpec`): a handler that has begun goes on, and time passes (weak fairness); ballots and
  settlements that are possible again and again happen (strong fairness). That is more than clients owe the server, and
  still no case that missed its quorum ends.
* The other modules have no liveness properties: their processes wait for nobody, and commands, processes and
  cases may be abandoned anywhere.

## 4. What is proved

`FileNonceStore_proofs`, for any number of processes and keys:

* `TypeCorrect`, in every environment.
* In the `SafeEnvironment`: `MutualExclusionHolds`, `AtMostOneAcceptHolds`, `AcceptIsDurableHolds`,
  `ClaimsAreNeverDroppedHolds`, `LiveLockNeverStolenHolds`; and `RefinesNonceClaim`, the refinement of `NonceClaim`.

The `SafeEnvironment` is: all processes on one host; a live process outlasts `staleLockMs` only while it holds a lock with its
record; and if processes die or power fails, at most one process is left to meet the lock of a dead one (`LoneSurvivor`: of two
processes one may die while the other lives, or, after a loss of power, one of any number comes back), no write is torn and no rename is lost. The record and
the fsync may fail. These are the environments of `file_concurrent` (nobody dies) and of `file_crash`. Outside of it findings 1 and 2
and the first two observations of 3.3 show that the properties fail.
The refinement presumes in addition that power does not fail (`PowerStays`): a loss of power may take back a burned key that no fsync has covered, which
the abstract object never does. A death is a call of the abstract object that throws.

None of these properties is inductive. The invariant `IInv` adds: who is in the critical
section holds the lockfile, and a lockfile whose owner is not there is what a death has left behind (`LockInv`); the log has no torn tail, no old log can come back where power fails, and
after the first death all processes but one are dead (`DeathInv`); the stale lock of a live owner is recorded, and whoever is about to judge it has read
that owner, hence only the survivor of a death ever reaches the unlink of a takeover (`TakeoverInv`); and inside the section what the process has
loaded is what the log holds, its key is absent before the append and present after it, covered by an fsync before it is won,
and has been accepted by nobody (`SectionInv`). The refinement needs one more fact, that the
outcome of a call that has not reached its release is still open (`FreshInv`).

`PepVerifier_proofs`, for all verifiers, events, `W`, `Skew`, `Delay`, `TTL`:

* `TypeCorrect`, for the registry file and its commands too (lemma `FileTypeStep`); `AtMostOneAcceptHolds`: of presentations under one nonce that the store's
  memory can tell apart at most one is accepted; `ReplayNeverAcceptedHolds`: no event is
  accepted twice if claims never expire or live for 2W + 2 Skew + Delay.

A claim of an event `e` is won no earlier than `ts - W - Skew` by real time, so it
is remembered until `ts - W - Skew + TTL`; the last instant at which any claim of
`e` can be decided is `ts + W + Skew + Delay`. `CallInv` carries the second
bound through a call, `MemoryInv` the first, and `WinnerInv` says that a call which has won
but not yet answered excludes every other winner.

`RegistryRemembersHolds` needs an invariant about the commands under way (`FileInv`): the copy in a command's
memory is right about every key save those already in doubt and those changed in the file since it was read, and a command that is about to
write has done to the keys it is about what it was asked for. `OnlyAdmissibleEventsBurnHolds` rests on `GateInv`: an event past the gates had its key
active and its user eligible in a snapshot that was the file's at some time since the call began, and its time stamp
within the bounds that `CallInv` keeps.

`Court_proofs`, for all judges, stakes, fees, cases and quorums: `TypeCorrect`, `VerdictHasQuorumHolds`,
`ReputationIsEarnedHolds`, `RulingIsFinalHolds`. The tally of a ruling may be older than the ballots on record (finding 5),
so that no property of the tally alone is inductive. `CourtInv` says what survives: ballots are finitely many, one for each
judge, and never withdrawn (`RecordInv`); a tally that rules has among the ballots on record enough valid ones behind it,
by number and by stake (`BackingInv`); who voted is known to the roster (`VotersKnown`), so that
settling pays and fines existing judges only. For `ReputationIsEarned` a settled case adds each judge's vote to exactly one of
two finite sets, and cardinalities do the rest. The panel that sorting by fee, reputation and id gives always exists and
has `QuorumJudges` members (by a ranking of the willing judges), as `TypeOK` demands.

`AppServer_proofs`, for all sets of cases, demo ballots and limits, under `AppSpec`: `AppTypeCorrect`, `ServedRulingsHaveQuorum`,
`MapIsBoundedHolds`, `ServedCasesReplayHolds`, `ServedRulingIsFinal`. `AppInv` adds to `CourtInv` that what a
handler has left to do is the end of a plan, with the window opened right after the tally and room made last (`HostInv`),
and that a served case is decided, if at all, on all its ballots, which are valid and
of judges that nobody revokes (`ServedInv`): what finding 5 shows to fail for an embedder holds for the
server because no request gets between its two calls.

`Evidence_proofs`, for all verifiers, events, documents and policies: `DocumentsTypeCorrect`, `CreditedOnceHolds`,
`PolicyIsHonouredHolds`, `BindingIsHonestHolds`, `BurnsInTheRightEpochHolds`. By `DocumentInv` each result on record is what its proof
deserves under the registry and the clock reading of the *call*, which is why the operator's edits in between do not matter, and
an answer follows from the results. By `OnceInv` a nonce key has one claim at most that may still earn credit, or has been
credited once and has none; it is burned in either case. `ServerImplementsCommands` shows that the endpoints only do what
the commands could have done, so that all of this holds for the server.

`Services_proofs`:

* `GatewayAgreesHolds` (`GatewaySpec`): `verifyEventOffline` takes the faults in the order of its early returns, `Gates` the first in
  the order of its codes; lemma `OneVerdict` proves that both find the same check, or none,
  for every event, registry and time. `VerdictIsOfThisVisitHolds`: the page's copy and every answer on its way are registries that were
  in force since the page was loaded (`PageInv`).
* `EscrowTypeCorrect`, in every environment, and `NoSecondAdmissionHolds` if `~LateReplies` (`EscrowSpec`): once answered, a key is in whatever memory
  a later call reads, which is told the truth because no process is ahead of its replies (`Remembered`). A claim or a compaction of a
  file store, or a new process, replaces that memory, and `answered` forgets with it, which is what the property promises.
  The fourth observation of 3.3 shows that the hypothesis is needed.
* `SuccessorsRememberHolds` (`PythonSpec`): while processes do not overlap, what was allowed is in the set of the process that is up,
  or, if none is, in the file, unless the file does not parse, and then nobody starts (`SuccessorInv`).
* `SignedValuesVerifyHolds`, `VerifiedMeansSignedHolds` (`WireSpec`), for values of any size and nesting, over any strings and any `NFC`.
  For one level: if the canonical forms of the parts are kept by parsing and canonicalizing again (`KeepsTexts`), and parts with one form have one
  meaning (`KeepsMeaning`), then both is so for the lists and objects made of them (`RoundTrip`, `OneMeaning`). The first is where sorting by normal
  forms matters: the keys of the parsed object are their own normal forms, in the order in which they were, and two sequences in ascending order
  with the same elements are equal (`SameOrder`). The induction over `NESTING` is one over a set of numbers (`UpTo`).
* All services together: `ServicesImplement` (a behaviour of `Services` is one of `Evidence` and one of `Canonical`), `ServicesTypeCorrect`, and
  `ServicesAreSafe`, the conjunction of all safety and action properties of the run `evidence_documents` under `ServicesSpec` (`NoSecondAdmission` again
  if `~LateReplies`). Each service's step keeps its
  own invariant, and the others' state but for the registry, of which the invariants only need that it is one.

`Dashboard_proofs`, under `DashboardSpec`, for all entries, samples, supplies and terms:

* `IntactFloorIsSound`: the floor is the ratio of floor to spot times the spot price, so that neither factor
  falling means that the product does not fall; as fractions, for all reserves and supplies.
* `PoolReportHolds`: in the sorted series each step loses at most the tolerance, so that after `k` steps the product is at least the `k`-th power of
  what one step leaves; a series with a step that loses more has a drawdown that shows it, the greatest being at least that of the step.
* `ManifestWeighsDownHolds`: sums compare when their summands do, and with more summands.
* `ScoreNeverFallsHolds`: points and active days only grow with further entries, and the row of a pioneer is found on any board.

A result says what the entries and samples were when it was made, so that all of these are about `BoardInv`: the board is the leaderboard of
the first so many entries. Sums, powers, running maxima and sorted sequences are recursive functions; the facts about them are
proved by induction over a set of numbers (`UpTo`, from the library's theorem on well-founded sets), one number at a time, instead of
over the data.

`RedisBridge_proofs`, for any number of processes, keys and calls: `BridgeTypeCorrect` in every environment;
`BridgeRefinesNonceClaim` and `BridgeAcceptsOnce` if `~LateReplies` and `~SlowNotify`, whatever connections break. Finding 4 and the third
observation of 3.3 show that both hypotheses are needed. `SyncInv` says that main thread and worker take turns with the buffer: it holds the command until the worker has
read it, and between `DONE` and the main thread's wake-up what the worker was answered; a call that
times out finds the worker wedged, which never signals again. At-most-one is then proved of the abstract
object (`WinInv`) and carried over by the refinement.

The assumptions used are the `ASSUME`s of the modules, which TLC evaluates in each run, and the environments named above
(`SafeEnvironment`, `PowerStays`, `~LateReplies`, `~SlowNotify`), which are those of the runs `file_concurrent`, `file_crash`, `redis_prompt` and
`evidence_documents`.

Only model-checked: what holds under fairness (`AcquisitionEnds`, `OrphanIsReclaimed`, `ClaimEnds`), which TLAPS cannot prove. Every other
property of a passing run is a theorem.

## 5. What is not modelled, and the plan

Not modelled, and why:

* the arithmetic of Ed25519 (`keys.js`, `web-ed25519.js`) and hashing: a signature verifies or not, a hash is the value it is a hash of;
* HTTP, HTML, formatting and printing; the pages of samples, share links (`/api/share`, `/p/`), which encode a document in an address, and the endpoints that issue samples;
* `schema.js` field by field: an event has a `defect` instead;
* floating-point evaluation in `pfloor.js` and `engagement.js`;
* metrics, which no decision reads; the attack corpus and the scripts, which run fixed scenarios;
* Redis: `size`, `close`, the handshake and the RESP parser; the wrap-around of `SEQ` after 2^32 operations;
* reuse of process ids (`nonces.js:121`);
* the Go, Rust and wasm verifiers, which keep no state.

What could be added: the refinement of `NonceClaim` by the file store when power fails, against an abstract object that may forget a claim
nobody was told of; and the wrap-around of `SEQ`.
