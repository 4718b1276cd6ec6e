------------------------------ MODULE MCEvidence ------------------------------
(* Instances of Evidence and of the services around it for TLC. *)
EXTENDS Services, TLC

CONSTANTS v1, v2, app, key, alice, n1, n2, n3, vault

\* The two registries that an operator alternates between.
WithKey(status) ==
  [apps |-> {app}, keys |-> (<<app, key>> :> status), eligible |-> {alice}]
Prepared == WithKey("active")
Withdrawn == WithKey("revoked")

Event(nonce, ts, defect) ==
  [app |-> app, key |-> key, nonce |-> nonce, uid |-> alice, ts |-> ts,
   declared |-> TRUE, defect |-> defect]

Fresh == Event(n1, 2, "none")
Aged == Event(n2, 1, "none")
Forged == Event(n3, 2, "signature")
SampleEvents == {Fresh, Aged, Forged}

Proof(event, root) == [event |-> event, root |-> root, formed |-> TRUE]
Single(proof) ==
  [kind |-> "proof", formed |-> TRUE, intact |-> TRUE, policy |-> NoPolicy, proofs |-> <<proof>>]
Passport(proofs, policy) ==
  [kind |-> "passport", formed |-> TRUE, intact |-> TRUE, policy |-> policy, proofs |-> proofs]

Pinned == [require_epoch_bound |-> TRUE, admits |-> SampleEvents, max_age |-> 1]
Lax == [require_epoch_bound |-> FALSE, admits |-> SampleEvents, max_age |-> 1]
Recent == [require_epoch_bound |-> FALSE, admits |-> SampleEvents, max_age |-> 0]

\* Every way to wrap an event and to damage the wrapping, with few documents.
SampleDocuments ==
  {Single(Proof(Fresh, NoRoot)),
   Single(Proof(Fresh, Withdrawn)),
   Single([Proof(Aged, NoRoot) EXCEPT !.formed = FALSE]),
   Passport(<<Proof(Fresh, NoRoot), Proof(Aged, Prepared)>>, Lax),
   Passport(<<Proof(Aged, Prepared), Proof(Fresh, Prepared)>>, Recent),
   Passport(<<Proof(Fresh, NoRoot), Proof(Fresh, NoRoot)>>, NoPolicy),
   [Passport(<<Proof(Aged, NoRoot)>>, NoPolicy) EXCEPT !.intact = FALSE],
   [Passport(<<>>, NoPolicy) EXCEPT !.formed = FALSE],
   Passport(<<Proof(Forged, NoRoot), Proof(Aged, NoRoot)>>, NoPolicy)}
SamplePolicies == {NoPolicy, Pinned}
Symmetry == Permutations(Verifiers)

\* Attestations: genuine ones; one whose nonce key is that of an event; an old one
\* that says the contrary; a forged one.
Revocation(escrow, at, nonce) == createRevocationAttestation(escrow, key, at, nonce)
SampleAttestations ==
  {Revocation(vault, 2, n1), Revocation(app, 2, n2),
   [Revocation(vault, 0, n1) EXCEPT !.state = "ACTIVE"], Revocation(vault, 1, n1),
   [Revocation(vault, 2, n3) EXCEPT !.defect = "signature"]}
SampleEventKeys == {<<app, n2>>}

\* Two pioneers; the last entry was not verified.
Entry(pioneer, class, action, day, verified) ==
  [pioneer |-> pioneer, class |-> class, action |-> action, day |-> day, verified |-> verified]
SampleEntries ==
  {Entry(1, "A", "pay", 1, TRUE), Entry(1, "C", "login", 1, TRUE), Entry(1, "C", "login", 2, TRUE),
   Entry(2, "B", "kyc", 2, TRUE), Entry(2, "C", "login", 2, FALSE)}
SampleSamples ==
  {[t |-> 1, r |-> 2, q |-> 5], [t |-> 2, r |-> 3, q |-> 3], [t |-> 2, r |-> 1, q |-> 8],
   [t |-> 3, r |-> 2, q |-> 4]}

\* No manifest; an empty one; one that weighs down and leaves out an action; one that
\* weighs up.
Ask(manifest, tolerance) ==
  [pool |-> [r |-> 2, q |-> 4, s |-> 3], attestation |-> Revocation(vault, 1, n1),
   manifest |-> manifest, window |-> 2, tolerance |-> tolerance, minimum |-> <<1, 9>>]
Weighed(class, tenths) == [class |-> class, tenths |-> tenths]
SampleTerms ==
  {Ask(NoManifest, 0), Ask(<<>>, 0),
   Ask("pay" :> Weighed("A", 10) @@ "login" :> Weighed("C", 5), 1),
   Ask("pay" :> Weighed("A", 15) @@ "kyc" :> Weighed("B", 10), 2)}

\* The first string is not normalized and sorts before the second; its normal form,
\* the third, sorts after it.
SampleNFC == 1 :> 3 @@ 2 :> 2 @@ 3 :> 3
Num(n) == [kind |-> "number", n |-> n]
Text(s) == [kind |-> "string", text |-> s]
Object(fields) ==
  [kind |-> "object",
   fields |-> [k \in Strings |-> IF k \in DOMAIN fields THEN fields[k] ELSE Absent]]
List(items) == [kind |-> "list", items |-> items]
Leaves == {Num(1), Text(1), [kind |-> "null"]}
Scalars == Leaves \union {Num(-1), Num(MAX_SAFE), Num(MAX_SAFE + 1), Text(3), [kind |-> "exotic"]}
Objects == {Object(f) : f \in UNION {[K -> Leaves] : K \in SUBSET Strings}}
SampleValues ==
  Scalars \union Objects
    \union {List(<<x>>) : x \in Scalars}
    \union {List(<<x, y>>) : x \in Leaves, y \in {Text(1), Text(3)}}
    \union {Object(2 :> x) : x \in {o \in Objects : Cardinality(Keys(o.fields)) = 2}}
    \union {List(<<List(<<List(<<Num(1)>>)>>)>>)}
===============================================================================
