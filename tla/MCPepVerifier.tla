---------------------------- MODULE MCPepVerifier -----------------------------
(* Instances of PepVerifier for TLC. *)
EXTENDS PepVerifier, TLC

CONSTANTS v1, v2, c1, c2, c3, app, key, nonce, alice

Event(ts, declared, defect) ==
  [app |-> app, key |-> key, nonce |-> nonce, uid |-> alice, ts |-> ts,
   declared |-> declared, defect |-> defect]

\* Three events share one nonce: one that passes, one whose issuer does not vouch
\* for the user, and one that is issued later.
SharedNonce == {Event(2, TRUE, "none"), Event(2, FALSE, "none"), Event(3, TRUE, "none")}
\* One registered key and one eligible user.
Prepared ==
  {[apps |-> {app}, keys |-> (<<app, key>> :> "active"), eligible |-> {alice}]}
Symmetry == Permutations(Verifiers) \union Permutations(Commands)
===============================================================================
