------------------------------- MODULE Registry -------------------------------
(***************************************************************************)
(* src/src/registry.js: the verifier's point-in-time view of apps, signing *)
(* keys and eligible users, as values.  Key bytes and timestamps are left  *)
(* out: a key is its (app, key_id) pair.                                   *)
(***************************************************************************)

CONSTANTS Apps, KeyIds, Uids

KeyStatuses == {"unknown", "active", "revoked"}
Registries == [apps : SUBSET Apps,
               keys : [Apps \X KeyIds -> KeyStatuses],
               eligible : SUBSET Uids]

createRegistry ==
  [apps |-> {}, keys |-> [k \in Apps \X KeyIds |-> "unknown"], eligible |-> {}]

registerApp(r, app) == [r EXCEPT !.apps = @ \union {app}]

\* Registering a key overwrites its record, a revoked one included.
registerKey(r, app, id) ==
  [r EXCEPT !.apps = @ \union {app}, !.keys[<<app, id>>] = "active"]

\* Revoking a key that has no record does nothing.
revokeKey(r, app, id) ==
  [r EXCEPT !.keys[<<app, id>>] = IF @ = "unknown" THEN @ ELSE "revoked"]

\* Mutant: the user is recorded in a registry made afresh.
markEligible_afresh(r, uid, granted) ==
  [createRegistry EXCEPT !.eligible = IF granted THEN {uid} ELSE {}]

\* Both flags true is the only record that confirms eligibility.
markEligible(r, uid, granted) ==
  [r EXCEPT !.eligible = IF granted THEN @ \union {uid} ELSE @ \ {uid}]
===============================================================================
