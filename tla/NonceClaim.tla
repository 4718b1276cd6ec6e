------------------------------ MODULE NonceClaim ------------------------------
(***************************************************************************)
(* What a nonce store promises gate G9 of the verification pipeline:       *)
(* claimIfAbsent(key) decides atomically, between its call and its return, *)
(* whether the key was already burned, and burns it if it was not.  A call *)
(* may also throw (lock timeout, I/O error, death of the process), before  *)
(* or after the key was burned: a thrown call never reports a win.         *)
(***************************************************************************)
EXTENDS Naturals

CONSTANTS
  Procs,    \* verifier processes sharing one store
  Keys      \* nonce keys, `${app_id}:${nonce}`

VARIABLES
  burned,   \* keys the store will refuse from now on
  call,     \* call[p]: the claimIfAbsent call p is in, and what it decided
  accepts   \* accepts[k]: how many calls returned true for k

vars == <<burned, call, accepts>>

NoCall == [phase |-> "none"]
Pending(k) == [phase |-> "pending", key |-> k]
Decided(k, won) == [phase |-> "decided", key |-> k, won |-> won]

Init ==
  /\ burned = {}
  /\ call = [p \in Procs |-> NoCall]
  /\ accepts = [k \in Keys |-> 0]

Invoke(p, k) ==
  /\ call[p] = NoCall
  /\ call' = [call EXCEPT ![p] = Pending(k)]
  /\ UNCHANGED <<burned, accepts>>

\* The linearization point of a call that will report a win: the key leaves
\* the set of claimable keys in this very step.
Win(p, k) ==
  /\ call[p] = Pending(k)
  /\ k \notin burned
  /\ burned' = burned \union {k}
  /\ call' = [call EXCEPT ![p] = Decided(k, TRUE)]
  /\ UNCHANGED accepts

Lose(p, k) ==
  /\ call[p] = Pending(k)
  /\ k \in burned
  /\ call' = [call EXCEPT ![p] = Decided(k, FALSE)]
  /\ UNCHANGED <<burned, accepts>>

Return(p, k) ==
  /\ \E won \in BOOLEAN :
       /\ call[p] = Decided(k, won)
       /\ accepts' = IF won THEN [accepts EXCEPT ![k] = @ + 1] ELSE accepts
  /\ call' = [call EXCEPT ![p] = NoCall]
  /\ UNCHANGED burned

Throw(p) ==
  /\ call[p] # NoCall
  /\ call' = [call EXCEPT ![p] = NoCall]
  /\ UNCHANGED <<burned, accepts>>

Next ==
  \E p \in Procs :
    \/ Throw(p)
    \/ \E k \in Keys : Invoke(p, k) \/ Win(p, k) \/ Lose(p, k) \/ Return(p, k)

Spec == Init /\ [][Next]_vars
===============================================================================
