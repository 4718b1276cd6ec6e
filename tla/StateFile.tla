------------------------------- MODULE StateFile -------------------------------
(***************************************************************************)
(* src/sdk/python/piproof_sdk.py: the Python verifier and its nonce store, *)
(* a set that is read from a state file when the process starts and is     *)
(* written back, whole, for every claim.  open(..., "w") truncates the     *)
(* file before anything is written.                                        *)
(***************************************************************************)
EXTENDS Evidence

VARIABLES
  saved,     \* what the state file held when it last parsed
  text,      \* whether it parses now, is empty, or holds the remains of two texts
  python,    \* python[v]: the process v
  allowed,   \* history: nonce keys of the proofs that were allowed
  repeated,  \* history: those that were allowed a second time
  crowded    \* history: two processes have been up at once

stateFileVars == <<saved, text, python, allowed, repeated, crowded>>

NotUp == [step |-> "none", seen |-> {}, key |-> <<>>, ok |-> FALSE]

StateFileInit ==
  /\ saved = {} /\ text = "parses"
  /\ python = [v \in Verifiers |-> NotUp]
  /\ allowed = {} /\ repeated = {} /\ crowded = FALSE

\* Mutant: a file that does not parse is taken for an empty one.
Construct_tolerant(v) ==
  /\ python[v].step = "none"
  /\ python' = [python EXCEPT ![v] = [NotUp EXCEPT !.step = "up",
                                                   !.seen = IF text = "parses" THEN saved ELSE {}]]
  /\ crowded' = (crowded \/ \E u \in Verifiers : python[u].step # "none")
  /\ UNCHANGED <<saved, text, allowed, repeated>>

\* NonceStore(state_file); json.load throws if the file does not parse.
Construct(v) ==
  /\ python[v].step = "none" /\ text = "parses"
  /\ python' = [python EXCEPT ![v] = [NotUp EXCEPT !.step = "up", !.seen = saved]]
  /\ crowded' = (crowded \/ \E u \in Verifiers : python[u].step # "none")
  /\ UNCHANGED <<saved, text, allowed, repeated>>

\* PiProofs, alone or taken out of a passport.
Proofs == UNION {{d.proofs[i] : i \in DOMAIN d.proofs} : d \in Documents}

\* verify_proof, up to the truncation in add().  Any other proof is rejected and
\* leaves no trace.
VerifyProof(v) ==
  /\ python[v].step = "up"
  /\ \E p \in Proofs, policy \in Policies, now \in Times :
       LET k == NonceKey(p.event)
       IN /\ FailureBeforeClaim(p, registry, now) = "none"
          /\ k \notin python[v].seen
          /\ python' = [python EXCEPT ![v] =
               [step |-> "writing", seen |-> @.seen \union {k}, key |-> k,
                ok |-> Satisfies(p, policy, now)]]
  /\ text' = "empty"
  /\ UNCHANGED <<saved, allowed, repeated, crowded>>

\* json.dump, and the answer.  If another process has written since the last
\* truncation, the end of its text may be left behind this one.
Dump(v) ==
  /\ python[v].step = "writing"
  /\ \/ saved' = python[v].seen /\ text' = "parses"
     \/ text # "empty" /\ text' = "mixed" /\ UNCHANGED saved
  /\ python' = [python EXCEPT ![v].step = "up"]
  /\ LET k == python[v].key IN
       /\ allowed' = IF python[v].ok THEN allowed \union {k} ELSE allowed
       /\ repeated' = IF python[v].ok /\ k \in allowed THEN repeated \union {k} ELSE repeated
  /\ UNCHANGED crowded

\* The process ends, or dies in the middle of a write.
Quit(v) ==
  /\ python[v].step # "none"
  /\ python' = [python EXCEPT ![v] = NotUp]
  /\ UNCHANGED <<saved, text, allowed, repeated, crowded>>

\* Whoever runs the verifiers deletes a file that does not parse, and with it what
\* it was to remember.
Discard ==
  /\ text # "parses" /\ \A v \in Verifiers : python[v].step = "none"
  /\ saved' = {} /\ text' = "parses"
  /\ allowed' = {} /\ repeated' = {} /\ crowded' = FALSE
  /\ UNCHANGED python

Python(v) == Construct(v) \/ VerifyProof(v) \/ Dump(v) \/ Quit(v) \/ Discard

PythonNext == (\E v \in Verifiers : Python(v)) /\ UNCHANGED vars

PythonSpec == Init /\ StateFileInit /\ [][PythonNext]_<<vars, stateFileVars>>
-------------------------------------------------------------------------------
(* Properties *)

\* NonceStore: "persist via state_file in the CLI" (cross-run replay detection).
\* Processes that run one after the other never allow two proofs of one event,
\* even if one dies while the file is truncated: its successors then refuse to
\* start until the file is discarded.  (Two at a time overwrite each other's claims.)
SuccessorsRemember == crowded \/ repeated = {}
===============================================================================
