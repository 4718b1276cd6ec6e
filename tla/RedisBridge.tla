------------------------------ MODULE RedisBridge ------------------------------
(***************************************************************************)
(* src/src/redis-nonces.js, class RedisNonceStore: a synchronous claim     *)
(* over a worker thread that owns the socket.  The two threads of a        *)
(* process share one buffer, which carries the command one way and the     *)
(* reply the other:                                                        *)
(*                                                                         *)
(*   main:   write command, CLEN | SEQ := seq | prevDone := DONE | wait |  *)
(*           read reply                                                    *)
(*   worker: SEQ # seen | read command | send ... reply | write reply |    *)
(*           DONE := seq | notify                                          *)
(*                                                                         *)
(* Atomics.wait compares DONE with prevDone once, when it begins: if they  *)
(* are equal it sleeps until a notification, whatever DONE is by then.     *)
(*                                                                         *)
(* Redis executes one command at a time.  A claim that wins is followed    *)
(* by a second round trip, the INCRBY of an advisory counter.              *)
(***************************************************************************)
EXTENDS Naturals

CONSTANTS
  Procs,        \* verifier processes, one RedisNonceStore each
  Keys,         \* nonce keys
  MaxOps,       \* bound on the round trips of one process
  LateReplies,  \* replies may take longer than timeoutMs
  SlowNotify,   \* a worker may be held up between DONE and its notification
                \* until the main thread sleeps again, in its next call
  Drops         \* connections may be lost

ASSUME BridgeAssumption ==
  /\ MaxOps \in Nat
  /\ LateReplies \in BOOLEAN /\ SlowNotify \in BOOLEAN /\ Drops \in BOOLEAN

VARIABLES
  db,       \* Redis: the nonce keys that exist
  wire,     \* wire[p]: what is under way on p's connection
  buffer,   \* buffer[p]: payload region of the shared buffer
  rlen,     \* rlen[p]: i32[4] # 0, the reply has a text
  status,   \* status[p]: i32[3] = 0
  seq,      \* seq[p]: i32[0]
  done,     \* done[p]: i32[2]
  pc,       \* pc[p]: where the main thread is in _call
  op,       \* op[p]: the operation it calls for
  prev,     \* prev[p]: prevDone
  wpc,      \* wpc[p]: where the worker is in its loop
  seen,     \* seen[p]: the worker's last SEQ
  answer,   \* answer[p]: the worker's `out'
  accepts   \* accepts[k]: how many claimIfAbsent calls returned true for k

sab == <<buffer, rlen, status, seq, done>>
main == <<pc, op, prev, accepts>>
worker == <<wpc, seen, answer>>
vars == <<db, wire, sab, main, worker>>

Set(k) == [kind |-> "command", name |-> "SET", key |-> k]
Incr == [kind |-> "command", name |-> "INCRBY"]
Reply(text) == [kind |-> "reply", text |-> text]
Nothing == [kind |-> "nothing"]

Texts == {"OK", "nil", "int", "error"}
Claims == {[name |-> "claim", key |-> k] : k \in Keys}
Bumps == {[name |-> "bump", key |-> k] : k \in Keys}
NoOp == [name |-> "none"]
Command(o) == IF o.name = "claim" THEN Set(o.key) ELSE Incr

Init ==
  /\ db = {}
  /\ wire = [p \in Procs |-> Nothing]
  /\ buffer = [p \in Procs |-> Nothing]
  /\ rlen = [p \in Procs |-> FALSE]
  /\ status = [p \in Procs |-> TRUE]
  /\ seq = [p \in Procs |-> 0] /\ done = [p \in Procs |-> 0]
  /\ pc = [p \in Procs |-> "idle"]
  /\ op = [p \in Procs |-> NoOp]
  /\ prev = [p \in Procs |-> 0]
  /\ wpc = [p \in Procs |-> "idle"]
  /\ seen = [p \in Procs |-> 0]
  /\ answer = [p \in Procs |-> "nil"]
  /\ accepts = [k \in Keys |-> 0]
-------------------------------------------------------------------------------
(* The main thread: _call, claimIfAbsent, _bump *)

\* _call begins: the command goes to the buffer, whoever else uses it.
Begin(p, o) ==
  /\ op' = [op EXCEPT ![p] = o]
  /\ buffer' = [buffer EXCEPT ![p] = Command(o)]
  /\ pc' = [pc EXCEPT ![p] = "written"]

ClaimIfAbsent(p, k) ==
  /\ pc[p] = "idle" /\ seq[p] + 2 <= MaxOps
  /\ Begin(p, [name |-> "claim", key |-> k])
  /\ UNCHANGED <<db, wire, rlen, status, seq, done, prev, accepts, worker>>

StoreSeq(p) ==
  /\ pc[p] = "written"
  /\ seq' = [seq EXCEPT ![p] = @ + 1]
  /\ pc' = [pc EXCEPT ![p] = "signalled"]
  /\ UNCHANGED <<db, wire, buffer, rlen, status, done, op, prev, accepts, worker>>

\* DONE is read only after the worker was notified.
LoadDone(p) ==
  /\ pc[p] = "signalled"
  /\ prev' = [prev EXCEPT ![p] = done[p]]
  /\ pc' = [pc EXCEPT ![p] = "waiting"]
  /\ UNCHANGED <<db, wire, sab, op, accepts, worker>>

\* The call is over, with true if won.
Return(p, won) ==
  /\ pc' = [pc EXCEPT ![p] = "idle"]
  /\ op' = [op EXCEPT ![p] = NoOp]
  /\ accepts' = IF won THEN [accepts EXCEPT ![op[p].key] = @ + 1] ELSE accepts
  /\ UNCHANGED buffer

\* What the shared buffer reads as.
ReplyIs(p, text) == rlen[p] /\ buffer[p] = Reply(text)

\* Atomics.wait begins: it returns at once if DONE has changed.
Wait(p) ==
  /\ pc[p] = "waiting"
  /\ \/ done[p] # prev[p] /\ pc' = [pc EXCEPT ![p] = "woken"]
     \/ /\ done[p] = prev[p] /\ pc' = [pc EXCEPT ![p] = "asleep"]
        /\ wpc[p] = "stored" /\ seen[p] # seq[p] => SlowNotify
  /\ UNCHANGED <<db, wire, sab, op, prev, accepts, worker>>

\* The wait is over: the reply is taken from the buffer.  An error throws; a
\* claim is won by the text OK and nothing else, and goes on to _bump; whatever
\* becomes of _bump, a claim that won returns true.
Wake(p) ==
  /\ pc[p] = "woken"
  /\ \/ /\ op[p].name = "claim" /\ status[p] /\ ReplyIs(p, "OK")
        /\ Begin(p, [name |-> "bump", key |-> op[p].key])
        /\ UNCHANGED accepts
     \/ /\ op[p].name = "claim" /\ ~(status[p] /\ ReplyIs(p, "OK"))
        /\ Return(p, FALSE)
     \/ op[p].name = "bump" /\ Return(p, TRUE)
  /\ UNCHANGED <<db, wire, rlen, status, seq, done, prev, worker>>

\* Mutants: a timeout lets the claim through; there is none.
Timeout_failOpen(p) ==
  /\ pc[p] = "asleep"
  /\ LateReplies \/ (wpc[p] = "idle" /\ seen[p] = seq[p]) \/ wpc[p] = "wedged"
  /\ Return(p, TRUE)
  /\ UNCHANGED <<db, wire, rlen, status, seq, done, prev, worker>>
Timeout_never(p) == FALSE /\ UNCHANGED vars

\* timeoutMs pass.  Unless LateReplies, that means that the worker is not
\* going to notify any more: it has already done so, or it is wedged.
Timeout(p) ==
  /\ pc[p] = "asleep"
  /\ LateReplies \/ (wpc[p] = "idle" /\ seen[p] = seq[p]) \/ wpc[p] = "wedged"
  /\ Return(p, op[p].name = "bump")
  /\ UNCHANGED <<db, wire, rlen, status, seq, done, prev, worker>>
-------------------------------------------------------------------------------
(* The worker thread and the server *)

\* A command that a late reply was written over is no command any more.
Send(p) ==
  /\ wpc[p] = "idle" /\ seq[p] # seen[p]
  /\ seen' = [seen EXCEPT ![p] = seq[p]]
  /\ wire' = [wire EXCEPT ![p] = [kind |-> "request", bytes |-> buffer[p]]]
  /\ wpc' = [wpc EXCEPT ![p] = "sent"]
  /\ UNCHANGED <<db, sab, main, answer>>

\* Mutant: SET without NX.
Execute_withoutNX(p) ==
  /\ wire[p].kind = "request"
  /\ LET c == wire[p].bytes IN
       \/ /\ c.kind = "command" /\ c.name = "SET"
          /\ db' = db \union {c.key} /\ wire' = [wire EXCEPT ![p] = Reply("OK")]
       \/ c.kind = "command" /\ c.name = "INCRBY" /\ wire' = [wire EXCEPT ![p] = Reply("int")] /\ UNCHANGED db
       \/ c.kind = "reply" /\ wire' = [wire EXCEPT ![p] = Reply("error")] /\ UNCHANGED db
  /\ UNCHANGED <<sab, main, worker>>

\* Redis: SET key 1 NX, INCRBY, or a protocol error.
Execute(p) ==
  /\ wire[p].kind = "request"
  /\ LET c == wire[p].bytes IN
       \/ /\ c.kind = "command" /\ c.name = "SET" /\ c.key \notin db
          /\ db' = db \union {c.key}
          /\ wire' = [wire EXCEPT ![p] = Reply("OK")]
       \/ /\ c.kind = "command" /\ c.name = "SET" /\ c.key \in db
          /\ wire' = [wire EXCEPT ![p] = Reply("nil")]
          /\ UNCHANGED db
       \/ /\ c.kind = "command" /\ c.name = "INCRBY"
          /\ wire' = [wire EXCEPT ![p] = Reply("int")]
          /\ UNCHANGED db
       \/ /\ c.kind = "reply"
          /\ wire' = [wire EXCEPT ![p] = Reply("error")]
          /\ UNCHANGED db
  /\ UNCHANGED <<sab, main, worker>>

\* Mutant: the null bulk reply is taken for a text.
Receive_nullAsText(p) ==
  /\ wpc[p] = "sent" /\ wire[p].kind = "reply"
  /\ answer' = [answer EXCEPT ![p] = IF wire[p].text = "nil" THEN "$-1" ELSE wire[p].text]
  /\ wire' = [wire EXCEPT ![p] = Nothing]
  /\ wpc' = [wpc EXCEPT ![p] = "answered"]
  /\ UNCHANGED <<db, sab, main, seen>>

\* The reply's text is taken off the connection.
Receive(p) ==
  /\ wpc[p] = "sent" /\ wire[p].kind = "reply"
  /\ answer' = [answer EXCEPT ![p] = wire[p].text]
  /\ wire' = [wire EXCEPT ![p] = Nothing]
  /\ wpc' = [wpc EXCEPT ![p] = "answered"]
  /\ UNCHANGED <<db, sab, main, seen>>

\* The reply goes to the buffer; the text of nil is empty and covers nothing.
WriteReply(p) ==
  /\ wpc[p] = "answered"
  /\ buffer' = [buffer EXCEPT ![p] = IF answer[p] = "nil" THEN @ ELSE Reply(answer[p])]
  /\ rlen' = [rlen EXCEPT ![p] = answer[p] # "nil"]
  /\ status' = [status EXCEPT ![p] = answer[p] # "error"]
  /\ wpc' = [wpc EXCEPT ![p] = "published"]
  /\ UNCHANGED <<db, wire, seq, done, main, seen, answer>>

StoreDone(p) ==
  /\ wpc[p] = "published"
  /\ done' = [done EXCEPT ![p] = seen[p]]
  /\ wpc' = [wpc EXCEPT ![p] = "stored"]
  /\ UNCHANGED <<db, wire, buffer, rlen, status, seq, main, seen, answer>>

\* Whoever sleeps on DONE is woken, and nobody else is ever told.
Notify(p) ==
  /\ wpc[p] = "stored"
  /\ wpc' = [wpc EXCEPT ![p] = "idle"]
  /\ pc' = [pc EXCEPT ![p] = IF @ = "asleep" THEN "woken" ELSE @]
  /\ UNCHANGED <<db, wire, sab, op, prev, accepts, seen, answer>>

\* The connection closes under a request or its reply: the close handler drops
\* `rx', so the round trip never settles and the loop never goes on.  Only if
\* the request cannot be written or the reconnection fails is there an error.
\* (A connection that closes between round trips is opened again unnoticed.)
Drop(p) ==
  /\ Drops /\ wpc[p] = "sent"
  /\ wire' = [wire EXCEPT ![p] = Nothing]
  /\ \/ wpc' = [wpc EXCEPT ![p] = "wedged"] /\ UNCHANGED answer
     \/ /\ wire[p].kind = "request"
        /\ wpc' = [wpc EXCEPT ![p] = "answered"]
        /\ answer' = [answer EXCEPT ![p] = "error"]
  /\ UNCHANGED <<db, sab, main, seen>>

MainStep(p) ==
  \/ \E k \in Keys : ClaimIfAbsent(p, k)
  \/ StoreSeq(p) \/ LoadDone(p) \/ Wait(p) \/ Wake(p) \/ Timeout(p)

WorkerStep(p) ==
  \/ Send(p) \/ Execute(p) \/ Receive(p)
  \/ WriteReply(p) \/ StoreDone(p) \/ Notify(p) \/ Drop(p)

Next == \E p \in Procs : MainStep(p) \/ WorkerStep(p)

Spec == Init /\ [][Next]_vars

\* Both threads run and Redis answers; nothing makes callers call.
Fairness ==
  \A p \in Procs :
    /\ WF_vars(StoreSeq(p) \/ LoadDone(p) \/ Wait(p) \/ Wake(p) \/ Timeout(p))
    /\ WF_vars(Send(p) \/ Execute(p) \/ Receive(p)
                 \/ WriteReply(p) \/ StoreDone(p) \/ Notify(p))

FairSpec == Spec /\ Fairness
-------------------------------------------------------------------------------
(* Properties *)

Commands == {Set(k) : k \in Keys} \union {Incr}
Bytes == {Nothing} \union Commands \union {Reply(t) : t \in Texts}

\* The values each variable may take.
TypeOK ==
  /\ db \subseteq Keys
  /\ wire \in [Procs -> {Nothing} \union {Reply(t) : t \in Texts}
                         \union {[kind |-> "request", bytes |-> b] : b \in Bytes}]
  /\ buffer \in [Procs -> Bytes]
  /\ rlen \in [Procs -> BOOLEAN] /\ status \in [Procs -> BOOLEAN]
  /\ seq \in [Procs -> Nat] /\ done \in [Procs -> Nat] /\ prev \in [Procs -> Nat]
  /\ seen \in [Procs -> Nat]
  /\ pc \in [Procs -> {"idle", "written", "signalled", "waiting", "asleep", "woken"}]
  /\ op \in [Procs -> {NoOp} \union Claims \union Bumps]
  /\ wpc \in [Procs -> {"idle", "sent", "answered", "published", "stored", "wedged"}]
  /\ answer \in [Procs -> Texts]
  /\ accepts \in [Keys -> Nat]

\* INV-04 across machines, and the module's "fail-closed" promise: however the
\* two threads, the connection and the server interleave, at most one
\* claimIfAbsent returns true for a key.
AtMostOneAccept == \A k \in Keys : accepts[k] <= 1

\* Every claimIfAbsent returns or throws, a wedged worker or a signal that came
\* before prevDone was read notwithstanding.
ClaimEnds == \A p \in Procs : (pc[p] # "idle") ~> (pc[p] = "idle")
-------------------------------------------------------------------------------
(* Refinement: calls of claimIfAbsent seen from outside *)

Verdict(p) ==
  LET k == op[p].key
      text == IF wire[p].kind = "reply" THEN wire[p].text ELSE answer[p]
  IN IF pc[p] = "written" \/ seq[p] # seen[p] \/ wire[p].kind = "request"
     THEN [phase |-> "pending", key |-> k]
     ELSE IF text = "error" THEN [phase |-> "none"]
     ELSE [phase |-> "decided", key |-> k, won |-> text = "OK"]

CallOf(p) ==
  IF op[p].name = "bump" THEN [phase |-> "decided", key |-> op[p].key, won |-> TRUE]
  ELSE IF op[p].name = "claim" /\ wpc[p] # "wedged" THEN Verdict(p)
  ELSE [phase |-> "none"]

\* The linearization point of a claim is the execution of its SET NX.
Abstract == INSTANCE NonceClaim
  WITH burned <- db, call <- [p \in Procs |-> CallOf(p)]

\* The bridge behaves like one atomic claim-or-fail object: in particular a
\* false answer means that the key was burned, and a true one that it was not.
ImplementsNonceClaim == Abstract!Spec
===============================================================================
