--------------------------- MODULE RedisBridge_proofs ---------------------------
(***************************************************************************)
(* RedisNonceStore, for any number of processes, keys and calls, whatever  *)
(* connections break.  That it is an atomic claim-or-fail object assumes   *)
(* that no reply takes longer than timeoutMs and that no notification      *)
(* comes so late that it wakes the next call: else it is not.              *)
(*                                                                         *)
(* The argument: main thread and worker take turns with the shared buffer. *)
(* Once the main thread has signalled, the worker owns it until it stores  *)
(* DONE, and a call that ends before that finds the worker wedged, which   *)
(* then never signals again.  A call sleeps only while its own round trip  *)
(* is the one that will be notified of.                                    *)
(***************************************************************************)
EXTENDS RedisBridge, TLAPS

Ops == {NoOp} \union Claims \union Bumps

\* The shared buffer says what the worker was answered.
Published(p) ==
  /\ status[p] = (answer[p] # "error") /\ rlen[p] = (answer[p] # "nil")
  /\ answer[p] # "nil" => buffer[p] = Reply(answer[p])

\* The worker has done all it was told to, but for the notification perhaps.
AtRest(p) ==
  wpc[p] \in {"idle", "stored"} /\ wire[p] = Nothing /\ seen[p] = seq[p] /\ done[p] = seq[p]

\* The main thread waits, or is about to, for a round trip that is not over.
UnderWay(p) ==
  /\ pc[p] \in {"signalled", "waiting", "asleep"}
  /\ done[p] + 1 = seq[p] /\ (pc[p] \in {"waiting", "asleep"} => prev[p] = done[p])

\* Where a process can be in a round trip.
Sync(p) ==
  /\ op[p] = NoOp <=> pc[p] = "idle"
  /\ \/ /\ wpc[p] = "wedged" /\ wire[p] = Nothing /\ pc[p] # "woken"
        /\ pc[p] \in {"waiting", "asleep"} => prev[p] = done[p]
     \/ pc[p] = "idle" /\ AtRest(p)
     \/ pc[p] = "written" /\ AtRest(p) /\ buffer[p] = Command(op[p])
     \/ /\ UnderWay(p) /\ wpc[p] \in {"idle", "stored"} /\ wire[p] = Nothing
        /\ seen[p] = done[p] /\ buffer[p] = Command(op[p])
        /\ pc[p] = "asleep" => wpc[p] = "idle"
     \/ /\ UnderWay(p) /\ wpc[p] = "sent" /\ seen[p] = seq[p]
        /\ \/ wire[p] = [kind |-> "request", bytes |-> Command(op[p])]
           \/ \E t \in Texts : wire[p] = Reply(t)
     \/ UnderWay(p) /\ wpc[p] = "answered" /\ seen[p] = seq[p] /\ wire[p] = Nothing
     \/ UnderWay(p) /\ wpc[p] = "published" /\ seen[p] = seq[p] /\ wire[p] = Nothing /\ Published(p)
     \/ /\ pc[p] \in {"signalled", "waiting", "asleep", "woken"}
        /\ AtRest(p) /\ Published(p)

SyncInv == \A p \in Procs : Sync(p)
-------------------------------------------------------------------------------
(* Types *)

\* Commands, replies and operations are told apart by their fields.
LEMMA Shapes ==
  /\ \A k \in Keys : Set(k).kind = "command" /\ Set(k).name = "SET" /\ Set(k).key = k
  /\ Incr.kind = "command" /\ Incr.name = "INCRBY"
  /\ \A t : Reply(t).kind = "reply" /\ Reply(t).text = t
  /\ Nothing.kind = "nothing" /\ NoOp.name = "none"
  /\ \A b : [kind |-> "request", bytes |-> b].kind = "request" /\ [kind |-> "request", bytes |-> b].bytes = b
  /\ \A o \in Ops : /\ o.name \in {"none", "claim", "bump"}
                    /\ o.name = "none" <=> o = NoOp
                    /\ o.name \in {"claim", "bump"} => o.key \in Keys
                    /\ o.name = "claim" => Command(o) = Set(o.key)
                    /\ o.name # "claim" => Command(o) = Incr
BY DEF Set, Incr, Reply, Nothing, NoOp, Ops, Claims, Bumps, Command

\* What a call puts into the buffer is a command.
LEMMA CommandsAreBytes == \A o \in Ops : Command(o) \in Bytes
BY Shapes DEF Bytes, Commands, Command

\* Every step keeps the types.
LEMMA TypeStep == TypeOK /\ [Next]_vars => TypeOK'
<1> SUFFICES ASSUME TypeOK, [Next]_vars PROVE TypeOK'
  OBVIOUS
<1> USE DEF TypeOK, sab, main, worker
<1>1. ASSUME NEW p \in Procs, NEW k \in Keys, ClaimIfAbsent(p, k) PROVE TypeOK'
  <2>1. [name |-> "claim", key |-> k] \in Ops
    BY DEF Ops, Claims
  <2> QED BY <1>1, <2>1, CommandsAreBytes DEF ClaimIfAbsent, Begin, Ops
<1>2. ASSUME NEW p \in Procs, StoreSeq(p) PROVE TypeOK'
  BY <1>2 DEF StoreSeq
<1>3. ASSUME NEW p \in Procs, LoadDone(p) \/ Wait(p) PROVE TypeOK'
  BY <1>3 DEF LoadDone, Wait
<1>r. ASSUME NEW p \in Procs, NEW won \in BOOLEAN, Return(p, won), won => op[p].name = "bump",
             UNCHANGED <<db, wire, rlen, status, seq, done, prev, worker>>
      PROVE  TypeOK'
  <2>1. won => op[p].key \in Keys
    BY <1>r, Shapes DEF Ops
  <2> QED BY <1>r, <2>1 DEF Return
<1>4. ASSUME NEW p \in Procs, Wake(p) PROVE TypeOK'
  <2>1. CASE op[p].name = "claim" /\ Begin(p, [name |-> "bump", key |-> op[p].key]) /\ UNCHANGED accepts
    <3>1. op[p].key \in Keys
      BY <2>1, Shapes DEF Ops
    <3>2. [name |-> "bump", key |-> op[p].key] \in Ops
      BY <3>1 DEF Ops, Bumps
    <3> QED BY <1>4, <2>1, <3>2, CommandsAreBytes DEF Wake, Begin, Ops
  <2> QED BY <1>4, <1>r, <2>1 DEF Wake
<1>5. ASSUME NEW p \in Procs, Timeout(p) PROVE TypeOK'
  BY <1>5, <1>r DEF Timeout
<1>6. ASSUME NEW p \in Procs, Send(p) PROVE TypeOK'
  BY <1>6 DEF Send
<1>7. ASSUME NEW p \in Procs, Execute(p) PROVE TypeOK'
  <2>1. wire[p].bytes \in Bytes
    BY <1>7, Shapes DEF Execute
  <2>2. wire[p].bytes.kind = "command" /\ wire[p].bytes.name = "SET" => wire[p].bytes.key \in Keys
    BY <2>1, Shapes DEF Bytes, Commands
  <2>3. \A t \in {"OK", "nil", "int", "error"} : Reply(t) \in {Reply(x) : x \in Texts}
    BY DEF Texts
  <2> QED BY <1>7, <2>2, <2>3 DEF Execute
<1>8. ASSUME NEW p \in Procs, Receive(p) PROVE TypeOK'
  <2>1. wire[p].text \in Texts
    BY <1>8, Shapes DEF Receive
  <2> QED BY <1>8, <2>1 DEF Receive
<1>9. ASSUME NEW p \in Procs, WriteReply(p) PROVE TypeOK'
  <2>1. Reply(answer[p]) \in Bytes
    BY DEF Bytes
  <2> QED BY <1>9, <2>1 DEF WriteReply
<1>10. ASSUME NEW p \in Procs, StoreDone(p) \/ Notify(p) PROVE TypeOK'
  BY <1>10 DEF StoreDone, Notify
<1>11. ASSUME NEW p \in Procs, Drop(p) PROVE TypeOK'
  BY <1>11 DEF Drop, Texts
<1>12. CASE UNCHANGED vars
  BY <1>12 DEF vars
<1> QED BY <1>1, <1>2, <1>3, <1>4, <1>5, <1>6, <1>7, <1>8, <1>9, <1>10, <1>11, <1>12
        DEF Next, MainStep, WorkerStep

\* What the shared buffer, the connection and both threads may hold, late replies or not.
THEOREM BridgeTypeCorrect == Spec => []TypeOK
<1>1. Init => TypeOK
  BY DEF Init, TypeOK, Bytes, Texts
<1> QED BY <1>1, TypeStep, PTL DEF Spec
-------------------------------------------------------------------------------
(* The two threads take turns *)

\* A step of p leaves the other processes where they are.
OthersKept(p) ==
  \A q \in Procs \ {p} :
    /\ wire'[q] = wire[q] /\ buffer'[q] = buffer[q] /\ rlen'[q] = rlen[q] /\ status'[q] = status[q]
    /\ seq'[q] = seq[q] /\ done'[q] = done[q] /\ pc'[q] = pc[q] /\ op'[q] = op[q]
    /\ prev'[q] = prev[q] /\ wpc'[q] = wpc[q] /\ seen'[q] = seen[q] /\ answer'[q] = answer[q]

\* Each process has a buffer, a worker and a connection of its own.
LEMMA StepsAreLocal ==
  ASSUME TypeOK, NEW p \in Procs, MainStep(p) \/ WorkerStep(p)
  PROVE  OthersKept(p)
<1> USE DEF TypeOK, sab, main, worker, OthersKept
<1>1. ASSUME NEW k \in Keys, ClaimIfAbsent(p, k) PROVE OthersKept(p)
  BY <1>1 DEF ClaimIfAbsent, Begin
<1>2. CASE StoreSeq(p) \/ LoadDone(p) \/ Wait(p)
  BY <1>2 DEF StoreSeq, LoadDone, Wait
<1>3. CASE Wake(p) \/ Timeout(p)
  BY <1>3 DEF Wake, Timeout, Begin, Return
<1>4. CASE Send(p) \/ Execute(p) \/ Receive(p)
  BY <1>4 DEF Send, Execute, Receive
<1>5. CASE WriteReply(p) \/ StoreDone(p) \/ Notify(p) \/ Drop(p)
  BY <1>5 DEF WriteReply, StoreDone, Notify, Drop
<1> QED BY <1>1, <1>2, <1>3, <1>4, <1>5 DEF MainStep, WorkerStep

\* Where a round trip is after a step of the main thread.
LEMMA MainKeepsSync ==
  ASSUME ~LateReplies, ~SlowNotify, TypeOK, NEW p \in Procs, Sync(p), MainStep(p)
  PROVE  Sync(p)'
<1> USE DEF TypeOK, Sync, AtRest, UnderWay, Published, sab, main, worker
<1>1. ASSUME NEW k \in Keys, ClaimIfAbsent(p, k) PROVE Sync(p)'
  <2>1. [name |-> "claim", key |-> k] # NoOp
    BY DEF NoOp
  <2> QED BY <1>1, <2>1 DEF ClaimIfAbsent, Begin
<1>2. CASE StoreSeq(p)
  BY <1>2 DEF StoreSeq
<1>3. CASE LoadDone(p)
  BY <1>3 DEF LoadDone
<1>4. CASE Wake(p)
  <2>1. pc[p] = "woken" /\ AtRest(p)
    BY <1>4 DEF Wake
  <2>2. [name |-> "bump", key |-> op[p].key] # NoOp
    BY DEF NoOp
  <2>3. \/ pc'[p] = "written" /\ op'[p] # NoOp /\ buffer'[p] = Command(op'[p])
        \/ pc'[p] = "idle" /\ op'[p] = NoOp
    <3>1. CASE Begin(p, [name |-> "bump", key |-> op[p].key])
      <4>1. op'[p].name = "bump" /\ op'[p] # NoOp /\ pc'[p] = "written" /\ buffer'[p] = Incr
        BY <2>2, <3>1 DEF Begin, Command
      <4> QED BY <4>1 DEF Command
    <3>2. CASE Return(p, FALSE) \/ Return(p, TRUE)
      BY <3>2 DEF Return
    <3>3. Begin(p, [name |-> "bump", key |-> op[p].key]) \/ Return(p, FALSE) \/ Return(p, TRUE)
      BY <1>4 DEF Wake
    <3> QED BY <3>1, <3>2, <3>3
  <2>4. AtRest(p)'
    BY <1>4, <2>1 DEF Wake
  <2> QED BY <2>3, <2>4
<1>5. CASE Timeout(p)
  <2>1. pc'[p] = "idle" /\ op'[p] = NoOp /\ UNCHANGED <<wire, seq, done, seen, wpc>>
    BY <1>5 DEF Timeout, Return
  <2>2. wpc[p] = "wedged" \/ AtRest(p)
    BY <1>5 DEF Timeout
  <2> QED BY <2>1, <2>2
<1>6. CASE Wait(p)
  BY <1>6 DEF Wait
<1> QED BY <1>1, <1>2, <1>3, <1>4, <1>5, <1>6 DEF MainStep

\* Where it is after a step of the worker, the server or the connection.
LEMMA WorkerKeepsSync ==
  ASSUME TypeOK, NEW p \in Procs, Sync(p), WorkerStep(p)
  PROVE  Sync(p)'
<1> USE DEF TypeOK, Sync, AtRest, UnderWay, Published, sab, main, worker
<1>1. CASE Send(p)
  BY <1>1 DEF Send
<1>2. CASE Execute(p)
  <2>1. wire[p].kind = "request"
    BY <1>2 DEF Execute
  <2>2. UnderWay(p) /\ wpc[p] = "sent" /\ seen[p] = seq[p]
    BY <2>1, Shapes
  <2>3. \E t \in Texts : wire'[p] = Reply(t)
    BY <1>2 DEF Execute, Texts
  <2>4. UNCHANGED <<sab, main, worker>>
    BY <1>2 DEF Execute
  <2> QED BY <2>2, <2>3, <2>4
<1>3. CASE Receive(p)
  BY <1>3 DEF Receive
<1>4. CASE WriteReply(p)
  <2>1. UnderWay(p) /\ seen[p] = seq[p] /\ wire[p] = Nothing
    BY <1>4 DEF WriteReply
  <2>2. Published(p)'
    BY <1>4 DEF WriteReply
  <2>3. UnderWay(p)' /\ wpc'[p] = "published" /\ UNCHANGED <<seen, seq, wire, op, pc>>
    BY <1>4, <2>1 DEF WriteReply
  <2> QED BY <2>1, <2>2, <2>3
<1>5. CASE StoreDone(p)
  BY <1>5 DEF StoreDone
<1>6. CASE Drop(p)
  BY <1>6 DEF Drop
<1>7. CASE Notify(p)
  BY <1>7 DEF Notify
<1> QED BY <1>1, <1>2, <1>3, <1>4, <1>5, <1>6, <1>7 DEF WorkerStep

\* With prompt replies and notifications the two threads keep taking turns.
LEMMA SyncStep ==
  ASSUME ~LateReplies, ~SlowNotify
  PROVE  TypeOK /\ SyncInv /\ [Next]_vars => SyncInv'
<1> SUFFICES ASSUME TypeOK, SyncInv, [Next]_vars PROVE SyncInv'
  OBVIOUS
<1>1. ASSUME NEW p \in Procs, MainStep(p) \/ WorkerStep(p) PROVE SyncInv'
  <2>1. Sync(p)'
    BY <1>1, MainKeepsSync, WorkerKeepsSync DEF SyncInv
  <2>2. ASSUME NEW q \in Procs \ {p} PROVE Sync(q)'
    BY <1>1, <2>2, StepsAreLocal DEF SyncInv, Sync, AtRest, UnderWay, Published, OthersKept
  <2> QED BY <2>1, <2>2 DEF SyncInv
<1>2. CASE UNCHANGED vars
  BY <1>2 DEF vars, sab, main, worker, SyncInv, Sync, AtRest, UnderWay, Published
<1> QED BY <1>1, <1>2 DEF Next
-------------------------------------------------------------------------------
(* Refinement *)

Calls == [p \in Procs |-> CallOf(p)]

\* A step of p is seen from outside as a change of p's call only.
LEMMA OwnCallOnly ==
  ASSUME NEW p \in Procs, OthersKept(p)
  PROVE  Calls[p] = CallOf(p) /\ Calls' = [Calls EXCEPT ![p] = CallOf(p)']
<1>1. ASSUME NEW q \in Procs \ {p} PROVE CallOf(q)' = CallOf(q)
  <2>1. Verdict(q)' = Verdict(q)
    BY DEF OthersKept, Verdict
  <2>2. op'[q] = op[q] /\ wpc'[q] = wpc[q]
    BY DEF OthersKept
  <2> QED BY <2>1, <2>2 DEF CallOf
<1> QED BY <1>1 DEF Calls

\* What can be seen of a step that decides nothing: it changes nothing, or a call
\* throws.
LEMMA UnseenStep ==
  ASSUME NEW p \in Procs, OthersKept(p), UNCHANGED <<db, accepts>>,
         CallOf(p)' = CallOf(p) \/ CallOf(p)' = Abstract!NoCall
  PROVE  Abstract!Next \/ UNCHANGED <<db, Calls, accepts>>
<1>1. CASE CallOf(p)' = CallOf(p)
  BY <1>1, OwnCallOnly DEF Calls
<1>2. CASE CallOf(p) # Abstract!NoCall /\ CallOf(p)' = Abstract!NoCall
  <2>1. Abstract!Throw(p)
    BY <1>2, OwnCallOnly DEF Abstract!Throw, Calls
  <2> QED BY <2>1 DEF Abstract!Next
<1> QED BY <1>1, <1>2

\* A return is seen as one, with what the call had decided.
LEMMA SeenReturn ==
  ASSUME TypeOK, NEW p \in Procs, OthersKept(p), NEW won \in BOOLEAN, Return(p, won), UNCHANGED db,
         won => op[p].name = "bump",
         op[p].name = "bump" => won
  PROVE  Abstract!Next \/ UNCHANGED <<db, Calls, accepts>>
<1>1. CallOf(p)' = Abstract!NoCall
  <2>1. op'[p] = NoOp
    BY DEF Return, TypeOK
  <2> QED BY <2>1, Shapes DEF CallOf, Abstract!NoCall
<1>2. CASE op[p].name = "bump"
  <2> DEFINE k == op[p].key
  <2>1. k \in Keys
    BY <1>2, Shapes DEF TypeOK, Ops
  <2>2. CallOf(p) = Abstract!Decided(k, TRUE)
    BY <1>2 DEF CallOf, Abstract!Decided
  <2>3. accepts' = [accepts EXCEPT ![k] = @ + 1]
    BY <1>2 DEF Return
  <2>4. Abstract!Return(p, k)
    BY <1>1, <2>2, <2>3, OwnCallOnly DEF Abstract!Return, Calls
  <2> QED BY <2>1, <2>4 DEF Abstract!Next
<1>3. CASE op[p].name # "bump"
  BY <1>1, <1>3, UnseenStep DEF Return
<1> QED BY <1>2, <1>3

\* A claim is pending, and is seen to be.
LEMMA SeenPending ==
  ASSUME NEW p \in Procs, op[p].name = "claim", wpc[p] # "wedged",
         pc[p] = "written" \/ seq[p] # seen[p] \/ wire[p].kind = "request"
  PROVE  CallOf(p) = Abstract!Pending(op[p].key)
BY DEF CallOf, Verdict, Abstract!Pending

\* A step of the main thread is seen as one of NonceClaim or as nothing.
LEMMA MainIsSeen ==
  ASSUME ~LateReplies, ~SlowNotify, TypeOK, NEW p \in Procs, Sync(p), MainStep(p)
  PROVE  Abstract!Next \/ UNCHANGED <<db, Calls, accepts>>
<1> USE DEF TypeOK, sab, main, worker
<1>0. OthersKept(p)
  BY StepsAreLocal
<1>1. ASSUME NEW k \in Keys, ClaimIfAbsent(p, k)
      PROVE  Abstract!Next \/ UNCHANGED <<db, Calls, accepts>>
  <2>1. UNCHANGED <<db, wpc, accepts>> /\ op[p] = NoOp
    BY <1>1 DEF ClaimIfAbsent, Sync
  <2>2. /\ op'[p] = [name |-> "claim", key |-> k] /\ pc'[p] = "written"
    BY <1>1 DEF ClaimIfAbsent, Begin
  <2>3. op'[p].name = "claim" /\ op'[p].key = k
    BY <2>2
  <2>4. CallOf(p) = Abstract!NoCall
    BY <2>1, Shapes DEF CallOf, Abstract!NoCall
  <2>5. CASE wpc[p] = "wedged"
    <3>1. CallOf(p)' = Abstract!NoCall
      BY <2>1, <2>3, <2>5 DEF CallOf, Abstract!NoCall
    <3> QED BY <1>0, <2>1, <3>1, UnseenStep
  <2>6. CASE wpc[p] # "wedged"
    <3>1. CallOf(p)' = Abstract!Pending(k)
      BY <2>1, <2>2, <2>3, <2>6 DEF CallOf, Verdict, Abstract!Pending
    <3>2. Abstract!Invoke(p, k)
      BY <1>0, <2>1, <2>4, <3>1, OwnCallOnly DEF Abstract!Invoke, Calls
    <3> QED BY <3>2 DEF Abstract!Next
  <2> QED BY <2>5, <2>6
<1>2. CASE StoreSeq(p)
  <2>1. /\ UNCHANGED <<db, wire, seen, answer, op, wpc, accepts>> /\ pc[p] = "written"
        /\ seq'[p] = seq[p] + 1
    BY <1>2 DEF StoreSeq
  <2>2. wpc[p] # "wedged" => seq[p] = seen[p]
    BY <2>1 DEF Sync, AtRest, UnderWay
  <2>3. wpc[p] # "wedged" => seq'[p] # seen'[p]
    BY <2>1, <2>2
  <2>4. CallOf(p)' = CallOf(p)
    BY <2>1, <2>3 DEF CallOf, Verdict
  <2> QED BY <1>0, <2>1, <2>4, UnseenStep
<1>3. CASE LoadDone(p) \/ Wait(p)
  <2>1. /\ UNCHANGED <<db, wire, seen, seq, answer, op, wpc, accepts>>
        /\ pc[p] # "written" /\ pc'[p] # "written"
    BY <1>3 DEF LoadDone, Wait
  <2>2. CallOf(p)' = CallOf(p)
    BY <2>1 DEF CallOf, Verdict
  <2> QED BY <1>0, <2>1, <2>2, UnseenStep
<1>4. CASE Wake(p)
  <2>1. CASE /\ op[p].name = "claim" /\ status[p] /\ ReplyIs(p, "OK")
             /\ Begin(p, [name |-> "bump", key |-> op[p].key]) /\ UNCHANGED accepts
    <3>1. AtRest(p) /\ Published(p) /\ pc[p] = "woken"
      BY <1>4 DEF Wake, Sync, UnderWay
    <3>2. answer[p] = "OK"
      <4>1. answer[p] # "nil" /\ Reply(answer[p]) = Reply("OK")
        BY <2>1, <3>1 DEF Published, ReplyIs
      <4> QED BY <4>1, Shapes
    <3>3. CallOf(p) = Abstract!Decided(op[p].key, TRUE)
      <4>1. wire[p].kind = "nothing"
        BY <3>1, Shapes DEF AtRest
      <4> QED BY <2>1, <3>1, <3>2, <4>1 DEF CallOf, Verdict, AtRest, Abstract!Decided
    <3>4. op'[p] = [name |-> "bump", key |-> op[p].key]
      BY <2>1 DEF Begin
    <3>5. CallOf(p)' = Abstract!Decided(op[p].key, TRUE)
      <4>1. op'[p].name = "bump" /\ op'[p].key = op[p].key
        BY <3>4
      <4> QED BY <4>1 DEF CallOf, Abstract!Decided
    <3> QED BY <1>0, <1>4, <2>1, <3>3, <3>5, UnseenStep DEF Wake
  <2>2. CASE op[p].name = "claim" /\ Return(p, FALSE)
    BY <1>0, <1>4, <2>2, SeenReturn DEF Wake
  <2>3. CASE op[p].name = "bump" /\ Return(p, TRUE)
    BY <1>0, <1>4, <2>3, SeenReturn DEF Wake
  <2> QED BY <1>4, <2>1, <2>2, <2>3 DEF Wake
<1>5. CASE Timeout(p)
  <2>1. Return(p, op[p].name = "bump") /\ UNCHANGED db
    BY <1>5 DEF Timeout
  <2> QED BY <1>0, <2>1, SeenReturn
<1> QED BY <1>1, <1>2, <1>3, <1>4, <1>5 DEF MainStep

\* So is one of the worker, the server or the connection.
LEMMA WorkerIsSeen ==
  ASSUME TypeOK, NEW p \in Procs, Sync(p), WorkerStep(p)
  PROVE  Abstract!Next \/ UNCHANGED <<db, Calls, accepts>>
<1> USE DEF TypeOK, sab, main, worker
<1>0. OthersKept(p)
  BY StepsAreLocal
<1>1. CASE Send(p)
  <2>1. /\ UNCHANGED <<db, pc, op, accepts>> /\ seq[p] # seen[p] /\ wpc[p] # "wedged" /\ wpc'[p] # "wedged"
        /\ wire'[p].kind = "request"
    BY <1>1 DEF Send
  <2>2. CallOf(p)' = CallOf(p)
    BY <2>1 DEF CallOf, Verdict
  <2> QED BY <1>0, <2>1, <2>2, UnseenStep
<1>2. CASE Execute(p)
  <2> DEFINE c == wire[p].bytes
             k == op[p].key
  <2>1. wire[p].kind = "request" /\ UNCHANGED <<pc, op, seq, seen, wpc, answer, accepts>>
    BY <1>2 DEF Execute
  <2>2. /\ pc[p] # "written" /\ wpc[p] = "sent" /\ seen[p] = seq[p]
        /\ wire[p] = [kind |-> "request", bytes |-> Command(op[p])] /\ op[p] # NoOp
    BY <2>1, Shapes DEF Sync, UnderWay, AtRest
  <2>3. op[p] \in Ops /\ op[p].name \in {"claim", "bump"} /\ k \in Keys
    BY <2>2, Shapes DEF Ops
  <2>4. CASE op[p].name = "bump"
    <3>1. c = Incr
      BY <2>2, <2>3, <2>4, Shapes
    <3>2. UNCHANGED db
      BY <1>2, <3>1, Shapes DEF Execute
    <3>3. CallOf(p)' = CallOf(p)
      BY <2>1, <2>4 DEF CallOf
    <3> QED BY <1>0, <2>1, <3>2, <3>3, UnseenStep
  <2>5. CASE op[p].name = "claim"
    <3>1. c = Set(k)
      BY <2>2, <2>3, <2>5, Shapes
    <3>2. c.kind = "command" /\ c.name = "SET" /\ c.key = k
      BY <2>3, <3>1, Shapes
    <3>3. CallOf(p) = Abstract!Pending(k)
      BY <2>1, <2>2, <2>5, SeenPending
    <3>4. \/ k \notin db /\ db' = db \union {k} /\ wire'[p] = Reply("OK")
          \/ k \in db /\ UNCHANGED db /\ wire'[p] = Reply("nil")
      BY <1>2, <3>2 DEF Execute
    <3>5. ASSUME NEW t \in {"OK", "nil"}, wire'[p] = Reply(t)
          PROVE  CallOf(p)' = Abstract!Decided(k, t = "OK")
      <4>1. wire'[p].kind = "reply" /\ wire'[p].text = t
        BY <3>5, Shapes
      <4> QED BY <2>1, <2>2, <2>5, <4>1 DEF CallOf, Verdict, Abstract!Decided
    <3>6. CASE k \notin db /\ db' = db \union {k} /\ wire'[p] = Reply("OK")
      <4>1. CallOf(p)' = Abstract!Decided(k, TRUE)
        BY <3>5, <3>6
      <4>2. Abstract!Win(p, k)
        BY <1>0, <2>1, <3>3, <3>6, <4>1, OwnCallOnly DEF Abstract!Win, Calls
      <4> QED BY <2>3, <4>2 DEF Abstract!Next
    <3>7. CASE k \in db /\ UNCHANGED db /\ wire'[p] = Reply("nil")
      <4>1. CallOf(p)' = Abstract!Decided(k, FALSE)
        BY <3>5, <3>7
      <4>2. Abstract!Lose(p, k)
        BY <1>0, <2>1, <3>3, <3>7, <4>1, OwnCallOnly DEF Abstract!Lose, Calls
      <4> QED BY <2>3, <4>2 DEF Abstract!Next
    <3> QED BY <3>4, <3>6, <3>7
  <2> QED BY <2>3, <2>4, <2>5
<1>3. CASE Receive(p)
  <2>1. /\ UNCHANGED <<db, pc, op, seq, seen, accepts>> /\ wire[p].kind = "reply"
        /\ wpc[p] # "wedged" /\ wpc'[p] # "wedged" /\ wire'[p] = Nothing
        /\ answer'[p] = wire[p].text
    BY <1>3 DEF Receive
  <2>2. CallOf(p)' = CallOf(p)
    BY <2>1, Shapes DEF CallOf, Verdict
  <2> QED BY <1>0, <2>1, <2>2, UnseenStep
<1>4. CASE WriteReply(p) \/ StoreDone(p)
  <2>1. /\ UNCHANGED <<db, wire, pc, op, seq, seen, answer, accepts>>
        /\ wpc[p] # "wedged" /\ wpc'[p] # "wedged"
    BY <1>4 DEF WriteReply, StoreDone
  <2>2. CallOf(p)' = CallOf(p)
    BY <2>1 DEF CallOf, Verdict
  <2> QED BY <1>0, <2>1, <2>2, UnseenStep
<1>5. CASE Notify(p)
  <2>1. /\ UNCHANGED <<db, wire, op, seq, seen, answer, accepts>>
        /\ wpc[p] # "wedged" /\ wpc'[p] # "wedged"
        /\ pc[p] = "written" <=> pc'[p] = "written"
    BY <1>5 DEF Notify
  <2>2. CallOf(p)' = CallOf(p)
    BY <2>1 DEF CallOf, Verdict
  <2> QED BY <1>0, <2>1, <2>2, UnseenStep
<1>6. CASE Drop(p)
  <2>1. UNCHANGED <<db, pc, op, seq, seen, accepts>> /\ wire'[p] = Nothing
    BY <1>6 DEF Drop
  <2>2. pc[p] # "written" /\ seen[p] = seq[p]
    BY <1>6 DEF Drop, Sync, UnderWay, AtRest
  <2>3. wpc'[p] = "wedged" \/ answer'[p] = "error"
    BY <1>6 DEF Drop
  <2>4. CallOf(p)' = CallOf(p) \/ CallOf(p)' = Abstract!NoCall
    <3>1. CASE op[p].name = "bump"
      BY <2>1, <3>1 DEF CallOf
    <3>2. CASE op[p].name # "bump"
      <4>1. wire'[p].kind = "nothing"
        BY <2>1, Shapes
      <4>2. wpc'[p] # "wedged" => Verdict(p)' = Abstract!NoCall
        BY <2>1, <2>2, <2>3, <4>1 DEF Verdict, Abstract!NoCall
      <4> QED BY <2>1, <3>2, <4>2 DEF CallOf, Abstract!NoCall
    <3> QED BY <3>1, <3>2
  <2> QED BY <1>0, <2>1, <2>4, UnseenStep
<1> QED BY <1>1, <1>2, <1>3, <1>4, <1>5, <1>6 DEF WorkerStep

\* Every step is seen as one of NonceClaim or as nothing.
LEMMA StepIsSeen ==
  ASSUME ~LateReplies, ~SlowNotify
  PROVE  TypeOK /\ SyncInv /\ [Next]_vars => [Abstract!Next]_<<db, Calls, accepts>>
<1> SUFFICES ASSUME TypeOK, SyncInv, [Next]_vars
             PROVE  Abstract!Next \/ UNCHANGED <<db, Calls, accepts>>
  OBVIOUS
<1>1. ASSUME NEW p \in Procs, MainStep(p) \/ WorkerStep(p)
      PROVE  Abstract!Next \/ UNCHANGED <<db, Calls, accepts>>
  BY <1>1, MainIsSeen, WorkerIsSeen DEF SyncInv
<1>2. CASE UNCHANGED vars
  <2>1. \A p \in Procs : CallOf(p)' = CallOf(p)
    BY <1>2 DEF vars, sab, main, worker, CallOf, Verdict
  <2> QED BY <1>2, <2>1 DEF vars, sab, main, worker, Calls
<1> QED BY <1>1, <1>2 DEF Next

\* With prompt replies and notifications the two threads take turns from the start.
LEMMA SyncHolds ==
  ASSUME ~LateReplies, ~SlowNotify
  PROVE  Spec => []SyncInv
<1>1. Init => SyncInv
  <2> SUFFICES ASSUME Init, NEW p \in Procs PROVE Sync(p)
    BY DEF SyncInv
  <2>1. AtRest(p) /\ pc[p] = "idle" /\ op[p] = NoOp
    BY DEF Init, AtRest
  <2> QED BY <2>1 DEF Sync
<1> QED BY <1>1, SyncStep, BridgeTypeCorrect, PTL DEF Spec

\* redis-nonces.js, if replies and notifications are prompt: the bridge is an atomic
\* claim-or-fail object, whatever threads and connections do.
THEOREM BridgeRefinesNonceClaim ==
  ASSUME ~LateReplies, ~SlowNotify
  PROVE  Spec => ImplementsNonceClaim
<1>1. Init => Abstract!Init
  BY Shapes DEF Init, Abstract!Init, Abstract!NoCall, CallOf
<1>2. TypeOK /\ SyncInv /\ [Next]_vars => [Abstract!Next]_(Abstract!vars)
  BY StepIsSeen DEF Abstract!vars, Calls
<1> QED BY <1>1, <1>2, SyncHolds, BridgeTypeCorrect, PTL
        DEF Spec, ImplementsNonceClaim, Abstract!Spec
-------------------------------------------------------------------------------
(* What every atomic claim-or-fail object gives *)

\* The calls that have won k and not returned.
Winners(k) == {p \in Procs : Calls[p] = Abstract!Decided(k, TRUE)}

\* A key was accepted once or has one winner at most, and is burned in either case.
WinInv ==
  \A k \in Keys :
    /\ accepts[k] \in {0, 1}
    /\ accepts[k] = 1 => k \in db /\ Winners(k) = {}
    /\ \A p, q \in Winners(k) : k \in db /\ p = q

\* A step that burns nothing, accepts nothing and wins nothing changes nothing of this.
LEMMA NothingWon ==
  ASSUME WinInv, UNCHANGED <<db, accepts>>, \A k \in Keys : Winners(k)' \subseteq Winners(k)
  PROVE  WinInv'
<1> SUFFICES ASSUME NEW k \in Keys
             PROVE  /\ accepts[k] \in {0, 1}
                    /\ accepts[k] = 1 => k \in db /\ Winners(k)' = {}
                    /\ \A p, q \in Winners(k)' : k \in db /\ p = q
  BY DEF WinInv
<1>1. accepts[k] \in {0, 1} /\ (accepts[k] = 1 => k \in db /\ Winners(k) = {})
  BY DEF WinInv
<1>2. \A p, q \in Winners(k) : k \in db /\ p = q
  BY DEF WinInv
<1> QED BY <1>1, <1>2

\* No step of a claim-or-fail object makes a second winner.
LEMMA WinStep ==
  WinInv /\ accepts \in [Keys -> Nat] /\ [Abstract!Next]_<<db, Calls, accepts>> => WinInv'
<1> SUFFICES ASSUME WinInv, accepts \in [Keys -> Nat], [Abstract!Next]_<<db, Calls, accepts>>
             PROVE  WinInv'
  OBVIOUS
<1> DEFINE Becomes(p, c) == Calls' = [Calls EXCEPT ![p] = c]
<1>0. \A p \in Procs : \A c : Becomes(p, c) =>
        Calls'[p] = c /\ \A q \in Procs : q # p => Calls'[q] = Calls[q]
  BY DEF Calls
<1>1. ASSUME NEW p \in Procs, NEW c, Becomes(p, c), UNCHANGED <<db, accepts>>,
             \A k \in Keys : c # Abstract!Decided(k, TRUE)
      PROVE  WinInv'
  <2>1. \A k \in Keys : Winners(k)' \subseteq Winners(k)
    BY <1>0, <1>1 DEF Winners
  <2> QED BY <1>1, <2>1, NothingWon
<1>2. ASSUME NEW p \in Procs, Abstract!Throw(p) PROVE WinInv'
  <2>1. \A k : Abstract!NoCall # Abstract!Decided(k, TRUE)
    BY DEF Abstract!NoCall, Abstract!Decided
  <2> QED BY <1>1, <1>2, <2>1 DEF Abstract!Throw, Calls
<1>3. ASSUME NEW p \in Procs, NEW k0 \in Keys, Abstract!Invoke(p, k0) PROVE WinInv'
  <2>1. \A k : Abstract!Pending(k0) # Abstract!Decided(k, TRUE)
    BY DEF Abstract!Pending, Abstract!Decided
  <2> QED BY <1>1, <1>3, <2>1 DEF Abstract!Invoke, Calls
<1>4. ASSUME NEW p \in Procs, NEW k0 \in Keys, Abstract!Lose(p, k0) PROVE WinInv'
  <2>1. \A k : Abstract!Decided(k0, FALSE) # Abstract!Decided(k, TRUE)
    BY DEF Abstract!Decided
  <2> QED BY <1>1, <1>4, <2>1 DEF Abstract!Lose, Calls
<1>5. ASSUME NEW p \in Procs, NEW k0 \in Keys, Abstract!Win(p, k0) PROVE WinInv'
  <2>1. /\ Becomes(p, Abstract!Decided(k0, TRUE)) /\ k0 \notin db /\ db' = db \union {k0}
        /\ UNCHANGED accepts
    BY <1>5 DEF Abstract!Win, Calls
  <2>2. \A k : Abstract!Decided(k0, TRUE) = Abstract!Decided(k, TRUE) => k = k0
    BY DEF Abstract!Decided
  <2> SUFFICES ASSUME NEW k \in Keys
               PROVE  /\ accepts[k] \in {0, 1}
                      /\ accepts[k] = 1 => k \in db' /\ Winners(k)' = {}
                      /\ \A q, r \in Winners(k)' : k \in db' /\ q = r
    BY <2>1 DEF WinInv
  <2>3. CASE k = k0
    <3>1. accepts[k] = 0 /\ Winners(k) = {}
      BY <2>1, <2>3 DEF WinInv
    <3>2. Winners(k)' \subseteq {p}
      BY <1>0, <2>1, <3>1 DEF Winners
    <3> QED BY <2>1, <2>3, <3>1, <3>2
  <2>4. CASE k # k0
    <3>1. Winners(k)' \subseteq Winners(k)
      BY <1>0, <2>1, <2>2, <2>4 DEF Winners
    <3>2. accepts[k] \in {0, 1} /\ (accepts[k] = 1 => k \in db /\ Winners(k) = {})
      BY DEF WinInv
    <3>3. \A q, r \in Winners(k) : k \in db /\ q = r
      BY DEF WinInv
    <3> QED BY <2>1, <3>1, <3>2, <3>3
  <2> QED BY <2>3, <2>4
<1>6. ASSUME NEW p \in Procs, NEW k0 \in Keys, Abstract!Return(p, k0) PROVE WinInv'
  <2>1. PICK won \in BOOLEAN :
          /\ Calls[p] = Abstract!Decided(k0, won)
          /\ accepts' = IF won THEN [accepts EXCEPT ![k0] = @ + 1] ELSE accepts
    BY <1>6 DEF Abstract!Return, Calls
  <2>2. Becomes(p, Abstract!NoCall) /\ UNCHANGED db
    BY <1>6 DEF Abstract!Return, Calls
  <2>3. \A k : Abstract!NoCall # Abstract!Decided(k, TRUE)
    BY DEF Abstract!NoCall, Abstract!Decided
  <2>4. CASE ~won
    BY <1>1, <2>1, <2>2, <2>3, <2>4
  <2>5. CASE won
    <3>1. accepts' = [accepts EXCEPT ![k0] = @ + 1] /\ p \in Winners(k0)
      BY <2>1, <2>5 DEF Winners
    <3>2. accepts[k0] = 0 /\ k0 \in db /\ Winners(k0) \subseteq {p}
      BY <3>1 DEF WinInv
    <3>3. \A k : Winners(k)' \subseteq Winners(k) \ {p}
      BY <1>0, <2>2, <2>3 DEF Winners
    <3> SUFFICES ASSUME NEW k \in Keys
                 PROVE  /\ accepts'[k] \in {0, 1}
                        /\ accepts'[k] = 1 => k \in db /\ Winners(k)' = {}
                        /\ \A q, r \in Winners(k)' : k \in db /\ q = r
      BY <2>2 DEF WinInv
    <3>4. CASE k = k0
      <4>1. accepts'[k] = 1 /\ Winners(k)' = {}
        BY <3>1, <3>2, <3>3, <3>4
      <4> QED BY <3>2, <3>4, <4>1
    <3>5. CASE k # k0
      <4>1. accepts'[k] = accepts[k] /\ Winners(k)' \subseteq Winners(k)
        BY <3>1, <3>3, <3>5
      <4>2. accepts[k] \in {0, 1} /\ (accepts[k] = 1 => k \in db /\ Winners(k) = {})
        BY DEF WinInv
      <4>3. \A q, r \in Winners(k) : k \in db /\ q = r
        BY DEF WinInv
      <4> QED BY <4>1, <4>2, <4>3
    <3> QED BY <3>4, <3>5
  <2> QED BY <2>4, <2>5
<1>7. CASE UNCHANGED <<db, Calls, accepts>>
  <2>1. \A k \in Keys : Winners(k)' \subseteq Winners(k)
    BY <1>7 DEF Winners
  <2> QED BY <1>7, <2>1, NothingWon
<1> QED BY <1>2, <1>3, <1>4, <1>5, <1>6, <1>7 DEF Abstract!Next

\* INV-04 across machines: if replies and notifications are prompt, at most one
\* claimIfAbsent returns true for a key.
THEOREM BridgeAcceptsOnce ==
  ASSUME ~LateReplies, ~SlowNotify
  PROVE  Spec => []AtMostOneAccept
<1>1. Init => WinInv
  <2> SUFFICES ASSUME Init PROVE WinInv
    OBVIOUS
  <2>1. \A p \in Procs : Calls[p].phase = "none"
    BY Shapes DEF Init, Calls, CallOf
  <2>2. \A k : Abstract!Decided(k, TRUE).phase = "decided"
    BY DEF Abstract!Decided
  <2>3. \A k : Winners(k) = {}
    BY <2>1, <2>2 DEF Winners
  <2> QED BY <2>3 DEF Init, WinInv
<1>2. TypeOK /\ SyncInv /\ WinInv /\ [Next]_vars => WinInv'
  BY StepIsSeen, WinStep DEF TypeOK
<1>3. WinInv => AtMostOneAccept
  BY DEF WinInv, AtMostOneAccept
<1> QED BY <1>1, <1>2, <1>3, SyncHolds, BridgeTypeCorrect, PTL DEF Spec
===============================================================================
