------------------------ MODULE FileNonceStore_proofs ------------------------
(***************************************************************************)
(* Mutual exclusion, at-most-once acceptance and durability of             *)
(* FileNonceStore for any number of processes and keys, in the environment *)
(* where the liveness-aware takeover rule is enough: see SafeEnvironment.  *)
(***************************************************************************)
EXTENDS FileNonceStore, TLAPS

\* Deaths leave at most one process: either it is the only one that ever comes
\* back, after a loss of power that killed them all, or it is the one of two
\* whose peer may die.
LoneSurvivor ==
  \E s \in Procs :
    /\ Restarting \subseteq {s}
    /\ Crashing # {} => \E q \in Procs : Procs = {s, q} /\ Crashing \subseteq {q}

\* All verifiers run on one host, and a holder stays below the stale window
\* until its owner record is written, as does a contender between its read of
\* the record and its stat.  After the record is written a holder may stall for
\* any time.  If processes die or the power fails, writes are whole, renames are
\* durable, and at most one process is left to meet the lock of a dead one; the
\* record and the fsync may fail.
SafeEnvironment ==
  /\ \A p, q \in Procs : Host[p] = Host[q]
  /\ Stalls \subseteq {"recorded"}
  /\ MaxCrashes > 0 => LoneSurvivor /\ {"torn_write", "rename_lost"} \cap Faults = {}

\* Only a claim appends, and only a claim can have been won.
ClaimInv ==
  \A p \in Procs :
    /\ pc[p] \in {"append", "fsync"} => job[p] \in ClaimJobs
    /\ outcome[p] = "won" => pc[p] = "release" /\ job[p] \in ClaimJobs

\* The log has no torn tail, and where the power may fail no old log comes back;
\* after the first death all but one are dead.
DeathInv ==
  /\ torn = FALSE
  /\ MaxCrashes > 0 => replaced = {}
  /\ crashes = 0 => \A p \in Procs : pc[p] # "dead"
  /\ crashes > 0 => \E s \in Procs : /\ Restarting \subseteq {s}
                                     /\ \A p \in Procs \ {s} : pc[p] = "dead"

\* A process in the critical section owns the lockfile, and a lockfile without
\* such an owner is what a death has left behind.
LockInv ==
  /\ \A p \in Procs : InCritical(p) => lock # NoLock /\ lock.owner = Pid(p)
  /\ lock # NoLock => /\ lock.owner.epoch <= epoch[lock.owner.proc]
                      /\ PidAlive(lock.owner) => InCritical(lock.owner.proc)
                      /\ crashes = 0 => PidAlive(lock.owner)

\* The stale lockfile of a live owner shows that owner, and whoever is about to
\* judge it has read that owner; so nobody decides to unlink it, and only a
\* survivor decides to unlink a lockfile at all.
TakeoverInv ==
  /\ lock # NoLock /\ lock.stale /\ PidAlive(lock.owner) =>
       /\ lock.recorded
       /\ \A p \in Procs : pc[p] = "stat" => observed[p] = lock.owner
  /\ \A p \in Procs : pc[p] = "unlink" => crashes > 0

\* What the process in the critical section knows of the log.
SectionInv ==
  \A p \in Procs :
    /\ pc[p] \in {"append", "fsync"} => accepts[job[p].key] = 0
    /\ pc[p] = "append" => job[p].key \notin log
    /\ pc[p] = "fsync" => job[p].key \in log
    /\ outcome[p] = "won" => accepts[job[p].key] = 0 /\ job[p].key \in log \ unsynced
    /\ pc[p] = "writeTmp" => seen[p] = log
    /\ pc[p] = "rename" => tmp = [kind |-> "file", keys |-> log]

\* The inductive invariant.
IInv ==
  /\ TypeOK
  /\ ClaimInv
  /\ DeathInv
  /\ LockInv
  /\ TakeoverInv
  /\ SectionInv
  /\ AtMostOneAccept
  /\ AcceptIsDurable
-------------------------------------------------------------------------------
(* Types *)

\* Every action keeps the variables in their types, deaths and faults included.
LEMMA TypeStep ==
  ASSUME TypeOK, ClaimInv, [Next]_vars
  PROVE  TypeOK' /\ ClaimInv'
<1> USE DEF TypeOK, ClaimInv, Labels, Acquiring, Critical, Idle, Outcomes, fileVars, procVars, Goto
<1>a. ASSUME NEW p \in Procs
      PROVE  /\ Pid(p) \in Pids
             /\ LockFile(p) \in LockFiles
             /\ job[p].op = "claim" => job[p] \in ClaimJobs
             /\ job[p] \in ClaimJobs => job[p].key \in Keys
  BY DEF Pid, Pids, LockFile, LockFiles, Jobs, ClaimJobs, NoJob
<1>b. lock # NoLock => /\ lock.owner \in Pids
                       /\ \A b \in BOOLEAN : [lock EXCEPT !.recorded = b] \in LockFiles
                       /\ [lock EXCEPT !.stale = TRUE] \in LockFiles
                       /\ [lock EXCEPT !.recorded = TRUE, !.stale = FALSE] \in LockFiles
  BY DEF LockFiles
<1>c. /\ \A keys \in SUBSET Keys : [kind |-> "file", keys |-> keys] \in Files
      /\ tmp # NoFile => tmp.keys \in SUBSET Keys
  BY DEF Files
<1>1. ASSUME NEW p \in Procs, NEW j \in Jobs, Start(p, j)
      PROVE  TypeOK' /\ ClaimInv'
  BY <1>1 DEF Start
<1>2. ASSUME NEW p \in Procs, OpenExclusive(p)
      PROVE  TypeOK' /\ ClaimInv'
  BY <1>a, <1>2 DEF OpenExclusive
<1>3. ASSUME NEW p \in Procs, RecordOwner(p)
      PROVE  TypeOK' /\ ClaimInv'
  BY <1>b, <1>3 DEF RecordOwner, Holds
<1>4. ASSUME NEW p \in Procs, ReadOwner(p)
      PROVE  TypeOK' /\ ClaimInv'
  BY <1>b, <1>4 DEF ReadOwner
<1>5. ASSUME NEW p \in Procs, StatAndDecide(p)
      PROVE  TypeOK' /\ ClaimInv'
  BY <1>5 DEF StatAndDecide, Leave, Forget
<1>6. ASSUME NEW p \in Procs, TakeOver(p)
      PROVE  TypeOK' /\ ClaimInv'
  BY <1>6 DEF TakeOver
<1>7. ASSUME NEW p \in Procs, Load(p)
      PROVE  TypeOK' /\ ClaimInv'
  BY <1>a, <1>7 DEF Load
<1>8. ASSUME NEW p \in Procs, Append(p)
      PROVE  TypeOK' /\ ClaimInv'
  BY <1>a, <1>8 DEF Append
<1>9. ASSUME NEW p \in Procs, Fsync(p)
      PROVE  TypeOK' /\ ClaimInv'
  BY <1>a, <1>9 DEF Fsync
<1>10. ASSUME NEW p \in Procs, WriteTmp(p)
       PROVE  TypeOK' /\ ClaimInv'
  BY <1>c, <1>10 DEF WriteTmp
<1>11. ASSUME NEW p \in Procs, Rename(p)
       PROVE  TypeOK' /\ ClaimInv'
  <2>1. replaced' \subseteq [keys : SUBSET Keys, torn : BOOLEAN]
    BY <1>11 DEF Rename, OldLogs
  <2>2. QED
    BY <2>1, <1>c, <1>11 DEF Rename
<1>12. ASSUME NEW p \in Procs, Release(p)
       PROVE  TypeOK' /\ ClaimInv'
  <2>1. accepts' \in [Keys -> Nat]
    BY <1>a, <1>12 DEF Release
  <2>2. QED
    BY <2>1, <1>12 DEF Release, Leave, Forget
<1>13. ASSUME NEW p \in Procs, DeadlinePasses(p)
       PROVE  TypeOK' /\ ClaimInv'
  BY <1>13 DEF DeadlinePasses
<1>14. ASSUME NEW p \in Procs, Crash(p)
       PROVE  TypeOK' /\ ClaimInv'
  <2>1. /\ pc' \in [Procs -> Labels] /\ outcome' \in [Procs -> Outcomes]
        /\ job' \in [Procs -> Jobs \union {NoJob}]
        /\ seen' \in [Procs -> SUBSET Keys] /\ late' \in [Procs -> BOOLEAN]
        /\ observed' \in [Procs -> Pids \union {Anonymous}]
    BY <1>14 DEF Crash, Forget
  <2>2. ClaimInv'
    BY <1>14 DEF Crash, Forget
  <2>3. UNCHANGED <<lock, log, unsynced, tmp, replaced, epoch, accepts>>
    BY <1>14 DEF Crash
  <2>4. crashes' \in Nat
    BY <1>14 DEF Crash
  <2>5. torn' \in BOOLEAN
    BY <1>14 DEF Crash
  <2>6. QED
    BY <2>1, <2>2, <2>3, <2>4, <2>5
<1>15. ASSUME NEW p \in Procs, Restart(p)
       PROVE  TypeOK' /\ ClaimInv'
  BY <1>15 DEF Restart
<1>16. CASE LockAges
  BY <1>b, <1>16 DEF LockAges
<1>17. CASE PowerLoss
  <2>1. lock' \in LockFiles \union {NoLock}
    BY <1>b, <1>17 DEF PowerLoss, LockFiles
  <2>2. /\ log' \subseteq Keys /\ unsynced' \subseteq log' /\ torn' \in BOOLEAN
        /\ tmp' \in Files \union {NoFile}
    BY <1>17 DEF PowerLoss
  <2>3. /\ pc' \in [Procs -> Labels] /\ outcome' \in [Procs -> Outcomes]
        /\ job' \in [Procs -> Jobs \union {NoJob}]
        /\ seen' \in [Procs -> SUBSET Keys] /\ late' \in [Procs -> BOOLEAN]
        /\ observed' \in [Procs -> Pids \union {Anonymous}]
        /\ crashes' \in Nat
    BY <1>17 DEF PowerLoss
  <2>4. ClaimInv'
    BY <1>17 DEF PowerLoss
  <2>5. QED
    BY <1>17, <2>1, <2>2, <2>3, <2>4 DEF PowerLoss
<1>18. CASE UNCHANGED vars
  BY <1>18 DEF vars
<1>19. QED
  BY <1>1, <1>2, <1>3, <1>4, <1>5, <1>6, <1>7, <1>8, <1>9, <1>10, <1>11, <1>12, <1>13,
     <1>14, <1>15, <1>16, <1>17, <1>18 DEF Next, AcquireStep, CriticalStep

\* The variables start in their types: no lockfile, an empty log, idle processes.
LEMMA TypeInit ==
  ASSUME Init
  PROVE  TypeOK /\ ClaimInv
<1>1. /\ pc \in [Procs -> Labels] /\ outcome \in [Procs -> Outcomes]
      /\ job \in [Procs -> Jobs \union {NoJob}]
      /\ seen \in [Procs -> SUBSET Keys] /\ late \in [Procs -> BOOLEAN]
      /\ observed \in [Procs -> Pids \union {Anonymous}]
      /\ epoch \in [Procs -> Nat] /\ accepts \in [Keys -> Nat]
  BY DEF Init, Labels, Idle, Outcomes
<1>2. ClaimInv
  BY DEF Init, ClaimInv
<1>3. QED
  BY <1>1, <1>2 DEF Init, TypeOK

\* TypeOK holds of every behaviour, whatever dies and whatever faults occur.
THEOREM TypeCorrect == Spec => []TypeOK
<1>1. Init => TypeOK /\ ClaimInv
  BY TypeInit
<1>2. TypeOK /\ ClaimInv /\ [Next]_vars => TypeOK' /\ ClaimInv'
  BY TypeStep
<1>3. QED
  BY <1>1, <1>2, PTL DEF Spec
-------------------------------------------------------------------------------
(* The lock *)

\* A death leaves at most one process, and only that one comes back.
LEMMA DeathStep ==
  ASSUME SafeEnvironment, TypeOK, DeathInv, [Next]_vars
  PROVE  DeathInv'
<1> USE DEF TypeOK, DeathInv, Goto, fileVars, procVars
<1>1. ASSUME NEW p \in Procs,
             \/ AcquireStep(p) \/ Load(p) \/ Fsync(p) \/ WriteTmp(p) \/ DeadlinePasses(p)
             \/ \E j \in Jobs : Start(p, j)
      PROVE  DeathInv'
  <2>1. torn' = torn /\ replaced' = replaced /\ crashes' = crashes /\ pc[p] # "dead"
    BY <1>1 DEF AcquireStep, OpenExclusive, RecordOwner, ReadOwner, StatAndDecide, TakeOver,
                Load, Fsync, WriteTmp, DeadlinePasses, Acquiring, Start
  <2>2. /\ pc'[p] # "dead"
        /\ \A q \in Procs \ {p} : pc'[q] = pc[q]
    BY <1>1 DEF AcquireStep, OpenExclusive, RecordOwner, ReadOwner, StatAndDecide, TakeOver,
                Leave, Load, Fsync, WriteTmp, DeadlinePasses, Acquiring, Start
  <2>3. QED
    BY <2>1, <2>2
<1>2. ASSUME NEW p \in Procs, Append(p) \/ Rename(p) \/ Release(p)
      PROVE  DeathInv'
  <2>1. /\ torn' = FALSE /\ crashes' = crashes /\ pc[p] # "dead"
        /\ MaxCrashes > 0 => replaced' = replaced
    BY <1>2 DEF Append, Rename, Release, SafeEnvironment
  <2>2. /\ pc'[p] # "dead"
        /\ \A q \in Procs \ {p} : pc'[q] = pc[q]
    BY <1>2 DEF Append, Rename, Release, Leave
  <2>3. QED
    BY <2>1, <2>2
<1>3. ASSUME NEW p \in Procs, Crash(p)
      PROVE  DeathInv'
  <2>1. torn' = FALSE /\ replaced' = replaced /\ crashes' > 0 /\ \A q \in Procs : pc'[q] \in {pc[q], "dead"}
    BY <1>3, ConstantsAssumption DEF Crash, SafeEnvironment
  <2>2. pc'[p] = "dead"
    BY <1>3 DEF Crash
  <2>3. CASE crashes > 0
    BY <2>1, <2>3
  <2>4. CASE crashes = 0
    <3>1. p \in Crashing /\ LoneSurvivor
      BY <1>3, <2>4, ConstantsAssumption DEF Crash, SafeEnvironment
    <3>2. PICK s \in Procs : /\ Restarting \subseteq {s}
                             /\ \E q \in Procs : Procs = {s, q} /\ Crashing \subseteq {q}
      BY <3>1 DEF LoneSurvivor
    <3>3. \A q \in Procs \ {s} : q = p
      BY <3>1, <3>2
    <3>4. QED
      BY <2>1, <2>2, <3>2, <3>3
  <2>5. crashes = 0 \/ crashes > 0
    OBVIOUS
  <2>6. QED
    BY <2>3, <2>4, <2>5
<1>4. ASSUME NEW p \in Procs, Restart(p)
      PROVE  DeathInv'
  <2>1. torn' = FALSE /\ replaced' = replaced /\ crashes' = crashes /\ p \in Restarting /\ pc[p] = "dead"
    BY <1>4 DEF Restart
  <2>2. PICK s \in Procs : /\ Restarting \subseteq {s}
                           /\ \A q \in Procs \ {s} : pc[q] = "dead"
    BY <2>1
  <2>3. \A q \in Procs \ {s} : pc'[q] = "dead"
    BY <1>4, <2>1, <2>2 DEF Restart
  <2>4. QED
    BY <2>1, <2>2, <2>3
<1>5. CASE LockAges
  BY <1>5 DEF LockAges
<1>6. CASE PowerLoss
  <2>1. torn' = FALSE /\ replaced' = {} /\ crashes' > 0 /\ MaxCrashes > 0
    BY <1>6, ConstantsAssumption DEF PowerLoss, SafeEnvironment
  <2>2. PICK s \in Procs : Restarting \subseteq {s}
    BY <2>1 DEF SafeEnvironment, LoneSurvivor
  <2>3. \A p \in Procs : pc'[p] = "dead"
    BY <1>6 DEF PowerLoss
  <2>4. QED
    BY <2>1, <2>2, <2>3
<1>7. CASE UNCHANGED vars
  BY <1>7 DEF vars
<1>8. QED
  BY <1>1, <1>2, <1>3, <1>4, <1>5, <1>6, <1>7 DEF Next, CriticalStep

\* The lockfile belongs to the process in the critical section, and no contender
\* ever decides to unlink that of a live one.
LEMMA LockStep ==
  ASSUME SafeEnvironment, TypeOK, DeathInv, LockInv, TakeoverInv, [Next]_vars
  PROVE  LockInv' /\ TakeoverInv'
<1> DEFINE Goal == LockInv' /\ TakeoverInv'
<1> USE DEF TypeOK, LockInv, TakeoverInv, InCritical, Critical, PidAlive, Goto, fileVars, procVars
<1>a. /\ \A p \in Procs : Pid(p).proc = p /\ Pid(p).epoch = epoch[p] /\ LockFile(p).owner = Pid(p)
      /\ \A p \in Procs : LockFile(p) # NoLock /\ ~LockFile(p).stale
      /\ \A p \in Procs : Pid(p) # Anonymous
  BY DEF Pid, LockFile, NoLock, Anonymous
<1>b. lock # NoLock =>
        /\ lock.owner.proc \in Procs
        /\ lock.owner.epoch \in Nat
        /\ lock.owner # Anonymous
        /\ PidAlive(lock.owner) => lock.owner = Pid(lock.owner.proc)
        /\ [lock EXCEPT !.stale = TRUE] # NoLock
        /\ [lock EXCEPT !.stale = TRUE].owner = lock.owner
        /\ [lock EXCEPT !.stale = TRUE].recorded = lock.recorded
        /\ [lock EXCEPT !.recorded = TRUE, !.stale = FALSE] # NoLock
        /\ [lock EXCEPT !.recorded = TRUE, !.stale = FALSE].owner = lock.owner
        /\ ~[lock EXCEPT !.recorded = TRUE, !.stale = FALSE].stale
  <2>1. lock # NoLock => lock.owner \in Pids
    BY DEF LockFiles, NoLock
  <2>2. \A pid \in Pids : /\ pid.proc \in Procs /\ pid.epoch \in Nat /\ pid # Anonymous
                          /\ pid.epoch = epoch[pid.proc] => pid = Pid(pid.proc)
    BY DEF Pids, Pid, Anonymous
  <2>3. QED
    BY <2>1, <2>2 DEF LockFiles, NoLock
<1>c. ASSUME epoch' = epoch
      PROVE  \A p \in Procs : Pid(p)' = Pid(p)
  BY <1>c DEF Pid
<1>d. \A p, q \in Procs : InCritical(p) /\ InCritical(q) => p = q
  BY <1>a
<1>1. ASSUME NEW p \in Procs, NEW j \in Jobs, Start(p, j)
      PROVE  Goal
  BY <1>1, <1>b, <1>c DEF Start
<1>2. ASSUME NEW p \in Procs, OpenExclusive(p)
      PROVE  Goal
  <2>1. CASE lock = NoLock
    <3>1. lock' = LockFile(p) /\ pc' = [pc EXCEPT ![p] = "record"] /\ epoch' = epoch /\ crashes' = crashes
      BY <1>2, <2>1 DEF OpenExclusive
    <3>2. QED
      BY <2>1, <3>1, <1>a, <1>c
  <2>2. CASE lock # NoLock
    BY <1>2, <2>2, <1>b, <1>c DEF OpenExclusive
  <2>3. QED
    BY <2>1, <2>2
<1>3. ASSUME NEW p \in Procs, RecordOwner(p)
      PROVE  Goal
  <2>1. /\ lock' # NoLock /\ lock'.owner = lock.owner
        /\ lock'.stale => lock' = lock
    BY <1>3, <1>b DEF RecordOwner, Holds
  <2>2. /\ pc[p] = "record" /\ pc' = [pc EXCEPT ![p] = "load"]
        /\ UNCHANGED <<observed, epoch, crashes>>
    BY <1>3 DEF RecordOwner
  <2>3. QED
    BY <2>1, <2>2, <1>b, <1>c
<1>4. ASSUME NEW p \in Procs, ReadOwner(p)
      PROVE  Goal
  BY <1>4, <1>b, <1>c DEF ReadOwner
<1>5. ASSUME NEW p \in Procs, StatAndDecide(p)
      PROVE  Goal
  <2>1. lock # NoLock /\ lock.stale /\ PidAlive(lock.owner) => KnownAlive(p)
    BY <1>5, <1>b DEF StatAndDecide, KnownAlive, SafeEnvironment
  <2>2. /\ pc[p] = "stat" /\ UNCHANGED <<lock, epoch, crashes>>
        /\ \A q \in Procs \ {p} : pc'[q] = pc[q] /\ observed'[q] = observed[q]
        /\ pc'[p] \in {"open", "unlink", "idle"}
        /\ pc'[p] = "unlink" => lock # NoLock /\ lock.stale /\ ~KnownAlive(p)
    BY <1>5 DEF StatAndDecide, Leave, Forget
  <2>3. pc'[p] = "unlink" => crashes > 0
    BY <2>1, <2>2
  <2>4. QED
    BY <2>2, <2>3, <1>b, <1>c
<1>6. ASSUME NEW p \in Procs, TakeOver(p)
      PROVE  Goal
  <2>1. \A q \in Procs \ {p} : pc[q] = "dead"
    BY <1>6 DEF TakeOver, DeathInv
  <2>2. QED
    BY <1>6, <2>1 DEF TakeOver
<1>7. ASSUME NEW p \in Procs, Load(p)
      PROVE  Goal
  <2>1. /\ pc[p] = "load" /\ pc'[p] \in {"writeTmp", "release", "append"}
        /\ \A q \in Procs \ {p} : pc'[q] = pc[q]
        /\ UNCHANGED <<lock, observed, epoch, crashes>>
    BY <1>7 DEF Load
  <2>2. QED
    BY <2>1, <1>b, <1>c
<1>8. ASSUME NEW p \in Procs, Append(p)
      PROVE  Goal
  BY <1>8, <1>b, <1>c DEF Append
<1>9. ASSUME NEW p \in Procs, Fsync(p)
      PROVE  Goal
  BY <1>9, <1>b, <1>c DEF Fsync
<1>10. ASSUME NEW p \in Procs, WriteTmp(p)
       PROVE  Goal
  BY <1>10, <1>b, <1>c DEF WriteTmp
<1>11. ASSUME NEW p \in Procs, Rename(p)
       PROVE  Goal
  BY <1>11, <1>b, <1>c DEF Rename
<1>12. ASSUME NEW p \in Procs, Release(p)
       PROVE  Goal
  BY <1>12, <1>a, <1>c, <1>d DEF Release, Leave, Forget
<1>13. ASSUME NEW p \in Procs, DeadlinePasses(p)
       PROVE  Goal
  BY <1>13, <1>b, <1>c DEF DeadlinePasses
<1>14. ASSUME NEW p \in Procs, Crash(p)
       PROVE  Goal
  <2>1. /\ pc' = [pc EXCEPT ![p] = "dead"] /\ UNCHANGED <<lock, epoch>>
        /\ \A q \in Procs \ {p} : observed'[q] = observed[q]
        /\ crashes' = crashes + 1
    BY <1>14 DEF Crash, Forget
  <2>2. QED
    BY <2>1, <1>b, <1>c
<1>15. ASSUME NEW p \in Procs, Restart(p)
       PROVE  Goal
  <2>1. /\ pc[p] = "dead" /\ pc' = [pc EXCEPT ![p] = "idle"]
        /\ epoch' = [epoch EXCEPT ![p] = @ + 1]
        /\ UNCHANGED <<lock, observed, crashes>>
    BY <1>15 DEF Restart
  <2>2. /\ \A q \in Procs \ {p} : Pid(q)' = Pid(q)
        /\ crashes > 0
    BY <2>1 DEF Pid, DeathInv
  <2>3. QED
    BY <2>1, <2>2, <1>b
<1>16. CASE LockAges
  <2>1. \A p \in Procs : pc[p] # "stat"
    BY <1>16 DEF LockAges, SafeEnvironment
  <2>2. PidAlive(lock.owner) => lock.recorded
    BY <1>16, <1>b DEF LockAges, Holds, SafeEnvironment
  <2>3. QED
    BY <1>16, <2>1, <2>2, <1>b, <1>c DEF LockAges
<1>17. CASE PowerLoss
  <2>1. /\ \A p \in Procs : pc'[p] = "dead"
        /\ epoch' = epoch /\ crashes' > 0
    BY <1>17 DEF PowerLoss
  <2>2. lock' # NoLock => lock # NoLock /\ lock'.owner = lock.owner
    BY <1>17 DEF PowerLoss, LockFiles
  <2>3. QED
    BY <2>1, <2>2, <1>b
<1>18. CASE UNCHANGED vars
  BY <1>18, <1>b, <1>c DEF vars
<1>19. QED
  BY <1>1, <1>2, <1>3, <1>4, <1>5, <1>6, <1>7, <1>8, <1>9, <1>10, <1>11, <1>12, <1>13,
     <1>14, <1>15, <1>16, <1>17, <1>18 DEF Next, AcquireStep, CriticalStep

\* Two processes in the critical section would both own the one lockfile.
LEMMA LockInvExcludes ==
  ASSUME LockInv
  PROVE  MutualExclusion
<1>1. \A p \in Procs : Pid(p).proc = p
  BY DEF Pid
<1>2. QED
  BY <1>1 DEF LockInv, MutualExclusion

\* A process that is not the holder leaves no trace in the log and in accepts.
LEMMA OutsidersTouchNothing ==
  ASSUME TypeOK, NEW p \in Procs,
         OpenExclusive(p) \/ RecordOwner(p) \/ ReadOwner(p) \/ StatAndDecide(p)
           \/ TakeOver(p) \/ DeadlinePasses(p) \/ Crash(p) \/ Restart(p)
           \/ \E j \in Jobs : Start(p, j)
  PROVE  /\ UNCHANGED <<log, unsynced, tmp, replaced, accepts>>
         /\ \A q \in Procs \ {p} : /\ pc'[q] = pc[q] /\ job'[q] = job[q]
                                  /\ seen'[q] = seen[q] /\ outcome'[q] = outcome[q]
         /\ pc'[p] \in Labels \ {"append", "fsync", "writeTmp", "rename", "release"}
         /\ outcome'[p] \in {outcome[p], "none"}
<1> USE DEF TypeOK, Goto, Labels, Acquiring, Critical, Idle, fileVars
<1>1. CASE OpenExclusive(p) \/ RecordOwner(p) \/ ReadOwner(p) \/ DeadlinePasses(p)
             \/ \E j \in Jobs : Start(p, j)
  BY <1>1 DEF OpenExclusive, RecordOwner, ReadOwner, DeadlinePasses, Start
<1>2. CASE StatAndDecide(p) \/ TakeOver(p)
  BY <1>2 DEF StatAndDecide, TakeOver, Leave, Forget
<1>3. CASE Crash(p) \/ Restart(p)
  BY <1>3 DEF Crash, Restart, Forget
<1>4. QED
  BY <1>1, <1>2, <1>3

\* The holder's knowledge of the log stays right, and so does the log.
LEMMA SectionStep ==
  ASSUME SafeEnvironment, IInv, [Next]_vars
  PROVE  /\ SectionInv' /\ AtMostOneAccept' /\ AcceptIsDurable'
         /\ crashes' = crashes => log \subseteq log'
<1> DEFINE Goal == /\ SectionInv' /\ AtMostOneAccept' /\ AcceptIsDurable'
                   /\ crashes' = crashes => log \subseteq log'
<1> USE DEF IInv, TypeOK, ClaimInv, DeathInv, SectionInv, AtMostOneAccept, AcceptIsDurable,
            MutualExclusion, InCritical, Critical, Goto
<1>a. MutualExclusion
  BY LockInvExcludes
<1>b. \A p \in Procs : job[p] \in ClaimJobs => job[p].key \in Keys
  BY DEF ClaimJobs
<1>1. ASSUME NEW p \in Procs,
             OpenExclusive(p) \/ RecordOwner(p) \/ ReadOwner(p) \/ StatAndDecide(p)
               \/ TakeOver(p) \/ DeadlinePasses(p) \/ Crash(p) \/ Restart(p)
               \/ \E j \in Jobs : Start(p, j)
      PROVE  Goal
  <2>1. /\ UNCHANGED <<log, unsynced, tmp, replaced, accepts>>
        /\ \A q \in Procs \ {p} : /\ pc'[q] = pc[q] /\ job'[q] = job[q]
                                 /\ seen'[q] = seen[q] /\ outcome'[q] = outcome[q]
        /\ pc'[p] \in Labels \ {"append", "fsync", "writeTmp", "rename", "release"}
        /\ outcome'[p] \in {outcome[p], "none"}
    BY <1>1, OutsidersTouchNothing
  <2>2. outcome'[p] # "won"
    BY <1>1, <2>1 DEF OpenExclusive, RecordOwner, ReadOwner, StatAndDecide, TakeOver,
                      DeadlinePasses, Crash, Forget, Restart, Start, Acquiring
  <2>3. QED
    BY <2>1, <2>2
<1>2. ASSUME NEW p \in Procs, Load(p)
      PROVE  Goal
  <2>1. job[p].op = "claim" => job[p].key \in Keys
    BY DEF Jobs, ClaimJobs, NoJob
  <2>2. pc'[p] = "append" => accepts[job[p].key] = 0 /\ job[p].key \notin log
    BY <1>2, <2>1 DEF Load
  <2>3. QED
    BY <1>2, <2>2 DEF Load, fileVars
<1>3. ASSUME NEW p \in Procs, Append(p)
      PROVE  Goal
  BY <1>3, <1>a, <1>b DEF Append
<1>4. ASSUME NEW p \in Procs, Fsync(p)
      PROVE  Goal
  BY <1>4, <1>a, <1>b DEF Fsync
<1>5. ASSUME NEW p \in Procs, WriteTmp(p)
      PROVE  Goal
  BY <1>5, <1>a DEF WriteTmp
<1>6. ASSUME NEW p \in Procs, Rename(p)
      PROVE  Goal
  <2>1. tmp # NoFile /\ tmp.keys = log
    BY <1>6 DEF Rename, NoFile
  <2>2. QED
    BY <1>6, <2>1, <1>a DEF Rename
<1>7. ASSUME NEW p \in Procs, Release(p)
      PROVE  Goal
  BY <1>7, <1>a, <1>b DEF Release, Leave, Forget
<1>8. CASE LockAges
  BY <1>8 DEF LockAges, procVars
<1>9. CASE PowerLoss
  <2>1. replaced = {}
    BY <1>9, ConstantsAssumption DEF PowerLoss
  <2>2. /\ \A p \in Procs : pc'[p] = "dead" /\ outcome'[p] = "none"
        /\ log \ unsynced \subseteq log' /\ unsynced' = {}
        /\ accepts' = accepts /\ crashes' # crashes
    BY <1>9, <2>1 DEF PowerLoss
  <2>3. QED
    BY <2>2
<1>10. CASE UNCHANGED vars
  BY <1>10 DEF vars, fileVars, procVars
<1>11. QED
  BY <1>1, <1>2, <1>3, <1>4, <1>5, <1>6, <1>7, <1>8, <1>9, <1>10
     DEF Next, AcquireStep, CriticalStep

\* The strengthened invariant is inductive in the safe environment.
LEMMA InvariantStep ==
  ASSUME SafeEnvironment, IInv, [Next]_vars
  PROVE  IInv'
BY TypeStep, DeathStep, LockStep, SectionStep DEF IInv

\* The strengthened invariant holds of the empty log.
LEMMA InvariantInit ==
  ASSUME Init
  PROVE  IInv
<1>1. TypeOK /\ ClaimInv
  BY TypeInit
<1>2. QED
  BY <1>1 DEF IInv, Init, DeathInv, LockInv, TakeoverInv, SectionInv, AtMostOneAccept,
              AcceptIsDurable, InCritical, Critical
-------------------------------------------------------------------------------
(* Theorems *)

\* The strengthened invariant behind the theorems that follow.
THEOREM Invariance ==
  ASSUME SafeEnvironment
  PROVE  Spec => []IInv
<1>1. Init => IInv
  BY InvariantInit
<1>2. IInv /\ [Next]_vars => IInv'
  BY InvariantStep
<1>3. QED
  BY <1>1, <1>2, PTL DEF Spec

\* Any number of processes, however long they stall while they hold a recorded
\* lock, and whoever dies as SafeEnvironment allows: no two of them are ever in
\* the critical section together.
THEOREM MutualExclusionHolds ==
  ASSUME SafeEnvironment
  PROVE  Spec => []MutualExclusion
<1>1. IInv => MutualExclusion
  BY LockInvExcludes DEF IInv
<1>2. QED
  BY <1>1, Invariance, PTL

\* INV-04 for any number of processes, keys, repeated claims and compactions.
THEOREM AtMostOneAcceptHolds ==
  ASSUME SafeEnvironment
  PROVE  Spec => []AtMostOneAccept
<1>1. IInv => AtMostOneAccept
  BY DEF IInv
<1>2. QED
  BY <1>1, Invariance, PTL

\* INV-11: an accepted key is in the log and an fsync has covered it, so no
\* append, compaction, death or loss of power takes it away.
THEOREM AcceptIsDurableHolds ==
  ASSUME SafeEnvironment
  PROVE  Spec => []AcceptIsDurable
<1>1. IInv => AcceptIsDurable
  BY DEF IInv
<1>2. QED
  BY <1>1, Invariance, PTL

\* No append, compaction or death ever removes a claim from the log.
THEOREM ClaimsAreNeverDroppedHolds ==
  ASSUME SafeEnvironment
  PROVE  Spec => ClaimsAreNeverDropped
<1>1. IInv /\ [Next]_vars => [crashes' = crashes => log \subseteq log']_vars
  BY SectionStep
<1>2. QED
  BY <1>1, Invariance, PTL DEF Spec, ClaimsAreNeverDropped

\* INV-12 for any number of processes: only its own holder removes or replaces
\* the lockfile of a live process.
THEOREM LiveLockNeverStolenHolds ==
  ASSUME SafeEnvironment
  PROVE  Spec => LiveLockNeverStolen
<1> DEFINE Kept(p) == Holds(p) /\ pc[p] # "release" /\ pc'[p] # "dead"
                        => lock' # NoLock /\ lock'.owner = lock.owner
<1>1. ASSUME IInv, [Next]_vars, NEW p \in Procs
      PROVE  Kept(p)
  <2> SUFFICES ASSUME Holds(p), pc[p] # "release", pc'[p] # "dead", lock' # lock
               PROVE  lock' # NoLock /\ lock'.owner = lock.owner
    BY DEF Holds
  <2> USE <1>1 DEF Holds
  <2>1. lock # NoLock /\ MutualExclusion
    BY LockInvExcludes DEF IInv
  <2>2. ASSUME NEW q \in Procs, OpenExclusive(q) \/ TakeOver(q)
        PROVE  FALSE
    <3>1. CASE OpenExclusive(q)
      BY <2>1, <3>1 DEF OpenExclusive
    <3>2. CASE TakeOver(q)
      <4>1. pc[q] = "unlink" /\ crashes > 0
        BY <3>2 DEF TakeOver, IInv, TakeoverInv
      <4>2. pc[p] = "dead"
        BY <4>1 DEF IInv, DeathInv, InCritical, Critical
      <4>3. QED
        BY <4>2 DEF InCritical, Critical
    <3>3. QED
      BY <2>2, <3>1, <3>2
  <2>3. ASSUME NEW q \in Procs, Release(q)
        PROVE  FALSE
    BY <2>1, <2>3 DEF Release, MutualExclusion, InCritical, Critical
  <2>4. CASE PowerLoss
    BY <2>4 DEF PowerLoss
  <2>5. ASSUME NEW q \in Procs, RecordOwner(q)
        PROVE  lock' = [lock EXCEPT !.recorded = TRUE, !.stale = FALSE]
    BY <2>5 DEF RecordOwner
  <2>6. CASE LockAges
    <3>1. lock' = [lock EXCEPT !.stale = TRUE]
      BY <2>6 DEF LockAges
    <3>2. QED
      BY <2>1, <3>1 DEF IInv, TypeOK, LockFiles, NoLock
  <2>7. ASSUME NEW q \in Procs,
               \/ ReadOwner(q) \/ StatAndDecide(q) \/ Load(q) \/ Append(q) \/ Fsync(q)
               \/ WriteTmp(q) \/ Rename(q) \/ DeadlinePasses(q) \/ Crash(q) \/ Restart(q)
               \/ \E j \in Jobs : Start(q, j)
        PROVE  FALSE
    BY <2>7 DEF ReadOwner, StatAndDecide, Load, Append, Fsync, WriteTmp, Rename,
                DeadlinePasses, Crash, Restart, Start, fileVars
  <2>8. CASE \E q \in Procs : RecordOwner(q)
    <3>1. lock' = [lock EXCEPT !.recorded = TRUE, !.stale = FALSE]
      BY <2>5, <2>8
    <3>2. QED
      BY <2>1, <3>1 DEF IInv, TypeOK, LockFiles, NoLock
  <2>9. QED
    BY <2>2, <2>3, <2>4, <2>6, <2>7, <2>8 DEF Next, AcquireStep, CriticalStep, vars, fileVars
<1>2. IInv /\ [Next]_vars => [\A p \in Procs : Kept(p)]_vars
  BY <1>1
<1>3. QED
  BY <1>2, Invariance, PTL DEF Spec, LiveLockNeverStolen
-------------------------------------------------------------------------------
(* Refinement of NonceClaim *)

\* Between two calls a process has no job, and before the end of the try block
\* of an operation there is no outcome.
FreshInv ==
  \A p \in Procs : /\ pc[p] \in Idle => job[p] = NoJob
                   /\ pc[p] # "release" => outcome[p] = "none"

\* A process before its load remembers nothing and has no outcome yet.
LEMMA FreshStep ==
  ASSUME TypeOK, FreshInv, [Next]_vars
  PROVE  FreshInv'
<1> USE DEF TypeOK, FreshInv, Idle, Goto, fileVars, procVars
<1>1. ASSUME NEW p \in Procs, AcquireStep(p)
      PROVE  FreshInv'
  BY <1>1 DEF AcquireStep, OpenExclusive, RecordOwner, ReadOwner, StatAndDecide, TakeOver,
              Leave, Forget
<1>2. ASSUME NEW p \in Procs, CriticalStep(p)
      PROVE  FreshInv'
  BY <1>2 DEF CriticalStep, Load, Append, Fsync, WriteTmp, Rename, Release, Leave, Forget
<1>3. ASSUME NEW p \in Procs, DeadlinePasses(p) \/ Restart(p) \/ \E j \in Jobs : Start(p, j)
      PROVE  FreshInv'
  BY <1>3 DEF DeadlinePasses, Restart, Start
<1>4. ASSUME NEW p \in Procs, Crash(p)
      PROVE  FreshInv'
  BY <1>4 DEF Crash, Forget
<1>5. CASE LockAges \/ PowerLoss
  BY <1>5 DEF LockAges, PowerLoss
<1>6. CASE UNCHANGED vars
  BY <1>6 DEF vars
<1>7. QED
  BY <1>1, <1>2, <1>3, <1>4, <1>5, <1>6 DEF Next

\* Nothing comes back, hence no loss of power: deaths only.
PowerStays == Restarting = {}

Calls == [p \in Procs |-> CallOf(p)]

\* A step of p is seen from outside as a change of p's call only.
LEMMA OnlyOwnCall ==
  ASSUME NEW p \in Procs,
         \A q \in Procs \ {p} : /\ pc'[q] = pc[q] /\ job'[q] = job[q]
                               /\ outcome'[q] = outcome[q]
  PROVE  Calls' = [Calls EXCEPT ![p] = CallOf(p)']
<1>1. \A q \in Procs \ {p} : CallOf(q)' = CallOf(q)
  BY DEF CallOf
<1>2. QED
  BY <1>1 DEF Calls

\* Every step is seen as a step of NonceClaim or as nothing at all.
LEMMA RefinementStep ==
  ASSUME SafeEnvironment, PowerStays, IInv, FreshInv, [Next]_vars
  PROVE  [Abstract!Next]_<<log, Calls, accepts>>
<1> DEFINE Same == UNCHANGED <<log, Calls, accepts>>
<1> DEFINE Goal == Abstract!Next \/ Same
<1> DEFINE OthersSame(p) == \A q \in Procs \ {p} : /\ pc'[q] = pc[q] /\ job'[q] = job[q]
                                                  /\ outcome'[q] = outcome[q]
<1> USE DEF IInv, TypeOK, FreshInv, Idle, Goto
<1>a. ASSUME NEW p \in Procs, OthersSame(p)
      PROVE  Calls[p] = CallOf(p) /\ Calls' = [Calls EXCEPT ![p] = CallOf(p)']
  BY <1>a, OnlyOwnCall DEF Calls
<1>b. \A p \in Procs : [Calls EXCEPT ![p] = CallOf(p)] = Calls
  BY DEF Calls
<1>c. ASSUME NEW p \in Procs, OthersSame(p), UNCHANGED <<log, accepts>>,
             CallOf(p)' = CallOf(p) \/ CallOf(p)' = Abstract!NoCall
      PROVE  Goal
  <2>1. CASE CallOf(p)' = CallOf(p)
    BY <1>a, <1>b, <1>c, <2>1
  <2>2. CASE CallOf(p) # Abstract!NoCall /\ CallOf(p)' = Abstract!NoCall
    <3>1. Abstract!Throw(p)
      BY <1>a, <1>c, <2>2 DEF Abstract!Throw, Calls
    <3>2. QED
      BY <3>1 DEF Abstract!Next
  <2>3. QED
    BY <1>c, <2>1, <2>2
<1>d. \A p \in Procs : job[p].op = "claim" => job[p].key \in Keys
  BY DEF Jobs, ClaimJobs, NoJob
<1>1. ASSUME NEW p \in Procs, NEW j \in Jobs, Start(p, j)
      PROVE  Goal
  <2>1. OthersSame(p) /\ UNCHANGED <<log, accepts>>
    BY <1>1 DEF Start, fileVars
  <2>2. CallOf(p) = Abstract!NoCall
    BY <1>1 DEF Start, CallOf, NoJob, Abstract!NoCall
  <2>3. CASE j.op = "claim"
    <3>1. CallOf(p)' = Abstract!Pending(j.key) /\ j.key \in Keys
      BY <1>1, <2>3 DEF Start, CallOf, Abstract!Pending, Jobs, ClaimJobs
    <3>2. QED
      <4>1. Abstract!Invoke(p, j.key)
        BY <2>1, <2>2, <3>1, <1>a DEF Abstract!Invoke, Calls
      <4>2. QED
        BY <3>1, <4>1 DEF Abstract!Next
  <2>4. CASE j.op # "claim"
    <3>1. CallOf(p)' = Abstract!NoCall
      BY <1>1, <2>4 DEF Start, CallOf, Abstract!NoCall
    <3>2. QED
      BY <2>1, <3>1, <1>c
  <2>5. QED
    BY <2>3, <2>4
<1>2. ASSUME NEW p \in Procs,
             OpenExclusive(p) \/ RecordOwner(p) \/ ReadOwner(p) \/ TakeOver(p)
               \/ DeadlinePasses(p)
      PROVE  Goal
  <2>1. /\ OthersSame(p) /\ UNCHANGED <<log, accepts, job, outcome>>
        /\ pc[p] # "fsync" /\ pc'[p] # "fsync"
    BY <1>2 DEF OpenExclusive, RecordOwner, ReadOwner, TakeOver, DeadlinePasses, fileVars, Acquiring
  <2>2. CallOf(p)' = CallOf(p)
    BY <2>1 DEF CallOf
  <2>3. QED
    BY <2>1, <2>2, <1>c
<1>3. ASSUME NEW p \in Procs, StatAndDecide(p)
      PROVE  Goal
  <2>1. /\ OthersSame(p) /\ UNCHANGED <<log, accepts>>
        /\ pc[p] # "fsync" /\ pc'[p] # "fsync" /\ outcome'[p] = outcome[p]
        /\ job'[p] = job[p] \/ job'[p] = NoJob
    BY <1>3 DEF StatAndDecide, Leave, Forget, fileVars
  <2>2. CallOf(p)' = CallOf(p) \/ CallOf(p)' = Abstract!NoCall
    BY <2>1 DEF CallOf, Abstract!NoCall, NoJob
  <2>3. QED
    BY <2>1, <2>2, <1>c
<1>4. ASSUME NEW p \in Procs, Load(p)
      PROVE  Goal
  <2>1. OthersSame(p) /\ UNCHANGED <<log, accepts>>
    BY <1>4 DEF Load, fileVars
  <2>2. CASE outcome'[p] = "lost"
    <3>1. /\ job[p].op = "claim" /\ job[p].key \in log
          /\ outcome[p] = "none" /\ pc[p] = "load" /\ pc'[p] = "release" /\ job'[p] = job[p]
      BY <1>4, <2>2 DEF Load
    <3>2. /\ CallOf(p) = Abstract!Pending(job[p].key)
          /\ CallOf(p)' = Abstract!Decided(job[p].key, FALSE)
      BY <2>2, <3>1 DEF CallOf, Abstract!Pending, Abstract!Decided
    <3>3. QED
      <4>1. Abstract!Lose(p, job[p].key)
        BY <1>a, <2>1, <3>1, <3>2 DEF Abstract!Lose, Calls
      <4>2. QED
        BY <1>d, <3>1, <4>1 DEF Abstract!Next
  <2>3. CASE outcome'[p] # "lost"
    <3>1. /\ outcome'[p] = outcome[p] \/ outcome'[p] = "threw" 
          /\ pc[p] = "load" /\ pc'[p] # "fsync" /\ job'[p] = job[p]
      BY <1>4, <2>3 DEF Load
    <3>2. CallOf(p)' = CallOf(p) \/ CallOf(p)' = Abstract!NoCall
      BY <3>1 DEF CallOf, Abstract!NoCall
    <3>3. QED
      BY <2>1, <3>2, <1>c
  <2>4. QED
    BY <2>2, <2>3
<1>5. ASSUME NEW p \in Procs, Append(p)
      PROVE  Goal
  <2>1. /\ OthersSame(p) /\ UNCHANGED accepts /\ log' = log \union {job[p].key}
        /\ pc[p] = "append" /\ pc'[p] = "fsync" /\ job'[p] = job[p] /\ outcome'[p] = outcome[p]
    BY <1>5 DEF Append, DeathInv
  <2>2. outcome[p] = "none" /\ job[p].op = "claim" /\ job[p].key \in Keys \ log
    BY <2>1 DEF ClaimInv, ClaimJobs, SectionInv
  <2>3. /\ CallOf(p) = Abstract!Pending(job[p].key)
        /\ CallOf(p)' = Abstract!Decided(job[p].key, TRUE)
    BY <2>1, <2>2 DEF CallOf, Abstract!Pending, Abstract!Decided
  <2>4. QED
    <3>1. Abstract!Win(p, job[p].key)
      BY <1>a, <2>1, <2>2, <2>3 DEF Abstract!Win, Calls
    <3>2. QED
      BY <2>2, <3>1 DEF Abstract!Next
<1>6. ASSUME NEW p \in Procs, Fsync(p)
      PROVE  Goal
  <2>1. /\ OthersSame(p) /\ UNCHANGED <<log, accepts>>
        /\ pc[p] = "fsync" /\ pc'[p] = "release" /\ job'[p] = job[p]
        /\ outcome'[p] = "won" \/ outcome'[p] = "threw"
    BY <1>6 DEF Fsync
  <2>2. outcome[p] = "none" /\ job[p].op = "claim"
    BY <2>1 DEF ClaimInv, ClaimJobs
  <2>3. CallOf(p)' = CallOf(p) \/ CallOf(p)' = Abstract!NoCall
    BY <2>1, <2>2 DEF CallOf, Abstract!NoCall
  <2>4. QED
    BY <2>1, <2>3, <1>c
<1>7. ASSUME NEW p \in Procs, WriteTmp(p)
      PROVE  Goal
  <2>1. /\ OthersSame(p) /\ UNCHANGED <<log, accepts, job, outcome>>
        /\ pc[p] # "fsync" /\ pc'[p] # "fsync"
    BY <1>7 DEF WriteTmp
  <2>2. CallOf(p)' = CallOf(p)
    BY <2>1 DEF CallOf
  <2>3. QED
    BY <2>1, <2>2, <1>c
<1>8. ASSUME NEW p \in Procs, Rename(p)
      PROVE  Goal
  <2>1. tmp # NoFile /\ tmp.keys = log
    BY <1>8 DEF Rename, NoFile, SectionInv
  <2>2. /\ OthersSame(p) /\ UNCHANGED <<log, accepts>>
        /\ pc[p] # "fsync" /\ pc'[p] # "fsync" /\ job'[p] = job[p]
        /\ outcome[p] = "none" /\ outcome'[p] = "compacted"
    BY <1>8, <2>1 DEF Rename
  <2>3. CallOf(p)' = CallOf(p)
    BY <2>2 DEF CallOf
  <2>4. QED
    BY <2>2, <2>3, <1>c
<1>9. ASSUME NEW p \in Procs, Release(p)
      PROVE  Goal
  <2>1. lock # NoLock
    BY <1>9 DEF Release, LockInv, InCritical, Critical
  <2>2. /\ OthersSame(p) /\ UNCHANGED log
        /\ accepts' = IF outcome[p] = "won" THEN [accepts EXCEPT ![job[p].key] = @ + 1] ELSE accepts
        /\ pc[p] = "release" /\ job'[p] = NoJob
    BY <1>9, <2>1 DEF Release, Leave, Forget
  <2>3. CallOf(p)' = Abstract!NoCall
    BY <2>2 DEF CallOf, NoJob, Abstract!NoCall
  <2>4. CASE job[p].op = "claim" /\ outcome[p] \in {"won", "lost"}
    <3>1. CallOf(p) = Abstract!Decided(job[p].key, outcome[p] = "won")
      BY <2>2, <2>4 DEF CallOf, Abstract!Decided
    <3>2. Abstract!Return(p, job[p].key)
      BY <1>a, <2>2, <2>3, <2>4, <3>1 DEF Abstract!Return, Calls
    <3>3. QED
      BY <1>d, <2>4, <3>2 DEF Abstract!Next
  <2>5. CASE ~(job[p].op = "claim" /\ outcome[p] \in {"won", "lost"})
    <3>1. outcome[p] # "won"
      BY <2>5 DEF ClaimInv, ClaimJobs
    <3>2. QED
      BY <2>2, <2>3, <3>1, <1>c
  <2>6. QED
    BY <2>4, <2>5
<1>10. ASSUME NEW p \in Procs, Crash(p)
       PROVE  Goal
  <2>1. OthersSame(p) /\ UNCHANGED <<log, accepts>> /\ job'[p] = NoJob
    BY <1>10 DEF Crash, Forget
  <2>2. CallOf(p)' = Abstract!NoCall
    BY <2>1 DEF CallOf, NoJob, Abstract!NoCall
  <2>3. QED
    BY <2>1, <2>2, <1>c
<1>11. ASSUME PowerLoss \/ \E p \in Procs : Restart(p)
       PROVE  FALSE
  BY <1>11 DEF PowerLoss, Restart, PowerStays
<1>12. CASE LockAges \/ UNCHANGED vars
  <2>1. UNCHANGED <<log, accepts, pc, job, outcome>>
    BY <1>12 DEF LockAges, vars, fileVars, procVars
  <2>2. QED
    BY <2>1 DEF Calls, CallOf
<1>13. QED
  BY <1>1, <1>2, <1>3, <1>4, <1>5, <1>6, <1>7, <1>8, <1>9, <1>10, <1>11, <1>12
     DEF Next, AcquireStep, CriticalStep

\* FileNonceStore is an atomic claim-or-fail object for any number of callers, a
\* caller that dies included: its call is withdrawn, the key it burned stays so.
\* (A loss of power may take back a burned key no fsync has covered, which the
\* abstract object never does.)
THEOREM RefinesNonceClaim ==
  ASSUME SafeEnvironment, PowerStays
  PROVE  Spec => ImplementsNonceClaim
<1>1. Init => FreshInv /\ Abstract!Init
  BY DEF Init, FreshInv, Abstract!Init, Abstract!NoCall, CallOf, NoJob
<1>2. TypeOK /\ FreshInv /\ [Next]_vars => FreshInv'
  BY FreshStep
<1>3. IInv /\ FreshInv /\ [Next]_vars => [Abstract!Next]_(Abstract!vars)
  BY RefinementStep DEF Abstract!vars, Calls
<1>4. QED
  BY <1>1, <1>2, <1>3, TypeCorrect, Invariance, PTL DEF Spec, ImplementsNonceClaim, Abstract!Spec
===============================================================================
