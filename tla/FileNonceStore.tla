---------------------------- MODULE FileNonceStore ----------------------------
(***************************************************************************)
(* src/src/nonces.js, class FileNonceStore: a replay log shared by         *)
(* processes through one file and one O_EXCL lockfile.  Every operation is *)
(* split at its system calls, because other processes run between them:    *)
(*                                                                         *)
(*   open(wx) -> write owner -> [ load -> append -> fsync            ]     *)
(*      |                       [ load -> write tmp -> rename        ]     *)
(*      +- EEXIST -> read owner -> stat -> unlink / wait     -> unlink     *)
(*                                                                         *)
(* The log is the set of keys a reader of the file would load; `torn' says *)
(* that the file ends in bytes without a newline.  Time is abstracted to   *)
(* two facts: a lockfile is older than staleLockMs, and a caller is past   *)
(* its lockTimeoutMs deadline.                                             *)
(***************************************************************************)
EXTENDS Naturals, FiniteSets

CONSTANTS
  Procs,       \* OS processes that opened the same log
  Keys,        \* nonce keys a caller may claim
  Malformed,   \* the keys among them that fail NONCE_KEY_PATTERN
  Host,        \* Host[p]: the hostname p records and compares
  Crashing,    \* processes that may die on their own
  Restarting,  \* processes that are started again after a death
  MaxCrashes,  \* bound on deaths and power losses
  Stalls,      \* where a live process may outlast staleLockMs, see LockAges
  Faults       \* I/O faults that may happen, a subset of FaultKinds

StallKinds == {"unrecorded", "recorded", "inspecting"}
FaultKinds == {"torn_write", "record_fails", "fsync_fails", "rename_lost"}

ASSUME ConstantsAssumption ==
  /\ Malformed \subseteq Keys
  /\ Crashing \subseteq Procs
  /\ Restarting \subseteq Procs
  /\ MaxCrashes \in Nat
  /\ Stalls \subseteq StallKinds
  /\ Faults \subseteq FaultKinds

VARIABLES
  lock,      \* the lockfile: NoLock, or who created it and what it shows
  log,       \* keys that a reader of the log file would load
  torn,      \* the log file ends in an unterminated line
  unsynced,  \* keys of the log that no fsync has covered yet
  tmp,       \* `${filePath}.tmp`: NoFile, or the set of keys in it
  replaced,  \* logs that a compaction replaced and a loss of power may bring back
  pc,        \* pc[p]: the next system call of p
  job,       \* job[p]: the operation p is in
  seen,      \* seen[p]: this.seen, as of the load under the lock
  observed,  \* observed[p]: what _readLockOwner returned
  late,      \* late[p]: the deadline of _acquireLock has passed
  outcome,   \* outcome[p]: what the try block of the operation produced
  epoch,     \* epoch[p]: how often p was restarted; p's pid changes with it
  accepts,   \* accepts[k]: how many claimIfAbsent calls returned true for k
  crashes    \* deaths and power losses so far

fileVars == <<lock, log, torn, unsynced, tmp, replaced>>
procVars == <<pc, job, seen, observed, late, outcome>>
vars == <<fileVars, procVars, epoch, accepts, crashes>>

NoLock == [kind |-> "absent"]
NoFile == [kind |-> "absent"]
Anonymous == [kind |-> "anonymous"]

Pid(p) == [kind |-> "pid", proc |-> p, epoch |-> epoch[p]]
\* A lockfile; `owner' is the creator, which readers see once it is recorded.
LockFile(p) == [kind |-> "lock", owner |-> Pid(p), recorded |-> FALSE, stale |-> FALSE]

ClaimJobs == [op : {"claim"}, key : Keys]
Jobs == ClaimJobs \union [op : {"compact"}]
NoJob == [op |-> "none"]

Acquiring == {"open", "readOwner", "stat", "unlink"}
Critical == {"record", "load", "append", "fsync", "writeTmp", "rename", "release"}
Idle == {"idle", "dead"}

InCritical(p) == pc[p] \in Critical
Holds(p) == InCritical(p) /\ lock # NoLock /\ lock.owner = Pid(p)
\* Mutants: EPERM is taken for ESRCH; the liveness of an owner is not checked.
PidAlive_alwaysDead(pid) == FALSE
PidAlive_alwaysAlive(pid) == TRUE

PidAlive(pid) == pc[pid.proc] # "dead" /\ epoch[pid.proc] = pid.epoch

Init ==
  /\ lock = NoLock
  /\ log = {} /\ torn = FALSE /\ unsynced = {} /\ tmp = NoFile /\ replaced = {}
  /\ pc = [p \in Procs |-> "idle"]
  /\ job = [p \in Procs |-> NoJob]
  /\ seen = [p \in Procs |-> {}]
  /\ observed = [p \in Procs |-> Anonymous]
  /\ late = [p \in Procs |-> FALSE]
  /\ outcome = [p \in Procs |-> "none"]
  /\ epoch = [p \in Procs |-> 0]
  /\ accepts = [k \in Keys |-> 0]
  /\ crashes = 0

Goto(p, label) == pc' = [pc EXCEPT ![p] = label]

\* The locals of p's call are gone, because it returned, threw or died.
Forget(p) ==
  /\ job' = [job EXCEPT ![p] = NoJob]
  /\ seen' = [seen EXCEPT ![p] = {}]
  /\ observed' = [observed EXCEPT ![p] = Anonymous]
  /\ late' = [late EXCEPT ![p] = FALSE]
  /\ outcome' = [outcome EXCEPT ![p] = "none"]

Leave(p) == Goto(p, "idle") /\ Forget(p)
-------------------------------------------------------------------------------
(* _acquireLock *)

Start(p, j) ==
  /\ pc[p] = "idle"
  /\ Goto(p, "open")
  /\ job' = [job EXCEPT ![p] = j]
  /\ UNCHANGED <<fileVars, seen, observed, late, outcome, epoch, accepts, crashes>>

\* Mutant: the lockfile is opened with 'w'.
OpenExclusive_notExclusive(p) ==
  /\ pc[p] = "open"
  /\ lock' = LockFile(p) /\ Goto(p, "record")
  /\ UNCHANGED <<log, torn, unsynced, tmp, replaced, job, seen, observed, late, outcome,
                 epoch, accepts, crashes>>

OpenExclusive(p) ==
  /\ pc[p] = "open"
  /\ IF lock = NoLock
       THEN lock' = LockFile(p) /\ Goto(p, "record")
       ELSE lock' = lock /\ Goto(p, "readOwner")
  /\ UNCHANGED <<log, torn, unsynced, tmp, replaced, job, seen, observed, late, outcome,
                 epoch, accepts, crashes>>

\* The record goes to the open descriptor, so it reaches the lockfile only if
\* the path still names the file p created; writing it renews the mtime.  A
\* failed write is swallowed and leaves an anonymous lock.
RecordOwner(p) ==
  /\ pc[p] = "record"
  /\ \/ lock' = IF Holds(p) THEN [lock EXCEPT !.recorded = TRUE, !.stale = FALSE] ELSE lock
     \/ "record_fails" \in Faults /\ lock' = lock
  /\ Goto(p, "load")
  /\ UNCHANGED <<log, torn, unsynced, tmp, replaced, job, seen, observed, late, outcome,
                 epoch, accepts, crashes>>

\* Mutant: a vanished lockfile is not mapped to null.
ReadOwner_rawAbsent(p) ==
  /\ pc[p] = "readOwner"
  /\ observed' = [observed EXCEPT ![p] = IF lock # NoLock THEN lock.owner ELSE NoLock]
  /\ Goto(p, "stat")
  /\ UNCHANGED <<fileVars, job, seen, late, outcome, epoch, accepts, crashes>>

\* An absent, empty or unparseable lockfile reads as null.
ReadOwner(p) ==
  /\ pc[p] = "readOwner"
  /\ observed' = [observed EXCEPT ![p] =
       IF lock # NoLock /\ lock.recorded THEN lock.owner ELSE Anonymous]
  /\ Goto(p, "stat")
  /\ UNCHANGED <<fileVars, job, seen, late, outcome, epoch, accepts, crashes>>

\* Mutant: takeover by age alone, as before v0.15.
KnownAlive_ageOnly(p) == FALSE

\* Whom _acquireLock never takes over: an owner on this host whose pid answers
\* signal 0.
KnownAlive(p) ==
  /\ observed[p] # Anonymous
  /\ Host[observed[p].proc] = Host[p]
  /\ PidAlive(observed[p])

\* Mutant: the wait for a live owner does not look at the deadline.
StatAndDecide_noDeadline(p) ==
  /\ pc[p] = "stat"
  /\ \/ lock = NoLock /\ Goto(p, "open")
     \/ lock # NoLock /\ lock.stale /\ ~KnownAlive(p) /\ Goto(p, "unlink")
     \/ lock # NoLock /\ (KnownAlive(p) \/ ~lock.stale) /\ Goto(p, "open")
  /\ UNCHANGED <<fileVars, job, seen, observed, late, outcome, epoch, accepts, crashes>>

\* statSync and the decision that follows it: retry if the lock vanished, take
\* over if it is stale and not known to be alive, otherwise wait or give up.
StatAndDecide(p) ==
  /\ pc[p] = "stat"
  /\ \/ /\ lock = NoLock
        /\ Goto(p, "open")
        /\ UNCHANGED <<job, seen, observed, late, outcome>>
     \/ /\ lock # NoLock /\ lock.stale /\ ~KnownAlive(p)
        /\ Goto(p, "unlink")
        /\ UNCHANGED <<job, seen, observed, late, outcome>>
     \/ /\ lock # NoLock /\ (KnownAlive(p) \/ ~lock.stale)
        /\ ~late[p]
        /\ Goto(p, "open")
        /\ UNCHANGED <<job, seen, observed, late, outcome>>
     \/ /\ lock # NoLock /\ (KnownAlive(p) \/ ~lock.stale)
        /\ late[p]
        /\ Leave(p)
  /\ UNCHANGED <<fileVars, epoch, accepts, crashes>>

\* unlinkSync of whatever the path names by now; ENOENT is swallowed.
TakeOver(p) ==
  /\ pc[p] = "unlink"
  /\ lock' = NoLock
  /\ Goto(p, "open")
  /\ UNCHANGED <<log, torn, unsynced, tmp, replaced, job, seen, observed, late, outcome,
                 epoch, accepts, crashes>>
-------------------------------------------------------------------------------
(* claimIfAbsent and compact, under the lock *)

\* Mutant: this.seen is trusted instead of being rebuilt from the log.
Load_cached(p) ==
  /\ pc[p] = "load"
  /\ IF job[p].op = "compact"
       THEN Goto(p, "writeTmp") /\ UNCHANGED outcome
       ELSE IF job[p].key \in seen[p]
              THEN Goto(p, "release") /\ outcome' = [outcome EXCEPT ![p] = "lost"]
              ELSE Goto(p, "append") /\ UNCHANGED outcome
  /\ UNCHANGED <<fileVars, job, seen, observed, late, epoch, accepts, crashes>>

\* _load, then the checks that need no further system call.
Load(p) ==
  /\ pc[p] = "load"
  /\ seen' = [seen EXCEPT ![p] = log]
  /\ \/ /\ job[p].op = "compact"
        /\ Goto(p, "writeTmp")
        /\ UNCHANGED outcome
     \/ /\ job[p].op = "claim" /\ job[p].key \in Malformed
        /\ Goto(p, "release")
        /\ outcome' = [outcome EXCEPT ![p] = "threw"]
     \/ /\ job[p].op = "claim" /\ job[p].key \notin Malformed /\ job[p].key \in log
        /\ Goto(p, "release")
        /\ outcome' = [outcome EXCEPT ![p] = "lost"]
     \/ /\ job[p].op = "claim" /\ job[p].key \notin Malformed /\ job[p].key \notin log
        /\ Goto(p, "append")
        /\ UNCHANGED outcome
  /\ UNCHANGED <<fileVars, job, observed, late, epoch, accepts, crashes>>

\* key + '\n' at the end of the file.  After an unterminated line the two
\* become one line, which is not the line of `key'.
Append(p) ==
  /\ pc[p] = "append"
  /\ IF torn
       THEN UNCHANGED <<log, unsynced>>
       ELSE /\ log' = log \union {job[p].key}
            /\ unsynced' = unsynced \union {job[p].key}
  /\ torn' = FALSE
  /\ Goto(p, "fsync")
  /\ UNCHANGED <<lock, tmp, replaced, job, seen, observed, late, outcome, epoch, accepts, crashes>>

\* Mutants: the fsync is left out; its failure is reported as `false'.
Fsync_leftOut(p) ==
  /\ pc[p] = "fsync"
  /\ outcome' = [outcome EXCEPT ![p] = "won"]
  /\ seen' = [seen EXCEPT ![p] = @ \union {job[p].key}]
  /\ Goto(p, "release")
  /\ UNCHANGED <<lock, log, torn, unsynced, tmp, replaced, job, observed, late, epoch, accepts, crashes>>

Fsync_failureIsFalse(p) ==
  /\ pc[p] = "fsync"
  /\ \/ unsynced' = {} /\ outcome' = [outcome EXCEPT ![p] = "won"]
     \/ "fsync_fails" \in Faults /\ outcome' = [outcome EXCEPT ![p] = "lost"] /\ UNCHANGED unsynced
  /\ Goto(p, "release")
  /\ UNCHANGED <<lock, log, torn, tmp, replaced, job, seen, observed, late, epoch, accepts, crashes>>

Fsync(p) ==
  /\ pc[p] = "fsync"
  /\ \/ /\ unsynced' = {}
        /\ outcome' = [outcome EXCEPT ![p] = "won"]
        /\ seen' = [seen EXCEPT ![p] = @ \union {job[p].key}]
     \/ /\ "fsync_fails" \in Faults
        /\ outcome' = [outcome EXCEPT ![p] = "threw"]
        /\ UNCHANGED <<unsynced, seen>>
  /\ Goto(p, "release")
  /\ UNCHANGED <<lock, log, torn, tmp, replaced, job, observed, late, epoch, accepts, crashes>>

\* compact: the temporary file is written and fsynced ...
WriteTmp(p) ==
  /\ pc[p] = "writeTmp"
  /\ tmp' = [kind |-> "file", keys |-> seen[p]]
  /\ Goto(p, "rename")
  /\ UNCHANGED <<lock, log, torn, unsynced, replaced, job, seen, observed, late, outcome,
                 epoch, accepts, crashes>>

\* What a disk may hold of the log that a rename replaces.
OldLogs == {[keys |-> log \ gone, torn |-> torn] : gone \in SUBSET unsynced}

\* ... and replaces the log.  Nobody fsyncs the directory: with rename_lost the
\* path may still name the old file after a loss of power.
Rename(p) ==
  /\ pc[p] = "rename"
  /\ IF tmp = NoFile
       THEN /\ outcome' = [outcome EXCEPT ![p] = "threw"]
            /\ UNCHANGED <<log, torn, unsynced, tmp, replaced>>
       ELSE /\ outcome' = [outcome EXCEPT ![p] = "compacted"]
            /\ log' = tmp.keys /\ torn' = FALSE /\ unsynced' = {} /\ tmp' = NoFile
            /\ replaced' = IF "rename_lost" \in Faults THEN replaced \union OldLogs ELSE replaced
  /\ Goto(p, "release")
  /\ UNCHANGED <<lock, job, seen, observed, late, epoch, accepts, crashes>>

\* _releaseLock unlinks the path, whoever's lock it names; ENOENT escapes from
\* the finally block and replaces the operation's result.
Release(p) ==
  /\ pc[p] = "release"
  /\ lock' = NoLock
  /\ accepts' = IF outcome[p] = "won" /\ lock # NoLock
                  THEN [accepts EXCEPT ![job[p].key] = @ + 1] ELSE accepts
  /\ Leave(p)
  /\ UNCHANGED <<log, torn, unsynced, tmp, replaced, epoch, crashes>>
-------------------------------------------------------------------------------
(* The environment: time, death, power loss *)

\* The lockfile grows older than staleLockMs.  A lock nobody alive holds does;
\* under a live holder it takes a stall, before or after the owner record is
\* written; and it takes one more for it to happen while a contender stands
\* between its _readLockOwner and its statSync.
LockAges ==
  /\ lock # NoLock /\ ~lock.stale
  /\ (\E p \in Procs : Holds(p)) =>
       IF lock.recorded THEN "recorded" \in Stalls ELSE "unrecorded" \in Stalls
  /\ (\E p \in Procs : pc[p] = "stat") => "inspecting" \in Stalls
  /\ lock' = [lock EXCEPT !.stale = TRUE]
  /\ UNCHANGED <<log, torn, unsynced, tmp, replaced, procVars, epoch, accepts, crashes>>

DeadlinePasses(p) ==
  /\ pc[p] \in Acquiring /\ ~late[p]
  /\ late' = [late EXCEPT ![p] = TRUE]
  /\ UNCHANGED <<fileVars, pc, job, seen, observed, outcome, epoch, accepts, crashes>>

\* Process death loses the process's memory and nothing else: what it wrote
\* stays in the file, the lockfile stays on disk.  A torn_write is the death of
\* a process part-way through its append.
Crash(p) ==
  /\ p \in Crashing /\ pc[p] # "dead" /\ crashes < MaxCrashes
  /\ crashes' = crashes + 1
  /\ Goto(p, "dead") /\ Forget(p)
  /\ \/ UNCHANGED torn
     \/ "torn_write" \in Faults /\ pc[p] = "append" /\ torn' = TRUE
  /\ UNCHANGED <<lock, log, unsynced, tmp, replaced, epoch, accepts>>

\* Power loss kills every process.  Of what no fsync covered, any part may be
\* gone; so may the lockfile, its record, and the temporary file; and a log that
\* a compaction replaced may be back.
PowerLoss ==
  /\ Restarting # {} /\ crashes < MaxCrashes
  /\ crashes' = crashes + 1
  /\ pc' = [p \in Procs |-> "dead"]
  /\ job' = [p \in Procs |-> NoJob]
  /\ seen' = [p \in Procs |-> {}]
  /\ observed' = [p \in Procs |-> Anonymous]
  /\ late' = [p \in Procs |-> FALSE]
  /\ outcome' = [p \in Procs |-> "none"]
  /\ \/ \E lost \in SUBSET unsynced :
          /\ log' = log \ lost
          /\ \/ torn' = torn
             \/ "torn_write" \in Faults /\ lost # {} /\ torn' = TRUE
     \/ \E old \in replaced : log' = old.keys /\ torn' = old.torn
  /\ unsynced' = {} /\ replaced' = {}
  /\ \/ lock' = NoLock
     \/ lock # NoLock /\ \E r \in {FALSE, lock.recorded} : lock' = [lock EXCEPT !.recorded = r]
  /\ tmp' \in {tmp, NoFile}
  /\ UNCHANGED <<epoch, accepts>>

\* A new process, with a pid of its own, on the files the old one left.
Restart(p) ==
  /\ p \in Restarting /\ pc[p] = "dead"
  /\ Goto(p, "idle")
  /\ epoch' = [epoch EXCEPT ![p] = @ + 1]
  /\ UNCHANGED <<fileVars, job, seen, observed, late, outcome, accepts, crashes>>

AcquireStep(p) ==
  \/ OpenExclusive(p) \/ RecordOwner(p)
  \/ ReadOwner(p) \/ StatAndDecide(p) \/ TakeOver(p)

CriticalStep(p) ==
  Load(p) \/ Append(p) \/ Fsync(p) \/ WriteTmp(p) \/ Rename(p) \/ Release(p)

Next ==
  \/ \E p \in Procs : AcquireStep(p) \/ CriticalStep(p)
  \/ \E p \in Procs : DeadlinePasses(p) \/ Crash(p) \/ Restart(p)
  \/ \E p \in Procs, j \in Jobs : Start(p, j)
  \/ LockAges \/ PowerLoss

Spec == Init /\ [][Next]_vars

\* A process that is trying to acquire keeps trying and clocks keep ticking.
\* Nothing makes a caller call, a dead process come back or, in particular, a
\* holder finish: it may be wedged in its load, write or fsync for ever.  SF
\* for LockAges: a file's age grows whatever the contenders are doing.
Fairness ==
  /\ \A p \in Procs : WF_vars(AcquireStep(p)) /\ WF_vars(DeadlinePasses(p))
  /\ SF_vars(LockAges)

FairSpec == Spec /\ Fairness
-------------------------------------------------------------------------------
(* Properties *)

Pids == [kind : {"pid"}, proc : Procs, epoch : Nat]
LockFiles == [kind : {"lock"}, owner : Pids, recorded : BOOLEAN, stale : BOOLEAN]
Files == [kind : {"file"}, keys : SUBSET Keys]
Outcomes == {"none", "won", "lost", "threw", "compacted"}
Labels == Acquiring \union Critical \union Idle

\* The values each variable may take.
TypeOK ==
  /\ lock \in LockFiles \union {NoLock}
  /\ log \subseteq Keys /\ unsynced \subseteq log /\ torn \in BOOLEAN
  /\ tmp \in Files \union {NoFile}
  /\ replaced \subseteq [keys : SUBSET Keys, torn : BOOLEAN]
  /\ pc \in [Procs -> Labels]
  /\ job \in [Procs -> Jobs \union {NoJob}]
  /\ seen \in [Procs -> SUBSET Keys]
  /\ observed \in [Procs -> Pids \union {Anonymous}]
  /\ late \in [Procs -> BOOLEAN]
  /\ outcome \in [Procs -> Outcomes]
  /\ epoch \in [Procs -> Nat]
  /\ accepts \in [Keys -> Nat]
  /\ crashes \in Nat

\* At most one process is between a successful open(wx) and its unlink
\* (nonces.js:128-206), through every interleaving of takeovers, waits,
\* deadlines, swallowed errors and releases.
MutualExclusion ==
  \A p, q \in Procs : InCritical(p) /\ InCritical(q) => p = q

\* INV-04: however many processes race for a key, over however many repeated
\* calls and compactions, at most one claimIfAbsent ever returns true for it.
AtMostOneAccept == \A k \in Keys : accepts[k] <= 1

\* INV-12: the lockfile of a live holder disappears or changes hands in no
\* step but the holder's own release (or its death, which leaves it behind).
LiveLockNeverStolen ==
  [][\A p \in Procs :
       Holds(p) /\ pc[p] # "release" /\ pc'[p] # "dead"
         => lock' # NoLock /\ lock'.owner = lock.owner]_vars

\* INV-11: once a claim has returned true its key is on stable storage and
\* stays there, through later appends, compactions, deaths and power losses.
AcceptIsDurable == \A k \in Keys : accepts[k] > 0 => k \in log /\ k \notin unsynced

\* compact() and every append preserve the claims a reader can load: while no
\* power is lost, a key that is in the log never leaves it.
ClaimsAreNeverDropped == [][crashes' = crashes => log \subseteq log']_vars

\* A caller is never stuck in _acquireLock, be the holder dead, wedged or
\* just slow: it gets the lock, takes it over or throws at its deadline.  (While
\* other callers keep coming, each may lose every race for a vanished lock, a
\* path of the loop that does not look at the deadline: hence the premise.)
AcquisitionEnds ==
  <>[][\A p \in Procs, j \in Jobs : ~Start(p, j)]_vars
    => \A p \in Procs : (pc[p] \in Acquiring) ~> (pc[p] \notin Acquiring)

\* The lockfile of a dead process does not block its peers for ever: if they
\* keep trying to acquire, somebody takes it over after the stale window.
Orphaned == lock # NoLock /\ \A p \in Procs : ~Holds(p)
OrphanIsReclaimed == []<>(\E p \in Procs : pc[p] \in Acquiring) => []<>~Orphaned
-------------------------------------------------------------------------------
(* Refinement: calls of claimIfAbsent seen from outside *)

CallOf(p) ==
  IF job[p].op # "claim" \/ outcome[p] = "threw" THEN [phase |-> "none"]
  ELSE IF pc[p] = "fsync" THEN [phase |-> "decided", key |-> job[p].key, won |-> TRUE]
  ELSE IF outcome[p] \in {"won", "lost"}
         THEN [phase |-> "decided", key |-> job[p].key, won |-> outcome[p] = "won"]
  ELSE [phase |-> "pending", key |-> job[p].key]

\* The append is the linearization point of a claim that wins, the load that
\* of one that loses.
Abstract == INSTANCE NonceClaim
  WITH burned <- log, call <- [p \in Procs |-> CallOf(p)]

\* The store behaves like one atomic claim-or-fail object.
ImplementsNonceClaim == Abstract!Spec
===============================================================================
