-------------------------- MODULE PepVerifier_proofs --------------------------
(***************************************************************************)
(* INV-04, and what may burn a nonce, for every set of verifiers and       *)
(* events and for every window, clock error, store latency and TTL; and    *)
(* the registry file under any number of commands, keys and users.         *)
(*                                                                         *)
(* The argument for the verifiers: the claim of an event is won no earlier *)
(* than ts - W - Skew, so it is remembered until ts - W - Skew + TTL at    *)
(* least, while the last instant at which a store decides a claim is       *)
(* ts + W + Skew + Delay.                                                  *)
(*                                                                         *)
(* The argument for the file: a command's copy is right about every key,   *)
(* save those that were already in doubt and those that somebody has       *)
(* changed in the file since the copy was read, which the command itself   *)
(* puts in doubt when it writes.                                           *)
(***************************************************************************)
EXTENDS PepVerifier, TLAPS

-------------------------------------------------------------------------------
(* The registry file *)

Agrees(r, k) == k \in usable <=> r.keys[k] = "active"

\* What a command is about to write says of the keys it is about what the command
\* was asked for.
CommandDone(c) ==
  \A k \in edit[c].about : edit[c].adds <=> edit[c].registry.keys[k] = "active"

\* The copy in a command's memory, before and after the command has changed it.
CopyInv ==
  \A c \in Commands :
    /\ edit[c].step = "loaded" =>
         \A k \in SigningKeys \ (doubtful \union edit[c].missed) : Agrees(edit[c].registry, k)
    /\ edit[c].step = "writing" =>
         /\ CommandDone(c)
         /\ \A k \in SigningKeys \ (doubtful \union edit[c].missed \union edit[c].about) :
              Agrees(edit[c].registry, k)

FileInv == FileTypeOK /\ RegistryRemembers /\ CopyInv
-------------------------------------------------------------------------------
\* The registry operations map registries to registries.
LEMMA RegistryApps ==
  ASSUME NEW r \in Registries, NEW a \in Apps
  PROVE  registerApp(r, a) \in Registries
BY DEF registerApp, Registries

\* registerKey and revokeKey yield registries.
LEMMA RegistryKeys ==
  ASSUME NEW r \in Registries, NEW a \in Apps, NEW id \in KeyIds
  PROVE  registerKey(r, a, id) \in Registries /\ revokeKey(r, a, id) \in Registries
<1>1. <<a, id>> \in Apps \X KeyIds
  OBVIOUS
<1> QED BY <1>1 DEF registerKey, revokeKey, Registries, KeyStatuses

\* markEligible yields a registry.
LEMMA RegistryUsers ==
  ASSUME NEW r \in Registries, NEW u \in Uids, NEW granted \in BOOLEAN
  PROVE  markEligible(r, u, granted) \in Registries
BY DEF markEligible, Registries

\* A registry command keeps the file and its own copy in their types.
LEMMA FileTypeStep ==
  ASSUME FileTypeOK, NEW c \in Commands, Command(c)
  PROVE  FileTypeOK'
<1> USE DEF FileTypeOK
<1>1. NoEdit("done") \in Edits
  BY DEF NoEdit, Edits, Steps, createRegistry, Registries, KeyStatuses
<1>2. ASSUME NEW r \in Registries, NEW about \in SUBSET SigningKeys, NEW adds \in BOOLEAN,
             Truncate(c, r, about, adds)
      PROVE  FileTypeOK'
  <2>1. [edit[c] EXCEPT !.step = "writing", !.registry = r, !.about = about, !.adds = adds]
          \in Edits
    BY DEF Edits, Steps
  <2> QED BY <1>2, <2>1 DEF Truncate
<1>3. createRegistry \in Registries
  BY DEF createRegistry, Registries, KeyStatuses
<1>4. edit[c] \in Edits /\ edit[c].registry \in Registries
  BY DEF Edits
<1>5. CASE ReadRegistry(c)
  <2>1. [edit[c] EXCEPT !.step = "loaded", !.registry = registry] \in Edits
    BY DEF Edits, Steps
  <2> QED BY <1>5, <2>1 DEF ReadRegistry
<1>6. CASE WriteRegistry(c)
  <2>1. ASSUME NEW d \in Commands PROVE edit'[d] \in Edits
    <3>1. edit[d] \in Edits /\ edit[c].about \subseteq SigningKeys
      BY DEF Edits
    <3>2. [edit[d] EXCEPT !.missed = @ \union edit[c].about] \in Edits
      BY <3>1 DEF Edits
    <3> QED BY <1>1, <1>6, <3>1, <3>2 DEF WriteRegistry
  <2>2. edit' \in [Commands -> Edits]
    BY <1>6, <2>1 DEF WriteRegistry
  <2>3. edit[c].about \subseteq SigningKeys /\ edit[c].missed \subseteq SigningKeys
    BY <1>4 DEF Edits
  <2>4. registry' \in Registries /\ contents' \in {"parses", "empty", "mixed"}
    BY <1>4, <1>6 DEF WriteRegistry
  <2>5. usable' \subseteq SigningKeys /\ doubtful' \subseteq SigningKeys
    BY <1>6, <2>3 DEF WriteRegistry
  <2> QED BY <2>2, <2>4, <2>5
<1>7. CASE cmdInitReg(c)
  <2>1. PICK a \in Apps : Truncate(c, registerApp(createRegistry, a), SigningKeys, FALSE)
    BY <1>7 DEF cmdInitReg
  <2> QED BY <1>2, <1>3, <2>1, RegistryApps
<1>8. CASE cmdAddKey(c)
  <2>1. PICK a \in Apps, id \in KeyIds :
          Truncate(c, registerKey(edit[c].registry, a, id), {<<a, id>>}, TRUE)
    BY <1>8 DEF cmdAddKey
  <2>2. {<<a, id>>} \subseteq SigningKeys
    BY DEF SigningKeys
  <2> QED BY <1>2, <1>4, <2>1, <2>2, RegistryKeys
<1>9. CASE cmdRevokeKey(c)
  <2>1. PICK a \in Apps, id \in KeyIds :
          Truncate(c, revokeKey(edit[c].registry, a, id), {<<a, id>>}, FALSE)
    BY <1>9 DEF cmdRevokeKey
  <2>2. {<<a, id>>} \subseteq SigningKeys
    BY DEF SigningKeys
  <2> QED BY <1>2, <1>4, <2>1, <2>2, RegistryKeys
<1>10. CASE cmdEligible(c)
  <2>1. PICK u \in Uids, granted \in BOOLEAN :
          Truncate(c, markEligible(edit[c].registry, u, granted), {}, FALSE)
    BY <1>10 DEF cmdEligible
  <2> QED BY <1>2, <1>4, <2>1, RegistryUsers
<1> QED BY <1>5, <1>6, <1>7, <1>8, <1>9, <1>10 DEF Command
-------------------------------------------------------------------------------
\* What the registry operations do to one key.
LEMMA KeyAfterOperation ==
  ASSUME NEW r \in Registries, NEW k \in SigningKeys, NEW a \in Apps, NEW id \in KeyIds
  PROVE  /\ registerKey(r, a, id).keys[k] = "active" <=> (k = <<a, id>> \/ r.keys[k] = "active")
         /\ revokeKey(r, a, id).keys[k] = "active" <=> (k # <<a, id>> /\ r.keys[k] = "active")
<1>1. <<a, id>> \in SigningKeys /\ r.keys \in [SigningKeys -> KeyStatuses]
  BY DEF SigningKeys, Registries
<1>2. registerKey(r, a, id).keys = [r.keys EXCEPT ![<<a, id>>] = "active"]
  BY DEF registerKey, Registries
<1>3. revokeKey(r, a, id).keys =
        [r.keys EXCEPT ![<<a, id>>] = IF r.keys[<<a, id>>] = "unknown" THEN r.keys[<<a, id>>]
                                      ELSE "revoked"]
  BY DEF revokeKey, Registries
<1> QED BY <1>1, <1>2, <1>3

\* A command that starts to write what its keys call for keeps the invariant.
LEMMA TruncateStep ==
  ASSUME FileInv, NEW c \in Commands, NEW r \in Registries, NEW about \in SUBSET SigningKeys,
         NEW adds \in BOOLEAN, Truncate(c, r, about, adds),
         \A k \in about : adds <=> r.keys[k] = "active",
         \A k \in SigningKeys \ (doubtful \union edit[c].missed \union about) : Agrees(r, k)
  PROVE  CopyInv' /\ RegistryRemembers'
<1>1. edit \in [Commands -> Edits]
  BY DEF FileInv, FileTypeOK
<1>2. /\ edit'[c] = [edit[c] EXCEPT !.step = "writing", !.registry = r, !.about = about,
                                     !.adds = adds]
      /\ \A d \in Commands : d # c => edit'[d] = edit[d]
      /\ UNCHANGED <<usable, doubtful>> /\ contents' = "empty"
  BY <1>1 DEF Truncate
<1>3. /\ edit'[c].step = "writing" /\ edit'[c].registry = r /\ edit'[c].about = about
      /\ edit'[c].adds = adds /\ edit'[c].missed = edit[c].missed
  BY <1>1, <1>2 DEF Edits
<1>4. CopyInv'
  <2> SUFFICES ASSUME NEW d \in Commands
               PROVE  /\ edit'[d].step = "loaded" =>
                           \A k \in SigningKeys \ (doubtful \union edit'[d].missed) :
                             Agrees(edit'[d].registry, k)
                      /\ edit'[d].step = "writing" =>
                           /\ CommandDone(d)'
                           /\ \A k \in SigningKeys
                                   \ (doubtful \union edit'[d].missed \union edit'[d].about) :
                                Agrees(edit'[d].registry, k)
    BY <1>2 DEF CopyInv, Agrees
  <2>1. CASE d = c
    BY <1>3, <2>1 DEF CommandDone
  <2>2. CASE d # c
    BY <1>2, <2>2 DEF FileInv, CopyInv, CommandDone
  <2> QED BY <2>1, <2>2
<1>5. RegistryRemembers'
  BY <1>2 DEF RegistryRemembers
<1> QED BY <1>4, <1>5

\* A command that has read the file has it right.
LEMMA ReadStep ==
  ASSUME FileInv, NEW c \in Commands, ReadRegistry(c)
  PROVE  CopyInv' /\ RegistryRemembers'
<1>1. edit \in [Commands -> Edits]
  BY DEF FileInv, FileTypeOK
<1>2. /\ edit'[c].step = "loaded" /\ edit'[c].registry = registry
      /\ \A d \in Commands : d # c => edit'[d] = edit[d]
      /\ UNCHANGED <<registry, contents, usable, doubtful>>
  BY <1>1 DEF ReadRegistry, Edits
<1>3. \A k \in SigningKeys \ doubtful : Agrees(registry, k)
  BY DEF ReadRegistry, FileInv, RegistryRemembers, Agrees
<1>4. ASSUME NEW d \in Commands
      PROVE  /\ edit'[d].step = "loaded" =>
                  \A k \in SigningKeys \ (doubtful \union edit'[d].missed) :
                    Agrees(edit'[d].registry, k)
             /\ edit'[d].step = "writing" =>
                  /\ CommandDone(d)'
                  /\ \A k \in SigningKeys
                          \ (doubtful \union edit'[d].missed \union edit'[d].about) :
                       Agrees(edit'[d].registry, k)
  <2>1. CASE d = c
    BY <1>2, <1>3, <2>1
  <2>2. CASE d # c
    BY <1>2, <2>2 DEF FileInv, CopyInv, CommandDone
  <2> QED BY <2>1, <2>2
<1>5. CopyInv'
  BY <1>2, <1>4 DEF CopyInv, Agrees
<1>6. RegistryRemembers'
  BY <1>2 DEF FileInv, RegistryRemembers
<1> QED BY <1>5, <1>6

\* A command that has written is the last about its keys; the keys that were
\* changed behind its back are in doubt, and all others it has right.
LEMMA WriteStep ==
  ASSUME FileInv, NEW c \in Commands, WriteRegistry(c)
  PROVE  CopyInv' /\ RegistryRemembers'
<1> DEFINE x == edit[c]
<1>1. edit \in [Commands -> Edits] /\ x \in Edits /\ x.step = "writing"
  BY DEF FileInv, FileTypeOK, WriteRegistry
<1>2. /\ CommandDone(c)
      /\ \A k \in SigningKeys \ (doubtful \union x.missed \union x.about) : Agrees(x.registry, k)
  BY <1>1 DEF FileInv, CopyInv
<1>3. /\ \A k \in x.about : k \in usable' <=> x.adds
      /\ \A k \in SigningKeys \ x.about : k \in usable' <=> k \in usable
      /\ doubtful' = (doubtful \union x.missed) \ x.about
  BY DEF WriteRegistry
<1>4. \A k \in SigningKeys \ doubtful' : k \in usable' <=> x.registry.keys[k] = "active"
  BY <1>2, <1>3 DEF CommandDone, Agrees
<1>5. RegistryRemembers'
  BY <1>4 DEF RegistryRemembers, WriteRegistry
<1>6. ASSUME NEW d \in Commands, edit'[d].step \in {"loaded", "writing"}
      PROVE  /\ edit'[d].step = edit[d].step /\ edit'[d].registry = edit[d].registry
             /\ edit'[d].about = edit[d].about /\ edit'[d].adds = edit[d].adds
             /\ edit'[d].missed = edit[d].missed \union x.about
  <2>1. d # c /\ edit[d].step \in {"loaded", "writing"}
    BY <1>6 DEF WriteRegistry, NoEdit
  <2>2. edit'[d] = [edit[d] EXCEPT !.missed = @ \union x.about] /\ edit[d] \in Edits
    BY <1>1, <2>1 DEF WriteRegistry
  <2> QED BY <2>2 DEF Edits
<1>7. CopyInv'
  <2> SUFFICES ASSUME NEW d \in Commands
               PROVE  /\ edit'[d].step = "loaded" =>
                           \A k \in SigningKeys \ (doubtful' \union edit'[d].missed) :
                             k \in usable' <=> edit'[d].registry.keys[k] = "active"
                      /\ edit'[d].step = "writing" =>
                           /\ CommandDone(d)'
                           /\ \A k \in SigningKeys
                                   \ (doubtful' \union edit'[d].missed \union edit'[d].about) :
                                k \in usable' <=> edit'[d].registry.keys[k] = "active"
    BY DEF CopyInv, Agrees
  <2>1. CASE edit'[d].step = "loaded"
    BY <1>3, <1>6, <2>1 DEF FileInv, CopyInv, Agrees
  <2>2. CASE edit'[d].step = "writing"
    BY <1>3, <1>6, <2>2 DEF FileInv, CopyInv, Agrees, CommandDone
  <2> QED BY <2>1, <2>2
<1> QED BY <1>5, <1>7

\* The invariant holds when the commands start.
LEMMA FileInvInit == FileInit => FileInv
<1> SUFFICES ASSUME FileInit PROVE FileInv
  OBVIOUS
<1>1. NoEdit("ready") \in Edits /\ NoEdit("ready").step = "ready"
  BY DEF NoEdit, Edits, Steps, createRegistry, Registries, KeyStatuses
<1>2. FileTypeOK
  BY <1>1, RegistryFileAssumption DEF FileInit, FileTypeOK
<1>3. CopyInv
  BY <1>1 DEF FileInit, CopyInv
<1>4. RegistryRemembers
  BY DEF FileInit, RegistryRemembers
<1> QED BY <1>2, <1>3, <1>4 DEF FileInv

\* Every step of every command keeps the invariant.
LEMMA FileInvStep ==
  ASSUME FileInv, NEW c \in Commands, Command(c)
  PROVE  FileInv'
<1>1. edit[c] \in Edits /\ edit[c].registry \in Registries
  BY DEF FileInv, FileTypeOK, Edits
<1>2. edit[c].step = "loaded" =>
        \A k \in SigningKeys \ (doubtful \union edit[c].missed) : Agrees(edit[c].registry, k)
  BY DEF FileInv, CopyInv
<1>3. CASE ReadRegistry(c)
  BY <1>3, FileTypeStep, ReadStep DEF FileInv
<1>4. CASE WriteRegistry(c)
  BY <1>4, FileTypeStep, WriteStep DEF FileInv
<1>5. CASE cmdInitReg(c)
  <2>1. PICK a \in Apps : Truncate(c, registerApp(createRegistry, a), SigningKeys, FALSE)
    BY <1>5 DEF cmdInitReg
  <2>2. createRegistry \in Registries
    BY DEF createRegistry, Registries, KeyStatuses
  <2>3. registerApp(createRegistry, a) \in Registries
        /\ \A k \in SigningKeys : registerApp(createRegistry, a).keys[k] # "active"
    BY <2>2, RegistryApps DEF registerApp, createRegistry, SigningKeys
  <2>4. CopyInv' /\ RegistryRemembers'
    BY <2>1, <2>3, TruncateStep
  <2> QED BY <2>4, FileTypeStep DEF FileInv
<1>6. CASE cmdAddKey(c)
  <2>1. PICK a \in Apps, id \in KeyIds :
          Truncate(c, registerKey(edit[c].registry, a, id), {<<a, id>>}, TRUE)
    BY <1>6 DEF cmdAddKey
  <2> DEFINE r == registerKey(edit[c].registry, a, id)
  <2>2. r \in Registries /\ {<<a, id>>} \subseteq SigningKeys
    BY <1>1, RegistryKeys DEF SigningKeys
  <2>3. \A k \in {<<a, id>>} : r.keys[k] = "active"
    BY <1>1, <2>2, KeyAfterOperation
  <2>4. \A k \in SigningKeys \ (doubtful \union edit[c].missed \union {<<a, id>>}) : Agrees(r, k)
    BY <1>1, <1>2, <1>6, KeyAfterOperation DEF Agrees, cmdAddKey
  <2>5. CopyInv' /\ RegistryRemembers'
    BY <2>1, <2>2, <2>3, <2>4, TruncateStep
  <2> QED BY <2>5, FileTypeStep DEF FileInv
<1>7. CASE cmdRevokeKey(c)
  <2>1. PICK a \in Apps, id \in KeyIds :
          Truncate(c, revokeKey(edit[c].registry, a, id), {<<a, id>>}, FALSE)
    BY <1>7 DEF cmdRevokeKey
  <2> DEFINE r == revokeKey(edit[c].registry, a, id)
  <2>2. r \in Registries /\ {<<a, id>>} \subseteq SigningKeys
    BY <1>1, RegistryKeys DEF SigningKeys
  <2>3. \A k \in {<<a, id>>} : r.keys[k] # "active"
    BY <1>1, <2>2, KeyAfterOperation
  <2>4. \A k \in SigningKeys \ (doubtful \union edit[c].missed \union {<<a, id>>}) : Agrees(r, k)
    BY <1>1, <1>2, <1>7, KeyAfterOperation DEF Agrees, cmdRevokeKey
  <2>5. CopyInv' /\ RegistryRemembers'
    BY <2>1, <2>2, <2>3, <2>4, TruncateStep
  <2> QED BY <2>5, FileTypeStep DEF FileInv
<1>8. CASE cmdEligible(c)
  <2>1. PICK u \in Uids, granted \in BOOLEAN :
          Truncate(c, markEligible(edit[c].registry, u, granted), {}, FALSE)
    BY <1>8 DEF cmdEligible
  <2> DEFINE r == markEligible(edit[c].registry, u, granted)
  <2>2. r \in Registries /\ r.keys = edit[c].registry.keys
    BY <1>1, RegistryUsers DEF markEligible, Registries
  <2>3. \A k \in SigningKeys \ (doubtful \union edit[c].missed \union {}) : Agrees(r, k)
    BY <1>2, <1>8, <2>2 DEF Agrees, cmdEligible
  <2>4. \A k \in {} : FALSE <=> r.keys[k] = "active"
    OBVIOUS
  <2>5. {} \in SUBSET SigningKeys /\ FALSE \in BOOLEAN
    OBVIOUS
  <2> HIDE DEF r
  <2>6. CopyInv' /\ RegistryRemembers'
    BY <2>1, <2>2, <2>3, <2>4, <2>5, TruncateStep DEF r
  <2> QED BY <2>6, FileTypeStep DEF FileInv
<1> QED BY <1>3, <1>4, <1>5, <1>6, <1>7, <1>8 DEF Command

\* Steps of others leave the file and the commands as they are.
LEMMA FileInvStutter == FileInv /\ UNCHANGED fileVars => FileInv'
BY DEF FileInv, fileVars, FileTypeOK, RegistryRemembers, CopyInv, CommandDone, Agrees
-------------------------------------------------------------------------------
(* The verifiers *)

LastChance(e) == e.ts + W + Skew + Delay
MemoryEnd(e) == e.ts - W - Skew + TTL
Deciding(v) == event[v] # NoEvent
Winning(v) == Deciding(v) /\ call[v] = Store!Decided(NonceKey(event[v]), TRUE)
Won(e) == accepted[e] > 0 \/ \E v \in Verifiers : Winning(v) /\ event[v] = e

\* A claim in progress is for the event that passed the gates, and in time.
CallInv ==
  \A v \in Verifiers :
    /\ ~Deciding(v) => call[v] = Store!NoCall
    /\ Deciding(v) =>
         /\ call[v] \in {Store!Pending(NonceKey(event[v]))}
              \union {Store!Decided(NonceKey(event[v]), won) : won \in BOOLEAN}
         /\ deadline[v] <= LastChance(event[v])
         /\ event[v].ts <= clock + W + Skew
         /\ call[v] = Store!Pending(NonceKey(event[v])) => clock <= deadline[v]

\* A claim that won is remembered until nobody can win with the event again.
MemoryInv ==
  \A e \in Events : Won(e) =>
    /\ NonceKey(e) \in burned \/ (Expires /\ clock > expiry[NonceKey(e)])
    /\ Expires => expiry[NonceKey(e)] >= MemoryEnd(e)

\* Of events that exclude each other at most one has won, and only once.
WinnerInv ==
  /\ \A v \in Verifiers : Winning(v) =>
       \A f \in Events : Excludes(event[v], f) => accepted[f] = 0
  /\ \A u, v \in Verifiers :
       Winning(u) /\ Winning(v) /\ Excludes(event[u], event[v]) => u = v

IInv == TypeOK /\ CallInv /\ MemoryInv /\ WinnerInv /\ AtMostOneAccept
-------------------------------------------------------------------------------
\* The states a claimIfAbsent call goes through are told apart by their fields.
LEMMA CallsDistinct ==
  ASSUME NEW k, NEW won
  PROVE  /\ Store!NoCall # Store!Pending(k)
         /\ Store!NoCall # Store!Decided(k, won)
         /\ Store!Pending(k) # Store!Decided(k, won)
<1>1. Store!NoCall.phase = "none" /\ Store!Pending(k).phase = "pending"
      /\ Store!Decided(k, won).phase = "decided"
  BY DEF Store!NoCall, Store!Pending, Store!Decided
<1> QED BY <1>1

\* Two decided calls are the same only if key and verdict are.
LEMMA DecisionsDistinct ==
  ASSUME NEW k, NEW won, NEW k2, NEW won2, Store!Decided(k, won) = Store!Decided(k2, won2)
  PROVE  k = k2 /\ won = won2
<1>1. Store!Decided(k, won).key = k /\ Store!Decided(k2, won2).key = k2
  BY DEF Store!Decided
<1>2. Store!Decided(k, won).won = won /\ Store!Decided(k2, won2).won = won2
  BY DEF Store!Decided
<1> QED BY <1>1, <1>2

\* The states of a call on a nonce key are what TypeOK admits.
LEMMA CallsClosed ==
  ASSUME NEW k \in NonceKeys, NEW won \in BOOLEAN
  PROVE  {Store!NoCall, Store!Pending(k), Store!Decided(k, won)} \subseteq Calls
BY DEF Calls

\* Every event has a nonce key and a timestamp, and differs from NoEvent.
LEMMA EventsHaveKeys ==
  ASSUME NEW e \in Events
  PROVE  NonceKey(e) \in NonceKeys /\ e.ts \in Int /\ e # NoEvent
<1>1. e \in [app : Apps, key : KeyIds, nonce : Nonces, uid : Uids, ts : Int,
              declared : BOOLEAN, defect : Defects]
  BY ParametersAssumption, WindowAssumption
<1>2. NonceKey(e) \in NonceKeys /\ e.ts \in Int
  BY <1>1 DEF NonceKey, NonceKeys
<1>3. DOMAIN e # DOMAIN NoEvent
  <2>1. "ts" \in DOMAIN e
    BY <1>1
  <2>2. "ts" \notin DOMAIN NoEvent
    BY DEF NoEvent
  <2> QED BY <2>1, <2>2
<1> QED BY <1>2, <1>3
-------------------------------------------------------------------------------
\* The variables start in their types.
LEMMA TypeInit == Init => TypeOK
<1> SUFFICES ASSUME Init PROVE TypeOK
  OBVIOUS
<1>1. FileTypeOK
  <2>1. NoEdit("ready") \in Edits
    BY DEF NoEdit, Edits, Steps, createRegistry, Registries, KeyStatuses
  <2>2. registry \in Registries
    BY RegistryFileAssumption DEF Init, FileInit
  <2> QED BY <2>1, <2>2 DEF Init, FileInit, FileTypeOK
<1> QED
  BY <1>1 DEF Init, TypeOK, Store!Init, Nothing, Calls

\* Every action keeps the variables in their types.
LEMMA TypeStep == TypeOK /\ [Next]_vars => TypeOK'
<1> SUFFICES ASSUME TypeOK, [Next]_vars PROVE TypeOK'
  OBVIOUS
<1> USE ParametersAssumption, WindowAssumption
<1>0. UNCHANGED fileVars => FileTypeOK'
  BY DEF fileVars, FileTypeOK, TypeOK
<1>1. CASE Operate
  <2>1. FileTypeOK'
    BY <1>1, FileTypeStep DEF Operate, TypeOK
  <2>2. Facts(registry') \in [active : SUBSET (Apps \X KeyIds), eligible : SUBSET Uids]
    BY <2>1 DEF Facts, Registries, FileTypeOK
  <2>3. witnessed' \in [Verifiers -> [active : SUBSET (Apps \X KeyIds), eligible : SUBSET Uids]]
    BY <1>1, <2>2 DEF Operate, TypeOK
  <2> QED BY <1>1, <2>1, <2>3 DEF Operate, TypeOK, storeVars
<1>2. CASE Tick
  BY <1>0, <1>2 DEF Tick, TypeOK
<1>3. ASSUME NEW v \in Verifiers, Load(v) PROVE TypeOK'
  <2>1. Facts(registry) \in [active : SUBSET (Apps \X KeyIds), eligible : SUBSET Uids]
    BY DEF Facts, Registries, TypeOK, FileTypeOK
  <2>2. Loaded(registry) \in [kind : {"loaded"}, registry : Registries]
    BY DEF Loaded, TypeOK, FileTypeOK
  <2> QED BY <1>0, <1>3, <2>1, <2>2 DEF Load, TypeOK, storeVars
<1>4. ASSUME NEW v \in Verifiers, NEW e \in Events, NEW now, Reject(v, e, now) PROVE TypeOK'
  BY <1>0, <1>4 DEF Reject, Finish, TypeOK, Nothing, storeVars
<1>5. ASSUME NEW v \in Verifiers, NEW e \in Events, NEW now, Pass(v, e, now) PROVE TypeOK'
  BY <1>0, <1>5, EventsHaveKeys, CallsClosed DEF Pass, TypeOK, Store!Invoke
<1>6. ASSUME NEW v \in Verifiers, Claim(v) PROVE TypeOK'
  <2> DEFINE k == NonceKey(event[v])
  <2>1. k \in NonceKeys
    BY <1>6, EventsHaveKeys DEF Claim, TypeOK
  <2>2. CASE Store!Win(v, k) /\ expiry' = [expiry EXCEPT ![k] = clock + TTL]
    <3>1. expiry' \in [NonceKeys -> Nat]
      BY <2>1, <2>2 DEF TypeOK
    <3>2. burned' \subseteq NonceKeys /\ call' \in [Verifiers -> Calls] /\ UNCHANGED accepts
      BY <2>1, <2>2, CallsClosed DEF TypeOK, Store!Win
    <3> QED BY <1>0, <1>6, <3>1, <3>2 DEF Claim, TypeOK
  <2>3. CASE Store!Lose(v, k) /\ UNCHANGED expiry
    BY <1>0, <1>6, <2>1, <2>3, CallsClosed DEF Claim, TypeOK, Store!Lose
  <2> QED BY <1>6, <2>2, <2>3 DEF Claim
<1>7. ASSUME NEW v \in Verifiers, Answer(v) PROVE TypeOK'
  <2>1. event[v] \in Events /\ NonceKey(event[v]) \in NonceKeys
    BY <1>7, EventsHaveKeys DEF Answer, TypeOK
  <2>2. accepted' \in [Events -> Nat]
    <3>1. accepted[event[v]] \in Nat
      BY <2>1 DEF TypeOK
    <3>2. accepted' = [accepted EXCEPT ![event[v]] = accepted[event[v]]]
          \/ accepted' = [accepted EXCEPT ![event[v]] = accepted[event[v]] + 1]
      BY <1>7 DEF Answer
    <3> QED BY <2>1, <3>1, <3>2 DEF TypeOK
  <2>3. accepts' \in [NonceKeys -> Nat]
    BY <1>7, <2>1 DEF Answer, TypeOK, Store!Return
  <2> QED
    BY <1>0, <1>7, <2>1, <2>2, <2>3, CallsClosed DEF Answer, Finish, TypeOK, Nothing, Store!Return
<1>8. ASSUME NEW v \in Verifiers, Throw(v) PROVE TypeOK'
  <2>1. Store!NoCall \in Calls
    BY DEF Calls
  <2> QED BY <1>0, <1>8, <2>1 DEF Throw, Finish, TypeOK, Nothing, Store!Throw
<1>9. CASE UNCHANGED vars
  BY <1>0, <1>9 DEF vars, storeVars, TypeOK
<1> QED
  BY <1>1, <1>2, <1>3, <1>4, <1>5, <1>6, <1>7, <1>8, <1>9 DEF Next, Verify

\* Every variable keeps to its type, for all values of the constants.
THEOREM TypeCorrect == Spec => []TypeOK
BY TypeInit, TypeStep, PTL DEF Spec
-------------------------------------------------------------------------------
\* A step that makes no verifier a winner and answers nothing keeps WinnerInv
\* and AtMostOneAccept, and nobody wins by it.
LEMMA NoNewWinner ==
  ASSUME WinnerInv, AtMostOneAccept, accepted' = accepted,
         \A u \in Verifiers : Winning(u)' => Winning(u) /\ event'[u] = event[u]
  PROVE  /\ WinnerInv' /\ AtMostOneAccept'
         /\ \A e \in Events : Won(e)' => Won(e)
<1>1. AtMostOneAccept'
  BY DEF AtMostOneAccept
<1>2. WinnerInv'
  <2>1. ASSUME NEW v \in Verifiers, Winning(v)', NEW f \in Events, Excludes(event'[v], f)
        PROVE  accepted'[f] = 0
    BY <2>1 DEF WinnerInv
  <2>2. ASSUME NEW u \in Verifiers, NEW v \in Verifiers, Winning(u)', Winning(v)',
               Excludes(event'[u], event'[v])
        PROVE  u = v
    BY <2>2 DEF WinnerInv
  <2> QED BY <2>1, <2>2 DEF WinnerInv, Excludes
<1>3. ASSUME NEW e \in Events, Won(e)' PROVE Won(e)
  BY <1>3 DEF Won
<1> QED BY <1>1, <1>2, <1>3

Remaining == CallInv /\ MemoryInv /\ WinnerInv /\ AtMostOneAccept

\* Everything the argument is about stays as it is.
Quiet ==
  /\ UNCHANGED <<clock, event, burned, call, expiry, accepted>>
  /\ \A u \in Verifiers : Deciding(u) => deadline'[u] = deadline[u]

\* A quiet step keeps the strengthened invariant.
LEMMA QuietStep ==
  ASSUME TypeOK, Remaining, Quiet
  PROVE  Remaining'
<1> USE DEF Remaining, Quiet
<1>1. CallInv'
  <2> SUFFICES ASSUME NEW v \in Verifiers, Deciding(v) PROVE deadline'[v] = deadline[v]
    BY DEF CallInv, Deciding, LastChance
  <2> QED OBVIOUS
<1>2. \A u \in Verifiers : Winning(u)' => Winning(u) /\ event'[u] = event[u]
  BY DEF Winning, Deciding
<1>3. WinnerInv' /\ AtMostOneAccept' /\ \A e \in Events : Won(e)' => Won(e)
  BY <1>2, NoNewWinner
<1>4. MemoryInv'
  BY <1>3 DEF MemoryInv, MemoryEnd
<1> QED BY <1>1, <1>3, <1>4

\* A rejection by G1-G8 touches neither the store nor the answers.
LEMMA RejectIsQuiet ==
  ASSUME TypeOK, NEW v \in Verifiers, NEW e \in Events, NEW now, Reject(v, e, now)
  PROVE  Quiet
<1>1. event' = event
  BY DEF Reject, Finish, TypeOK
<1>2. \A u \in Verifiers : Deciding(u) => deadline'[u] = deadline[u]
  BY DEF Reject, Finish, TypeOK, Deciding
<1> QED BY <1>1, <1>2 DEF Quiet, Reject, storeVars

\* Time passes: a claim is forgotten only when its expiry is behind.
LEMMA TickStep ==
  ASSUME TypeOK, Remaining, Tick
  PROVE  Remaining'
<1> USE ParametersAssumption, WindowAssumption DEF Remaining
<1>1. clock \in Nat /\ clock' = clock + 1 /\ UNCHANGED <<event, call, deadline, accepted, expiry>>
  BY DEF Tick, TypeOK
<1>2. CallInv'
  <2> SUFFICES ASSUME NEW v \in Verifiers, Deciding(v)
               PROVE  /\ event[v].ts <= clock' + W + Skew
                      /\ call[v] = Store!Pending(NonceKey(event[v])) => clock' <= deadline[v]
    BY <1>1 DEF CallInv, Deciding, LastChance
  <2>1. event[v] \in Events /\ event[v].ts \in Int /\ NonceKey(event[v]) \in NonceKeys
        /\ deadline[v] \in Nat
    BY EventsHaveKeys DEF TypeOK, Deciding
  <2>2. event[v].ts <= clock' + W + Skew
    BY <1>1, <2>1 DEF CallInv
  <2>3. call[v] = Store!Pending(NonceKey(event[v])) => clock < deadline[v]
    BY <2>1 DEF Tick
  <2> QED BY <1>1, <2>1, <2>2, <2>3
<1>3. \A u \in Verifiers : Winning(u)' => Winning(u) /\ event'[u] = event[u]
  BY <1>1 DEF Winning, Deciding
<1>4. WinnerInv' /\ AtMostOneAccept' /\ \A e \in Events : Won(e)' => Won(e)
  BY <1>1, <1>3, NoNewWinner
<1>5. MemoryInv'
  <2> SUFFICES ASSUME NEW e \in Events, Won(e)
               PROVE  /\ NonceKey(e) \in burned' \/ (Expires /\ clock' > expiry[NonceKey(e)])
                      /\ Expires => expiry[NonceKey(e)] >= MemoryEnd(e)
    BY <1>1, <1>4 DEF MemoryInv, MemoryEnd
  <2>1. NonceKey(e) \in NonceKeys /\ expiry[NonceKey(e)] \in Nat
    BY EventsHaveKeys DEF TypeOK
  <2>2. burned' = {k \in burned : Expires => clock' <= expiry[k]}
    BY DEF Tick
  <2> QED BY <1>1, <2>1, <2>2 DEF MemoryInv
<1> QED BY <1>2, <1>4, <1>5

\* An event that passes the gates may still be decided in time.
LEMMA PassStep ==
  ASSUME TypeOK, Remaining, NEW v \in Verifiers, NEW e \in Events,
         NEW offset \in -Skew..Skew, Pass(v, e, clock + offset)
  PROVE  Remaining'
<1> USE ParametersAssumption, WindowAssumption DEF Remaining
<1> DEFINE k == NonceKey(e)
<1>1. e.ts \in Int /\ k \in NonceKeys /\ e # NoEvent /\ clock \in Nat
  BY EventsHaveKeys DEF TypeOK
<1>2. /\ event[v] = NoEvent
      /\ event' = [event EXCEPT ![v] = e]
      /\ call' = [call EXCEPT ![v] = Store!Pending(k)]
      /\ deadline' = [deadline EXCEPT ![v] = clock + Delay]
      /\ UNCHANGED <<clock, burned, expiry, accepted>>
  BY DEF Pass, Store!Invoke
<1>3. -W <= (clock + offset) - e.ts /\ (clock + offset) - e.ts <= W
  BY DEF Pass, PassesGates, fresh
<1>4. /\ event'[v] = e /\ call'[v] = Store!Pending(k) /\ deadline'[v] = clock + Delay
      /\ \A u \in Verifiers : u # v => /\ event'[u] = event[u] /\ call'[u] = call[u]
                                       /\ deadline'[u] = deadline[u]
  BY <1>2 DEF TypeOK
<1>5. CallInv'
  <2>1. /\ clock + Delay <= LastChance(e) /\ e.ts <= clock + W + Skew
        /\ clock <= clock + Delay
    BY <1>1, <1>3 DEF LastChance
  <2> SUFFICES ASSUME NEW u \in Verifiers, u = v
               PROVE  /\ Deciding(u)'
                      /\ call'[u] = Store!Pending(NonceKey(event'[u]))
                      /\ deadline'[u] <= LastChance(event'[u])
                      /\ event'[u].ts <= clock' + W + Skew
                      /\ clock' <= deadline'[u]
    BY <1>2, <1>4 DEF CallInv, Deciding, LastChance
  <2> QED BY <1>1, <1>2, <1>4, <2>1 DEF Deciding
<1>6. \A u \in Verifiers : Winning(u)' => Winning(u) /\ event'[u] = event[u]
  <2>1. ~Winning(v)'
    BY <1>4, CallsDistinct DEF Winning
  <2> QED BY <1>4, <2>1 DEF Winning, Deciding
<1>7. WinnerInv' /\ AtMostOneAccept' /\ \A f \in Events : Won(f)' => Won(f)
  BY <1>2, <1>6, NoNewWinner
<1>8. MemoryInv'
  BY <1>2, <1>7 DEF MemoryInv, MemoryEnd
<1> QED BY <1>5, <1>7, <1>8

\* The store decides against the claim.
LEMMA LoseStep ==
  ASSUME TypeOK, Remaining, NEW v \in Verifiers, Claim(v),
         Store!Lose(v, NonceKey(event[v])), UNCHANGED expiry
  PROVE  Remaining'
<1> USE DEF Remaining
<1> DEFINE k == NonceKey(event[v])
<1>1. /\ call' = [call EXCEPT ![v] = Store!Decided(k, FALSE)]
      /\ UNCHANGED <<clock, event, deadline, burned, expiry, accepted>>
      /\ Deciding(v)
  BY DEF Claim, Store!Lose, Deciding
<1>2. /\ call'[v] = Store!Decided(k, FALSE)
      /\ \A u \in Verifiers : u # v => call'[u] = call[u]
  BY <1>1 DEF TypeOK
<1>3. CallInv'
  <2>1. Store!Decided(k, FALSE) # Store!Pending(k)
    BY CallsDistinct
  <2> QED BY <1>1, <1>2, <2>1 DEF CallInv, Deciding, LastChance
<1>4. \A u \in Verifiers : Winning(u)' => Winning(u) /\ event'[u] = event[u]
  <2>1. ~Winning(v)'
    BY <1>1, <1>2, DecisionsDistinct DEF Winning
  <2> QED BY <1>1, <1>2, <2>1 DEF Winning, Deciding
<1>5. WinnerInv' /\ AtMostOneAccept' /\ \A f \in Events : Won(f)' => Won(f)
  BY <1>1, <1>4, NoNewWinner
<1>6. MemoryInv'
  BY <1>1, <1>5 DEF MemoryInv, MemoryEnd
<1> QED BY <1>3, <1>5, <1>6

\* The store decides for the claim.  No rival can have won before: its claim
\* would be remembered still.
LEMMA WinStep ==
  ASSUME TypeOK, Remaining, NEW v \in Verifiers, Claim(v),
         Store!Win(v, NonceKey(event[v])),
         expiry' = [expiry EXCEPT ![NonceKey(event[v])] = clock + TTL]
  PROVE  Remaining'
<1> USE ParametersAssumption, WindowAssumption DEF Remaining
<1> DEFINE e == event[v]
           k == NonceKey(e)
<1>1. /\ call[v] = Store!Pending(k) /\ k \notin burned
      /\ burned' = burned \union {k}
      /\ call' = [call EXCEPT ![v] = Store!Decided(k, TRUE)]
      /\ UNCHANGED <<clock, event, deadline, accepted>>
      /\ Deciding(v)
  BY DEF Claim, Store!Win, Deciding
<1>2. /\ call'[v] = Store!Decided(k, TRUE)
      /\ \A u \in Verifiers : u # v => call'[u] = call[u]
  BY <1>1 DEF TypeOK
<1>3. e \in Events /\ k \in NonceKeys /\ e.ts \in Int /\ clock \in Nat /\ deadline[v] \in Nat
  BY <1>1, EventsHaveKeys DEF TypeOK, Deciding
<1>4. deadline[v] <= LastChance(e) /\ e.ts <= clock + W + Skew /\ clock <= deadline[v]
  BY <1>1 DEF CallInv
<1>5. ASSUME NEW f \in Events, Excludes(e, f) PROVE ~Won(f)
  <2> SUFFICES ASSUME Won(f) PROVE FALSE
    OBVIOUS
  <2>1. NonceKey(f) = k
    BY <1>5 DEF Excludes
  <2>2. Expires /\ clock > expiry[k] /\ expiry[k] >= MemoryEnd(f)
    BY <1>1, <2>1 DEF MemoryInv
  <2>3. f.ts \in Int /\ expiry[k] \in Nat
    BY <1>3, EventsHaveKeys DEF TypeOK
  <2>4. LastChance(e) <= MemoryEnd(f)
    BY <1>3, <1>5, <2>2, <2>3 DEF Excludes, LastChance, MemoryEnd
  <2>5. LastChance(e) \in Int /\ MemoryEnd(f) \in Int
    BY <1>3, <2>3 DEF LastChance, MemoryEnd
  <2> QED BY <1>3, <1>4, <2>2, <2>3, <2>4, <2>5
<1>6. ASSUME NEW u \in Verifiers, Winning(u)
      PROVE  u # v /\ ~Excludes(e, event[u]) /\ ~Excludes(event[u], e)
  <2>1. u # v
    BY <1>1, <1>6, CallsDistinct DEF Winning
  <2>2. event[u] \in Events /\ Won(event[u])
    BY <1>6 DEF TypeOK, Winning, Deciding, Won
  <2> QED BY <1>5, <2>1, <2>2 DEF Excludes
<1>7. /\ Winning(v)'
      /\ \A u \in Verifiers : u # v => (Winning(u)' <=> Winning(u))
  BY <1>1, <1>2 DEF Winning, Deciding
<1>8. CallInv'
  <2>1. Store!Decided(k, TRUE) # Store!Pending(k)
    BY CallsDistinct
  <2> QED BY <1>1, <1>2, <2>1 DEF CallInv, Deciding, LastChance
<1>9. MemoryInv'
  <2> SUFFICES ASSUME NEW f \in Events, Won(f)'
               PROVE  /\ NonceKey(f) \in burned' \/ (Expires /\ clock > expiry'[NonceKey(f)])
                      /\ Expires => expiry'[NonceKey(f)] >= MemoryEnd(f)
    BY <1>1 DEF MemoryInv, MemoryEnd
  <2>1. NonceKey(f) \in NonceKeys /\ f.ts \in Int /\ expiry[NonceKey(f)] \in Nat
    BY EventsHaveKeys DEF TypeOK
  <2>2. CASE f = e
    <3>1. expiry'[k] = clock + TTL
      BY <1>3 DEF TypeOK
    <3>2. clock + TTL >= MemoryEnd(e)
      BY <1>3, <1>4 DEF MemoryEnd
    <3> QED BY <1>1, <2>2, <3>1, <3>2
  <2>3. CASE f # e
    <3>1. Won(f)
      BY <1>1, <1>7, <2>3 DEF Won
    <3>2. CASE NonceKey(f) # k
      <4>1. expiry'[NonceKey(f)] = expiry[NonceKey(f)]
        BY <1>3, <2>1, <3>2 DEF TypeOK
      <4> QED BY <1>1, <3>1, <4>1 DEF MemoryInv
    <3>3. CASE NonceKey(f) = k
      <4>1. expiry'[k] = clock + TTL
        BY <1>3 DEF TypeOK
      <4>2. Expires => clock > expiry[k] /\ expiry[k] >= MemoryEnd(f)
        BY <1>1, <3>1, <3>3 DEF MemoryInv
      <4>3. MemoryEnd(f) \in Int
        BY <2>1 DEF MemoryEnd
      <4> QED BY <1>1, <1>3, <2>1, <3>3, <4>1, <4>2, <4>3
    <3> QED BY <3>2, <3>3
  <2> QED BY <2>2, <2>3
<1>10. WinnerInv'
  <2>1. ASSUME NEW u \in Verifiers, Winning(u)', NEW f \in Events, Excludes(event[u], f)
        PROVE  accepted[f] = 0
    <3>1. CASE u = v
      <4>1. ~Won(f)
        BY <1>5, <2>1, <3>1
      <4> QED BY <4>1 DEF Won, TypeOK
    <3>2. CASE u # v
      BY <1>7, <2>1, <3>2 DEF WinnerInv
    <3> QED BY <3>1, <3>2
  <2>2. ASSUME NEW u \in Verifiers, NEW w \in Verifiers, Winning(u)', Winning(w)',
               Excludes(event[u], event[w])
        PROVE  u = w
    BY <1>6, <1>7, <2>2 DEF WinnerInv
  <2> QED BY <1>1, <2>1, <2>2 DEF WinnerInv, Excludes
<1>11. AtMostOneAccept'
  BY <1>1 DEF AtMostOneAccept
<1> QED BY <1>8, <1>9, <1>10, <1>11

\* The answer of a winner is the only one for its event.
LEMMA AnswerStep ==
  ASSUME TypeOK, Remaining, NEW v \in Verifiers, Answer(v)
  PROVE  Remaining'
<1> USE DEF Remaining
<1> DEFINE e == event[v]
           k == NonceKey(e)
<1>1. e \in Events /\ Deciding(v)
  BY DEF Answer, TypeOK, Deciding
<1>2. /\ event' = [event EXCEPT ![v] = NoEvent] /\ call' = [call EXCEPT ![v] = Store!NoCall]
      /\ deadline' = [deadline EXCEPT ![v] = 0]
      /\ UNCHANGED <<clock, burned, expiry>>
  BY DEF Answer, Finish, Store!Return
<1>3. /\ event'[v] = NoEvent /\ call'[v] = Store!NoCall
      /\ \A u \in Verifiers : u # v => /\ event'[u] = event[u] /\ call'[u] = call[u]
                                       /\ deadline'[u] = deadline[u]
  BY <1>2 DEF TypeOK
<1>4. CallInv'
  BY <1>2, <1>3 DEF CallInv, Deciding, LastChance
<1>5. \A u \in Verifiers : Winning(u)' => u # v /\ Winning(u) /\ event'[u] = event[u]
  BY <1>3 DEF Winning, Deciding
<1>6. CASE ~Winning(v)
  <2>1. accepted' = accepted
    BY <1>1, <1>6 DEF Answer, Winning, TypeOK
  <2>2. WinnerInv' /\ AtMostOneAccept' /\ \A f \in Events : Won(f)' => Won(f)
    BY <1>5, <2>1, NoNewWinner
  <2>3. MemoryInv'
    BY <1>2, <2>2 DEF MemoryInv, MemoryEnd
  <2> QED BY <1>4, <2>2, <2>3
<1>7. CASE Winning(v)
  <2>1. accepted' = [accepted EXCEPT ![e] = @ + 1]
    BY <1>7 DEF Answer, Winning
  <2>2. \A f \in Events : Excludes(e, f) => accepted[f] = 0
    BY <1>7 DEF WinnerInv
  <2>3. /\ Excludes(e, e) => accepted'[e] = 1
        /\ \A f \in Events : f # e => accepted'[f] = accepted[f]
    BY <1>1, <2>1, <2>2 DEF TypeOK
  <2>4. AtMostOneAccept'
    <3> SUFFICES ASSUME NEW f \in Events, NEW g \in Events, Excludes(f, g)
                 PROVE  IF f = g THEN accepted'[f] <= 1
                                 ELSE accepted'[f] = 0 \/ accepted'[g] = 0
      BY DEF AtMostOneAccept, Excludes
    <3>1. Excludes(g, f)
      BY DEF Excludes
    <3>2. CASE f = e
      BY <2>2, <2>3, <3>2
    <3>3. CASE g = e
      BY <2>2, <2>3, <3>1, <3>3
    <3>4. CASE f # e /\ g # e
      BY <2>3, <3>4 DEF AtMostOneAccept
    <3> QED BY <3>2, <3>3, <3>4
  <2>5. ASSUME NEW u \in Verifiers, Winning(u)' PROVE ~Excludes(event[u], e)
    BY <1>5, <1>7, <2>5 DEF WinnerInv
  <2>6. WinnerInv'
    <3>1. ASSUME NEW u \in Verifiers, Winning(u)', NEW f \in Events, Excludes(event'[u], f)
          PROVE  accepted'[f] = 0
      BY <1>5, <2>3, <2>5, <3>1 DEF WinnerInv
    <3>2. ASSUME NEW u \in Verifiers, NEW w \in Verifiers, Winning(u)', Winning(w)',
                 Excludes(event'[u], event'[w])
          PROVE  u = w
      BY <1>5, <3>2 DEF WinnerInv
    <3> QED BY <3>1, <3>2 DEF WinnerInv, Excludes
  <2>7. \A f \in Events : Won(f)' => Won(f)
    <3> SUFFICES ASSUME NEW f \in Events, Won(f)' PROVE Won(f)
      OBVIOUS
    <3>1. CASE f = e
      BY <1>7, <3>1 DEF Won
    <3>2. CASE f # e
      BY <1>5, <2>3, <3>2 DEF Won
    <3> QED BY <3>1, <3>2
  <2>8. MemoryInv'
    BY <1>2, <2>7 DEF MemoryInv, MemoryEnd
  <2> QED BY <1>4, <2>4, <2>6, <2>8
<1> QED BY <1>6, <1>7

\* A call that throws is forgotten, a win that it had included.
LEMMA ThrowStep ==
  ASSUME TypeOK, Remaining, NEW v \in Verifiers, Throw(v)
  PROVE  Remaining'
<1> USE DEF Remaining
<1>1. /\ event' = [event EXCEPT ![v] = NoEvent] /\ call' = [call EXCEPT ![v] = Store!NoCall]
      /\ deadline' = [deadline EXCEPT ![v] = 0]
      /\ UNCHANGED <<clock, burned, expiry, accepted>>
  BY DEF Throw, Finish, Store!Throw
<1>2. /\ event'[v] = NoEvent /\ call'[v] = Store!NoCall
      /\ \A u \in Verifiers : u # v => /\ event'[u] = event[u] /\ call'[u] = call[u]
                                       /\ deadline'[u] = deadline[u]
  BY <1>1 DEF TypeOK
<1>3. CallInv'
  BY <1>1, <1>2 DEF CallInv, Deciding, LastChance
<1>4. \A u \in Verifiers : Winning(u)' => Winning(u) /\ event'[u] = event[u]
  BY <1>2 DEF Winning, Deciding
<1>5. WinnerInv' /\ AtMostOneAccept' /\ \A f \in Events : Won(f)' => Won(f)
  BY <1>1, <1>4, NoNewWinner
<1>6. MemoryInv'
  BY <1>1, <1>5 DEF MemoryInv, MemoryEnd
<1> QED BY <1>3, <1>5, <1>6
-------------------------------------------------------------------------------
\* Nothing has been claimed when the verifiers start.
LEMMA InvariantInit == Init => IInv
<1> SUFFICES ASSUME Init PROVE IInv
  OBVIOUS
<1>1. /\ \A v \in Verifiers : ~Deciding(v) /\ call[v] = Store!NoCall
      /\ \A e \in Events : accepted[e] = 0
  BY DEF Init, Store!Init, Deciding
<1>2. \A e \in Events : ~Won(e)
  <2>1. \A v \in Verifiers : ~Winning(v)
    BY <1>1 DEF Winning
  <2> QED BY <1>1, <2>1 DEF Won
<1>3. CallInv
  BY <1>1 DEF CallInv
<1>4. MemoryInv
  BY <1>2 DEF MemoryInv
<1>5. WinnerInv
  BY <1>1 DEF WinnerInv, Winning
<1>6. AtMostOneAccept
  BY <1>1 DEF AtMostOneAccept
<1> QED
  BY <1>3, <1>4, <1>5, <1>6, TypeInit DEF IInv

\* The strengthened invariant is inductive.
LEMMA InvariantStep == IInv /\ [Next]_vars => IInv'
<1> SUFFICES ASSUME IInv, [Next]_vars PROVE Remaining'
  BY TypeStep DEF IInv, Remaining
<1>1. TypeOK /\ Remaining
  BY DEF IInv, Remaining
<1>2. CASE Quiet
  BY <1>1, <1>2, QuietStep
<1>3. CASE Operate
  BY <1>2, <1>3 DEF Operate, Quiet, storeVars
<1>4. CASE Tick
  BY <1>1, <1>4, TickStep
<1>5. ASSUME NEW v \in Verifiers, Load(v) PROVE Quiet
  BY <1>5 DEF Load, Quiet, storeVars
<1>6. ASSUME NEW v \in Verifiers, NEW e \in Events, NEW offset \in -Skew..Skew,
             Reject(v, e, clock + offset)
      PROVE  Quiet
  BY <1>1, <1>6, RejectIsQuiet
<1>7. ASSUME NEW v \in Verifiers, NEW e \in Events, NEW offset \in -Skew..Skew,
             Pass(v, e, clock + offset)
      PROVE  Remaining'
  BY <1>1, <1>7, PassStep
<1>8. ASSUME NEW v \in Verifiers, Claim(v) PROVE Remaining'
  <2>1. CASE /\ Store!Win(v, NonceKey(event[v]))
             /\ expiry' = [expiry EXCEPT ![NonceKey(event[v])] = clock + TTL]
    BY <1>1, <1>8, <2>1, WinStep
  <2>2. CASE Store!Lose(v, NonceKey(event[v])) /\ UNCHANGED expiry
    BY <1>1, <1>8, <2>2, LoseStep
  <2> QED BY <1>8, <2>1, <2>2 DEF Claim
<1>9. ASSUME NEW v \in Verifiers, Answer(v) PROVE Remaining'
  BY <1>1, <1>9, AnswerStep
<1>10. ASSUME NEW v \in Verifiers, Throw(v) PROVE Remaining'
  BY <1>1, <1>10, ThrowStep
<1>11. CASE UNCHANGED vars
  BY <1>2, <1>11 DEF vars, storeVars, Quiet
<1> QED
  BY <1>2, <1>3, <1>4, <1>5, <1>6, <1>7, <1>8, <1>9, <1>10, <1>11 DEF Next, Verify

\* INV-04 for any number of verifiers, events and nonces and any window, clock
\* error, store latency and TTL: presentations that exclude each other are not
\* both accepted.
THEOREM AtMostOneAcceptHolds == Spec => []AtMostOneAccept
<1>1. IInv => AtMostOneAccept
  BY DEF IInv
<1> QED BY InvariantInit, InvariantStep, <1>1, PTL DEF Spec

\* A store that never forgets, or forgets no claim before 2W + 2 Skew + Delay
\* have passed, lets no event be accepted twice.
THEOREM ReplayNeverAcceptedHolds ==
  ASSUME Expires => TTL >= 2 * W + 2 * Skew + Delay
  PROVE  Spec => []ReplayNeverAccepted
<1>1. \A e \in Events : Excludes(e, e)
  BY ParametersAssumption, WindowAssumption, EventsHaveKeys DEF Excludes
<1>2. AtMostOneAccept => ReplayNeverAccepted
  BY <1>1 DEF AtMostOneAccept, ReplayNeverAccepted
<1> QED BY AtMostOneAcceptHolds, <1>2, PTL
-------------------------------------------------------------------------------
(* The registry file under the verifiers' eyes *)

\* The verifiers only read the registry file, so that what its commands have said
\* of a key is what it says, for any number of commands, keys and users.
THEOREM RegistryRemembersHolds == Spec => []RegistryRemembers
<1>1. Init => FileInv
  BY FileInvInit DEF Init
<1>2. FileInv /\ [Next]_vars => FileInv'
  <2> SUFFICES ASSUME FileInv, [Next]_vars PROVE FileInv'
    OBVIOUS
  <2>1. CASE UNCHANGED fileVars
    BY <2>1, FileInvStutter
  <2>2. CASE Operate
    BY <2>2, FileInvStep DEF Operate
  <2>3. CASE Tick
    BY <2>1, <2>3 DEF Tick
  <2>4. ASSUME NEW v \in Verifiers, Verify(v) PROVE UNCHANGED fileVars
    BY <2>4 DEF Verify, Load, Reject, Pass, Claim, Answer, Throw
  <2>5. CASE UNCHANGED vars
    BY <2>1, <2>5 DEF vars
  <2> QED BY <2>1, <2>2, <2>3, <2>4, <2>5 DEF Next
<1>3. FileInv => RegistryRemembers
  BY DEF FileInv
<1> QED BY <1>1, <1>2, <1>3, PTL DEF Spec
-------------------------------------------------------------------------------
(* What burns a nonce *)

\* What a call's copy of the registry says has been so since the call began, and
\* so has what the gates found in it about the event that passed them.
GateInv ==
  \A v \in Verifiers :
    /\ ~Idle(v) => /\ Facts(copy[v].registry).active \subseteq witnessed[v].active
                   /\ Facts(copy[v].registry).eligible \subseteq witnessed[v].eligible
    /\ Deciding(v) =>
         /\ ~Idle(v)
         /\ event[v].defect = "none" /\ event[v].declared
         /\ <<event[v].app, event[v].key>> \in witnessed[v].active
         /\ event[v].uid \in witnessed[v].eligible

\* An event that passes the gates is undamaged, and the registry vouches for it.
LEMMA GatesImply ==
  ASSUME NEW e \in Events, NEW r \in Registries, NEW now, PassesGates(e, r, now)
  PROVE  /\ e.defect = "none" /\ e.declared
         /\ <<e.app, e.key>> \in Facts(r).active /\ e.uid \in Facts(r).eligible
<1>1. e.defect \in Defects /\ <<e.app, e.key>> \in Apps \X KeyIds
  BY ParametersAssumption
<1>2. e.defect = "none"
  BY <1>1 DEF PassesGates, schemaOk, canonicalOk, signatureOk, weightOk, Defects
<1>3. e.declared /\ r.keys[<<e.app, e.key>>] = "active" /\ e.uid \in r.eligible
  BY DEF PassesGates, keyActive, eligible
<1> QED BY <1>1, <1>2, <1>3 DEF Facts

\* A call that ends is no longer under obligation.
LEMMA FinishKeepsGateInv ==
  ASSUME TypeOK, GateInv, NEW v \in Verifiers, Finish(v)
  PROVE  GateInv'
<1>1. copy'[v] = NoCopy /\ event'[v] = NoEvent
  BY DEF Finish, TypeOK
<1>2. \A u \in Verifiers : u # v => copy'[u] = copy[u] /\ event'[u] = event[u]
                                    /\ witnessed'[u] = witnessed[u]
  BY DEF Finish, TypeOK
<1> QED BY <1>1, <1>2 DEF GateInv, Idle, Deciding

\* Every step keeps what the gates have found true.
LEMMA GateInvStep == TypeOK /\ GateInv /\ [Next]_vars => GateInv'
<1> SUFFICES ASSUME TypeOK, GateInv, [Next]_vars PROVE GateInv'
  OBVIOUS
<1>0. CASE UNCHANGED <<copy, event, witnessed>>
  BY <1>0 DEF GateInv, Idle, Deciding
<1>1. CASE Operate
  <2> DEFINE f == Facts(registry')
  <2>1. \A u \in Verifiers : /\ witnessed[u].active \subseteq witnessed'[u].active
                             /\ witnessed[u].eligible \subseteq witnessed'[u].eligible
    BY <1>1 DEF Operate
  <2>2. UNCHANGED <<copy, event>>
    BY <1>1 DEF Operate
  <2>3. ASSUME NEW u \in Verifiers, ~Idle(u)
        PROVE  /\ Facts(copy[u].registry).active \subseteq witnessed'[u].active
               /\ Facts(copy[u].registry).eligible \subseteq witnessed'[u].eligible
    BY <2>1, <2>3 DEF GateInv
  <2>4. ASSUME NEW u \in Verifiers, Deciding(u)
        PROVE  /\ ~Idle(u)
               /\ event[u].defect = "none" /\ event[u].declared
               /\ <<event[u].app, event[u].key>> \in witnessed'[u].active
               /\ event[u].uid \in witnessed'[u].eligible
    BY <2>1, <2>4 DEF GateInv
  <2> QED BY <2>2, <2>3, <2>4 DEF GateInv, Idle, Deciding
<1>2. CASE Tick
  BY <1>0, <1>2 DEF Tick
<1>3. ASSUME NEW v \in Verifiers, Load(v) PROVE GateInv'
  <2>1. /\ copy'[v] = Loaded(registry) /\ witnessed'[v] = Facts(registry)
        /\ \A u \in Verifiers : u # v => copy'[u] = copy[u] /\ witnessed'[u] = witnessed[u]
        /\ event' = event /\ Idle(v)
    BY <1>3 DEF Load, TypeOK
  <2>2. Loaded(registry).registry = registry
    BY DEF Loaded
  <2>3. ~Deciding(v)
    BY <2>1 DEF GateInv
  <2> QED BY <2>1, <2>2, <2>3 DEF GateInv, Idle, Deciding
<1>4. ASSUME NEW v \in Verifiers, NEW e \in Events, NEW now, Reject(v, e, now) PROVE GateInv'
  BY <1>4, FinishKeepsGateInv DEF Reject
<1>5. ASSUME NEW v \in Verifiers, NEW e \in Events, NEW now, Pass(v, e, now) PROVE GateInv'
  <2>1. /\ ~Idle(v) /\ PassesGates(e, copy[v].registry, now)
        /\ event'[v] = e /\ \A u \in Verifiers : u # v => event'[u] = event[u]
        /\ UNCHANGED <<copy, witnessed>>
    BY <1>5 DEF Pass, TypeOK
  <2>2. copy[v].registry \in Registries
    BY <2>1 DEF TypeOK, Idle
  <2>3. /\ e.defect = "none" /\ e.declared
        /\ <<e.app, e.key>> \in witnessed[v].active /\ e.uid \in witnessed[v].eligible
    BY <2>1, <2>2, GatesImply DEF GateInv
  <2> QED BY <2>1, <2>3 DEF GateInv, Idle, Deciding
<1>6. ASSUME NEW v \in Verifiers, Claim(v) PROVE GateInv'
  BY <1>0, <1>6 DEF Claim
<1>7. ASSUME NEW v \in Verifiers, Answer(v) PROVE GateInv'
  BY <1>7, FinishKeepsGateInv DEF Answer
<1>8. ASSUME NEW v \in Verifiers, Throw(v) PROVE GateInv'
  BY <1>8, FinishKeepsGateInv DEF Throw
<1>9. CASE UNCHANGED vars
  BY <1>0, <1>9 DEF vars
<1> QED
  BY <1>1, <1>2, <1>3, <1>4, <1>5, <1>6, <1>7, <1>8, <1>9 DEF Next, Verify

Admissible(v, k) ==
  LET e == event[v] IN
  /\ e # NoEvent /\ NonceKey(e) = k
  /\ e.defect = "none" /\ e.declared
  /\ <<e.app, e.key>> \in witnessed[v].active
  /\ e.uid \in witnessed[v].eligible
  /\ clock - e.ts <= W + Skew + Delay
  /\ e.ts - clock <= W + Skew

\* A claim that is won is for an admissible event.
LEMMA WinnerIsAdmissible ==
  ASSUME TypeOK, CallInv, GateInv, NEW v \in Verifiers, Deciding(v),
         call[v] = Store!Pending(NonceKey(event[v]))
  PROVE  Admissible(v, NonceKey(event[v]))
<1> USE ParametersAssumption, WindowAssumption
<1>1. event[v] \in Events /\ event[v].ts \in Int /\ clock \in Nat /\ deadline[v] \in Nat
  BY EventsHaveKeys DEF TypeOK, Deciding
<1>2. deadline[v] <= LastChance(event[v]) /\ event[v].ts <= clock + W + Skew
      /\ clock <= deadline[v]
  BY DEF CallInv
<1>3. clock - event[v].ts <= W + Skew + Delay /\ event[v].ts - clock <= W + Skew
  BY <1>1, <1>2 DEF LastChance
<1> QED BY <1>3 DEF Admissible, GateInv, Deciding

\* INV-05, -07, -08, -09 for every number of verifiers, events and commands and every
\* window, clock error and latency: whatever enters the store does so for an
\* admissible event.
THEOREM OnlyAdmissibleEventsBurnHolds == Spec => OnlyAdmissibleEventsBurn
<1>1. Init => GateInv
  BY DEF Init, GateInv, Idle, Deciding
<1>2. TypeOK /\ CallInv /\ GateInv /\ [Next]_vars =>
        [\A k \in burned' \ burned : \E v \in Verifiers : Admissible(v, k)]_vars
  <2> SUFFICES ASSUME TypeOK, CallInv, GateInv, Next, NEW k \in burned' \ burned
               PROVE  \E v \in Verifiers : Admissible(v, k)
    OBVIOUS
  <2>1. CASE UNCHANGED burned
    BY <2>1
  <2>2. CASE Operate
    BY <2>1, <2>2 DEF Operate, storeVars
  <2>3. CASE Tick
    BY <2>3 DEF Tick
  <2>4. ASSUME NEW v \in Verifiers, Verify(v), ~Claim(v) PROVE UNCHANGED burned
    BY <2>4 DEF Verify, Load, Reject, Pass, Answer, Throw, storeVars,
                Store!Invoke, Store!Return, Store!Throw
  <2>5. ASSUME NEW v \in Verifiers, Claim(v) PROVE \E u \in Verifiers : Admissible(u, k)
    <3>1. CASE Store!Win(v, NonceKey(event[v]))
      <4>1. k = NonceKey(event[v]) /\ call[v] = Store!Pending(NonceKey(event[v]))
        BY <3>1 DEF Store!Win
      <4>2. Deciding(v)
        BY <2>5 DEF Claim, Deciding
      <4> QED BY <4>1, <4>2, WinnerIsAdmissible
    <3>2. CASE Store!Lose(v, NonceKey(event[v]))
      BY <2>1, <3>2 DEF Store!Lose
    <3> QED BY <2>5, <3>1, <3>2 DEF Claim
  <2> QED BY <2>2, <2>3, <2>4, <2>5 DEF Next
<1>3. IInv => TypeOK /\ CallInv
  BY DEF IInv
<1>4. Spec => [][\A k \in burned' \ burned : \E v \in Verifiers : Admissible(v, k)]_vars
  BY <1>1, <1>2, <1>3, InvariantInit, InvariantStep, GateInvStep, PTL DEF Spec
<1> QED BY <1>4 DEF OnlyAdmissibleEventsBurn, Admissible
===============================================================================
