----------------------------- MODULE RegistryFile -----------------------------
(***************************************************************************)
(* src/src/cli.js: the commands that edit the registry file.  A command is *)
(* a process that runs once.  It reads the whole file, changes its copy    *)
(* and writes the whole copy back, with no lock: writeFileSync opens the   *)
(* file, which truncates it, and then writes.  While a file is truncated,  *)
(* and after a shorter content was written over a longer one, it does not  *)
(* parse and readJson throws.                                              *)
(***************************************************************************)
EXTENDS Registry

CONSTANTS
  Commands,   \* command processes
  Genesis     \* what the file may hold at first

SigningKeys == Apps \X KeyIds

ASSUME RegistryFileAssumption == Genesis \subseteq Registries

VARIABLES
  registry,   \* what the file held when it last parsed
  contents,   \* whether it parses now, is empty, or holds the remains of two texts
  edit,       \* edit[c]: how far c is, and the registry it has in memory
  usable,     \* history: usable[k]: the last command about k that ended added it
  doubtful    \* history: the keys on which a command has since written back a copy
              \* it had read before that last command wrote

fileVars == <<registry, contents, edit, usable, doubtful>>

Steps == {"ready", "loaded", "writing", "done"}
\* about: the keys that the command is to change; adds: whether it is to add them;
\* missed: keys that other commands have changed in the file since c read it.
Edits == [step : Steps, registry : Registries, about : SUBSET SigningKeys, adds : BOOLEAN,
          missed : SUBSET SigningKeys]
NoEdit(step) ==
  [step |-> step, registry |-> createRegistry, about |-> {}, adds |-> FALSE, missed |-> {}]

FileInit ==
  /\ registry \in Genesis
  /\ contents = "parses"
  /\ edit = [c \in Commands |-> NoEdit("ready")]
  /\ usable = {k \in SigningKeys : registry.keys[k] = "active"}
  /\ doubtful = {}

\* readJson(registryFile)
ReadRegistry(c) ==
  /\ edit[c].step = "ready" /\ contents = "parses"
  /\ edit' = [edit EXCEPT ![c] = [@ EXCEPT !.step = "loaded", !.registry = registry]]
  /\ UNCHANGED <<registry, contents, usable, doubtful>>

\* writeJson begins: the file is opened and so truncated.
Truncate(c, r, about, adds) ==
  /\ edit' = [edit EXCEPT ![c] = [@ EXCEPT !.step = "writing", !.registry = r,
                                           !.about = about, !.adds = adds]]
  /\ contents' = "empty"
  /\ UNCHANGED <<registry, usable, doubtful>>

cmdInitReg(c) ==
  /\ edit[c].step = "ready"
  /\ \E a \in Apps : Truncate(c, registerApp(createRegistry, a), SigningKeys, FALSE)

cmdAddKey(c) ==
  /\ edit[c].step = "loaded"
  /\ \E a \in Apps, id \in KeyIds :
       Truncate(c, registerKey(edit[c].registry, a, id), {<<a, id>>}, TRUE)

cmdRevokeKey(c) ==
  /\ edit[c].step = "loaded"
  /\ \E a \in Apps, id \in KeyIds :
       Truncate(c, revokeKey(edit[c].registry, a, id), {<<a, id>>}, FALSE)

\* No command withdraws eligibility; programs that use registry.js as this one does may.
cmdEligible(c) ==
  /\ edit[c].step = "loaded"
  /\ \E u \in Uids, granted \in BOOLEAN :
       Truncate(c, markEligible(edit[c].registry, u, granted), {}, FALSE)

\* writeJson ends.  If somebody else has written since the last truncation, that
\* text may be longer than this one.
WriteRegistry(c) ==
  /\ edit[c].step = "writing"
  /\ \/ registry' = edit[c].registry /\ contents' = "parses"
     \/ contents # "empty" /\ contents' = "mixed" /\ UNCHANGED registry
  /\ edit' = [d \in Commands |->
       IF d = c THEN NoEdit("done")
       ELSE IF edit[d].step \in {"loaded", "writing"}
         THEN [edit[d] EXCEPT !.missed = @ \union edit[c].about]
         ELSE edit[d]]
  /\ usable' = IF edit[c].adds THEN usable \union edit[c].about ELSE usable \ edit[c].about
  /\ doubtful' = (doubtful \union edit[c].missed) \ edit[c].about

\* A process may be interrupted anywhere, or its disk be full: nothing obliges a
\* command to take its next step.
Command(c) ==
  \/ ReadRegistry(c) \/ WriteRegistry(c)
  \/ cmdInitReg(c) \/ cmdAddKey(c) \/ cmdRevokeKey(c) \/ cmdEligible(c)
-------------------------------------------------------------------------------
FileTypeOK ==
  /\ registry \in Registries
  /\ contents \in {"parses", "empty", "mixed"}
  /\ edit \in [Commands -> Edits]
  /\ usable \subseteq SigningKeys
  /\ doubtful \subseteq SigningKeys

\* A key that was added can be used and one that was revoked, or lost with the
\* rest of a registry that was started afresh, cannot, as the last command about
\* it said; unless a command that ran at the same time as that one has
\* written since.  Nothing else, in particular no command about another key or a
\* user, brings a revoked key back.
RegistryRemembers ==
  contents = "parses" => \A k \in SigningKeys \ doubtful :
             k \in usable <=> registry.keys[k] = "active"
===============================================================================
