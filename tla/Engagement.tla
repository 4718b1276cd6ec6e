------------------------------- MODULE Engagement -------------------------------
(***************************************************************************)
(* src/src/engagement.js: scores of the verified events of each pioneer.   *)
(* All functions are pure.  Numbers are exact: points are counted in       *)
(* tenths, and a score of n stands for n / (20 * windowDays).  The code    *)
(* rounds to six places, which keeps the order.                            *)
(***************************************************************************)
EXTENDS Integers, Sequences, Ordering

WEIGHT_CEILINGS == [A |-> 100, B |-> 10, C |-> 1]
ACTION_CLASSES == DOMAIN WEIGHT_CEILINGS
CLASS_ROLES == [A |-> "PoU", B |-> "PoU", C |-> "PoA"]

\* No manifest at all; an empty one lists no action, so that no event counts.
NoManifest == [none |-> {}]

\* Mutant: a multiplier may be larger than one.
compileManifest_up(manifest) ==
  manifest = NoManifest \/ \A action \in DOMAIN manifest :
    manifest[action].class \in ACTION_CLASSES /\ manifest[action].tenths > 0

\* A manifest, from action ids to classes and multipliers, is not refused, and no
\* manifest is none to refuse.
compileManifest(manifest) ==
  manifest = NoManifest \/ \A action \in DOMAIN manifest :
    manifest[action].class \in ACTION_CLASSES /\ manifest[action].tenths \in 1 .. 10

\* entry.points, or the ceiling of the event's class.
Points(e, manifest) ==
  IF manifest = NoManifest THEN 10 * WEIGHT_CEILINGS[e.class]
  ELSE WEIGHT_CEILINGS[manifest[e.action].class] * manifest[e.action].tenths

\* An entry of the pioneer's whose action, if there is a manifest, it lists.
Counts(e, pioneer, manifest) ==
  e.pioneer = pioneer /\ (manifest = NoManifest \/ e.action \in DOMAIN manifest)

\* for (...) sum += points
Sum(numbers) ==
  LET sum[n \in 0 .. Len(numbers)] == IF n = 0 THEN 0 ELSE sum[n - 1] + numbers[n]
  IN sum[Len(numbers)]

PointsInRole(entries, pioneer, role, manifest) ==
  Sum([i \in DOMAIN entries |->
         LET e == entries[i]
         IN IF Counts(e, pioneer, manifest) /\ CLASS_ROLES[e.class] = role
            THEN Points(e, manifest) ELSE 0])

\* Mutant: the share of active days among the events instead of the window.
Consistency_perEvent(entries, pioneer, manifest, windowDays) ==
  LET counted == {i \in DOMAIN entries : Counts(entries[i], pioneer, manifest)}
      days == Cardinality({entries[i].day : i \in counted})
  IN IF counted = {} THEN 0 ELSE windowDays + (windowDays * days) \div Cardinality(counted)

\* 0.5 + 0.5 * min(active days / windowDays, 1), times 2 * windowDays.  The days may
\* lie anywhere in time.
Consistency(entries, pioneer, manifest, windowDays) ==
  LET counted == {i \in DOMAIN entries : Counts(entries[i], pioneer, manifest)}
      days == Cardinality({entries[i].day : i \in counted})
  IN windowDays + (IF days < windowDays THEN days ELSE windowDays)

\* The score of a pioneer with at least one entry among the entries of all.
engagementScore(pioneer, entries, manifest, windowDays) ==
  LET poa == PointsInRole(entries, pioneer, "PoA", manifest)
      pou == PointsInRole(entries, pioneer, "PoU", manifest)
  IN [pioneer |-> pioneer, poa |-> poa, pou |-> pou,
      score |-> (poa + pou) * Consistency(entries, pioneer, manifest, windowDays)]

\* assertVerifiedEntry, for all entries, and a manifest that is not refused: otherwise
\* leaderboard throws.
scorable(entries, manifest) ==
  compileManifest(manifest) /\ \A i \in DOMAIN entries : entries[i].verified

\* The rows in order of rank, ties by pioneer.
Ahead(a, b) == a.score > b.score \/ (a.score = b.score /\ a.pioneer < b.pioneer)

leaderboard(entries, manifest, windowDays) ==
  LET pioneers == {entries[i].pioneer : i \in DOMAIN entries}
      rows == {engagementScore(p, entries, manifest, windowDays) : p \in pioneers}
  IN InOrder(rows, {ab \in rows \X rows : Ahead(ab[1], ab[2])})
===============================================================================
