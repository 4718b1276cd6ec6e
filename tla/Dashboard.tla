------------------------------- MODULE Dashboard -------------------------------
(***************************************************************************)
(* src/src/dashboard.js, with the primitives it fuses and the server that  *)
(* publishes the result (/api/snapshot).  Verified events and samples of   *)
(* the pool arrive in any order; at any time a snapshot is assembled, or   *)
(* one of the checks of the pool is made on its own.  A snapshot verifies  *)
(* its attestation with a nonce store made for it, so never finds a replay. *)
(***************************************************************************)
EXTENDS Escrow, Engagement, PriceFloor

CONSTANTS
  Entries,     \* verdicts on events: [pioneer, class, action, day, verified]
  Samples,     \* samples of the pool
  Supplies,    \* circulating supplies
  Terms,       \* [pool, attestation, manifest, window, tolerance, minimum]
  MaxReceived  \* how many entries and samples arrive

ASSUME DashboardAssumption ==
  /\ \A e \in Entries : e.pioneer \in Int /\ e.class \in ACTION_CLASSES /\ e.verified \in BOOLEAN
  /\ \A s \in Samples : s.t \in Int /\ s.r \in Nat \ {0} /\ s.q \in Nat \ {0}
  /\ Supplies \subseteq Nat
  /\ \A x \in Terms :
       /\ x.pool.r \in Nat \ {0} /\ x.pool.q \in Nat \ {0} /\ x.pool.s \in Nat
       /\ x.attestation \in Attestations
       /\ x.window \in Nat \ {0} /\ x.tolerance \in 0 .. 10

VARIABLES
  terms,    \* what the caller asks for, the same in every call
  entries,  \* the entries received
  samples,  \* the samples received
  shown     \* the last result

dashboardVars == <<terms, entries, samples, shown>>

Nothing == [kind |-> "none"]
TypeError == [kind |-> "TypeError"]

DashboardInit ==
  terms \in Terms /\ entries = <<>> /\ samples = <<>> /\ shown = Nothing

MoreToCome == Len(entries) + Len(samples) < MaxReceived

\* verifiedEntry, for entries that were verified
Collect ==
  /\ MoreToCome
  /\ \E e \in Entries : entries' = Append(entries, e)
  /\ UNCHANGED <<terms, samples, shown>>

TakeSample ==
  /\ MoreToCome
  /\ \E s \in Samples : samples' = Append(samples, s)
  /\ UNCHANGED <<terms, entries, shown>>

Pool(sample, supply) == [r |-> sample.r, q |-> sample.q, s |-> supply]

\* escrow_lock_status
EscrowLock(a, now) == [state |-> a.state, verifiable |-> Authentic(a, now)]

\* assembleSnapshot; if anything throws, nothing is shown.  Without samples the
\* caller leaves out the report on the pool; for one sample it throws.
Assemble ==
  /\ \E now \in Instants :
       shown' = IF Len(samples) = 1 \/ ~(entries = <<>> \/ scorable(entries, terms.manifest))
                THEN TypeError
                ELSE [kind |-> "snapshot",
                      floor |-> dynamicFloorPrice(terms.pool),
                      health |-> IF samples = <<>> THEN Nothing ELSE invariantReport(samples, 0),
                      lock |-> EscrowLock(terms.attestation, now),
                      board |-> leaderboard(entries, terms.manifest, terms.window)]
  /\ UNCHANGED <<terms, entries, samples>>

\* invariantReport, on its own
Report ==
  /\ Len(samples) >= 2
  /\ shown' = [kind |-> "report", samples |-> samples, tolerance |-> terms.tolerance,
               health |-> invariantReport(samples, terms.tolerance)]
  /\ UNCHANGED <<terms, entries, samples>>

\* floorIntact, for the change from one sample to the next
Compare ==
  /\ Len(samples) >= 2
  /\ \E i \in 2 .. Len(samples), s1, s2 \in Supplies :
       LET before == Pool(samples[i - 1], s1)
           after == Pool(samples[i], s2)
       IN shown' = [kind |-> "comparison", before |-> before, after |-> after,
                    intact |-> floorIntact(before, after, terms.minimum)]
  /\ UNCHANGED <<terms, entries, samples>>

Publication == Collect \/ TakeSample \/ Assemble \/ Report \/ Compare

DashboardSpec ==
  Init /\ DashboardInit /\ [][Publication /\ UNCHANGED vars]_<<vars, dashboardVars>>
-------------------------------------------------------------------------------
(* Properties *)

RowOf(board, p) == CHOOSE i \in DOMAIN board : board[i].pioneer = p
Ranked(board) == {board[i].pioneer : i \in DOMAIN board}

\* Nobody is worse off for more verified events: from one snapshot to the next no
\* score falls, and no pioneer drops out.
ScoreNeverFalls ==
  [][shown.kind = "snapshot" /\ shown'.kind = "snapshot" =>
       \A p \in Ranked(shown.board) :
         /\ p \in Ranked(shown'.board)
         /\ shown'.board[RowOf(shown'.board, p)].score >= shown.board[RowOf(shown.board, p)].score
    ]_dashboardVars

\* Nobody has more points on the board than the ceilings alone would give.
WithinCeilings(board) ==
  \A i \in DOMAIN board :
    /\ board[i].poa <= PointsInRole(entries, board[i].pioneer, "PoA", NoManifest)
    /\ board[i].pou <= PointsInRole(entries, board[i].pioneer, "PoU", NoManifest)

\* engagement.js:17-18: the manifest is clamped to the ceilings, "so a project can
\* weight down but never up".  It is so as long as the manifest puts each action in
\* the class that its events declare, whatever it leaves out and however it weighs
\* the rest.  (Otherwise not: points follow the class of the manifest.)
ManifestWeighsDown ==
  shown.kind = "snapshot" /\ terms.manifest # NoManifest
    /\ (\A e \in Entries : e.action \in DOMAIN terms.manifest
                             => terms.manifest[e.action].class = e.class)
    => WithinCeilings(shown.board)

Power(base, n) ==
  LET power[i \in 0 .. n] == IF i = 0 THEN 1 ELSE base * power[i - 1] IN power[n]

\* pfloor.js:97-99: a decrease beyond the tolerance "is flagged", however the samples
\* arrive: in a healthy series the product falls, from any time to any later one, by no
\* more than the tolerance allows for as many steps as there are; and an unhealthy
\* one has a drawdown beyond the tolerance.
PoolReportIsSound ==
  shown.kind = "report" =>
    LET given == shown.samples
        steps == Len(given) - 1
        K(i) == given[i].r * given[i].q
    IN IF healthy(shown.health)
       THEN \A i, j \in DOMAIN given : given[i].t < given[j].t =>
              K(j) * Power(10, steps) >= K(i) * Power(10 - shown.tolerance, steps)
       ELSE shown.health.drawdown[1] * 10 > shown.health.drawdown[2] * shown.tolerance

\* pfloor.js:158-159: floorIntact answers "does a candidate reserve change keep the
\* promised floor intact?"  A pool that it passes and whose spot price has not fallen
\* has not lost any of its floor, however reserves and supply have moved.  (If the
\* price has fallen, the floor may have too.)
IntactFloorHolds ==
  shown.kind = "comparison" /\ shown.intact
    /\ AtLeast(spotPrice(shown.after), spotPrice(shown.before))
    => AtLeast(floorPrice(shown.after), floorPrice(shown.before))
===============================================================================
