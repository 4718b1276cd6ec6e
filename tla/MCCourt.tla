-------------------------------- MODULE MCCourt --------------------------------
(* Instances of Court and AppServer for TLC. *)
EXTENDS AppServer

\* server.mjs:94: judges of equal stakes, of which one suffices for the quorum's stake
\* (by default 5 of 4).  The last may argue too, as Tesla does.
RosterStake == [k \in Keys |-> 2]
RosterCapabilities == [k \in Keys |-> IF k = 3 THEN {"judge", "referee"} ELSE {"judge"}]

\* One of them publishes a fee.
RosterQuote == [k \in Keys |-> IF k = 2 THEN 1 ELSE Unquoted]

\* server.mjs:143: the first two outvote the third in a demo.
SampleDemo == <<<<1, "AFFIRM">>, <<2, "AFFIRM">>, <<3, "REVERSE">>>>
===============================================================================
