-------------------------------- MODULE Services --------------------------------
(***************************************************************************)
(* Evidence and the services around it.  A behaviour is about one service: *)
(*                                                                         *)
(*   documents     commands of cli.js on documents (Evidence)              *)
(*   server        the server's endpoints for documents (DocumentServer)   *)
(*   gateway       the page that verifies in the browser (Gateway)         *)
(*   attestations  escrow attestations (Escrow)                            *)
(*   dashboard     snapshots (Dashboard)                                   *)
(*   python        the Python verifier and its state file (StateFile)      *)
(*   wire          signing and verifying any value (Canonical)             *)
(*                                                                         *)
(* The registry is edited under the first, third and fourth of them.       *)
(***************************************************************************)
EXTENDS DocumentServer, Gateway, Dashboard, StateFile, Canonical

VARIABLE service

servicesVars == <<service, vars, pageVars, escrowVars, dashboardVars, stateFileVars, wireVars>>

ServicesInit ==
  /\ service \in
       {"documents", "server", "gateway", "attestations", "dashboard", "python", "wire"}
  /\ Init /\ PageInit
  /\ IF service = "attestations" THEN EscrowInit ELSE EscrowInit /\ store = "memory"
  /\ IF service = "dashboard" THEN DashboardInit
     ELSE DashboardInit /\ terms = CHOOSE x \in Terms : TRUE
  /\ StateFileInit /\ WireInit

Documented ==
  /\ \/ service = "documents" /\ Next
     \/ service = "server" /\ \E v \in Verifiers : Request(v)
  /\ UNCHANGED <<pageVars, escrowVars>>

Browsed == service = "gateway" /\ GatewayNext /\ UNCHANGED escrowVars

Attested == service = "attestations" /\ EscrowNext /\ UNCHANGED pageVars

ServicesNext ==
  \/ /\ Documented \/ Browsed \/ Attested
     /\ UNCHANGED <<service, dashboardVars, stateFileVars, wireVars>>
  \/ /\ service = "dashboard" /\ Publication
     /\ UNCHANGED <<service, vars, pageVars, escrowVars, stateFileVars, wireVars>>
  \/ /\ service = "python" /\ PythonNext
     /\ UNCHANGED <<service, pageVars, escrowVars, dashboardVars, wireVars>>
  \/ /\ service = "wire" /\ WireNext
     /\ UNCHANGED <<service, vars, pageVars, escrowVars, dashboardVars, stateFileVars>>

ServicesSpec == ServicesInit /\ [][ServicesNext]_servicesVars

\* The values each variable may take.
ServicesTypeOK ==
  /\ TypeOK
  /\ EscrowTypeOK
  /\ copy \in Registries \union {NoCopy}
  /\ requests \in [1 .. MaxRequests -> Registries \union {NoRequest, UnderWay}]
  /\ visited \subseteq Registries
  /\ saved \subseteq NonceKeys /\ allowed \subseteq NonceKeys
  /\ shown.kind \in {"none", "TypeError", "snapshot", "report", "comparison"}
  /\ outcome \in {"none", "CANONICALIZATION", "SIGNATURE", "verified"}
===============================================================================
