----------------------------- MODULE DocumentServer -----------------------------
(***************************************************************************)
(* src/app/server.mjs: the endpoints that verify documents.  There is one  *)
(* registry, which nobody changes while the server runs, and one nonce     *)
(* store in memory, which cannot fail.  A handler waits for the body of    *)
(* its request and for nothing after that, so it verifies a document       *)
(* before any other handler goes on.                                       *)
(***************************************************************************)
EXTENDS Evidence

NobodyServed == \A v \in Verifiers : call[v] = NoCall

\* POST /api/verify-proof, /api/verify-passport, /api/decide, /api/dispute
ServeVerifyProof(v) == NobodyServed /\ Open(v, "decide", OfKind("proof"))
ServeVerifyPassport(v) == NobodyServed /\ Open(v, "decide", OfKind("passport"))
ServeDecide(v) == NobodyServed /\ Open(v, "decide", Documents)
ServeDispute(v) == NobodyServed /\ Open(v, "dispute", Documents)

Request(v) ==
  \/ ServeVerifyProof(v) \/ ServeVerifyPassport(v) \/ ServeDecide(v) \/ ServeDispute(v)
  \/ Work(v)
===============================================================================
