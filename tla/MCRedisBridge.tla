---------------------------- MODULE MCRedisBridge -----------------------------
(* Instances of RedisBridge for TLC. *)
EXTENDS RedisBridge

CONSTANTS p1, p2, k1, k2
===============================================================================
