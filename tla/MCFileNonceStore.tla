--------------------------- MODULE MCFileNonceStore ---------------------------
(* Instances of FileNonceStore for TLC. *)
EXTENDS FileNonceStore, TLC

CONSTANTS p1, p2, p3, k1, k2

OneHost == [p \in Procs |-> "host"]
Symmetry == Permutations(Procs) \union Permutations(Keys \ Malformed)
===============================================================================
