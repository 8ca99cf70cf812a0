---------------------------- MODULE MCCachedFs ------------------------------
(* Instances of CachedFs for TLC. *)
EXTENDS CachedFs, TLC

CONSTANTS t1, t2

Threads2 == {t1, t2}
Symmetry == Permutations(Threads)
=============================================================================
