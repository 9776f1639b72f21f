----------------------- MODULE MCInMemoryCachedAgent -----------------------
(* The instances of InMemoryCachedAgent that TLC checks.                   *)
EXTENDS InMemoryCachedAgent, MCCachePolicy, TLC

CONSTANTS t1, t2, t3

Symmetry == Permutations(Threads)
=============================================================================
