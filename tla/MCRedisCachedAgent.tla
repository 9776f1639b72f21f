------------------------ MODULE MCRedisCachedAgent ------------------------
(* The instances of RedisCachedAgent that TLC checks.                      *)
EXTENDS RedisCachedAgent, MCCachePolicy, TLC

CONSTANTS c1, c2, c3

Symmetry == Permutations(Clients)
=============================================================================
