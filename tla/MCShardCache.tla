---------------------------- MODULE MCShardCache ----------------------------
(* TLC instances of ShardCache: caches are interchangeable, and so are the  *)
(* keys of one kind.                                                        *)
EXTENDS ShardCache, TLC

CacheSymmetry == Permutations(Caches)
=============================================================================
