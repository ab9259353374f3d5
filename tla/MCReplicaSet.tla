--------------------------- MODULE MCReplicaSet ----------------------------
(* A set of three members, as model values; b has the other tags, so only  *)
(* a and c may change places.                                              *)
EXTENDS ReplicaSet, TLC

CONSTANTS a, b, c

Alike == Permutations({a, c})
=============================================================================
