------------------------------ MODULE MCGridFS ------------------------------
(* Values of the constants of GridFS that a .cfg cannot spell. *)
EXTENDS GridFS, TLC

(* No chunk, one that is not full, and three of which the last is not *)
SomeContents == {<<>>, <<2, 3, 4>>, <<2, 3, 4, 5, 6, 7, 8>>}

(* The whole file, and ranges on every side of a chunk's ends *)
SomeRanges == [length : {0, 1, 2, 4, 9}, offset : {0, 1, 2, 3, 4, 5, 6, 8}]

Alike == Permutations(Clients) \cup Permutations(Ids)
=============================================================================
