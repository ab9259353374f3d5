---------------------------- MODULE MCBulkWrite ----------------------------
(* Operations of every type and fate, small and large.  A command of this  *)
(* instance holds a size of 4, so two large operations or a large and two  *)
(* small ones have to be split; one of size 5 or 9 fits in no command, and *)
(* two of size 5, or one of size 9 with a small one, cannot be split.      *)
EXTENDS BulkWrite

SomeOps ==
    {[type |-> "insert", size |-> 1, fate |-> "ok"],
     [type |-> "insert", size |-> 3, fate |-> "ok"],
     [type |-> "insert", size |-> 5, fate |-> "ok"],
     [type |-> "insert", size |-> 9, fate |-> "ok"],
     [type |-> "insert", size |-> 1, fate |-> "dollar"],
     [type |-> "update", size |-> 1, fate |-> "upsert"],
     [type |-> "update", size |-> 3, fate |-> "error"],
     [type |-> "delete", size |-> 1, fate |-> "ok"]}
=============================================================================
