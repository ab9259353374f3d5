------------------------------- MODULE MCIds -------------------------------
(* Ids and Digests in one program, and values of the constants that a .cfg *)
(* cannot spell.                                                           *)
EXTENDS Ids, Digests

(* The flags of the default context, and a context with a cached pid for a *)
(* program that uses threads one at a time                                 *)
Default == {"thread_safe", "disable_pid_cache"}
SomeUses == {[for |-> "oid", flags |-> Default], [for |-> "oid", flags |-> {}],
             [for |-> "sequence", flags |-> Default], [for |-> "sequence", flags |-> {}],
             [for |-> "query", flags |-> {}], [for |-> "digest", flags |-> {}]}

(* No two bytes of a message are the same; it has more bits than the lower *)
(* word of the count holds.                                                *)
SomeMessages == {[k \in 1..250 |-> k]}

MCInit == Init /\ DigestInit

MCNext ==
    \/ Next /\ UNCHANGED digest
    \/ use.for = "digest" /\ DigestNext /\ UNCHANGED vars

MCSpec == MCInit /\ [][MCNext]_<<vars, digest>>
=============================================================================
