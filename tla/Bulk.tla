-------------------------------- MODULE Bulk --------------------------------
(***************************************************************************)
(* What MongoDB::BulkWrite promises the program that executes a bulk: the  *)
(* operations that are due are done, each at most once, and the report     *)
(* names those of them that are bad, and no others.  Due is the whole      *)
(* queue or, if the bulk is ordered, what comes up to its first bad        *)
(* operation.  Batches, chunks and protocols are not to be seen here.      *)
(***************************************************************************)
EXTENDS Naturals, Sequences

VARIABLES
    bad,      \* the queue: whether each operation will be refused
    ordered,  \* the bulk is ordered
    heard,    \* its writes are acknowledged
    tried,    \* what the server has tried, in order
    said,     \* what execute has said so far
    told      \* the operations whose errors the report tells

vars == <<bad, ordered, heard, tried, said, told>>

Ops   == 1..Len(bad)
Tried == {tried[k] : k \in 1..Len(tried)}
Due   == IF ordered THEN {i \in Ops : \A j \in 1..(i - 1) : ~bad[j]} ELSE Ops

Init ==
    /\ bad = <<>> /\ ordered \in BOOLEAN /\ heard \in BOOLEAN
    /\ tried = <<>> /\ said = "nothing" /\ told = {}

Enqueue ==
    /\ said = "nothing"
    /\ \E b \in BOOLEAN : bad' = Append(bad, b)
    /\ UNCHANGED <<ordered, heard, tried, said, told>>

Begin == said = "nothing" /\ said' = "wait" /\ UNCHANGED <<bad, ordered, heard, tried, told>>

(* Nothing is tried twice, and if order matters nothing that is not due, *)
(* and all of it in its order.                                           *)
Proper ==
    /\ Tried \subseteq Ops
    /\ \A j, k \in 1..Len(tried) : tried[j] = tried[k] => j = k
    /\ ordered /\ heard => Tried \subseteq Due /\ \A k \in 1..Len(tried) : tried[k] = k

(* More is tried, and what was tried stays tried. *)
Proceeds ==
    /\ Len(tried') >= Len(tried) /\ \A k \in 1..Len(tried) : tried'[k] = tried[k]
    /\ Proper'
    /\ UNCHANGED <<bad, ordered, heard>>

Work == said = "wait" /\ Proceeds /\ UNCHANGED <<said, told>>

Die == said \in {"nothing", "wait"} /\ said' = "died" /\ Proceeds /\ UNCHANGED told

(* All that was due has been tried or is told.  Who does not ask for       *)
(* acknowledgements hears of no error.                                     *)
Report ==
    /\ said = "wait" /\ said' \in {"result", "WriteError", "WriteConcernError"}
    /\ Proceeds
    /\ heard => Due \subseteq Tried' \cup told'
    /\ told' = IF heard THEN {i \in Due : bad[i]} ELSE {}
    /\ said' = "WriteError" <=> told' # {}

Next == Enqueue \/ Begin \/ Work \/ Die \/ Report

Spec == Init /\ [][Next]_vars
=============================================================================
