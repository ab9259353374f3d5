----------------------------- MODULE Iterator -----------------------------
(***************************************************************************)
(* What MongoDB::Cursor promises the program that iterates it: the         *)
(* documents 1..total of the result, each once and in order, then the end. *)
(* A call may die, and then nothing is lost: the iteration goes on where   *)
(* it was.                                                                 *)
(***************************************************************************)
EXTENDS Naturals, Sequences

VARIABLES
    total,   \* documents of the result that the limit lets through
    given,   \* documents handed out since the query or the last reset
    status   \* what the last call said

vars == <<total, given, status>>

Init == total \in Nat /\ given = <<>> /\ status = "none"

Give ==
    /\ Len(given) < total
    /\ given' = Append(given, Len(given) + 1) /\ status' = "doc"
    /\ UNCHANGED total

More == Len(given) < total /\ status' = "true" /\ UNCHANGED <<total, given>>

End == Len(given) = total /\ status' = "end" /\ UNCHANGED <<total, given>>

Die == status' = "died" /\ UNCHANGED <<total, given>>

Restart == given' = <<>> /\ status' = "none" /\ UNCHANGED total

(* Before the first document the program may ask for another result. *)
Change == given = <<>> /\ total' \in Nat /\ UNCHANGED <<given, status>>

Next == Change \/ Give \/ More \/ End \/ Die \/ Restart

Spec == Init /\ [][Next]_vars
=============================================================================
