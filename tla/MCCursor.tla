----------------------------- MODULE MCCursor -----------------------------
(* Values of the constants of Cursor that a .cfg cannot spell. *)
EXTENDS Cursor

(* No limit, one document, fewer than the result has, and a single batch *)
SomeLimits == {-2, 0, 1, 2}

(* A program that uses all of the iteration, and queries that fail: of a   *)
(* cursor that goes on where its query or command ran                      *)
Iterate == [kinds |-> {"query", "agg"}, apart |-> TRUE,
            ops   |-> {"next", "has_next", "reset", "limit", "DESTROY"},
            query |-> {"ok", "lost", "late"}, more |-> {"ok", "lost"}]

(* The same of a parallel scan, where the master is the pinned server *)
Scan == [Iterate EXCEPT !.kinds = {"parallel"}, !.apart = FALSE]

(* all: nothing but next, until the cursor goes away *)
All == [kinds |-> {"query", "agg"}, apart |-> TRUE,
        ops   |-> {"next", "DESTROY"}, query |-> {"ok", "lost"}, more |-> {"ok"}]

Iterations == {Iterate, Scan, All}

(* Every method, and every failure of every message, on any server *)
Everything == [kinds |-> Kinds, apart |-> TRUE,
               ops   |-> Methods, query |-> Outcomes, more |-> Outcomes \ {"error"}]

(* What NoLeak is about: failures that leave no server cursor behind *)
Tidy == [kinds |-> Kinds, apart |-> TRUE,
         ops   |-> {"next", "has_next", "limit", "DESTROY"},
         query |-> {"ok", "lost", "error"}, more |-> {"ok", "late", "cut"}]

Faults == {Everything, Tidy}
=============================================================================
