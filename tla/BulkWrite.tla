----------------------------- MODULE BulkWrite -----------------------------
(***************************************************************************)
(* MongoDB::BulkWrite and MongoDB::WriteResult: a queue of write           *)
(* operations is grouped into batches and sent, as write commands that are *)
(* split when they are too large, or one by one to a legacy server; the    *)
(* results are merged into one.                                            *)
(*                                                                         *)
(* An operation is its position in the queue.  What will become of it at   *)
(* the server is part of it:                                               *)
(*   "ok"      it is applied to one document;                              *)
(*   "upsert"  an update that inserts its document;                        *)
(*   "error"   a write error;                                              *)
(*   "dollar"  an insert with a key that begins with $: a write error that *)
(*             the driver raises itself for a legacy server.               *)
(***************************************************************************)
EXTENDS Naturals, Sequences, FiniteSets, FiniteSetsExt

CONSTANTS
    OpSet,         \* operations: [type, size, fate]
    MaxOps,        \* bound: length of the queue
    MaxBatch,      \* _max_write_batch_size
    MaxWire,       \* _max_bson_wire_size
    MaxBson,       \* max_bson_size
    Overhead,      \* size of a write command without its operations
    WriteCommands  \* values of _use_write_cmd

Types == {"insert", "update", "delete"}

ASSUME BulkWriteAssumption ==
    /\ OpSet \subseteq [type : Types, size : Nat \ {0}, fate : {"ok", "upsert", "error", "dollar"}]
    /\ \A o \in OpSet : /\ o.fate = "upsert" => o.type = "update"
                        /\ o.fate = "dollar" => o.type = "insert"
    /\ {MaxOps, MaxBatch, MaxWire, MaxBson} \subseteq Nat \ {0}
    /\ Overhead \in Nat
    /\ WriteCommands \subseteq BOOLEAN

VARIABLES
    queue,     \* _queue
    ordered,   \* ordered, fixed
    w0,        \* whether the write concern is w:0, fixed
    useCmd,    \* _use_write_cmd, fixed
    plan,      \* the order in which the batches go through the queue
    pos,       \* operations of the plan that the loops have passed
    left,      \* @left_to_send: the lengths of the chunks of this batch
    opCount,   \* op_count of the result
    errors,    \* writeErrors: each the index, and the operation appended to it
    upserted,  \* upserted, likewise
    count,     \* nInserted, nMatched, nRemoved by type
    wcError,   \* whether writeConcernErrors is not empty
    pc,        \* "build", "run", "done"; "hang" in a loop that never ends
    outcome,   \* how execute ended
    tried      \* history: operations the server has tried, in order

result == <<opCount, errors, upserted, count, wcError>>
vars   == <<queue, ordered, w0, useCmd, plan, pos, left, opCount, errors, upserted,
            count, wcError, pc, outcome, tried>>

Ops      == 1..Len(queue)
Type(i)  == queue[i].type
Fate(i)  == queue[i].fate
Fails(i) == Fate(i) \in {"error", "dollar"}

TypeOK ==
    /\ queue \in Seq(OpSet) /\ {ordered, w0, useCmd} \subseteq BOOLEAN
    /\ plan \in Seq(Nat) /\ pos \in 0..Len(plan) /\ left \in Seq(Nat \ {0})
    /\ opCount \in Nat /\ count \in [Types -> Nat] /\ wcError \in BOOLEAN
    /\ errors \subseteq [index : Nat, op : Nat] /\ upserted \subseteq [index : Nat, op : Nat]
    /\ pc \in {"build", "run", "done", "hang"}
    /\ outcome \in {"none", "result", "WriteError", "WriteConcernError",
                    "DocumentSizeError", "DatabaseError", "no_ops"}
    /\ tried \in Seq(Nat)

Init ==
    /\ queue = <<>>
    /\ ordered \in BOOLEAN /\ useCmd \in WriteCommands
    /\ w0 \in IF useCmd THEN {FALSE} ELSE BOOLEAN
    /\ plan = <<>> /\ pos = 0 /\ left = <<>>
    /\ opCount = 0 /\ errors = {} /\ upserted = {}
    /\ count = [t \in Types |-> 0] /\ wcError = FALSE
    /\ pc = "build" /\ outcome = "none" /\ tried = <<>>

(* _enqueue_write *)
Enqueue(o) ==
    /\ pc = "build" /\ Len(queue) < MaxOps
    /\ queue' = Append(queue, o)
    /\ UNCHANGED <<ordered, w0, useCmd, plan, pos, left, result, pc, outcome, tried>>

insert(o) == o.type = "insert" /\ Enqueue(o)

(* update, update_one, replace_one, remove and remove_one of a view; one   *)
(* that does not like its arguments dies before it enqueues anything.      *)
update(o) == o.type = "update" /\ Enqueue(o)

remove(o) == o.type = "delete" /\ Enqueue(o)

-----------------------------------------------------------------------------
(* execute, and how it ends *)

(* The operations in the order of the batches: _batch_ordered keeps the    *)
(* order of the queue, _batch_unordered goes through the types in random   *)
(* order.                                                                  *)
Plans ==
    IF ordered THEN {[i \in Ops |-> i]}
    ELSE {p \in [Ops -> Ops] :
            /\ \A i \in Ops : \E j \in Ops : p[j] = i
            /\ \A j, k \in Ops : j < k /\ Type(p[j]) = Type(p[k]) =>
                  p[j] < p[k] /\ \A i \in j..k : Type(p[i]) = Type(p[j])}

Throw(e) == pc' = "done" /\ outcome' = e

(* A second execute is refused, so nothing leads back from "done". *)
Execute ==
    /\ pc = "build"
    /\ IF queue = <<>>
       THEN Throw("no_ops") /\ UNCHANGED plan
       ELSE plan' \in Plans /\ pc' = "run" /\ UNCHANGED outcome
    /\ UNCHANGED <<queue, ordered, w0, useCmd, pos, left, result, tried>>

(* A batch of m operations ends where the type changes or when it is full. *)
BatchEnds(m) ==
    /\ \A k \in 1..m : Type(plan[pos + k]) = Type(plan[pos + 1])
    /\ m < MaxBatch /\ pos + m < Len(plan) => Type(plan[pos + m + 1]) # Type(plan[pos + 1])

StartBatch ==
    /\ pc = "run" /\ left = <<>>
    /\ \E m \in 1..MaxBatch : pos + m <= Len(plan) /\ BatchEnds(m) /\ left' = <<m>>
    /\ UNCHANGED <<queue, ordered, w0, useCmd, plan, pos, result, pc, outcome, tried>>

(* Faulty variant: write concern errors are looked at first. *)
FinishConcernFirst ==
    /\ pc = "run" /\ left = <<>> /\ pos = Len(plan)
    /\ Throw(IF wcError THEN "WriteConcernError"
             ELSE IF errors # {} THEN "WriteError" ELSE "result")
    /\ UNCHANGED <<queue, ordered, w0, useCmd, plan, pos, left, result, tried>>

Finish ==
    /\ pc = "run" /\ left = <<>> /\ pos = Len(plan)
    /\ Throw(IF errors # {} THEN "WriteError"
             ELSE IF wcError THEN "WriteConcernError" ELSE "result")
    /\ UNCHANGED <<queue, ordered, w0, useCmd, plan, pos, left, result, tried>>

(* Faulty variant: the errors of a chunk keep the index they have in it. *)
EntriesInChunk(done, fates) ==
    {[index |-> k - 1, op |-> done[k]] : k \in {j \in 1..Len(done) : Fate(done[j]) \in fates}}

(* The entries of the operations of "done" that had one of these fates:    *)
(* indexes are moved on by the op_count so far.                            *)
Entries(done, fates) ==
    {[index |-> opCount + k - 1, op |-> done[k]] : k \in {j \in 1..Len(done) : Fate(done[j]) \in fates}}

Applied(ops, t) == {k \in 1..Len(ops) : Type(ops[k]) = t /\ Fate(ops[k]) = "ok"}

(* Faulty variant: operations that the server did not try are counted. *)
merge_result_untried(chunk, done) ==
    /\ errors' = errors \cup Entries(done, {"error", "dollar"})
    /\ upserted' = upserted \cup Entries(done, {"upsert"})
    /\ count' = [t \in Types |-> count[t] + Cardinality(Applied(chunk, t))]
    /\ opCount' = opCount + Len(chunk)

(* _parse and _merge_result: the operations "done" of the chunk have been  *)
(* tried; the operations of the whole chunk are counted.                   *)
merge_result(chunk, done) ==
    /\ errors' = errors \cup Entries(done, {"error", "dollar"})
    /\ upserted' = upserted \cup Entries(done, {"upsert"})
    /\ count' = [t \in Types |-> count[t] + Cardinality(Applied(done, t))]
    /\ opCount' = opCount + Len(chunk)

(* Faulty variant: only execute itself looks at the errors. *)
assert_at_end == UNCHANGED <<pc, outcome>>

(* Faulty variant: an unordered bulk stops at an error too. *)
assert_always ==
    IF errors' # {} THEN Throw("WriteError") ELSE UNCHANGED <<pc, outcome>>

(* _assert_no_write_error, called after each merge if the bulk is ordered *)
assert_no_write_error ==
    IF ordered /\ errors' # {} THEN Throw("WriteError") ELSE UNCHANGED <<pc, outcome>>

(* The loops pass k operations of the chunk in front. *)
Pass(k) ==
    /\ pos' = pos + k
    /\ left' = IF k = Head(left) THEN Tail(left) ELSE <<Head(left) - k>> \o Tail(left)

-----------------------------------------------------------------------------
(* _execute_write_command_batch *)

Chunk == SubSeq(plan, pos + 1, pos + Head(left))

CommandSize == Overhead + MapThenSumSet(LAMBDA i : queue[i].size, {Chunk[k] : k \in 1..Head(left)})

(* The server tries the first n operations of a command: all of them, or,  *)
(* if it is ordered, those up to the first error.                          *)
Processes(n) ==
    /\ ordered => \A k \in 1..(n - 1) : ~Fails(Chunk[k])
    /\ n = Head(left) \/ (ordered /\ Fails(Chunk[n]))

Commanding == pc = "run" /\ useCmd /\ left # <<>>

RunCommand ==
    /\ Commanding /\ CommandSize <= MaxWire
    /\ \E n \in 1..Head(left) :
          /\ Processes(n)
          /\ tried' = tried \o SubSeq(Chunk, 1, n)
          /\ merge_result(Chunk, SubSeq(Chunk, 1, n))
    /\ wcError' \in {wcError, TRUE}
    /\ Pass(Head(left))
    /\ assert_no_write_error
    /\ UNCHANGED <<queue, ordered, w0, useCmd, plan>>

(* What a command may have done that died *)
TriedOrNot == \/ UNCHANGED tried
              \/ \E n \in 1..Head(left) : Processes(n) /\ tried' = tried \o SubSeq(Chunk, 1, n)

(* Faulty variant: a command that died is sent again. *)
CommandDiedRetries ==
    /\ Commanding /\ CommandSize <= MaxWire
    /\ TriedOrNot
    /\ UNCHANGED <<queue, ordered, w0, useCmd, plan, pos, left, result, pc, outcome>>

(* The command died; whether the server has run it is not known. *)
CommandDied ==
    /\ Commanding /\ CommandSize <= MaxWire
    /\ TriedOrNot
    /\ Throw("DatabaseError")
    /\ UNCHANGED <<queue, ordered, w0, useCmd, plan, pos, left, result>>

(* Pieces of length k, and what is left *)
Pieces(n, k) == [i \in 1..((n + k - 1) \div k) |-> IF i * k <= n THEN k ELSE n - (i - 1) * k]

(* Faulty variant: the length of the new chunks is rounded up. *)
split_chunk_rounded(k) == left' = Pieces(Head(left), k + 1) \o Tail(left)

(* _split_chunk puts k operations in each new chunk; its loop does not end *)
(* if k is 0.                                                              *)
split_chunk(k) == left' = Pieces(Head(left), k) \o Tail(left)

TooLarge ==
    /\ Commanding /\ CommandSize > MaxWire
    /\ \E k \in 0..Head(left) :
          /\ k = (MaxWire * Head(left)) \div CommandSize
          /\ \/ Head(left) = 1 /\ Throw("DocumentSizeError") /\ UNCHANGED left
             \/ Head(left) > 1 /\ k > 0 /\ split_chunk(k) /\ UNCHANGED <<pc, outcome>>
             \/ Head(left) > 1 /\ k = 0 /\ pc' = "hang" /\ UNCHANGED <<left, outcome>>
    /\ UNCHANGED <<queue, ordered, w0, useCmd, plan, pos, result, tried>>

-----------------------------------------------------------------------------
(* _execute_legacy_batch, one round of its loop *)

Legacy == pc = "run" /\ ~useCmd /\ left # <<>>

Op == plan[pos + 1]

(* _check_no_dollar_keys, _fake_doc_size_error *)
Rejected(i) == Fate(i) = "dollar" \/ queue[i].size > MaxBson

(* The driver's own errors.  With w:0 nobody hears of them: an ordered     *)
(* batch is left, an unordered one goes on.                                *)
LegacyReject ==
    /\ Legacy /\ Rejected(Op)
    /\ \/ /\ w0 /\ Pass(IF ordered THEN Head(left) ELSE 1)
          /\ UNCHANGED <<result, pc, outcome>>
       \/ /\ ~w0 /\ Pass(1)
          /\ errors' = errors \cup {[index |-> opCount, op |-> Op]}
          /\ opCount' = opCount + 1
          /\ assert_no_write_error
          /\ UNCHANGED <<upserted, count, wcError>>
    /\ UNCHANGED <<queue, ordered, w0, useCmd, plan, tried>>

(* _make_safe_cursor sends the operation with a getlasterror and waits;    *)
(* _get_writeresult_from_gle makes a result of the answer.                 *)
LegacySafe ==
    /\ Legacy /\ ~Rejected(Op) /\ (ordered \/ ~w0)
    /\ tried' = Append(tried, Op)
    /\ \/ /\ w0 /\ Fails(Op)
          /\ Pass(Head(left))
          /\ UNCHANGED <<result, pc, outcome>>
       \/ /\ ~(w0 /\ Fails(Op))
          /\ merge_result(<<Op>>, <<Op>>)
          /\ wcError' \in IF Fails(Op) THEN {wcError} ELSE {wcError, TRUE}
          /\ Pass(1)
          /\ assert_no_write_error
    /\ UNCHANGED <<queue, ordered, w0, useCmd, plan>>

(* The getlasterror itself failed, or the connection did. *)
LegacyDied ==
    /\ Legacy /\ ~Rejected(Op)
    /\ tried' \in {tried, Append(tried, Op)}
    /\ Throw("DatabaseError")
    /\ UNCHANGED <<queue, ordered, w0, useCmd, plan, pos, left, result>>

(* Fire and forget, with a mocked result *)
LegacyUnsafe ==
    /\ Legacy /\ ~Rejected(Op) /\ w0 /\ ~ordered
    /\ tried' = Append(tried, Op)
    /\ opCount' = opCount + 1
    /\ Pass(1)
    /\ UNCHANGED <<queue, ordered, w0, useCmd, plan, errors, upserted, count, wcError, pc, outcome>>

Run == \/ Execute \/ StartBatch \/ RunCommand \/ CommandDied \/ TooLarge
       \/ LegacyReject \/ LegacySafe \/ LegacyDied \/ LegacyUnsafe \/ Finish

Next == (\E o \in OpSet : insert(o) \/ update(o) \/ remove(o)) \/ Run

Spec == Init /\ [][Next]_vars

(* execute is one call: once begun it goes on. *)
FairSpec == Spec /\ WF_vars(Run)

-----------------------------------------------------------------------------
(* Properties *)

Reported == outcome \in {"result", "WriteError", "WriteConcernError"}

(* What the server has tried, and whose errors the result tells *)
Tried == {tried[k] : k \in 1..Len(tried)}
Told  == {e.op : e \in errors}

InQueueOrder(s) == \A k \in 1..Len(s) : s[k] = k

(* An ordered bulk stops at the first error: the server has tried a prefix *)
(* of the queue, in its order, and nothing after an operation that failed, *)
(* across batches, chunks and both protocols.                              *)
StopsAtError ==
    ordered /\ ~w0 => /\ InQueueOrder(tried)
                      /\ \A k \in 1..(Len(tried) - 1) : ~Fails(tried[k])

(* No operation is sent to the server twice, however chunks are split. *)
NoneTwice == \A j, k \in 1..Len(tried) : tried[j] = tried[k] => j = k

(* When execute reports on an acknowledged bulk, every operation was tried *)
(* or has an error, except that an ordered bulk with an error has stopped; *)
(* and the errors are those of the operations that failed, one each.       *)
Complete ==
    Reported /\ ~w0 =>
        /\ ~ordered \/ errors = {} => Ops = Tried \cup Told
        /\ {i \in Tried : Fails(i)} \subseteq Told
        /\ \A i \in Told : Fails(i) \/ (~useCmd /\ Rejected(i))
        /\ \A e, f \in errors : e.op = f.op => e = f

(* The index of an error or an upsert of an ordered bulk is the position   *)
(* of its operation in the queue: _merge_result adds up what went before.  *)
IndexesPoint ==
    ordered /\ ~w0 => \A e \in errors \cup upserted : e.index = e.op - 1

(* The counts of the result are the numbers of operations that succeeded. *)
CountsAgree ==
    Reported /\ ~w0 =>
        /\ \A t \in Types :
              count[t] = Cardinality({i \in Tried : Type(i) = t /\ Fate(i) = "ok"})
        /\ Cardinality(upserted) = Cardinality({i \in Tried : Fate(i) = "upsert"})

(* A write concern error is thrown only when all writes were accepted. *)
ConcernMeansWritten ==
    outcome = "WriteConcernError" /\ ~w0 => \A i \in Ops :
        ~Fails(i) /\ \E k \in 1..Len(tried) : tried[k] = i

(* Operations that are refused, by the server or by the driver *)
Refused(i) == Fails(i) \/ (~useCmd /\ Rejected(i))

Bad == [i \in Ops |-> Refused(i)]

Said == IF Reported THEN outcome
        ELSE CASE pc = "build" -> "nothing"
               [] pc = "done"  -> "died"
               [] OTHER        -> "wait"

(* The bulk does what module Bulk promises, through batches, chunks split  *)
(* by size, both protocols and failures of the connection: whoever reads   *)
(* its report knows what was done.                                         *)
Promise == INSTANCE Bulk WITH bad <- Bad, heard <- ~w0, said <- Said,
                              told <- IF Reported THEN Told ELSE {}
KeepsPromise == Promise!Spec

(* Operations of a type that follow each other never need, on average,     *)
(* more than a command may hold: then _split_chunk never gets 0 for the    *)
(* length of its new chunks.  A single one may be too large.               *)
Splittable ==
    \A j, k \in 1..Len(plan) :
        j < k /\ k < j + MaxBatch /\ (\A i \in j..k : Type(plan[i]) = Type(plan[j])) =>
            Overhead + MapThenSumSet(LAMBDA i : queue[i].size, {plan[i] : i \in j..k})
                <= MaxWire * (k - j + 1)

(* execute of a bulk that goes by legacy operations, or whose commands can *)
(* be split, comes to an end with a result or an exception.  Of others it  *)
(* is not true: the loop of _split_chunk may never end.                    *)
ExecuteReturns == pc = "run" /\ (~useCmd \/ Splittable) ~> pc = "done"
=============================================================================
