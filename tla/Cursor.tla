------------------------------ MODULE Cursor ------------------------------
(***************************************************************************)
(* MongoDB::Cursor (lib/MongoDB/Cursor.pm, xs/Cursor.xs): a cursor object, *)
(* the servers that keep its server-side cursors, and what the link made   *)
(* of each request.  Link shows that a request ends in one of these ways:  *)
(*   "ok"    the server did it and hear returned its reply;                *)
(*   "late"  the server did it, the call died of the timeout, and the      *)
(*           reply will be thrown out as older than the next request;      *)
(*   "lost"  the request did not reach the server, the call died;          *)
(*   "cut"   the server did it and the connection closed inside the reply; *)
(*   "error" (queries) the reply is an error document.                     *)
(* Documents are the positions 1..docs of the result; the others have      *)
(* names below.                                                            *)
(***************************************************************************)
EXTENDS Integers, Sequences, FiniteSets

CONSTANTS
    Servers,
    Worlds,         \* what programs call, on which cursors and servers, and
                    \* what becomes of their requests
    MaxDocs,        \* bound: largest result set
    BatchSize,      \* most documents a server puts in one reply
    FirstBatches,   \* sizes of an aggregation's first batch
    Limits,         \* values of limit()
    Pinned,         \* whether a read preference is pinned
    MaxRepins,      \* bound: how often rs_refresh or a failure repins
    MaxCursors      \* bound: server cursors ever made

Methods  == {"next", "has_next", "reset", "limit", "explain", "DESTROY"}
Outcomes == {"ok", "late", "lost", "cut", "error"}
Kinds    == {"query", "agg", "parallel"}    \* find, aggregate, parallel_scan

ASSUME CursorAssumption ==
    /\ Servers # {}
    /\ \A w \in Worlds : /\ w.kinds \subseteq Kinds /\ w.apart \in BOOLEAN
                         /\ w.ops \subseteq Methods
                         /\ w.query \subseteq Outcomes /\ w.more \subseteq Outcomes
    /\ MaxDocs \in Nat /\ BatchSize \in Nat \ {0}
    /\ FirstBatches \subseteq Nat /\ Limits \subseteq Int
    /\ Pinned \in BOOLEAN
    /\ MaxRepins \in Nat /\ MaxCursors \in Nat \ {0}

Explanation == 0    \* what a query with $explain returns
ErrorDoc    == -1   \* a document with $err
Garbage     == -2   \* bytes of the buffer no reply was read into
Document    == Garbage..MaxDocs

VARIABLES
    world,           \* the sorts of cursor, whether the pinned server may be
                     \* another than the master, the methods called, the
                     \* outcomes of queries and of the later messages: fixed
    kind, docs,      \* the sort of cursor, the size of its result: fixed
    open,            \* server cursors: [id, server, next] records
    lastCid,         \* last server cursor id given out
    pinned, repins,  \* the pinned server, and how often it changed
    client,          \* _client: the server requests of this cursor go to
    started,         \* started_iterating
    at, num,         \* cursor->at, cursor->num
    cid,             \* cursor->cursor_id
    buf,             \* documents of cursor->buf from buf.pos on
    agg,             \* _agg_first_batch
    limit, saved,    \* _limit, and explain's copy of it
    explain,         \* whether the query carries $explain
    pc, op,          \* where the running call is, and which it is
    result,          \* what the last call did
    returned,        \* history: documents next returned since the last reset
    alive

server  == <<open, lastCid>>
route   == <<pinned, repins, client>>
cursor  == <<started, at, num, cid, buf, agg>>
request == <<world, kind, docs, limit, saved, explain>>
vars    == <<world, kind, docs, open, lastCid, pinned, repins, client, started, at, num,
             cid, buf, agg, limit, saved, explain, pc, op, result, returned, alive>>

Ops           == world.ops      \* methods the program calls
QueryOutcomes == world.query    \* what may become of a query
MoreOutcomes  == world.more     \* what may become of a get_more or a kill

Min(a, b) == IF a < b THEN a ELSE b
Abs(n)    == IF n < 0 THEN -n ELSE n

(* The documents the caller is to get *)
Total == IF limit = 0 THEN docs ELSE Min(Abs(limit), docs)

(* The k documents after position p *)
Docs(p, k) == [i \in 1..k |-> p + i]

TypeOK ==
    /\ world \in Worlds /\ kind \in world.kinds /\ docs \in 0..MaxDocs
    /\ open \subseteq [id : 1..MaxCursors, server : Servers, next : 0..MaxDocs]
    /\ lastCid \in 0..MaxCursors
    /\ pinned \in Servers /\ repins \in 0..MaxRepins /\ client \in Servers
    /\ started \in BOOLEAN /\ at \in Nat /\ num \in Nat /\ cid \in 0..MaxCursors
    /\ buf \in Seq(Document) /\ agg \in Seq(Document)
    /\ limit \in Int /\ saved \in Int /\ explain \in BOOLEAN
    /\ pc \in {"idle", "query", "requery", "check", "more"}
    /\ op \in {"next", "has_next", "explain"}
    /\ result \in {"none", "doc", "true", "end", "died"}
    /\ returned \in Seq(Document) /\ alive \in BOOLEAN

(* A cursor from find has not run its query, and _select_cursor_client has *)
(* chosen its server.  aggregate and parallel_scan build a cursor around   *)
(* the id, and the first batch, a command returned.  Its _client is the    *)
(* master until the first next, whichever server ran the command: the      *)
(* pinned one for aggregate, which takes a read preference; the master for *)
(* parallelCollectionScan, or the pinned one if the command was sent again.*)
Init ==
    /\ world \in Worlds /\ kind \in world.kinds /\ docs \in 0..MaxDocs
    /\ pinned \in Servers /\ repins = 0
    /\ explain = FALSE /\ saved = 0
    /\ pc = "idle" /\ op = "next" /\ result = "none" /\ returned = <<>> /\ alive = TRUE
    /\ at = 0 /\ buf = <<>>
    /\ \/ /\ kind = "query" /\ started = FALSE
          /\ client = pinned /\ limit \in Limits
          /\ num = 0 /\ cid = 0 /\ agg = <<>> /\ open = {} /\ lastCid = 0
       \/ /\ kind # "query" /\ started = TRUE /\ limit = 0
          /\ client \in Servers          \* the master
          /\ client # pinned => Pinned /\ world.apart
          /\ \E k \in IF kind = "parallel" THEN {0} ELSE {Min(f, docs) : f \in FirstBatches},
                home \in IF kind = "parallel" THEN {client, pinned} ELSE {pinned} :
                /\ num = k /\ agg = Docs(0, k)
                /\ \/ /\ k = docs /\ cid = 0 /\ open = {} /\ lastCid = 0
                   \/ /\ cid = 1 /\ lastCid = 1
                      /\ open = {[id |-> 1, server |-> home, next |-> k]}

-----------------------------------------------------------------------------
(* How a call ends *)

(* Faulty variant: _reset rewinds the buffer and forgets cursor->num. *)
ClearKeepsNum == started' = FALSE /\ at' = 0 /\ buf' = <<>> /\ UNCHANGED num

Clear == started' = FALSE /\ at' = 0 /\ num' = 0 /\ buf' = <<>>

Returns(res) == pc' = "idle" /\ result' = res /\ UNCHANGED <<started, limit, explain>>

Dies == Returns("died") /\ UNCHANGED returned

(* explain resets the cursor and puts limit and query back after its next, *)
(* unless that died.                                                       *)
ExplainReturns ==
    /\ op = "explain"
    /\ Clear /\ limit' = saved /\ explain' = FALSE
    /\ pc' = "idle" /\ result' = "none" /\ returned' = <<>>
    /\ UNCHANGED agg

Ends ==
    \/ ExplainReturns
    \/ op # "explain" /\ Returns("end") /\ UNCHANGED <<at, num, buf, agg, returned>>

(* Faulty variant: has_next consumes the document it looks at. *)
FoundConsumes(b, n) ==
    /\ at' = at + 1 /\ num' = n
    /\ IF agg = <<>> THEN buf' = Tail(b) /\ UNCHANGED agg
                     ELSE agg' = Tail(agg) /\ buf' = b
    /\ \/ op = "has_next" /\ Returns("true") /\ UNCHANGED returned
       \/ op = "next" /\ Returns("doc") /\ returned' = Append(returned, Head(agg \o b))

(* has_next found a document: next takes it, from the first batch or from  *)
(* the buffer, where the documents b are.  n is what num has become.       *)
Found(b, n) ==
    LET doc == Head(agg \o b)
    IN  \/ /\ op = "has_next" /\ Returns("true")
           /\ num' = n /\ buf' = b
           /\ UNCHANGED <<at, agg, returned>>
        \/ op = "explain" /\ doc # ErrorDoc /\ ExplainReturns
        \/ /\ (op = "next" /\ doc # ErrorDoc) \/ (op # "has_next" /\ doc < 0)
           /\ at' = at + 1 /\ num' = n
           /\ IF agg = <<>> THEN buf' = Tail(b) /\ UNCHANGED agg
                            ELSE agg' = Tail(agg) /\ buf' = b
           /\ \/ doc # ErrorDoc /\ Returns("doc") /\ returned' = Append(returned, doc)
              \/ doc < 0 /\ Dies

-----------------------------------------------------------------------------
(* _do_query, entered by every next and has_next *)

Repin ==
    \/ UNCHANGED <<pinned, repins>>
    \/ /\ Pinned /\ repins < MaxRepins
       /\ pinned' \in Servers \ {pinned} /\ repins' = repins + 1

(* rs_refresh may repin, which may die; _client follows the pin. *)
Call(o) ==
    /\ alive /\ pc = "idle" /\ o \in Ops
    /\ op' = o
    /\ \/ /\ Repin /\ client' = pinned'
          /\ pc' = IF started THEN "check" ELSE "query"
          /\ UNCHANGED result
       \/ /\ Pinned /\ "lost" \in QueryOutcomes
          /\ result' = "died"
          /\ UNCHANGED <<route, pc>>
    /\ UNCHANGED <<server, cursor, request, returned, alive>>

(* What a server may answer to the query: the documents, and whether it    *)
(* keeps a cursor.  A limit of one or a negative limit closes the cursor;  *)
(* otherwise a reply may hold less than was asked for.                     *)
Replies ==
    IF explain THEN {[batch |-> <<Explanation>>, keep |-> FALSE]}
    ELSE IF limit < 0 \/ limit = 1
    THEN {[batch |-> Docs(0, Total), keep |-> FALSE]}
    ELSE {r \in {[batch |-> Docs(0, k), keep |-> b] : k \in 0..Min(docs, BatchSize), b \in BOOLEAN} :
            /\ limit = 0 \/ Len(r.batch) <= limit
            /\ docs > 0 => Len(r.batch) > 0
            /\ r.keep \/ Len(r.batch) = docs}

(* The server runs the query. *)
Serve(r) ==
    IF r.keep
    THEN /\ lastCid < MaxCursors /\ lastCid' = lastCid + 1
         /\ open' = open \cup {[id |-> lastCid + 1, server |-> client, next |-> Len(r.batch)]}
    ELSE UNCHANGED server

(* mongo_link_hear stores a reply with the documents b. *)
Store(b, keep, newCid) ==
    /\ cid' = IF keep THEN newCid ELSE 0
    /\ buf' = b /\ num' = num + Len(b)

(* The documents of a reply cut short after the first j *)
CutShort(b, j) == [i \in 1..Len(b) |-> IF i <= j THEN b[i] ELSE Garbage]

QueryDone ==
    /\ started' = TRUE /\ pc' = "check"
    /\ UNCHANGED <<route, request, at, agg, op, result, returned, alive>>

QueryAnswered ==
    /\ pc \in {"query", "requery"}
    /\ \/ /\ "ok" \in QueryOutcomes
          /\ \E r \in Replies : Serve(r) /\ Store(r.batch, r.keep, lastCid + 1)
       \/ /\ "error" \in QueryOutcomes
          /\ Store(<<ErrorDoc>>, FALSE, 0) /\ UNCHANGED server
    /\ QueryDone

(* recv returned 0 before the reply's fields, of which nothing is stored,  *)
(* or inside the documents, which are counted in full.                     *)
QueryCut ==
    /\ pc \in {"query", "requery"} /\ "cut" \in QueryOutcomes
    /\ \E r \in Replies :
          /\ Serve(r)
          /\ \/ UNCHANGED <<cid, buf, num>>
             \/ \E j \in 0..(Len(r.batch) - 1) :
                   Store(CutShort(r.batch, j), r.keep, lastCid + 1)
    /\ QueryDone

(* The eval of _do_query: with a pinned server, repin and send it again,   *)
(* once.  repin may die itself.                                            *)
QueryFailed ==
    /\ pc \in {"query", "requery"}
    /\ \/ "lost" \in QueryOutcomes /\ UNCHANGED server
       \/ "late" \in QueryOutcomes /\ \E r \in Replies : Serve(r)
    /\ \/ /\ pc = "query" /\ Pinned
          /\ Repin /\ client' = pinned'
          /\ pc' = "requery"
          /\ UNCHANGED <<started, limit, explain, result, returned>>
       \/ Dies /\ UNCHANGED route
    /\ UNCHANGED <<at, num, cid, buf, agg, world, kind, docs, saved, op, alive>>

-----------------------------------------------------------------------------
(* has_next *)

(* Faulty variant: the limit is left to the server. *)
NoMoreUnlimited ==
    /\ agg = <<>>
    /\ \/ num = 0 /\ kind # "parallel"
       \/ at = num /\ cid = 0

NoMore ==
    /\ agg = <<>>
    /\ \/ limit > 0 /\ at >= limit
       \/ num = 0 /\ kind # "parallel"
       \/ at = num /\ cid = 0

Check ==
    /\ pc = "check"
    /\ \/ NoMore /\ Ends
       \/ ~NoMore /\ (agg # <<>> \/ at < num) /\ Found(buf, num)
       \/ /\ ~NoMore /\ agg = <<>> /\ at >= num
          /\ pc' = "more"
          /\ UNCHANGED <<started, at, num, buf, agg, limit, explain, result, returned>>
    /\ UNCHANGED <<cid, server, route, world, kind, docs, saved, op, alive>>

(* The server cursors a message of this cursor reaches *)
Addressed == {c \in open : c.id = cid /\ c.server = client}

(* The server answers a get_more for its cursor c with the next k          *)
(* documents; it may close a cursor that has reached the end.              *)
Advance(c, k, keep) ==
    /\ k <= Min(BatchSize, docs - c.next)
    /\ c.next < docs \/ keep => k > 0
    /\ keep \/ c.next + k = docs
    /\ open' = (open \ {c}) \cup IF keep THEN {[c EXCEPT !.next = @ + k]} ELSE {}
    /\ UNCHANGED lastCid

GetMore ==
    /\ pc = "more" /\ "ok" \in MoreOutcomes
    /\ \E c \in Addressed, k \in 0..BatchSize, keep \in BOOLEAN :
          /\ Advance(c, k, keep)
          /\ cid' = IF keep THEN cid ELSE 0
          /\ IF k > 0 THEN Found(Docs(c.next, k), num + k) ELSE Ends
    /\ UNCHANGED <<route, world, kind, docs, saved, op, alive>>

(* flag & 1: the reply's cursor id, 0, is already stored. *)
CursorNotFound ==
    /\ pc = "more" /\ "ok" \in MoreOutcomes /\ Addressed = {}
    /\ num' = 0 /\ cid' = 0
    /\ Dies
    /\ UNCHANGED <<server, route, at, buf, agg, world, kind, docs, saved, op, alive>>

GetMoreFailed ==
    /\ pc = "more"
    /\ \/ "lost" \in MoreOutcomes /\ UNCHANGED server
       \/ /\ "late" \in MoreOutcomes
          /\ \E c \in Addressed, k \in 0..BatchSize, keep \in BOOLEAN : Advance(c, k, keep)
    /\ Dies
    /\ UNCHANGED <<at, num, cid, buf, agg, route, world, kind, docs, saved, op, alive>>

(* has_next takes a hear of 0 for "probably just out of results". *)
GetMoreCut ==
    /\ pc = "more" /\ "cut" \in MoreOutcomes
    /\ \E c \in Addressed, k \in 0..BatchSize, keep \in BOOLEAN :
          /\ Advance(c, k, keep)
          /\ \/ Ends /\ UNCHANGED cid
             \/ \E j \in 0..(k - 1) :
                   /\ Found(CutShort(Docs(c.next, k), j), num + k)
                   /\ cid' = IF keep THEN cid ELSE 0
    /\ UNCHANGED <<route, world, kind, docs, saved, op, alive>>

-----------------------------------------------------------------------------
(* The other methods.  reset and explain of an aggregation are left out. *)

(* The server cursor is neither killed nor forgotten. *)
Reset ==
    /\ "reset" \in Ops /\ alive /\ pc = "idle" /\ kind = "query"
    /\ Clear
    /\ result' = "none" /\ returned' = <<>>
    /\ UNCHANGED <<server, route, cid, agg, request, pc, op, alive>>

(* limit, like the other setters, refuses a cursor that has been queried. *)
SetLimit ==
    /\ "limit" \in Ops /\ alive /\ pc = "idle" /\ ~started
    /\ limit' \in Limits
    /\ UNCHANGED <<server, route, cursor, world, kind, docs, saved, explain, pc, op, result,
                   returned, alive>>

Explain ==
    /\ "explain" \in Ops /\ alive /\ pc = "idle" /\ kind = "query"
    /\ saved' = limit /\ limit' = IF limit > 0 THEN -limit ELSE limit
    /\ explain' = TRUE
    /\ Clear
    /\ op' = "explain"
    /\ Repin /\ client' = pinned'
    /\ pc' = "query" /\ result' = "none" /\ returned' = <<>>
    /\ UNCHANGED <<server, cid, agg, world, kind, docs, alive>>

kill_cursor == open' = IF cid = 0 THEN open ELSE open \ Addressed

(* Faulty variant: a cursor whose batch is used up counts as finished. *)
DestroyUnread ==
    /\ "DESTROY" \in Ops /\ alive /\ pc = "idle"
    /\ alive' = FALSE
    /\ open' = IF cid = 0 \/ at >= num THEN open ELSE open \ Addressed
    /\ UNCHANGED <<lastCid, route, cursor, request, pc, op, result, returned>>

(* The kill goes wherever _client points, and nowhere if the link is down. *)
Destroy ==
    /\ "DESTROY" \in Ops /\ alive /\ pc = "idle"
    /\ alive' = FALSE
    /\ kill_cursor \/ ("lost" \in MoreOutcomes /\ UNCHANGED open)
    /\ UNCHANGED <<lastCid, route, cursor, request, pc, op, result, returned>>

Next ==
    \/ \E o \in {"next", "has_next"} : Call(o)
    \/ QueryAnswered \/ QueryCut \/ QueryFailed \/ Check
    \/ GetMore \/ CursorNotFound \/ GetMoreFailed \/ GetMoreCut
    \/ Reset \/ SetLimit \/ Explain \/ Destroy

Spec == Init /\ [][Next]_vars

-----------------------------------------------------------------------------
(* Properties *)

(* next never decodes past the documents of the replies it has read: what  *)
(* cursor->at and cursor->num say is left is what the buffer and the first *)
(* batch of an aggregation hold, whatever calls died on the way.           *)
BufferSafe == at < num => Len(agg) + Len(buf) = num - at

(* The program never gets more documents than the limit it set, although   *)
(* a get_more asks the server for a batch and not for the rest of the      *)
(* limit (the check is has_next's first).                                  *)
LimitRespected == limit # 0 => Len(returned) <= Abs(limit)

(* What leaves a server cursor behind is left out: a reset or an explain,  *)
(* which forget it, a query that the server ran too late or whose reply    *)
(* did not come, a repin, and a kill that is lost.                         *)
Careful ==
    /\ "reset" \notin Ops /\ "explain" \notin Ops
    /\ "late" \notin QueryOutcomes /\ "cut" \notin QueryOutcomes
    /\ repins = 0

(* When a cursor from find is gone, so are its server cursors: the one     *)
(* DESTROY kills is the only one left.  An aggregation or a parallel scan  *)
(* leaves one only if it has returned no document and the server cursor is *)
(* on another server than _client, where the kill goes: an aggregation     *)
(* that ran on the pinned server and was never read, or a scan that ran on *)
(* the master and was read, in vain, on the pinned server.                 *)
Stray(c) == kind # "query" /\ returned = <<>> /\ c.server # client
NoLeak   == ~alive /\ Careful /\ "lost" \notin MoreOutcomes => \A c \in open : Stray(c)

(* The cursor implements the iterator of module Iterator, except (apart)   *)
(* for a parallel scan whose server is not the one next goes to.           *)
Iter == INSTANCE Iterator WITH total <- Total, given <- returned, status <- result
IteratesResult == Iter!Spec
=============================================================================
