--------------------------- MODULE CursorProofs ----------------------------
(***************************************************************************)
(* Proofs about Cursor, for results, limits and numbers of servers of any  *)
(* size.                                                                   *)
(***************************************************************************)
EXTENDS Cursor, SequenceTheorems, TLAPS

(* What the buffer and the first batch hold is what is left; or the server *)
(* did not know the cursor, and there is nothing to read any more.         *)
BufferInv ==
    \/ at <= num /\ Len(agg) + Len(buf) = num - at
    \/ num = 0 /\ cid = 0 /\ at > 0 /\ agg = <<>>

(* Where a call is and what has been asked: only a cursor from find sends  *)
(* a query, and a cursor that has sent none holds nothing.                 *)
CallInv ==
    /\ kind = "query" => agg = <<>>
    /\ kind # "query" => started /\ limit = 0 /\ op # "explain"
    /\ pc \in {"query", "requery"} => ~started
    /\ pc \in {"check", "more"} => started
    /\ ~started => at = 0 /\ num = 0 /\ returned = <<>>
    /\ pc = "more" => agg = <<>> /\ at >= num

(* A positive limit bounds what next takes, a negative one what the single *)
(* reply holds, for which there is no get_more.                            *)
LimitInv ==
    /\ Len(returned) <= at
    /\ limit > 0 => at <= limit
    /\ limit > 0 /\ pc = "more" => at < limit
    /\ limit < 0 => /\ at <= num /\ num <= -limit
                    /\ num = 0 \/ cid = 0
                    /\ pc # "more"

IInv == TypeOK /\ BufferInv /\ CallInv /\ LimitInv

(* The servers keep at most one cursor, and none before a query.  It is    *)
(* the one whose id this cursor has, or was forgotten because the pinned   *)
(* server did not know it; on another server than the pinned one it is     *)
(* that of a parallel scan that has given nothing.  _client is the pinned  *)
(* server from the first next on, and from the start for a query.          *)
OneCursor ==
    Careful /\ alive =>
        /\ \A c \in open : c.id = cid \/ (c.server # pinned /\ client = pinned)
        /\ \A c \in open : c.server # pinned =>
              kind = "parallel" /\ returned = <<>> /\ agg = <<>> /\ at >= num
        /\ \A c, d \in open : c = d
        /\ ~started => open = {}
        /\ op # "explain"
        /\ client # pinned => kind # "query" /\ returned = <<>> /\ pc = "idle"

LeakInv == OneCursor /\ NoLeak /\ (~alive => pc = "idle")

(* Programs and failures by which no document is lost.  They leave out     *)
(* what does lose some: a repin, after which the server cursor is on       *)
(* another server; a get_more whose answer came late; a reply cut short;   *)
(* an error document; an explain in the middle; a parallel scan that ran   *)
(* on another server than the pinned one; and an aggregation whose first   *)
(* batch is to be empty.                                                   *)
Reliable ==
    /\ \A w \in Worlds : /\ "explain" \notin w.ops
                         /\ w.query \subseteq {"ok", "lost", "late"} /\ w.more \subseteq {"ok", "lost"}
    /\ ~Pinned \/ MaxRepins = 0
    /\ ~Pinned \/ \A w \in Worlds : "parallel" \notin w.kinds \/ ~w.apart
    /\ 0 \notin FirstBatches

(* Where the iteration is: next has returned the first documents up to at, *)
(* the cursor holds the following ones up to num, and the server goes on   *)
(* from there, or there are no more.                                       *)
PlaceInv ==
    /\ op # "explain" /\ ~explain /\ (pc # "idle" => client = pinned)
    /\ at = Len(returned) /\ at <= num /\ num <= docs
    /\ \A i \in 1..Len(agg) : agg[i] = at + i
    /\ \A i \in 1..Len(buf) : buf[i] = at + Len(agg) + i
    /\ started /\ num = 0 /\ kind # "parallel" => docs = 0
    /\ started /\ cid = 0 => num = docs \/ ((limit < 0 \/ limit = 1) /\ num = Total)
    /\ \A c \in open : c.id <= lastCid
    /\ started /\ cid # 0 /\ alive =>
          /\ \E c \in open : c.id = cid /\ c.server = pinned
          /\ \A c \in open : c.id = cid /\ c.server = pinned => c.next = num
    /\ pc = "more" => cid # 0
    /\ pc # "idle" => alive

-----------------------------------------------------------------------------
(* The operators *)

LEMMA DocsAre ==
  ASSUME NEW p \in Nat, NEW k \in Nat, p + k <= MaxDocs
  PROVE  /\ Docs(p, k) \in Seq(Document)
         /\ Len(Docs(p, k)) = k
         /\ \A i \in 1..k : Docs(p, k)[i] = p + i
  BY CursorAssumption DEF Docs, Document, Garbage

LEMMA CutShortIs ==
  ASSUME NEW b \in Seq(Document), NEW j \in Nat
  PROVE  CutShort(b, j) \in Seq(Document) /\ Len(CutShort(b, j)) = Len(b)
<1>1. Garbage \in Document
  BY CursorAssumption DEF Document, Garbage
<1>2. \A i \in 1..Len(b) : b[i] \in Document
  OBVIOUS
<1> QED
  BY <1>1, <1>2 DEF CutShort

LEMMA TotalType ==
  ASSUME docs \in Nat, limit \in Int
  PROVE  /\ Total \in Nat /\ Total <= docs
         /\ limit < 0 => Total <= -limit
         /\ limit > 0 => Total <= limit
  BY DEF Total, Min, Abs

(* What a server may answer to the query of a cursor *)
LEMMA ReplyIs ==
  ASSUME TypeOK, NEW r \in Replies
  PROVE  /\ r.batch \in Seq(Document) /\ r.keep \in BOOLEAN
         /\ r.keep => Len(r.batch) <= MaxDocs
         /\ limit < 0 => Len(r.batch) <= -limit /\ ~r.keep
<1>. USE DEF TypeOK
<1>1. CASE explain
  <2>1. r = [batch |-> <<Explanation>>, keep |-> FALSE]
    BY <1>1 DEF Replies
  <2>2. Explanation \in Document
    BY CursorAssumption DEF Explanation, Document, Garbage
  <2> QED
    BY <2>1, <2>2
<1>2. CASE ~explain /\ (limit < 0 \/ limit = 1)
  <2>1. r = [batch |-> Docs(0, Total), keep |-> FALSE]
    BY <1>2 DEF Replies
  <2>2. Total \in Nat /\ 0 + Total <= MaxDocs /\ (limit < 0 => Total <= -limit)
    BY TotalType, CursorAssumption
  <2>3. Docs(0, Total) \in Seq(Document) /\ Len(Docs(0, Total)) = Total
    BY <2>2, DocsAre
  <2> QED
    BY <2>1, <2>2, <2>3
<1>3. CASE ~explain /\ ~(limit < 0 \/ limit = 1)
  <2>1. PICK k \in 0..Min(docs, BatchSize), b \in BOOLEAN : r = [batch |-> Docs(0, k), keep |-> b]
    BY <1>3 DEF Replies
  <2>2. k \in Nat /\ 0 + k <= MaxDocs
    BY CursorAssumption DEF Min
  <2>3. Docs(0, k) \in Seq(Document) /\ Len(Docs(0, k)) = k
    BY <2>2, DocsAre
  <2> QED
    BY <1>3, <2>1, <2>2, <2>3
<1> QED
  BY <1>1, <1>2, <1>3

-----------------------------------------------------------------------------
(* The steps *)

(* has_next found one of the n - at documents in agg \o b. *)
LEMMA FoundKeeps ==
  ASSUME IInv, NEW b \in Seq(Document), NEW n \in Nat,
         at < n, Len(agg) + Len(b) = n - at,
         pc \in {"check", "more"},
         limit > 0 => at < limit,
         limit < 0 => n <= -limit /\ cid' = 0,
         Found(b, n),
         UNCHANGED <<kind, saved, op>>
  PROVE  /\ started' \in BOOLEAN /\ at' \in Nat /\ num' \in Nat
         /\ buf' \in Seq(Document) /\ agg' \in Seq(Document)
         /\ limit' \in Int /\ explain' \in BOOLEAN
         /\ pc' = "idle" /\ result' \in {"none", "doc", "true", "died"}
         /\ returned' \in Seq(Document)
         /\ BufferInv' /\ CallInv' /\ LimitInv'
<1> USE DEF IInv, TypeOK, BufferInv, CallInv, LimitInv
<1> DEFINE doc == Head(agg \o b)
<1>0. agg \o b \in Seq(Document) /\ agg \o b # <<>> /\ doc \in Document
  <2>1. agg \in Seq(Document) /\ b \in Seq(Document) /\ Len(agg) + Len(b) > 0
    OBVIOUS
  <2> QED
    BY ONLY <2>1, ConcatProperties, HeadTailProperties
<1>1. CASE op = "has_next" /\ Returns("true") /\ num' = n /\ buf' = b /\ UNCHANGED <<at, agg, returned>>
  <2>1. /\ pc' = "idle" /\ result' = "true" /\ UNCHANGED <<started, limit, explain, at, agg, returned>>
        /\ num' = n /\ buf' = b
    BY <1>1 DEF Returns
  <2>2. started' \in BOOLEAN /\ explain' \in BOOLEAN
    BY <2>1, Zenon
  <2>3. BufferInv' /\ CallInv' /\ LimitInv'
    BY <2>1
  <2> HIDE DEF doc, BufferInv, CallInv, LimitInv
  <2> QED
    BY <2>1, <2>2, <2>3
<1>2. CASE op = "explain" /\ ExplainReturns
  <2>1. started' \in BOOLEAN /\ explain' \in BOOLEAN
    BY <1>2, Zenon DEF ExplainReturns, Clear
  <2>2. /\ at' = 0 /\ num' = 0 /\ buf' = <<>> /\ limit' = saved
        /\ pc' = "idle" /\ result' = "none" /\ returned' = <<>> /\ agg' = <<>>
    BY <1>2 DEF ExplainReturns, Clear
  <2> QED
    BY <2>1, <2>2, <1>2 DEF ExplainReturns
<1>3. CASE /\ at' = at + 1 /\ num' = n
           /\ IF agg = <<>> THEN buf' = Tail(b) /\ UNCHANGED agg
                            ELSE agg' = Tail(agg) /\ buf' = b
           /\ \/ Returns("doc") /\ returned' = Append(returned, doc)
              \/ Dies
  <2>1. /\ buf' \in Seq(Document) /\ agg' \in Seq(Document)
        /\ Len(agg') + Len(buf') = n - (at + 1)
        /\ agg = <<>> => agg' = <<>>
    <3>1. CASE agg = <<>>
      <4>1. buf' = Tail(b) /\ agg' = <<>> /\ b # <<>>
        BY <1>3, <3>1
      <4> QED
        BY <4>1, <3>1, HeadTailProperties
    <3>2. CASE agg # <<>>
      <4>1. agg' = Tail(agg) /\ buf' = b
        BY <1>3, <3>2
      <4> QED
        BY <4>1, <3>2, HeadTailProperties
    <3> QED
      BY <3>1, <3>2
  <2>2. /\ pc' = "idle" /\ result' \in {"doc", "died"} /\ UNCHANGED <<started, limit, explain>>
    BY <1>3 DEF Returns, Dies
  <2>3. returned' \in Seq(Document) /\ Len(returned') <= Len(returned) + 1
    <3>1. returned' = returned \/ returned' = Append(returned, doc)
      BY <1>3 DEF Returns, Dies
    <3>2. returned \in Seq(Document) /\ doc \in Document
      BY <1>0
    <3> HIDE DEF doc
    <3> QED
      BY ONLY <3>1, <3>2, AppendProperties
  <2>4. at' = at + 1 /\ num' = n
    BY <1>3
  <2>5. started' \in BOOLEAN /\ explain' \in BOOLEAN
    BY <2>2, Zenon
  <2>6. BufferInv'
    BY <2>1, <2>4
  <2>7. CallInv'
    BY <2>1, <2>2, <2>4
  <2>8. LimitInv'
    <3>0. Len(returned') \in Nat
      BY <2>3
    <3>1. /\ Len(returned) <= at /\ Len(returned) \in Nat
          /\ at \in Nat /\ n \in Nat /\ at < n /\ limit \in Int
      OBVIOUS
    <3>2. (limit > 0 => at < limit) /\ (limit < 0 => n <= -limit /\ cid' = 0)
      OBVIOUS
    <3>3. limit' = limit /\ pc' = "idle"
      BY <2>2
    <3> HIDE DEF doc
    <3> QED
      BY ONLY <2>3, <2>4, <3>0, <3>1, <3>2, <3>3 DEF LimitInv
  <2> HIDE DEF doc, BufferInv, CallInv, LimitInv
  <2> QED
    BY <2>1, <2>2, <2>3, <2>4, <2>5, <2>6, <2>7, <2>8
<1> QED
  BY <1>1, <1>2, <1>3 DEF Found

(* has_next found none. *)
LEMMA EndsKeeps ==
  ASSUME IInv, Ends, pc \in {"check", "more"}, cid' \in {cid, 0},
         UNCHANGED <<kind, saved, op>>
  PROVE  /\ started' \in BOOLEAN /\ at' \in Nat /\ num' \in Nat
         /\ buf' \in Seq(Document) /\ agg' \in Seq(Document)
         /\ limit' \in Int /\ explain' \in BOOLEAN
         /\ pc' = "idle" /\ result' \in {"none", "end"}
         /\ returned' \in Seq(Document)
         /\ BufferInv' /\ CallInv' /\ LimitInv'
<1> USE DEF IInv, TypeOK, BufferInv, CallInv, LimitInv
<1>1. CASE ExplainReturns
  <2>1. started' \in BOOLEAN /\ explain' \in BOOLEAN
    BY <1>1, Zenon DEF ExplainReturns, Clear
  <2>2. /\ at' = 0 /\ num' = 0 /\ buf' = <<>> /\ limit' = saved
        /\ pc' = "idle" /\ result' = "none" /\ returned' = <<>> /\ agg' = <<>>
    BY <1>1 DEF ExplainReturns, Clear
  <2> QED
    BY <2>1, <2>2, <1>1 DEF ExplainReturns
<1>2. CASE op # "explain" /\ Returns("end") /\ UNCHANGED <<at, num, buf, agg, returned>>
  <2>1. started' \in BOOLEAN /\ explain' \in BOOLEAN
    BY <1>2, Zenon DEF Returns
  <2> QED
    BY <1>2, <2>1 DEF Returns
<1> QED
  BY <1>1, <1>2 DEF Ends

(* Truth values stay truth values. *)
LEMMA Booleans ==
  ASSUME started \in BOOLEAN, explain \in BOOLEAN, alive \in BOOLEAN, [Next]_vars
  PROVE  started' \in BOOLEAN /\ explain' \in BOOLEAN /\ alive' \in BOOLEAN
<1>1. ASSUME NEW b, NEW n, Found(b, n) \/ Ends PROVE started' \in BOOLEAN /\ explain' \in BOOLEAN
  BY <1>1, Zenon DEF Found, Ends, ExplainReturns, Clear, Returns, Dies
<1>2. CASE (\E o \in {"next", "has_next"} : Call(o)) \/ QueryAnswered \/ QueryCut \/ QueryFailed
  BY <1>2, Zenon DEF Call, QueryAnswered, QueryCut, QueryDone, QueryFailed, Dies, Returns, cursor, request
<1>3. CASE Check \/ GetMore \/ GetMoreCut
  <2>1. started' \in BOOLEAN /\ explain' \in BOOLEAN
    BY <1>1, <1>3, Zenon DEF Check, GetMore, GetMoreCut
  <2>2. UNCHANGED alive
    BY <1>3, Zenon DEF Check, GetMore, GetMoreCut
  <2> QED
    BY <2>1, <2>2, Zenon
<1>4. CASE CursorNotFound \/ GetMoreFailed
  BY <1>4, Zenon DEF CursorNotFound, GetMoreFailed, Dies, Returns
<1>5. CASE Reset \/ SetLimit \/ Explain \/ Destroy
  BY <1>5, Zenon DEF Reset, SetLimit, Explain, Destroy, Clear, cursor, request
<1>6. CASE UNCHANGED vars
  BY <1>6, Zenon DEF vars
<1> QED
  BY <1>2, <1>3, <1>4, <1>5, <1>6, Zenon DEF Next

(* The server runs the query: it may have one cursor more. *)
LEMMA ServeKeeps ==
  ASSUME TypeOK, NEW r \in Replies, Serve(r)
  PROVE  /\ open' \subseteq [id : 1..MaxCursors, server : Servers, next : 0..MaxDocs]
         /\ lastCid' \in 0..MaxCursors
         /\ r.keep => lastCid + 1 \in 0..MaxCursors
<1> USE CursorAssumption DEF TypeOK
<1>1. CASE r.keep
  <2>1. /\ lastCid < MaxCursors /\ lastCid' = lastCid + 1
        /\ open' = open \cup {[id |-> lastCid + 1, server |-> client, next |-> Len(r.batch)]}
    BY <1>1 DEF Serve
  <2>2. Len(r.batch) \in 0..MaxDocs
    BY <1>1, ReplyIs
  <2> QED
    BY <2>1, <2>2
<1>2. CASE ~r.keep
  BY <1>2 DEF Serve, server
<1> QED
  BY <1>1, <1>2

(* A reply with the documents b to a query of a cursor that held nothing *)
LEMMA StoreKeeps ==
  ASSUME IInv, [Next]_vars, pc \in {"query", "requery"}, QueryDone,
         NEW b \in Seq(Document), NEW keep \in BOOLEAN, NEW c, keep => c \in 0..MaxCursors,
         limit < 0 => Len(b) <= -limit /\ ~keep,
         Store(b, keep, c),
         open' \subseteq [id : 1..MaxCursors, server : Servers, next : 0..MaxDocs],
         lastCid' \in 0..MaxCursors
  PROVE  IInv'
<1>0. started' \in BOOLEAN /\ explain' \in BOOLEAN /\ alive' \in BOOLEAN
  BY Booleans DEF IInv, TypeOK
<1>a. num = 0 /\ Len(b) \in Nat /\ MaxCursors \in Nat
  BY CursorAssumption DEF IInv, CallInv
<1>1. buf' = b /\ num' = Len(b) /\ cid' \in 0..MaxCursors /\ (~keep => cid' = 0)
  BY <1>a DEF Store
<1> USE DEF IInv, TypeOK, BufferInv, CallInv, LimitInv
<1>2. /\ started' = TRUE /\ pc' = "check"
      /\ UNCHANGED <<world, kind, docs, pinned, repins, client, limit, saved, at, agg, op,
                     result, returned>>
  BY DEF QueryDone, request, route
<1>3. at' = 0 /\ Len(agg') = 0 /\ Len(returned') = 0
  BY <1>2
<1> QED
  BY <1>0, <1>1, <1>2, <1>3

LEMMA AnsweredKeeps ==
  ASSUME IInv, [Next]_vars, pc \in {"query", "requery"}, QueryDone,
         NEW r \in Replies, Serve(r),
         NEW b \in Seq(Document), Len(b) = Len(r.batch), Store(b, r.keep, lastCid + 1)
  PROVE  IInv'
<1>1. TypeOK
  BY DEF IInv
<1>2. limit < 0 => Len(b) <= -limit /\ ~r.keep
  BY <1>1, ReplyIs
<1> QED
  BY <1>1, <1>2, ReplyIs, ServeKeeps, StoreKeeps

(* The server answers a get_more. *)
LEMMA AdvanceKeeps ==
  ASSUME TypeOK, NEW c \in Addressed, NEW k \in 0..BatchSize, NEW keep \in BOOLEAN,
         Advance(c, k, keep)
  PROVE  /\ open' \subseteq [id : 1..MaxCursors, server : Servers, next : 0..MaxDocs]
         /\ lastCid' = lastCid
         /\ cid # 0
         /\ Docs(c.next, k) \in Seq(Document) /\ Len(Docs(c.next, k)) = k
<1> USE CursorAssumption DEF TypeOK
<1>1. /\ c \in open /\ c.id = cid
      /\ c \in [id : 1..MaxCursors, server : Servers, next : 0..MaxDocs]
  BY DEF Addressed
<1>2. c.next + k <= docs /\ c.next + k \in 0..MaxDocs
  <2>1. c.next \in Nat /\ docs \in Nat /\ k \in Nat
    BY <1>1
  <2>2. k <= Min(BatchSize, docs - c.next) /\ BatchSize \in Nat
    BY DEF Advance
  <2>3. k <= docs - c.next
    BY ONLY <2>1, <2>2 DEF Min
  <2>4. docs <= MaxDocs /\ MaxDocs \in Nat
    OBVIOUS
  <2> QED
    BY ONLY <2>1, <2>3, <2>4
<1>3. Docs(c.next, k) \in Seq(Document) /\ Len(Docs(c.next, k)) = k
  BY <1>1, <1>2, DocsAre
<1>4. [c EXCEPT !.next = @ + k] \in [id : 1..MaxCursors, server : Servers, next : 0..MaxDocs]
  BY <1>1, <1>2
<1>5. open' \subseteq open \cup {[c EXCEPT !.next = @ + k]} /\ lastCid' = lastCid
  BY DEF Advance
<1>6. open' \subseteq [id : 1..MaxCursors, server : Servers, next : 0..MaxDocs]
  BY <1>4, <1>5
<1>7. cid # 0
  BY <1>1
<1> HIDE DEF TypeOK
<1> QED
  BY <1>3, <1>5, <1>6, <1>7

(* A batch b of a get_more begins where the buffer ends. *)
LEMMA MoreKeeps ==
  ASSUME IInv, [Next]_vars, pc = "more", cid # 0, cid' \in {cid, 0},
         NEW k \in Nat, k > 0, NEW b \in Seq(Document), Len(b) = k, Found(b, num + k),
         UNCHANGED <<route, world, kind, docs, saved, op, alive>>,
         open' \subseteq [id : 1..MaxCursors, server : Servers, next : 0..MaxDocs],
         lastCid' = lastCid
  PROVE  IInv'
<1> USE DEF IInv, TypeOK
<1>1. agg = <<>> /\ at = num /\ Len(agg) = 0
  BY DEF BufferInv, CallInv
<1>2. (limit > 0 => at < limit) /\ ~(limit < 0)
  BY DEF LimitInv
<1>3. alive' \in BOOLEAN /\ cid' \in 0..MaxCursors
  BY Booleans, CursorAssumption
<1>4. at < num + k /\ Len(agg) + Len(b) = (num + k) - at /\ num + k \in Nat
  BY <1>1
<1>5. /\ started' \in BOOLEAN /\ at' \in Nat /\ num' \in Nat
      /\ buf' \in Seq(Document) /\ agg' \in Seq(Document)
      /\ limit' \in Int /\ explain' \in BOOLEAN
      /\ pc' = "idle" /\ result' \in {"none", "doc", "true", "died"}
      /\ returned' \in Seq(Document)
      /\ BufferInv' /\ CallInv' /\ LimitInv'
  BY <1>2, <1>3, <1>4, FoundKeeps
<1> QED
  BY <1>3, <1>5 DEF route

(* Any limit goes with a cursor that has not begun. *)
LEMMA NewLimit ==
  ASSUME NEW l \in Int, limit' = l, at' = 0, num' = 0, returned' = <<>>, pc' # "more"
  PROVE  LimitInv'
  BY DEF LimitInv

(* Every step keeps the invariant. *)
LEMMA StepKeeps == IInv /\ [Next]_vars => IInv'
<1> SUFFICES ASSUME IInv, [Next]_vars PROVE IInv'
  OBVIOUS
<1>0. started' \in BOOLEAN /\ explain' \in BOOLEAN /\ alive' \in BOOLEAN
  BY Booleans DEF IInv, TypeOK
<1> USE <1>0, CursorAssumption DEF IInv, TypeOK, BufferInv, CallInv, LimitInv, server, route, cursor, request
<1>1. ASSUME NEW o \in {"next", "has_next"}, Call(o) PROVE IInv'
  BY <1>1 DEF Call, Repin
<1>2. ASSUME QueryAnswered PROVE IInv'
  <2>1. pc \in {"query", "requery"} /\ QueryDone
    BY <1>2 DEF QueryAnswered
  <2>2. ASSUME NEW r \in Replies, Serve(r), Store(r.batch, r.keep, lastCid + 1) PROVE IInv'
    BY <2>1, <2>2, AnsweredKeeps, ReplyIs
  <2>3. CASE Store(<<ErrorDoc>>, FALSE, 0) /\ UNCHANGED server
    <3>1. <<ErrorDoc>> \in Seq(Document) /\ Len(<<ErrorDoc>>) = 1
      BY DEF ErrorDoc, Document, Garbage
    <3>2. limit < 0 => Len(<<ErrorDoc>>) <= -limit
      BY <3>1
    <3>3. open' = open /\ lastCid' = lastCid
      BY <2>3
    <3> QED
      BY <2>1, <2>3, <3>1, <3>2, <3>3, StoreKeeps
  <2> QED
    BY <1>2, <2>2, <2>3 DEF QueryAnswered
<1>3. ASSUME QueryCut PROVE IInv'
  <2>1. pc \in {"query", "requery"} /\ QueryDone
    BY <1>3 DEF QueryCut
  <2>2. PICK r \in Replies : /\ Serve(r)
                             /\ \/ UNCHANGED <<cid, buf, num>>
                                \/ \E j \in 0..(Len(r.batch) - 1) :
                                      Store(CutShort(r.batch, j), r.keep, lastCid + 1)
    BY <1>3 DEF QueryCut
  <2>3. CASE UNCHANGED <<cid, buf, num>>
    BY <2>1, <2>2, <2>3, ServeKeeps DEF QueryDone
  <2>4. ASSUME NEW j \in 0..(Len(r.batch) - 1), Store(CutShort(r.batch, j), r.keep, lastCid + 1)
        PROVE  IInv'
    <3>1. CutShort(r.batch, j) \in Seq(Document) /\ Len(CutShort(r.batch, j)) = Len(r.batch)
      <4>1. TypeOK /\ j \in Nat
        OBVIOUS
      <4> HIDE DEF IInv, TypeOK, BufferInv, CallInv, LimitInv
      <4> QED
        BY <4>1, ReplyIs, CutShortIs
    <3> QED
      BY <2>1, <2>2, <2>4, <3>1, AnsweredKeeps, ReplyIs
  <2> QED
    BY <2>2, <2>3, <2>4
<1>4. ASSUME QueryFailed PROVE IInv'
  <2>1. /\ pc \in {"query", "requery"}
        /\ UNCHANGED <<at, num, cid, buf, agg, world, kind, docs, saved, op, alive>>
    BY <1>4 DEF QueryFailed
  <2>2. /\ open' \subseteq [id : 1..MaxCursors, server : Servers, next : 0..MaxDocs]
        /\ lastCid' \in 0..MaxCursors
    <3>1. UNCHANGED server \/ \E r \in Replies : Serve(r)
      BY <1>4 DEF QueryFailed
    <3> QED
      BY <3>1, ServeKeeps
  <2>3. /\ UNCHANGED <<started, limit, explain, returned>> /\ pc' \in {"requery", "idle"}
        /\ result' \in {"died", result}
    BY <1>4 DEF QueryFailed, Dies, Returns
  <2>4. pinned' \in Servers /\ repins' \in 0..MaxRepins /\ client' \in Servers
    BY <1>4 DEF QueryFailed, Repin
  <2> QED
    BY <2>1, <2>2, <2>3, <2>4
<1>5. ASSUME Check PROVE IInv'
  <2>1. UNCHANGED <<cid, server, route, world, kind, docs, saved, op, alive>> /\ pc = "check"
    BY <1>5 DEF Check
  <2>2. CASE Ends
    BY <2>1, <2>2, EndsKeeps
  <2>3. CASE ~NoMore /\ (agg # <<>> \/ at < num) /\ Found(buf, num)
    <3>1. at < num /\ Len(agg) + Len(buf) = num - at
      BY <2>3, EmptySeq
    <3>2. limit > 0 => at < limit
      BY <2>3 DEF NoMore
    <3>3. limit < 0 => num <= -limit /\ cid' = 0
      BY <2>1, <3>1
    <3> QED
      BY <2>1, <2>3, <3>1, <3>2, <3>3, FoundKeeps
  <2>4. CASE /\ ~NoMore /\ agg = <<>> /\ at >= num
             /\ pc' = "more"
             /\ UNCHANGED <<started, at, num, buf, agg, limit, explain, result, returned>>
    BY <2>1, <2>4 DEF NoMore
  <2> QED
    BY <1>5, <2>2, <2>3, <2>4 DEF Check
<1>6. ASSUME GetMore PROVE IInv'
  <2>1. pc = "more" /\ UNCHANGED <<route, world, kind, docs, saved, op, alive>>
    BY <1>6 DEF GetMore
  <2>2. PICK c \in Addressed, k \in 0..BatchSize, keep \in BOOLEAN :
          /\ Advance(c, k, keep)
          /\ cid' = IF keep THEN cid ELSE 0
          /\ IF k > 0 THEN Found(Docs(c.next, k), num + k) ELSE Ends
    BY <1>6 DEF GetMore
  <2>3. cid' \in {cid, 0}
    BY <2>2
  <2>4. /\ open' \subseteq [id : 1..MaxCursors, server : Servers, next : 0..MaxDocs]
        /\ lastCid' = lastCid /\ cid # 0
        /\ Docs(c.next, k) \in Seq(Document) /\ Len(Docs(c.next, k)) = k
    <3>1. TypeOK
      OBVIOUS
    <3>2. Advance(c, k, keep)
      BY <2>2
    <3> HIDE DEF IInv, TypeOK, BufferInv, CallInv, LimitInv
    <3> QED
      BY <3>1, <3>2, AdvanceKeeps
  <2>5. CASE k > 0
    <3>1. Found(Docs(c.next, k), num + k) /\ k \in Nat
      BY <2>2, <2>5
    <3> HIDE DEF IInv, TypeOK, BufferInv, CallInv, LimitInv
    <3> QED
      BY <2>1, <2>3, <2>4, <2>5, <3>1, MoreKeeps
  <2>6. CASE k = 0
    <3>1. Ends
      BY <2>2, <2>6
    <3>2. /\ started' \in BOOLEAN /\ at' \in Nat /\ num' \in Nat
          /\ buf' \in Seq(Document) /\ agg' \in Seq(Document)
          /\ limit' \in Int /\ explain' \in BOOLEAN
          /\ pc' = "idle" /\ result' \in {"none", "end"}
          /\ returned' \in Seq(Document)
          /\ BufferInv' /\ CallInv' /\ LimitInv'
      <4> HIDE DEF IInv, TypeOK, BufferInv, CallInv, LimitInv
      <4> QED
        BY <2>1, <2>3, <3>1, EndsKeeps
    <3>3. cid' \in 0..MaxCursors
      BY <2>3
    <3> HIDE DEF BufferInv, CallInv, LimitInv
    <3> QED
      BY <2>1, <2>4, <3>2, <3>3
  <2> QED
    BY <2>5, <2>6
<1>7. ASSUME CursorNotFound PROVE IInv'
  BY <1>7 DEF CursorNotFound, Dies, Returns, Addressed
<1>8. ASSUME GetMoreFailed PROVE IInv'
  <2>1. UNCHANGED server \/ \E c \in Addressed, k \in 0..BatchSize, keep \in BOOLEAN : Advance(c, k, keep)
    BY <1>8 DEF GetMoreFailed
  <2>2. /\ open' \subseteq [id : 1..MaxCursors, server : Servers, next : 0..MaxDocs]
        /\ lastCid' = lastCid
    BY <2>1, AdvanceKeeps
  <2> QED
    BY <1>8, <2>2 DEF GetMoreFailed, Dies, Returns
<1>9. ASSUME GetMoreCut PROVE IInv'
  <2>1. pc = "more" /\ UNCHANGED <<route, world, kind, docs, saved, op, alive>>
    BY <1>9 DEF GetMoreCut
  <2>2. PICK c \in Addressed, k \in 0..BatchSize, keep \in BOOLEAN :
          /\ Advance(c, k, keep)
          /\ \/ Ends /\ UNCHANGED cid
             \/ \E j \in 0..(k - 1) :
                   /\ Found(CutShort(Docs(c.next, k), j), num + k)
                   /\ cid' = IF keep THEN cid ELSE 0
    BY <1>9 DEF GetMoreCut
  <2>3. /\ open' \subseteq [id : 1..MaxCursors, server : Servers, next : 0..MaxDocs]
        /\ lastCid' = lastCid /\ cid # 0
        /\ Docs(c.next, k) \in Seq(Document) /\ Len(Docs(c.next, k)) = k
    BY <2>2, AdvanceKeeps
  <2>4. CASE Ends /\ UNCHANGED cid
    BY <2>1, <2>3, <2>4, EndsKeeps
  <2>5. ASSUME NEW j \in 0..(k - 1), Found(CutShort(Docs(c.next, k), j), num + k), cid' = IF keep THEN cid ELSE 0
        PROVE  IInv'
    <3>1. /\ CutShort(Docs(c.next, k), j) \in Seq(Document)
          /\ Len(CutShort(Docs(c.next, k), j)) = k
      BY <2>3, CutShortIs
    <3>2. cid' \in {cid, 0} /\ k > 0
      BY <2>5
    <3> QED
      BY <2>1, <2>3, <2>5, <3>1, <3>2, MoreKeeps
  <2> QED
    BY <2>2, <2>4, <2>5
<1>10. ASSUME Reset PROVE IInv'
  BY <1>10 DEF Reset, Clear
<1>11. ASSUME SetLimit PROVE IInv'
  <2>1. /\ limit' \in Int /\ at = 0 /\ num = 0 /\ returned = <<>> /\ pc = "idle" /\ kind = "query"
        /\ UNCHANGED <<server, route, cursor, world, kind, docs, saved, explain, pc, op, result,
                       returned, alive>>
    BY <1>11 DEF SetLimit
  <2>2. LimitInv'
    BY <2>1, NewLimit DEF cursor
  <2> QED
    BY <2>1, <2>2
<1>12. ASSUME Explain PROVE IInv'
  <2>1. /\ at' = 0 /\ num' = 0 /\ buf' = <<>> /\ returned' = <<>> /\ agg' = <<>>
        /\ started' = FALSE /\ pc' = "query" /\ result' = "none" /\ op' = "explain"
        /\ kind = "query" /\ UNCHANGED <<world, kind, docs, server, cid, alive>>
    BY <1>12 DEF Explain, Clear
  <2>2. limit' \in Int /\ saved' \in Int
    BY <1>12 DEF Explain
  <2>3. pinned' \in Servers /\ repins' \in 0..MaxRepins /\ client' \in Servers
    BY <1>12 DEF Explain, Repin
  <2>4. BufferInv'
    BY <2>1
  <2>5. CallInv'
    BY <2>1
  <2>6. LimitInv'
    BY <2>1, <2>2, NewLimit
  <2> QED
    BY <2>1, <2>2, <2>3, <2>4, <2>5, <2>6
<1>13. ASSUME Destroy PROVE IInv'
  BY <1>13 DEF Destroy, kill_cursor, Addressed
<1>14. CASE UNCHANGED vars
  BY <1>14 DEF vars
<1> QED
  BY <1>1, <1>2, <1>3, <1>4, <1>5, <1>6, <1>7, <1>8, <1>9, <1>10, <1>11, <1>12, <1>13, <1>14 DEF Next

(* The positions and sizes of the replies and the places of a call are    *)
(* consistent from the start, for a cursor from find and for one that a    *)
(* command has made.                                                       *)
LEMMA Begins == Init => IInv
<1> SUFFICES ASSUME Init PROVE IInv
  OBVIOUS
<1>1. started \in BOOLEAN /\ explain \in BOOLEAN /\ alive \in BOOLEAN
  BY Zenon DEF Init
<1> USE CursorAssumption DEF IInv, TypeOK, BufferInv, CallInv, LimitInv
<1>2. /\ world \in Worlds /\ kind \in world.kinds /\ docs \in 0..MaxDocs
      /\ pinned \in Servers /\ repins = 0 /\ client \in Servers /\ saved = 0
      /\ pc = "idle" /\ op = "next" /\ result = "none" /\ returned = <<>>
      /\ at = 0 /\ buf = <<>>
  BY DEF Init
<1>3. CASE /\ kind = "query" /\ started = FALSE
           /\ limit \in Limits
           /\ num = 0 /\ cid = 0 /\ agg = <<>> /\ open = {} /\ lastCid = 0
  BY <1>1, <1>2, <1>3
<1>4. ASSUME kind # "query", started = TRUE, limit = 0,
             NEW k \in IF kind = "parallel" THEN {0} ELSE {Min(f, docs) : f \in FirstBatches},
             NEW home \in Servers,
             num = k, agg = Docs(0, k),
             \/ k = docs /\ cid = 0 /\ open = {} /\ lastCid = 0
             \/ cid = 1 /\ lastCid = 1 /\ open = {[id |-> 1, server |-> home, next |-> k]}
      PROVE  IInv
  <2>1. k \in Nat /\ k <= docs
    BY <1>2, <1>4 DEF Min
  <2>2. Docs(0, k) \in Seq(Document) /\ Len(Docs(0, k)) = k
    BY <1>2, <2>1, DocsAre
  <2> QED
    BY <1>1, <1>2, <1>4, <2>1, <2>2
<1> QED
  BY <1>2, <1>3, <1>4 DEF Init

LEMMA Invariant == Spec => []IInv
  BY Begins, StepKeeps, PTL DEF Spec

(* Every variable keeps its type; the documents a cursor holds are those   *)
(* of the result, an error or an explanation, and an id of a server cursor *)
(* was given out by a server.                                              *)
THEOREM TypeCorrect == Spec => []TypeOK
  BY Invariant, PTL DEF IInv

(* next never decodes past the replies it has read, whatever died, was cut *)
(* short, came late or was an error on the way.                            *)
THEOREM BufferIsSafe == Spec => []BufferSafe
<1>1. IInv => BufferSafe
  BY DEF IInv, TypeOK, BufferInv, BufferSafe
<1> QED
  BY <1>1, Invariant, PTL

(* The program never gets more documents than the limit.                   *)
THEOREM LimitIsRespected == Spec => []LimitRespected
<1>1. IInv => LimitRespected
  BY DEF IInv, TypeOK, LimitInv, LimitRespected, Abs
<1> QED
  BY <1>1, Invariant, PTL

-----------------------------------------------------------------------------
(* Server cursors *)

(* Only the end of an explain lets a cursor query again. *)
LEMMA StaysStarted ==
  ASSUME op # "explain", NEW b, NEW n, Found(b, n) \/ Ends
  PROVE  started' = started /\ pc' = "idle"
  BY DEF Found, Ends, Returns, Dies, ExplainReturns

(* A get_more of the only cursor leaves that cursor, or none. *)
LEMMA AdvanceOne ==
  ASSUME TypeOK, \A d, e \in open : d = e,
         NEW c \in Addressed, NEW k, NEW keep, Advance(c, k, keep)
  PROVE  /\ \A d \in open' : d.id = cid /\ d.server = client
         /\ \A d, e \in open' : d = e
         /\ keep \/ open' = {}
<1>1. c \in open /\ c.id = cid /\ c.server = client
      /\ c \in [id : 1..MaxCursors, server : Servers, next : 0..MaxDocs]
  BY DEF Addressed, TypeOK
<1>2. open = {c}
  BY <1>1
<1>3. CASE keep
  BY <1>1, <1>2, <1>3 DEF Advance
<1>4. CASE ~keep
  BY <1>2, <1>4 DEF Advance
<1> QED
  BY <1>3, <1>4

LEMMA LeakStep == IInv /\ LeakInv /\ [Next]_vars => LeakInv'
<1> SUFFICES ASSUME IInv, LeakInv, [Next]_vars PROVE LeakInv'
  OBVIOUS
<1>a. TypeOK
  BY DEF IInv
<1>b. /\ pc # "idle" => alive /\ (Careful => client = pinned)
      /\ Careful /\ alive => op # "explain" /\ \A c, d \in open : c = d
  BY DEF LeakInv, OneCursor
<1> USE DEF LeakInv, OneCursor, NoLeak, Stray, Careful, Ops, QueryOutcomes, MoreOutcomes, server, route, cursor, request
<1>1. ASSUME NEW o \in {"next", "has_next"}, Call(o) PROVE LeakInv'
  <2>1. /\ alive /\ alive' /\ pc = "idle" /\ op' \in {"next", "has_next"}
        /\ UNCHANGED <<open, cid, world, kind, returned, agg, at, num, started>>
    BY <1>1 DEF Call
  <2>2. \/ /\ Repin /\ client' = pinned'
        \/ UNCHANGED <<pinned, repins, client, pc>>
    BY <1>1 DEF Call
  <2>3. Careful' => Careful /\ pinned' = pinned
    BY <1>a, <2>1, <2>2 DEF Repin, TypeOK
  <2> QED
    BY <2>1, <2>2, <2>3
<1>2. ASSUME QueryAnswered PROVE LeakInv'
  <2>1. /\ pc \in {"query", "requery"} /\ alive /\ alive' /\ started'
        /\ UNCHANGED <<world, kind, pinned, repins, client, agg, at, op, returned>>
    BY <1>2, <1>b DEF QueryAnswered, QueryDone
  <2>2. ~started /\ kind = "query"
    BY <2>1 DEF IInv, CallInv
  <2>3. /\ (\E r \in Replies : Serve(r) /\ Store(r.batch, r.keep, lastCid + 1)) \/ UNCHANGED open
        /\ pc' # "idle"
    BY <1>2 DEF QueryAnswered, QueryDone
  <2>4. ASSUME Careful PROVE /\ \A c \in open' : c.id = cid' /\ c.server = client
                             /\ \A c, d \in open' : c = d
    <3>1. open = {}
      BY <2>1, <2>2, <2>4
    <3> QED
      BY <2>3, <3>1 DEF Serve, Store
  <2> QED
    BY <1>b, <2>1, <2>2, <2>4
<1>3. ASSUME QueryCut PROVE LeakInv'
  BY <1>3, <1>b DEF QueryCut, QueryDone
<1>4. ASSUME QueryFailed PROVE LeakInv'
  <2>1. /\ pc \in {"query", "requery"} /\ alive /\ alive'
        /\ UNCHANGED <<world, kind, started, cid, agg, at, num, op, returned>>
    BY <1>4, <1>b DEF QueryFailed, Dies, Returns
  <2>2. (Repin /\ client' = pinned') \/ UNCHANGED route
    BY <1>4 DEF QueryFailed
  <2>3. Careful' => Careful /\ pinned' = pinned
    BY <1>a, <2>1, <2>2 DEF Repin, TypeOK
  <2>4. Careful => open' = open
    BY <1>4 DEF QueryFailed
  <2>5. ~started
    BY <2>1 DEF IInv, CallInv
  <2> QED
    BY <1>b, <2>1, <2>2, <2>3, <2>4, <2>5
<1>5. ASSUME Check PROVE LeakInv'
  <2>1. UNCHANGED <<cid, server, route, world, kind, op, alive>> /\ alive /\ pc = "check"
    BY <1>5, <1>b DEF Check
  <2>2. Careful => started' = started
    BY <1>5, <1>b, StaysStarted DEF Check
  <2>3. ASSUME Careful, NEW c \in open, c.server # pinned
        PROVE  UNCHANGED <<returned, agg, at, num>>
    <3>1. agg = <<>> /\ at >= num /\ op # "explain"
      BY <2>1, <2>3
    <3>2. at \in Nat /\ num \in Nat
      BY <1>a DEF TypeOK
    <3> QED
      BY <1>5, <3>1, <3>2 DEF Check, Ends, ExplainReturns
  <2> QED
    BY <1>b, <2>1, <2>2, <2>3
<1>6. ASSUME GetMore PROVE LeakInv'
  <2>1. UNCHANGED <<route, world, kind, op, alive>> /\ alive /\ pc = "more"
    BY <1>6, <1>b DEF GetMore
  <2>2. PICK c \in Addressed, k \in 0..BatchSize, keep \in BOOLEAN :
          /\ Advance(c, k, keep)
          /\ cid' = IF keep THEN cid ELSE 0
          /\ IF k > 0 THEN Found(Docs(c.next, k), num + k) ELSE Ends
    BY <1>6 DEF GetMore
  <2>3. Careful => started' = started /\ started
    BY <1>b, <2>1, <2>2, StaysStarted DEF IInv, CallInv
  <2>4. Careful => /\ \A d \in open' : d.id = cid' /\ d.server = pinned
                   /\ \A d, e \in open' : d = e
    BY <1>a, <1>b, <2>1, <2>2, AdvanceOne
  <2> QED
    BY <1>b, <2>1, <2>3, <2>4
<1>7. ASSUME CursorNotFound PROVE LeakInv'
  <2>1. /\ UNCHANGED <<open, route, world, kind, op, alive, started, returned, agg, at>> /\ alive
        /\ pc = "more" /\ num' = 0 /\ Addressed = {}
    BY <1>7, <1>b DEF CursorNotFound, Dies, Returns
  <2>2. at \in Nat
    BY <1>a DEF TypeOK
  <2>3. Careful => \A c \in open : c.server # pinned
    BY <1>b, <2>1 DEF Addressed
  <2> QED
    BY <1>b, <2>1, <2>2, <2>3
<1>8. ASSUME GetMoreFailed PROVE LeakInv'
  <2>1. /\ UNCHANGED <<route, world, kind, op, alive, started, cid, returned, agg, at, num>>
        /\ alive /\ started /\ pc = "more"
    BY <1>8, <1>b DEF GetMoreFailed, Dies, Returns, IInv, CallInv
  <2>2. UNCHANGED open \/ \E c \in Addressed, k \in 0..BatchSize, keep \in BOOLEAN : Advance(c, k, keep)
    BY <1>8 DEF GetMoreFailed
  <2>3. CASE UNCHANGED open
    BY <1>b, <2>1, <2>3
  <2>4. ASSUME ~ UNCHANGED open
        PROVE  Careful => /\ \A d \in open' : d.id = cid' /\ d.server = pinned
                          /\ \A d, e \in open' : d = e
    BY <1>a, <1>b, <2>1, <2>2, <2>4, AdvanceOne
  <2> QED
    BY <1>b, <2>1, <2>3, <2>4
<1>9. ASSUME GetMoreCut PROVE LeakInv'
  <2>1. UNCHANGED <<route, world, kind, op, alive>> /\ alive /\ pc = "more"
    BY <1>9, <1>b DEF GetMoreCut
  <2>2. PICK c \in Addressed, k \in 0..BatchSize, keep \in BOOLEAN :
          /\ Advance(c, k, keep)
          /\ \/ Ends /\ UNCHANGED cid
             \/ \E j \in 0..(k - 1) :
                   /\ Found(CutShort(Docs(c.next, k), j), num + k)
                   /\ cid' = IF keep THEN cid ELSE 0
    BY <1>9 DEF GetMoreCut
  <2>3. Careful => started' = started /\ started
    BY <1>b, <2>1, <2>2, StaysStarted DEF IInv, CallInv
  <2>4. (keep => cid' = cid) \/ cid' = cid
    BY <2>2
  <2>5. Careful => /\ \A d \in open' : d.id = cid' /\ d.server = pinned
                   /\ \A d, e \in open' : d = e
    BY <1>a, <1>b, <2>1, <2>2, <2>4, AdvanceOne
  <2> QED
    BY <1>b, <2>1, <2>3, <2>5
<1>10. ASSUME Reset \/ Explain PROVE LeakInv'
  BY <1>10 DEF Reset, Explain, Repin
<1>11. ASSUME SetLimit PROVE LeakInv'
  BY <1>11 DEF SetLimit
<1>12. ASSUME Destroy PROVE LeakInv'
  <2>1. /\ ~alive' /\ alive /\ pc' = pc /\ pc = "idle"
        /\ UNCHANGED <<world, kind, client, repins, pinned, returned>>
        /\ kill_cursor \/ ("lost" \in MoreOutcomes /\ UNCHANGED open)
    BY <1>12 DEF Destroy
  <2>2. ASSUME Careful, kill_cursor, NEW c \in open' PROVE Stray(c)
    <3>1. c \in open /\ (c.id # cid \/ c.server # client)
      BY <1>a, <2>2 DEF kill_cursor, Addressed, TypeOK
    <3> QED
      BY <2>1, <2>2, <3>1
  <2> QED
    BY <2>1, <2>2
<1>13. CASE UNCHANGED vars
  BY <1>13 DEF vars
<1> QED
  BY <1>1, <1>2, <1>3, <1>4, <1>5, <1>6, <1>7, <1>8, <1>9, <1>10, <1>11, <1>12, <1>13 DEF Next

(* A cursor from find that is DESTROYed leaves no server cursor behind, for *)
(* every program and every failure but those Careful names; an aggregation *)
(* or a parallel scan leaves one only if it gave no document and the server *)
(* cursor is not on the server the kill goes to.                           *)
THEOREM NothingLeaks == Spec => []NoLeak
<1>1. Init => LeakInv
  <2> SUFFICES ASSUME Init PROVE LeakInv
    OBVIOUS
  <2>1. /\ alive /\ pc = "idle" /\ op = "next" /\ returned = <<>> /\ at = 0
    BY DEF Init
  <2>2. CASE kind = "query"
    BY <2>1, <2>2 DEF Init, LeakInv, OneCursor, NoLeak
  <2>3. CASE kind # "query"
    <3>1. PICK k \in IF kind = "parallel" THEN {0} ELSE {Min(f, docs) : f \in FirstBatches},
               home \in IF kind = "parallel" THEN {client, pinned} ELSE {pinned} :
             /\ num = k /\ agg = Docs(0, k) /\ started
             /\ \/ open = {}
                \/ cid = 1 /\ open = {[id |-> 1, server |-> home, next |-> k]}
      BY <2>3 DEF Init
    <3>2. \A c \in open : c.id = cid /\ c.server = home
      BY <3>1
    <3>3. kind = "parallel" => num = 0 /\ agg = <<>>
      BY <3>1 DEF Docs
    <3>4. kind # "parallel" => home = pinned
      BY <3>1
    <3>5. \A c, d \in open : c = d
      BY <3>1
    <3> QED
      BY <2>1, <2>3, <3>1, <3>2, <3>3, <3>4, <3>5 DEF LeakInv, OneCursor, NoLeak
  <2> QED
    BY <2>2, <2>3
<1>2. LeakInv => NoLeak
  BY DEF LeakInv
<1> QED
  BY <1>1, <1>2, LeakStep, Invariant, PTL DEF Spec

-----------------------------------------------------------------------------
(* The iteration *)

(* has_next found the document after the at ones returned. *)
LEMMA FoundNext ==
  ASSUME IInv, PlaceInv, NEW b \in Seq(Document), NEW n \in Nat,
         at < n, Len(agg) + Len(b) = n - at,
         \A i \in 1..Len(b) : b[i] = at + Len(agg) + i,
         Found(b, n)
  PROVE  /\ UNCHANGED <<started, limit, explain>> /\ pc' = "idle"
         /\ num' = n /\ at' = Len(returned') /\ at' <= num'
         /\ \A i \in 1..Len(agg') : agg'[i] = at' + i
         /\ \A i \in 1..Len(buf') : buf'[i] = at' + Len(agg') + i
         /\ \/ result' = "true" /\ returned' = returned
            \/ result' = "doc" /\ returned' = Append(returned, Len(returned) + 1)
<1> DEFINE doc == Head(agg \o b)
<1> USE DEF IInv, TypeOK, PlaceInv
<1>1. doc = at + 1
  <2>1. CASE agg = <<>>
    <3>1. agg \o b = b /\ Len(agg) = 0
      BY <2>1
    <3>2. b # <<>> /\ Head(b) = b[1] /\ 1 \in 1..Len(b)
      BY <3>1
    <3> QED
      BY <3>1, <3>2
  <2>2. CASE agg # <<>>
    <3>1. Len(agg) > 0 /\ agg[1] = at + 1
      BY <2>2
    <3>2. (agg \o b)[1] = agg[1] /\ Len(agg \o b) > 0
      BY <3>1, ConcatProperties
    <3> QED
      BY <3>1, <3>2
  <2> QED
    BY <2>1, <2>2
<1>2. doc # ErrorDoc /\ ~(doc < 0) /\ doc = Len(returned) + 1 /\ op # "explain"
  <2>1. at \in Nat /\ at = Len(returned) /\ op # "explain"
    OBVIOUS
  <2> HIDE DEF doc
  <2> QED
    BY ONLY <1>1, <2>1 DEF ErrorDoc
<1>3. CASE op = "has_next" /\ Returns("true") /\ num' = n /\ buf' = b /\ UNCHANGED <<at, agg, returned>>
  BY <1>3 DEF Returns
<1>4. CASE /\ at' = at + 1 /\ num' = n
           /\ IF agg = <<>> THEN buf' = Tail(b) /\ UNCHANGED agg
                            ELSE agg' = Tail(agg) /\ buf' = b
           /\ Returns("doc") /\ returned' = Append(returned, doc)
  <2>1. /\ \A i \in 1..Len(agg') : agg'[i] = at' + i
        /\ \A i \in 1..Len(buf') : buf'[i] = at' + Len(agg') + i
    <3> HIDE DEF doc
    <3>1. CASE agg = <<>>
      <4>1. buf' = Tail(b) /\ agg' = <<>> /\ b # <<>> /\ Len(agg) = 0
        BY <1>4, <3>1
      <4>2. /\ Len(Tail(b)) = Len(b) - 1
            /\ \A i \in 1..Len(Tail(b)) : Tail(b)[i] = b[i + 1]
        BY <4>1, HeadTailProperties
      <4>3. at \in Nat /\ at' = at + 1
        BY <1>4
      <4>4. \A i \in 1..Len(b) : b[i] = at + i
        BY <4>1, <4>3
      <4>5. \A i \in 1..Len(buf') : buf'[i] = at' + i
        <5>1. /\ buf' = Tail(b) /\ Len(Tail(b)) = Len(b) - 1 /\ Len(b) \in Nat
              /\ \A j \in 1..Len(Tail(b)) : Tail(b)[j] = b[j + 1]
          BY <4>1, <4>2
        <5> QED
          BY ONLY <4>3, <4>4, <5>1
      <4> QED
        BY <4>1, <4>3, <4>5
    <3>2. CASE agg # <<>>
      <4>1. agg' = Tail(agg) /\ buf' = b
        BY <1>4, <3>2
      <4>2. /\ Len(Tail(agg)) = Len(agg) - 1
            /\ \A i \in 1..Len(Tail(agg)) : Tail(agg)[i] = agg[i + 1]
        BY <3>2, HeadTailProperties
      <4>3. \A i \in 1..Len(agg') : agg'[i] = at' + i
        <5> SUFFICES ASSUME NEW i \in 1..Len(agg') PROVE agg'[i] = at' + i
          OBVIOUS
        <5>1. i + 1 \in 1..Len(agg) /\ agg'[i] = agg[i + 1]
          BY <4>1, <4>2
        <5> QED
          BY <1>4, <5>1
      <4>4. Len(agg') = Len(agg) - 1 /\ Len(agg) \in Nat
        BY <4>1, <4>2
      <4>5. at' + Len(agg') = at + Len(agg)
        BY <1>4, <4>4
      <4>6. \A i \in 1..Len(buf') : buf'[i] = at' + Len(agg') + i
        BY <4>1, <4>5
      <4> QED
        BY <4>3, <4>6
    <3> QED
      BY <3>1, <3>2
  <2>2. returned' = Append(returned, Len(returned) + 1) /\ Len(returned') = Len(returned) + 1
    <3>1. returned' = Append(returned, doc) /\ doc = Len(returned) + 1 /\ returned \in Seq(Document)
      BY <1>2, <1>4
    <3> HIDE DEF doc
    <3>2. Len(Append(returned, doc)) = Len(returned) + 1
      BY ONLY <3>1, <1>1, AppendProperties
    <3> QED
      BY ONLY <3>1, <3>2
  <2>3. /\ UNCHANGED <<started, limit, explain>> /\ pc' = "idle" /\ result' = "doc"
        /\ num' = n /\ at' = at + 1
    BY <1>4 DEF Returns
  <2>4. at = Len(returned) /\ at \in Nat
    OBVIOUS
  <2>5. at' <= num' /\ at' = Len(returned')
    BY ONLY <2>2, <2>3, <2>4, at < n, n \in Nat
  <2> HIDE DEF doc
  <2> QED
    BY ONLY <2>1, <2>2, <2>3, <2>5
<1> HIDE DEF doc
<1> QED
  BY <1>2, <1>3, <1>4 DEF Found, doc

(* What the first reply says of the result *)
LEMMA ReplyHolds ==
  ASSUME TypeOK, ~explain, NEW r \in Replies
  PROVE  /\ r.batch \in Seq(Document) /\ r.keep \in BOOLEAN
         /\ \A i \in 1..Len(r.batch) : r.batch[i] = i
         /\ Len(r.batch) <= docs
         /\ Len(r.batch) = 0 => docs = 0
         /\ r.keep \/ Len(r.batch) = docs \/ ((limit < 0 \/ limit = 1) /\ Len(r.batch) = Total)
<1>. USE DEF TypeOK
<1>1. CASE limit < 0 \/ limit = 1
  <2>1. r = [batch |-> Docs(0, Total), keep |-> FALSE]
    BY <1>1 DEF Replies
  <2>2. Total \in Nat /\ Total <= docs /\ 0 + Total <= MaxDocs /\ docs \in Nat
    BY TotalType, CursorAssumption
  <2>3. /\ Docs(0, Total) \in Seq(Document) /\ Len(Docs(0, Total)) = Total
        /\ \A i \in 1..Total : Docs(0, Total)[i] = 0 + i
    BY <2>2, DocsAre
  <2>4. Total = 0 => docs = 0
    BY <1>1, <2>2 DEF Total, Min, Abs
  <2> QED
    BY <1>1, <2>1, <2>2, <2>3, <2>4
<1>2. CASE ~(limit < 0 \/ limit = 1)
  <2>1. PICK k \in 0..Min(docs, BatchSize), b \in BOOLEAN : r = [batch |-> Docs(0, k), keep |-> b]
    BY <1>2 DEF Replies
  <2>2. k \in Nat /\ k <= docs /\ 0 + k <= MaxDocs /\ docs \in Nat
    BY CursorAssumption DEF Min
  <2>3. /\ Docs(0, k) \in Seq(Document) /\ Len(Docs(0, k)) = k
        /\ \A i \in 1..k : Docs(0, k)[i] = 0 + i
    BY <2>2, DocsAre
  <2>4. /\ docs > 0 => Len(r.batch) > 0
        /\ r.keep \/ Len(r.batch) = docs
    BY <1>2 DEF Replies
  <2> QED
    BY <2>1, <2>2, <2>3, <2>4
<1> QED
  BY <1>1, <1>2

(* Under Reliable nothing repins, and every message ends in few ways. *)
LEMMA ReliableMeans ==
  ASSUME Reliable, TypeOK
  PROVE  /\ "explain" \notin Ops
         /\ QueryOutcomes \subseteq {"ok", "lost", "late"} /\ MoreOutcomes \subseteq {"ok", "lost"}
         /\ Repin => UNCHANGED <<pinned, repins>>
  BY CursorAssumption DEF Reliable, TypeOK, Ops, QueryOutcomes, MoreOutcomes, Repin

LEMMA SameCursor ==
  \A c, d \in [id : 1..MaxCursors, server : Servers, next : 0..MaxDocs] :
      c.id = d.id /\ c.server = d.server /\ c.next = d.next => c = d
  OBVIOUS

LEMMA PlaceStep == Reliable /\ IInv /\ PlaceInv /\ [Next]_vars => PlaceInv'
<1> SUFFICES ASSUME Reliable, IInv, PlaceInv, [Next]_vars PROVE PlaceInv'
  OBVIOUS
<1>0. /\ "explain" \notin Ops
      /\ QueryOutcomes \subseteq {"ok", "lost", "late"} /\ MoreOutcomes \subseteq {"ok", "lost"}
      /\ Repin => UNCHANGED <<pinned, repins>>
  BY ReliableMeans DEF IInv
<1> USE <1>0 DEF IInv, TypeOK, PlaceInv, server, route, cursor, request
<1>1. ASSUME NEW o \in {"next", "has_next"}, Call(o) PROVE PlaceInv'
  BY <1>1 DEF Call, Total
<1>2. ASSUME QueryAnswered PROVE PlaceInv'
  <2>1. PICK r \in Replies : Serve(r) /\ Store(r.batch, r.keep, lastCid + 1)
    BY <1>2 DEF QueryAnswered
  <2>2. /\ started' = TRUE /\ pc' = "check" /\ pc # "idle" /\ client = pinned
        /\ UNCHANGED <<world, kind, docs, pinned, repins, client, limit, explain, at, agg, op,
                       returned, alive>>
    BY <1>2 DEF QueryAnswered, QueryDone
  <2>3. at = 0 /\ num = 0 /\ Len(agg) = 0 /\ returned = <<>>
    BY <1>2 DEF QueryAnswered, BufferInv, CallInv
  <2>4. /\ num' = Len(r.batch) /\ buf' = r.batch /\ num' \in Nat /\ Len(agg') = 0 /\ at' = 0
        /\ r.keep \in BOOLEAN
        /\ cid' = IF r.keep THEN lastCid + 1 ELSE 0
    BY <2>1, <2>2, <2>3, ReplyHolds DEF Store
  <2>5. /\ \A i \in 1..Len(buf') : buf'[i] = i
        /\ num' <= docs' /\ (num' = 0 => docs' = 0)
        /\ r.keep \/ num' = docs' \/ ((limit' < 0 \/ limit' = 1) /\ num' = Total')
    <3>1. Total' = Total
      BY <2>2 DEF Total
    <3> QED
      BY <2>2, <2>4, <3>1, ReplyHolds
  <2>6. CASE r.keep
    <3>1. /\ open' = open \cup {[id |-> lastCid + 1, server |-> client, next |-> num']}
          /\ lastCid' = lastCid + 1 /\ cid' = lastCid + 1 /\ pinned' = client
      BY <2>1, <2>2, <2>4, <2>6 DEF Serve
    <3>2. /\ \A c \in open' : c.id <= lastCid'
          /\ \E c \in open' : c.id = cid' /\ c.server = pinned'
          /\ \A c \in open' : c.id = cid' => c.next = num'
      <4> DEFINE new == [id |-> lastCid + 1, server |-> client, next |-> num']
      <4>1. new.id = lastCid + 1 /\ new.server = client /\ new.next = num'
        OBVIOUS
      <4>2. lastCid \in Nat /\ \A c \in open : c.id \in Nat /\ c.id <= lastCid
        OBVIOUS
      <4>3. open' = open \cup {new}
        BY <3>1
      <4> HIDE DEF new
      <4> QED
        BY ONLY <3>1, <4>1, <4>2, <4>3
    <3>3. cid' # 0
      BY <3>1
    <3> QED
      BY <2>2, <2>3, <2>4, <2>5, <3>2, <3>3
  <2>7. CASE ~r.keep
    <3>1. cid' = 0 /\ open' = open /\ lastCid' = lastCid
      BY <2>1, <2>4, <2>7 DEF Serve
    <3> QED
      BY <2>2, <2>3, <2>4, <2>5, <2>7, <3>1
  <2> QED
    BY <2>4, <2>6, <2>7
<1>3. ASSUME QueryCut PROVE PlaceInv'
  BY <1>3 DEF QueryCut
<1>4. ASSUME QueryFailed PROVE PlaceInv'
  <2>1. /\ ~started /\ UNCHANGED <<at, num, cid, buf, agg, world, kind, docs, op, alive>>
        /\ UNCHANGED <<started, limit, explain, returned>>
        /\ pc # "idle" /\ pc' \in {"requery", "idle"}
    BY <1>4 DEF QueryFailed, Dies, Returns, CallInv
  <2>2. client' = pinned'
    BY <1>4 DEF QueryFailed
  <2>3. \A c \in open' : c.id <= lastCid'
    BY <1>4 DEF QueryFailed, Serve
  <2> QED
    BY <2>1, <2>2, <2>3
<1>5. ASSUME Check PROVE PlaceInv'
  <2>1. UNCHANGED <<cid, server, route, world, kind, docs, saved, op, alive>> /\ pc = "check" /\ started
    BY <1>5 DEF Check, CallInv
  <2>2. CASE Ends
    <3>1. UNCHANGED <<started, limit, explain, at, num, buf, agg, returned>> /\ pc' = "idle"
      BY <2>1, <2>2 DEF Ends, ExplainReturns, Returns
    <3>2. Total' = Total
      BY <2>1, <3>1 DEF Total
    <3> QED
      BY <2>1, <3>1, <3>2
  <2>3. CASE ~NoMore /\ (agg # <<>> \/ at < num) /\ Found(buf, num)
    <3>1. at < num /\ Len(agg) + Len(buf) = num - at
      BY <2>3, EmptySeq DEF BufferInv
    <3>2. /\ UNCHANGED <<started, limit, explain>> /\ pc' = "idle"
          /\ num' = num /\ at' = Len(returned') /\ at' <= num'
          /\ \A i \in 1..Len(agg') : agg'[i] = at' + i
          /\ \A i \in 1..Len(buf') : buf'[i] = at' + Len(agg') + i
      BY <2>3, <3>1, FoundNext
    <3>3. Total' = Total
      BY <2>1, <3>2 DEF Total
    <3> QED
      BY <2>1, <3>2, <3>3
  <2>4. CASE /\ ~NoMore /\ agg = <<>> /\ at >= num
             /\ pc' = "more"
             /\ UNCHANGED <<started, at, num, buf, agg, limit, explain, result, returned>>
    BY <2>1, <2>4 DEF NoMore, Total
  <2> QED
    BY <1>5, <2>2, <2>3, <2>4 DEF Check
<1>6. ASSUME GetMore PROVE PlaceInv'
  <2>1. /\ UNCHANGED <<route, world, kind, docs, saved, op, alive>>
        /\ pc = "more" /\ agg = <<>> /\ at = num /\ started /\ alive /\ client = pinned
    BY <1>6 DEF GetMore, CallInv, BufferInv
  <2>2. PICK c \in Addressed, k \in 0..BatchSize, keep \in BOOLEAN :
          /\ Advance(c, k, keep)
          /\ cid' = IF keep THEN cid ELSE 0
          /\ IF k > 0 THEN Found(Docs(c.next, k), num + k) ELSE Ends
    BY <1>6 DEF GetMore
  <2>3. /\ c \in open /\ c.id = cid /\ c.server = client /\ c.next = num /\ cid # 0
        /\ k \in Nat /\ num + k <= docs /\ (keep \/ num + k = docs)
        /\ lastCid' = lastCid /\ client' = client /\ pinned' = client
    <3>1. c \in open /\ c.id = cid /\ c.server = client /\ cid # 0
      BY <2>1 DEF Addressed
    <3>2. c.next = num
      BY <2>1, <3>1
    <3>3. k \in Nat /\ num \in Nat /\ docs \in Nat /\ BatchSize \in Nat
      BY CursorAssumption
    <3>4. k <= Min(BatchSize, docs - c.next) /\ (keep \/ c.next + k = docs) /\ lastCid' = lastCid
      BY <2>2 DEF Advance
    <3>5. num + k <= docs
      BY ONLY <3>2, <3>3, <3>4 DEF Min
    <3> QED
      BY <2>1, <3>1, <3>2, <3>3, <3>4, <3>5
  <2>4. /\ UNCHANGED <<started, limit, explain>> /\ pc' = "idle"
        /\ num' = num + k /\ at' = Len(returned') /\ at' <= num'
        /\ \A i \in 1..Len(agg') : agg'[i] = at' + i
        /\ \A i \in 1..Len(buf') : buf'[i] = at' + Len(agg') + i
    <3>1. CASE k > 0
      <4>0. num + k <= MaxDocs /\ num \in Nat
        BY <2>3, CursorAssumption
      <4>1. /\ Docs(num, k) \in Seq(Document) /\ Len(Docs(num, k)) = k
            /\ \A i \in 1..k : Docs(num, k)[i] = num + i
        BY <2>3, <4>0, DocsAre
      <4>2. Found(Docs(num, k), num + k) /\ Len(agg) = 0
        BY <2>1, <2>2, <2>3, <3>1
      <4>3. /\ at < num + k /\ Len(agg) + Len(Docs(num, k)) = (num + k) - at /\ num + k \in Nat
            /\ \A i \in 1..Len(Docs(num, k)) : Docs(num, k)[i] = at + Len(agg) + i
        BY <2>1, <2>3, <3>1, <4>1, <4>2
      <4> QED
        BY <4>1, <4>2, <4>3, FoundNext
    <3>2. CASE k = 0
      <4>1. Ends /\ num + k = num
        BY <2>2, <2>3, <3>2
      <4> QED
        BY <2>1, <4>1 DEF Ends, ExplainReturns, Returns
    <3> QED
      BY <2>3, <3>1, <3>2
  <2>5. /\ \A d \in open' : d.id <= lastCid'
        /\ keep => /\ \E d \in open' : d.id = cid' /\ d.server = pinned'
                   /\ \A d \in open' : d.id = cid' /\ d.server = pinned' => d.next = num'
    <3> DEFINE moved == [c EXCEPT !.next = @ + k]
    <3>1. /\ moved.id = cid /\ moved.server = client /\ moved.next = num + k
          /\ c \in [id : 1..MaxCursors, server : Servers, next : 0..MaxDocs]
      BY <2>3
    <3>2. open' = (open \ {c}) \cup IF keep THEN {moved} ELSE {}
      BY <2>2 DEF Advance
    <3>3. \A d \in open \ {c} : ~(d.id = cid /\ d.server = client)
      <4> SUFFICES ASSUME NEW d \in open, d.id = cid, d.server = client PROVE d = c
        OBVIOUS
      <4>1. d.next = num /\ d \in [id : 1..MaxCursors, server : Servers, next : 0..MaxDocs]
        BY <2>1, <2>3
      <4> QED
        BY ONLY <2>3, <3>1, <4>1, d.id = cid, d.server = client, SameCursor
    <3>4. cid <= lastCid
      BY <2>3
    <3>5. keep => cid' = cid
      BY <2>2
    <3> HIDE DEF moved
    <3> QED
      BY <2>3, <2>4, <3>1, <3>2, <3>3, <3>4, <3>5
  <2>6. ~keep => num' = docs' /\ cid' = 0
    BY <2>1, <2>2, <2>3, <2>4
  <2>7. num' <= docs' /\ num' \in Nat /\ (num' = 0 => num = 0) /\ cid' \in {0, cid}
    BY <2>1, <2>2, <2>3, <2>4
  <2> QED
    BY <2>1, <2>2, <2>4, <2>5, <2>6, <2>7
<1>7. ASSUME CursorNotFound PROVE PlaceInv'
  <2>1. pc = "more" /\ Addressed = {} /\ started /\ alive /\ client = pinned /\ cid # 0
    BY <1>7 DEF CursorNotFound, CallInv
  <2> QED
    BY <2>1 DEF Addressed
<1>8. ASSUME GetMoreFailed PROVE PlaceInv'
  BY <1>8 DEF GetMoreFailed, Dies, Returns, Total
<1>9. ASSUME GetMoreCut PROVE PlaceInv'
  BY <1>9 DEF GetMoreCut
<1>10. ASSUME Reset PROVE PlaceInv'
  BY <1>10 DEF Reset, Clear, CallInv
<1>11. ASSUME SetLimit PROVE PlaceInv'
  BY <1>11 DEF SetLimit
<1>12. ASSUME Explain PROVE PlaceInv'
  BY <1>12 DEF Explain
<1>13. ASSUME Destroy PROVE PlaceInv'
  BY <1>13 DEF Destroy, kill_cursor, Total
<1>14. CASE UNCHANGED vars
  BY <1>14 DEF vars, Total
<1> QED
  BY <1>1, <1>2, <1>3, <1>4, <1>5, <1>6, <1>7, <1>8, <1>9, <1>10, <1>11, <1>12, <1>13, <1>14 DEF Next

LEMMA PlaceBegins == Reliable /\ Init => PlaceInv
<1> SUFFICES ASSUME Reliable, Init PROVE PlaceInv
  OBVIOUS
<1>1. /\ docs \in 0..MaxDocs /\ ~explain /\ pc = "idle" /\ op = "next"
      /\ returned = <<>> /\ at = 0 /\ buf = <<>>
  BY DEF Init
<1>2. CASE kind = "query"
  <2>1. ~started /\ num = 0 /\ agg = <<>> /\ open = {}
    BY <1>2 DEF Init
  <2> QED
    BY <1>1, <2>1 DEF PlaceInv
<1>3. CASE kind # "query"
  <2>0. PICK k \in IF kind = "parallel" THEN {0} ELSE {Min(f, docs) : f \in FirstBatches},
             home \in IF kind = "parallel" THEN {client, pinned} ELSE {pinned} :
           /\ num = k /\ agg = Docs(0, k) /\ limit = 0
           /\ client # pinned => Pinned /\ world.apart
           /\ \/ k = docs /\ cid = 0 /\ open = {} /\ lastCid = 0
              \/ cid = 1 /\ lastCid = 1 /\ open = {[id |-> 1, server |-> home, next |-> k]}
    BY <1>3 DEF Init
  <2>a. world \in Worlds /\ kind \in world.kinds
    BY DEF Init
  <2>b. home = pinned
    BY <2>0, <2>a DEF Reliable
  <2>1. /\ num = k /\ agg = Docs(0, k) /\ limit = 0
        /\ \/ k = docs /\ cid = 0 /\ open = {} /\ lastCid = 0
           \/ cid = 1 /\ lastCid = 1 /\ open = {[id |-> 1, server |-> pinned, next |-> k]}
    BY <2>0, <2>b
  <2>2. k \in Nat /\ k <= docs /\ (k = 0 /\ kind # "parallel" => docs = 0) /\ 0 + k <= MaxDocs
    BY <1>1, CursorAssumption DEF Min, Reliable
  <2>3. Len(agg) = k /\ \A i \in 1..k : agg[i] = 0 + i
    BY <2>1, <2>2, DocsAre
  <2>4. /\ at = Len(returned) /\ at <= num /\ num <= docs
        /\ \A i \in 1..Len(agg) : agg[i] = at + i
        /\ \A i \in 1..Len(buf) : buf[i] = at + Len(agg) + i
    BY <1>1, <2>1, <2>2, <2>3
  <2>5. /\ \A c \in open : c.id <= lastCid
        /\ cid # 0 => /\ \E c \in open : c.id = cid /\ c.server = pinned
                      /\ \A c \in open : c.next = num
    <3>1. CASE cid = 0 /\ open = {}
      BY <3>1
    <3>2. CASE cid = 1 /\ lastCid = 1 /\ open = {[id |-> 1, server |-> pinned, next |-> k]}
      <4> DEFINE new == [id |-> 1, server |-> pinned, next |-> k]
      <4>1. new.id = 1 /\ new.server = pinned /\ new.next = num
        BY <2>1
      <4>2. open = {new} /\ cid = 1 /\ lastCid = 1
        BY <3>2
      <4> HIDE DEF new
      <4> QED
        BY ONLY <4>1, <4>2
    <3> QED
      BY <2>1, <3>1, <3>2
  <2> QED
    BY <1>1, <2>1, <2>2, <2>4, <2>5 DEF PlaceInv
<1> QED
  BY <1>2, <1>3

(* When has_next gives up, the caller has got everything. *)
LEMMA EndIsEnd ==
  ASSUME IInv, PlaceInv, pc = "check", NoMore
  PROVE  at = Total
<1> USE DEF IInv, TypeOK, PlaceInv
<1>1. started /\ docs \in Nat /\ at \in Nat /\ num \in Nat /\ agg = <<>> /\ at <= num /\ num <= docs
  BY DEF CallInv, NoMore
<1>2. (limit > 0 => at <= limit) /\ (limit < 0 => num <= -limit) /\ limit \in Int
  BY DEF LimitInv
<1>3. CASE limit > 0 /\ at >= limit
  BY <1>1, <1>2, <1>3 DEF Total, Min, Abs
<1>4. CASE num = 0 /\ kind # "parallel"
  <2>1. docs = 0 /\ at = 0
    BY <1>1, <1>4
  <2> QED
    BY <1>2, <2>1, TotalType
<1>5. CASE at = num /\ cid = 0
  <2>1. CASE num = Total
    BY <1>5, <2>1
  <2>2. CASE num = docs
    BY <1>1, <1>2, <1>5, <2>2 DEF Total, Min, Abs
  <2> QED
    BY <1>1, <1>5, <2>1, <2>2
<1> QED
  BY <1>3, <1>4, <1>5 DEF NoMore

(* A document that has_next finds is one that the limit lets through. *)
LEMMA FoundIsMore ==
  ASSUME IInv, NEW n \in Nat, at < n, n <= docs,
         limit > 0 => at < limit, limit < 0 => n <= -limit
  PROVE  at < Total
<1>1. docs \in Nat /\ at \in Nat /\ limit \in Int
  BY DEF IInv, TypeOK
<1> QED
  BY <1>1 DEF Total, Min, Abs

LEMMA IterStep == Reliable /\ IInv /\ PlaceInv /\ [Next]_vars => [Iter!Next]_(Iter!vars)
<1> SUFFICES ASSUME Reliable, IInv, PlaceInv, [Next]_vars PROVE [Iter!Next]_(Iter!vars)
  OBVIOUS
<1>0. /\ "explain" \notin Ops
      /\ QueryOutcomes \subseteq {"ok", "lost", "late"} /\ MoreOutcomes \subseteq {"ok", "lost"}
  BY ReliableMeans DEF IInv
<1>a. at = Len(returned) /\ op # "explain"
  BY DEF PlaceInv
<1> USE DEF server, route, cursor, request, Iter!vars, Iter!Next
<1>1. ASSUME UNCHANGED <<docs, limit, returned>>, UNCHANGED result \/ result' = "died"
      PROVE  [Iter!Next]_(Iter!vars)
  BY <1>1 DEF Iter!Die, Total
<1>2. ASSUME Ends, UNCHANGED docs, at = Total PROVE [Iter!Next]_(Iter!vars)
  BY <1>2, <1>a DEF Ends, ExplainReturns, Returns, Iter!End, Total
<1>3. ASSUME UNCHANGED <<docs, limit>>, at < Total,
             \/ result' = "true" /\ returned' = returned
             \/ result' = "doc" /\ returned' = Append(returned, Len(returned) + 1)
      PROVE  [Iter!Next]_(Iter!vars)
  BY <1>3, <1>a DEF Iter!Give, Iter!More, Total
<1>4. CASE \E o \in {"next", "has_next"} : Call(o)
  BY <1>1, <1>4 DEF Call
<1>5. CASE QueryAnswered \/ QueryCut
  BY <1>1, <1>5 DEF QueryAnswered, QueryCut, QueryDone
<1>6. CASE QueryFailed
  BY <1>1, <1>6 DEF QueryFailed, Dies, Returns
<1>7. CASE Check
  <2>1. pc = "check" /\ UNCHANGED docs
    BY <1>7 DEF Check
  <2>2. CASE NoMore /\ Ends
    BY <1>2, <2>1, <2>2, EndIsEnd
  <2>3. CASE ~NoMore /\ (agg # <<>> \/ at < num) /\ Found(buf, num)
    <3>1. /\ at < num /\ Len(agg) + Len(buf) = num - at /\ num <= docs
          /\ num \in Nat /\ buf \in Seq(Document)
          /\ \A i \in 1..Len(buf) : buf[i] = at + Len(agg) + i
      BY <2>3, EmptySeq DEF BufferInv, PlaceInv, IInv, TypeOK
    <3>2. (limit > 0 => at < limit) /\ (limit < 0 => num <= -limit)
      <4>1. CASE agg = <<>>
        BY <2>3, <4>1 DEF NoMore, IInv, TypeOK, LimitInv
      <4>2. CASE agg # <<>>
        BY <4>2 DEF IInv, CallInv
      <4> QED
        BY <4>1, <4>2
    <3>3. at < Total
      BY <3>1, <3>2, FoundIsMore
    <3>4. UNCHANGED limit /\ \/ result' = "true" /\ returned' = returned
                             \/ result' = "doc" /\ returned' = Append(returned, Len(returned) + 1)
      BY <2>3, <3>1, FoundNext
    <3> QED
      BY <1>3, <2>1, <3>3, <3>4
  <2>4. CASE UNCHANGED <<limit, result, returned>>
    BY <1>1, <2>1, <2>4
  <2> QED
    BY <1>7, <2>2, <2>3, <2>4 DEF Check
<1>8. CASE GetMore
  <2>1. /\ UNCHANGED <<route, world, kind, docs, saved, op, alive>>
        /\ pc = "more" /\ agg = <<>> /\ at = num /\ started /\ cid # 0
        /\ limit > 0 => at < limit
        /\ ~(limit < 0)
        /\ num \in Nat /\ docs \in Nat
    <3>1. pc = "more" /\ UNCHANGED <<route, world, kind, docs, saved, op, alive>>
      BY <1>8 DEF GetMore
    <3>2. agg = <<>> /\ started /\ cid # 0 /\ at <= num /\ at >= num
      BY <3>1 DEF IInv, CallInv, PlaceInv
    <3>3. (limit > 0 => at < limit) /\ ~(limit < 0)
      BY <3>1 DEF IInv, LimitInv
    <3>4. at \in Nat /\ num \in Nat /\ docs \in Nat
      BY DEF IInv, TypeOK
    <3> QED
      BY <3>1, <3>2, <3>3, <3>4
  <2>2. PICK c \in Addressed, k \in 0..BatchSize, keep \in BOOLEAN :
          /\ Advance(c, k, keep)
          /\ IF k > 0 THEN Found(Docs(c.next, k), num + k) ELSE Ends
    BY <1>8 DEF GetMore
  <2>3. /\ c.next = num /\ k \in Nat /\ num + k <= docs
        /\ (k = 0 => num = docs)
    BY <2>1, <2>2, CursorAssumption DEF Addressed, Advance, Min, PlaceInv
  <2>4. CASE k > 0
    <3>1. num + k <= MaxDocs
      BY <2>1, <2>3, CursorAssumption DEF IInv, TypeOK
    <3>2. /\ Docs(num, k) \in Seq(Document) /\ Len(Docs(num, k)) = k
          /\ \A i \in 1..k : Docs(num, k)[i] = num + i
      BY <2>1, <2>3, <3>1, DocsAre
    <3>3. Found(Docs(num, k), num + k) /\ Len(agg) = 0
      BY <2>1, <2>2, <2>3, <2>4
    <3>4. /\ at < num + k /\ Len(agg) + Len(Docs(num, k)) = (num + k) - at /\ num + k \in Nat
          /\ \A i \in 1..Len(Docs(num, k)) : Docs(num, k)[i] = at + Len(agg) + i
      BY <2>1, <2>3, <2>4, <3>2, <3>3
    <3>5. UNCHANGED limit /\ \/ result' = "true" /\ returned' = returned
                             \/ result' = "doc" /\ returned' = Append(returned, Len(returned) + 1)
      BY <3>2, <3>3, <3>4, FoundNext
    <3>6. at < Total
      BY <2>1, <2>3, <3>4, FoundIsMore
    <3> QED
      BY <1>3, <2>1, <3>5, <3>6
  <2>5. CASE k = 0
    <3>1. Ends /\ at = docs
      BY <2>1, <2>2, <2>3, <2>5
    <3>2. at = Total
      BY <2>1, <3>1 DEF Total, Min, Abs, IInv, TypeOK
    <3> QED
      BY <1>2, <2>1, <3>1, <3>2
  <2> QED
    BY <2>3, <2>4, <2>5
<1>9. CASE CursorNotFound \/ GetMoreFailed
  BY <1>1, <1>9 DEF CursorNotFound, GetMoreFailed, Dies, Returns
<1>10. CASE GetMoreCut
  BY <1>0, <1>10 DEF GetMoreCut
<1>11. CASE Reset
  BY <1>11 DEF Reset, Iter!Restart, Total
<1>12. CASE SetLimit
  <2>1. limit' \in Int /\ docs' \in Nat /\ returned = <<>> /\ UNCHANGED <<returned, result>>
    BY <1>12, CursorAssumption DEF SetLimit, IInv, TypeOK, CallInv
  <2>2. PICK l \in Int, d \in Nat : limit' = l /\ docs' = d
    BY <2>1
  <2>3. Total' = IF l = 0 THEN d ELSE Min(Abs(l), d)
    BY <2>2 DEF Total, Min, Abs
  <2>4. Total' \in Nat
    BY <2>3 DEF Min, Abs
  <2> QED
    BY <2>1, <2>4 DEF Iter!Change
<1>13. CASE Explain
  BY <1>0, <1>13 DEF Explain
<1>14. CASE Destroy
  BY <1>1, <1>14 DEF Destroy
<1>15. CASE UNCHANGED vars
  BY <1>1, <1>15 DEF vars
<1> QED
  BY <1>4, <1>5, <1>6, <1>7, <1>8, <1>9, <1>10, <1>11, <1>12, <1>13, <1>14, <1>15 DEF Next

(* A cursor gives its documents in order, each once and none left out, and *)
(* says that it is at the end only there: while the server loses no cursor *)
(* and no reply is cut short, an error, or an explanation.                 *)
THEOREM Iterates == Reliable => (Spec => IteratesResult)
<1> SUFFICES ASSUME Reliable PROVE Spec => IteratesResult
  OBVIOUS
<1>1. Init => Iter!Init
  <2> SUFFICES ASSUME Init PROVE Iter!Init
    OBVIOUS
  <2>1. docs \in Nat /\ limit \in Int
    BY Begins DEF IInv, TypeOK
  <2>2. Total \in Nat
    BY <2>1, TotalType
  <2> QED
    BY <2>2 DEF Init, Iter!Init
<1>2. Init => PlaceInv
  BY PlaceBegins
<1>3. IInv /\ PlaceInv /\ [Next]_vars => PlaceInv'
  BY PlaceStep
<1>4. IInv /\ PlaceInv /\ [Next]_vars => [Iter!Next]_(Iter!vars)
  BY IterStep
<1> QED
  BY <1>1, <1>2, <1>3, <1>4, Invariant, PTL DEF Spec, IteratesResult, Iter!Spec
=============================================================================
