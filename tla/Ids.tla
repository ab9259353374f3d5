-------------------------------- MODULE Ids --------------------------------
(***************************************************************************)
(* The numbers the driver hands out, in a program that forks and runs      *)
(* threads: object ids and sequence ids, made by a context of libbson      *)
(* (bson-oid.c, bson-context.c), and request ids of queries, counted in    *)
(* one Perl scalar (Mongo.xs, mongo_link.h).  They share no state, so that *)
(* a behaviour is about one of them.                                       *)
(***************************************************************************)
EXTENDS Oid, FiniteSets

CONSTANTS
    Pids,       \* process ids; the first process has the least one
    Threads,    \* threads of a process
    Uses,       \* [for, flags]: "oid", "sequence" or "query", or something that
                \* takes no number; and the flags of the context
    Writers,    \* those of them that write queries
    PidSpace,   \* process ids an object id tells apart (2^16)
    SeqSpace,   \* sequence numbers it tells apart (2^24)
    Seeds,      \* first sequence numbers
    IdSpace,    \* 2^32, the width of a request id in a message
    FirstIds,   \* first request ids (a random number below 1000000)
    MaxTime,    \* bound: seconds
    MaxOids,    \* bound: object ids
    MaxQueries  \* bound: queries per process

ASSUME IdsAssumption ==
    /\ Pids \subseteq Nat /\ Pids # {} /\ IsFiniteSet(Pids)
    /\ Writers \subseteq Threads
    /\ PidSpace \in Nat \ {0} /\ PidSpace <= 65536
    /\ SeqSpace \in Nat \ {0} /\ SeqSpace <= 16777216
    /\ IdSpace \in Nat \ {0} /\ IdSpace % 2 = 0
    /\ Seeds \subseteq Nat /\ FirstIds \subseteq Nat
    /\ MaxTime \in Nat /\ MaxTime <= 2147483647
    /\ MaxOids \in Nat /\ MaxOids <= 2147483647
    /\ MaxQueries \in Nat

VARIABLES
    now,      \* the clock, in seconds
    proc,     \* pid -> what its threads share
    thread,   \* pid -> thread -> where it is and what it has read
    made,     \* history: the object ids in their order, with who made them and when
    asked,    \* history: the queries, with the id sent and the id awaited
    use       \* what the program does, fixed

vars == <<now, proc, thread, made, asked, use>>

Idle == [pc |-> "idle", time |-> 0, id |-> 0, header |-> 0]
NoProcess == [live |-> FALSE, context |-> FALSE, seq32 |-> 0, seq64 |-> 0, pid |-> 0, request_id |-> 0, queries |-> 0]
FirstPid == CHOOSE p \in Pids : \A q \in Pids : p <= q

Init ==
    /\ now = 1
    /\ \E id \in FirstIds :
          proc = [p \in Pids |-> IF p = FirstPid THEN [NoProcess EXCEPT !.live = TRUE, !.request_id = id]
                                 ELSE NoProcess]
    /\ thread = [p \in Pids |-> [t \in Threads |-> Idle]]
    /\ made = <<>> /\ asked = {}
    /\ use \in Uses

Tick == use.for \in {"oid", "sequence"} /\ now < MaxTime /\ now' = now + 1 /\ UNCHANGED <<proc, thread, made, asked, use>>

(* The child has a copy of everything, and of the threads only the one     *)
(* that forked.  A context that caches the pid is for programs that do not *)
(* fork once they have it.                                                 *)
Cached(p) == proc[p].context /\ "disable_pid_cache" \notin use.flags
Fork(p, t, q) ==
    /\ use.for \in {"oid", "sequence", "query"} /\ ~Cached(p)
    /\ proc[p].live /\ thread[p][t].pc = "idle" /\ ~proc[q].live
    /\ proc' = [proc EXCEPT ![q] = [proc[p] EXCEPT !.queries = 0]]
    /\ UNCHANGED <<now, thread, made, asked, use>>

-----------------------------------------------------------------------------
(* Object ids *)

At_(p, t, pc) == proc[p].live /\ thread[p][t].pc = pc
Step(p, t, to) == thread' = [thread EXCEPT ![p][t] = to]

(* The threads that are making one *)
Making == {pt \in Pids \X Threads : thread[pt[1]][pt[2]].pc \in {"context", "draw"}}

(* Without BSON_CONTEXT_THREAD_SAFE one thread at a time may use it. *)
Allowed == "thread_safe" \in use.flags \/ Making = {}

(* Both begin by reading the clock. *)
Begin(p, t) ==
    /\ At_(p, t, "idle") /\ Allowed /\ Len(made) + Cardinality(Making) < MaxOids
    /\ Step(p, t, [Idle EXCEPT !.pc = "context", !.time = now])
    /\ UNCHANGED <<now, proc, made, asked, use>>
bson_oid_init(p, t)          == use.for = "oid" /\ Begin(p, t)
bson_oid_init_sequence(p, t) == use.for = "sequence" /\ Begin(p, t)

(* A context is made once: for the default one of the process bson_once    *)
(* lets the others wait.                                                   *)
bson_context_new(p, seed) ==
    [proc[p] EXCEPT !.context = TRUE, !.seq32 = seed, !.seq64 = 0, !.pid = p]

bson_context_get_default(p, t) ==
    /\ At_(p, t, "context")
    /\ \/ proc[p].context /\ UNCHANGED proc
       \/ ~proc[p].context /\ \E seed \in Seeds : proc' = [proc EXCEPT ![p] = bson_context_new(p, seed)]
    /\ Step(p, t, [thread[p][t] EXCEPT !.pc = "draw"])
    /\ UNCHANGED <<now, made, asked, use>>

(* Big-endian bytes of a number *)
BE2(n) == <<(n \div 256) % 256, n % 256>>
BE4(n) == BE2(n \div 65536) \o BE2(n)
BE8(n) == BE4((n \div 65536) \div 65536) \o BE4(n)
BE3(n) == Tail(BE4(n))

(* Three bytes of the digest of the host name, cached or not: all          *)
(* processes are on one host.                                              *)
_bson_context_get_oid_host == <<7, 8, 9>>

(* The pid as it was when the context was made: what a context without     *)
(* BSON_CONTEXT_DISABLE_PID_CACHE uses.                                    *)
_bson_context_get_oid_pid_cached(p) == BE2(proc[p].pid % PidSpace)
_bson_context_get_oid_pid(p) ==
    IF "disable_pid_cache" \in use.flags THEN BE2(p % PidSpace) ELSE _bson_context_get_oid_pid_cached(p)

(* The number drawn: the counter before, but the atomic addition of the    *)
(* thread-safe context returns the sum.                                    *)
_bson_context_get_oid_seq32(p) ==
    IF "thread_safe" \in use.flags THEN proc[p].seq32 + 1 ELSE proc[p].seq32
_bson_context_get_oid_seq64(p) == proc[p].seq64

(* The id of a thread that took its time when it began; three low bytes of *)
(* the number are left.                                                    *)
OidOf(p, t) ==
    BE4(thread[p][t].time)
    \o IF use.for = "oid"
       THEN _bson_context_get_oid_host \o _bson_context_get_oid_pid(p)
            \o BE3(_bson_context_get_oid_seq32(p) % SeqSpace)
       ELSE BE8(_bson_context_get_oid_seq64(p))

NextNumber(p) ==
    IF use.for = "oid" THEN _bson_context_get_oid_seq32(p) ELSE _bson_context_get_oid_seq64(p)

Draw(p, t) ==
    /\ At_(p, t, "draw") /\ Len(made) < MaxOids
    /\ proc' = IF use.for = "oid" THEN [proc EXCEPT ![p].seq32 = @ + 1] ELSE [proc EXCEPT ![p].seq64 = @ + 1]
    /\ made' = Append(made, [oid |-> OidOf(p, t), pid |-> p, time |-> thread[p][t].time,
                             seq |-> NextNumber(p)])
    /\ Step(p, t, Idle)
    /\ UNCHANGED <<now, asked, use>>

-----------------------------------------------------------------------------
(* Request ids: the steps of write_query between which another thread may  *)
(* come, as all of them use the one scalar the module found when it booted *)

(* sv_setiv(request_id, SvIV(request_id)+1) *)
ReadRequestId(p, t) ==
    /\ use.for = "query" /\ t \in Writers /\ At_(p, t, "idle") /\ proc[p].queries < MaxQueries
    /\ Step(p, t, [Idle EXCEPT !.pc = "increment", !.id = proc[p].request_id + 1])
    /\ proc' = [proc EXCEPT ![p].queries = @ + 1]
    /\ UNCHANGED <<now, made, asked, use>>

SetRequestId(p, t) ==
    /\ At_(p, t, "increment")
    /\ proc' = [proc EXCEPT ![p].request_id = thread[p][t].id]
    /\ Step(p, t, [thread[p][t] EXCEPT !.pc = "header"])
    /\ UNCHANGED <<now, made, asked, use>>

(* A signed number of 32 bits *)
Int32(n) == LET m == n % IdSpace IN IF m < IdSpace \div 2 THEN m ELSE m - IdSpace

(* Faulty variant: half of the width is lost on the way. *)
NarrowHeader(p, t) ==
    /\ At_(p, t, "header")
    /\ Step(p, t, [thread[p][t] EXCEPT !.pc = "info", !.header = proc[p].request_id % (IdSpace \div 4)])
    /\ UNCHANGED <<now, proc, made, asked, use>>

(* CREATE_MSG_HEADER *)
CreateHeader(p, t) ==
    /\ At_(p, t, "header")
    /\ Step(p, t, [thread[p][t] EXCEPT !.pc = "info", !.header = Int32(proc[p].request_id)])
    /\ UNCHANGED <<now, proc, made, asked, use>>

(* The documents are encoded before the id is copied into info, for the    *)
(* cursor to wait for.                                                     *)
StoreInfo(p, t) ==
    /\ At_(p, t, "info")
    /\ asked' = asked \cup {[pid |-> p, header |-> thread[p][t].header, info |-> proc[p].request_id]}
    /\ Step(p, t, Idle)
    /\ UNCHANGED <<now, proc, made, use>>

Next ==
    \/ Tick
    \/ \E p, q \in Pids, t \in Threads : Fork(p, t, q)
    \/ \E p \in Pids, t \in Threads :
          \/ bson_oid_init(p, t) \/ bson_oid_init_sequence(p, t) \/ bson_context_get_default(p, t) \/ Draw(p, t)
          \/ ReadRequestId(p, t) \/ SetRequestId(p, t) \/ CreateHeader(p, t) \/ StoreInfo(p, t)

Spec == Init /\ [][Next]_vars

-----------------------------------------------------------------------------
(* Properties *)

(* Two object ids are the same only if a process made all of the sequence  *)
(* numbers between them within the second, or if two process ids are the   *)
(* same in 16 bits: not after a fork, which copies the counter, and not    *)
(* for threads that draw at the same time, as long as a context is used as *)
(* its flags allow.  Sequence ids are unique within their context.         *)
OidsUnique ==
    \A i, j \in 1..Len(made) :
        LET x == made[i]
            y == made[j]
        IN  i # j /\ x.oid = y.oid =>
                /\ x.time = y.time
                /\ IF use.for = "oid" /\ x.pid = y.pid
                   THEN x.seq # y.seq /\ x.seq % SeqSpace = y.seq % SeqSpace
                   ELSE x.pid # y.pid /\ (use.for = "oid" => x.pid % PidSpace = y.pid % PidSpace)

(* The text of an object id stands for it: it is valid, gives the id back, *)
(* sorts as the id does, and its first digits are the time of creation.    *)
OidTextFaithful ==
    \A i, j \in 1..Len(made) :
        LET x  == made[i].oid
            y  == made[j].oid
            sx == bson_oid_to_string(x)
            sy == bson_oid_to_string(y)
        IN  /\ bson_oid_is_valid(sx) /\ bson_oid_init_from_string(sx) = x
            /\ bson_oid_compare(x, y) = MemCmp(sx, sy, 24)
            /\ bson_oid_equal(x, y) <=> sx = sy
            /\ bson_oid_get_time_t(x) = made[i].time

(* The id a cursor waits for is the one its query was sent with, until the *)
(* counter passes the largest signed number of 32 bits.                    *)
AwaitsOwnReply ==
    \A a \in asked : a.info < IdSpace \div 2 => a.header = a.info
=============================================================================
