------------------------------- MODULE Link -------------------------------
(***************************************************************************)
(* One connection of the driver to one server: mongo_link.c, with the      *)
(* callers that decide what happens after a failure (_do_query and repin). *)
(*                                                                         *)
(* A reply is read in four parts, one per piece of code that asks for it:  *)
(*   0  the message length          get_header, first receiver call        *)
(*   2  the rest of the header      get_header, response_to is in it       *)
(*   4  the reply fields            flag, cursor_id, start, num_returned   *)
(*   6  the documents               mongo_link_reader                      *)
(* The network cuts the stream anywhere, so a part arrives in two halves   *)
(* and a receive may find one of them: the socket counts halves.  The      *)
(* server answers the requests of a connection in order, so the socket is  *)
(* the sequence "queue" of the request ids whose replies the client has    *)
(* not read to the end, "pos" halves of the first of them being read, and  *)
(* "avail" more halves having arrived.                                     *)
(*                                                                         *)
(* A Perl interpreter runs one call at a time, but calls nest: sending on  *)
(* a closed link reconnects, and connect runs commands of its own; a       *)
(* failed query of a pinned client pings before it is sent again.  The ids *)
(* of the suspended requests are on "stack".                               *)
(***************************************************************************)
EXTENDS Integers, Sequences

CONSTANTS
    MaxId,          \* bound: no new top-level request once this id is used
    SetupCommands,  \* commands connect runs on a new socket (2, or 4 with authentication)
    PingRetries,    \* _readpref_retries
    AutoReconnect,  \* link->auto_reconnect
    QueryTimeout,   \* whether query_timeout >= 0
    Pinned          \* whether a read preference is pinned (_readpref_pinned)

ASSUME LinkAssumption ==
    /\ MaxId \in Nat \ {0}
    /\ SetupCommands \in Nat \ {0}
    /\ PingRetries \in Nat \ {0}
    /\ {AutoReconnect, QueryTimeout, Pinned} \subseteq BOOLEAN

VARIABLES
    connected,  \* link->master->connected
    eof,        \* the peer has closed the connection
    queue,      \* ids the server answers, oldest first, not read to the end
    pos,        \* halves of the reply to Head(queue) already read
    avail,      \* halves that arrived and are unread
    requestId,  \* $MongoDB::Cursor::_request_id
    pc,         \* where the running call is
    want,       \* _request_id of the cursor of the running call
    stack,      \* suspended requests: sent when the nested call succeeds
    todo,       \* setup commands connect has yet to run
    mode,       \* what the outermost call is
    phase,      \* its attempt: the first, a ping of repin, or the second
    pings,      \* pings of this repin
    got,        \* history: the last reply a call returned
    astray      \* history: a receive inside a message came up short

socket == <<connected, eof, queue, pos, avail>>
call   == <<requestId, pc, want, stack, todo, mode, phase, pings>>
vars   == <<connected, eof, queue, pos, avail, requestId, pc, want, stack,
            todo, mode, phase, pings, got, astray>>

Reading == {"len", "hdr", "skip", "skipdocs", "flds", "docs"}
Hearing == Reading \cup {"select"}

(* The part of a reply the code at p takes the next bytes for. *)
Expected(p) ==
    CASE p = "hdr" -> 2
      [] p \in {"skip", "flds"} -> 4
      [] p \in {"skipdocs", "docs"} -> 6
      [] OTHER -> 0

Aligned   == pos = Expected(pc)
Exhausted == avail = 0 /\ eof     \* the next recv returns 0
Silent    == avail = 0 /\ ~eof    \* the next recv blocks, then fails with -1

StateOK ==
    /\ connected \in BOOLEAN /\ eof \in BOOLEAN
    /\ queue \in Seq(Nat) /\ pos \in 0..7 /\ avail \in Nat
    /\ requestId \in Nat /\ want \in Nat
    /\ pc \in Hearing \cup {"idle", "say"}
    /\ stack \in Seq(Nat) /\ todo \in Nat
    /\ mode \in {"query", "getmore", "oneway"}
    /\ phase \in {"first", "ping", "again"} /\ pings \in Nat
    /\ got \in [asked : Nat, answered : Nat, whole : BOOLEAN]

TypeOK == StateOK /\ astray \in BOOLEAN

Init ==
    /\ connected = FALSE /\ eof = FALSE
    /\ queue = <<>> /\ pos = 0 /\ avail = 0
    /\ requestId = 0 /\ want = 0
    /\ pc = "idle" /\ stack = <<>> /\ todo = 0
    /\ mode = "query" /\ phase = "first" /\ pings = 0
    /\ got = [asked |-> 0, answered |-> 0, whole |-> TRUE]
    /\ astray = FALSE

-----------------------------------------------------------------------------
(* What a croak, and a successful return, do to the running calls. *)

(* A nested command gets a new id from the counter and is sent next. *)
Command(suspended) ==
    /\ requestId' = requestId + 1 /\ want' = requestId + 1
    /\ stack' = suspended
    /\ pc' = "say"

GiveUp ==
    /\ pc' = "idle" /\ stack' = <<>> /\ todo' = 0
    /\ phase' = "first" /\ pings' = 0
    /\ UNCHANGED <<requestId, want, mode>>

(* _check_ok of this connection inside repin *)
Ping ==
    /\ Command(<<IF stack = <<>> THEN want ELSE stack[1]>>)
    /\ phase' = "ping" /\ pings' = pings + 1 /\ todo' = 0
    /\ UNCHANGED mode

(* The exception unwinds every nested call.  The eval of _do_query catches *)
(* it on the first attempt of a query when a read preference is pinned:    *)
(* repin then either dies, or pins another server, or pings this one; a    *)
(* failed ping is caught by _check_ok and repeated.                        *)
Croak ==
    \/ GiveUp
    \/ /\ mode = "query" /\ Pinned
       /\ \/ phase = "first"
          \/ phase = "ping" /\ pings < PingRetries
       /\ Ping

(* The innermost call returns: connect runs its next command, or the       *)
(* suspended request is sent at last, or the outermost call is over.       *)
Return ==
    \/ /\ todo > 0
       /\ Command(stack)
       /\ todo' = todo - 1
       /\ UNCHANGED <<mode, phase, pings>>
    \/ /\ todo = 0 /\ stack # <<>>
       /\ want' = stack[Len(stack)]
       /\ stack' = SubSeq(stack, 1, Len(stack) - 1)
       /\ pc' = "say"
       /\ phase' = IF phase = "ping" /\ Len(stack) = 1 THEN "again" ELSE phase
       /\ UNCHANGED <<requestId, todo, mode, pings>>
    \/ /\ todo = 0 /\ stack = <<>>
       /\ GiveUp

(* set_disconnected closes the socket: what it held is gone. *)
set_disconnected ==
    /\ connected' = FALSE /\ eof' = FALSE
    /\ queue' = <<>> /\ pos' = 0 /\ avail' = 0

-----------------------------------------------------------------------------
(* Calls the program makes. *)

(* _do_query, or has_next's get_more, or a write that is not acknowledged: *)
(* the message is built, which takes a new id, and then sent.              *)
Ask ==
    /\ pc = "idle" /\ requestId < MaxId
    /\ mode' \in {"query", "getmore", "oneway"}
    /\ requestId' = requestId + 1 /\ want' = requestId + 1
    /\ pc' = "say" /\ phase' = "first" /\ pings' = 0
    /\ UNCHANGED <<socket, stack, todo, got>>

(* next found a "not master" error document in the reply and closes. *)
NotMaster ==
    /\ pc = "idle" /\ connected /\ got.asked > 0
    /\ set_disconnected
    /\ UNCHANGED <<call, got>>

-----------------------------------------------------------------------------
(* mongo_link_say *)

OneWay == mode = "oneway" /\ stack = <<>>

Said ==
    IF OneWay THEN GiveUp
    ELSE pc' = "select" /\ UNCHANGED <<requestId, want, stack, todo, mode, phase, pings>>

SaySent ==
    /\ pc = "say" /\ connected /\ ~eof
    /\ queue' = IF OneWay THEN queue ELSE Append(queue, want)
    /\ Said
    /\ UNCHANGED <<connected, eof, pos, avail, got>>

(* The peer is gone but the kernel still takes the bytes. *)
SayLost ==
    /\ pc = "say" /\ connected /\ eof
    /\ Said
    /\ UNCHANGED <<socket, got>>

(* Faulty variant: the return value of mongo_link_say is not looked at. *)
SayFailedUnnoticed ==
    /\ pc = "say" /\ connected
    /\ set_disconnected
    /\ Said
    /\ UNCHANGED got

SayFailed ==
    /\ pc = "say" /\ connected
    /\ set_disconnected
    /\ Croak
    /\ UNCHANGED got

(* perl_mongo_master reconnects; connect runs its commands first. *)
SayReconnect ==
    /\ pc = "say" /\ ~connected /\ AutoReconnect
    /\ connected' = TRUE
    /\ Command(Append(stack, want))
    /\ todo' = SetupCommands - 1
    /\ UNCHANGED <<eof, queue, pos, avail, mode, phase, pings, got>>

SayUnreachable ==
    /\ pc = "say" /\ ~connected
    /\ Croak
    /\ UNCHANGED <<socket, got>>

-----------------------------------------------------------------------------
(* mongo_link_hear *)

(* Faulty variant: the next message starts where this one ends, unnoticed. *)
TakeOn(n) ==
    /\ n <= avail /\ avail' = avail - n
    /\ pos' = pos + n
    /\ UNCHANGED <<queue, connected, eof>>

(* The next n halves are read, over the end of a message if they go on.    *)
Take(n) ==
    /\ n <= avail /\ avail' = avail - n
    /\ IF pos + n < 8 THEN pos' = pos + n /\ UNCHANGED queue
                      ELSE pos' = pos + n - 8 /\ queue' = Tail(queue)
    /\ UNCHANGED <<connected, eof>>

(* The receives of a part get all they ask for, ...                        *)
Receive == Take(2)

(* ... or less, or nothing: one returns a short count, 0, or -1 when the   *)
(* peer is there and SO_RCVTIMEO expires.  What had arrived is taken.      *)
Short == avail < 2 /\ Take(avail)

(* That happened inside a message on an open connection.  No caller closes *)
(* it: get_header returns 0 and its caller croaks, the receives of the     *)
(* fields are tested for -1 only, so that a short count goes on.           *)
Strays == pc \in Reading \ {"len"} /\ avail < 2 /\ ~eof

Goto(p) ==
    /\ pc' = p
    /\ UNCHANGED <<requestId, want, stack, todo, mode, phase, pings>>

SelectReady ==
    /\ pc = "select"
    /\ QueryTimeout => ~Silent
    /\ Goto("len")
    /\ UNCHANGED <<socket, got>>

(* Faulty variant: a timeout returns 0 to its caller instead of croaking. *)
SelectTimeoutReturns ==
    /\ pc = "select" /\ QueryTimeout /\ Silent
    /\ Return
    /\ UNCHANGED <<socket, got>>

SelectTimeout ==
    /\ pc = "select" /\ QueryTimeout /\ Silent
    /\ Croak
    /\ UNCHANGED <<socket, got>>

(* Faulty variant: no SO_RCVTIMEO, so recv waits as long as the peer is there. *)
ReadLengthBlocking ==
    /\ pc = "len"
    /\ \/ Receive /\ Goto("hdr")
       \/ (avail = 1 \/ Exhausted \/ (~Aligned /\ ~Silent)) /\ set_disconnected /\ Croak
    /\ UNCHANGED got

(* get_header: a short count closes the connection; so does a length that  *)
(* is none, if it is out of range.                                         *)
ReadLength ==
    /\ pc = "len"
    /\ \/ Receive /\ Goto("hdr")
       \/ (avail < 2 \/ ~Aligned) /\ set_disconnected /\ Croak
    /\ UNCHANGED got

(* Faulty variant: any reply that is not newer is taken for the answer. *)
MatchAny(r) ==
    \/ r <= want /\ Goto("flds")
    \/ r > want /\ Croak

(* What the loop of mongo_link_hear does with a reply to request r *)
Match(r) ==
    \/ r = want /\ Goto("flds")
    \/ r < want /\ Goto("skip")
    \/ r > want /\ Croak

(* A short count on any of the three receives is an error of its own.      *)
ReadHeader ==
    /\ pc = "hdr"
    /\ \/ /\ Receive
          /\ \E r \in IF Aligned THEN {Head(queue)} ELSE 0..(want + 1) : Match(r)
       \/ Short /\ Croak
    /\ UNCHANGED got

(* Throwing out a reply to an older request: one receive, tested for -1.   *)
SkipFields ==
    /\ pc = "skip"
    /\ \/ Receive /\ Goto("skipdocs")
       \/ ~Silent /\ Short /\ Goto("skipdocs")
       \/ Silent /\ Short /\ Croak
    /\ UNCHANGED got

(* Faulty variant: the documents of an older reply are left in the socket. *)
SkipHeaderOnly ==
    /\ pc = "skipdocs"
    /\ Goto("len")
    /\ UNCHANGED <<socket, got>>

(* mongo_link_reader repeats its receives until all is read, or one        *)
(* returns 0 or fails.  How much "all" is was in the header; a header read *)
(* out of place says anything.                                             *)
SkipDocuments ==
    /\ pc = "skipdocs"
    /\ \/ Receive /\ Goto("len")
       \/ eof /\ Short /\ Goto("len")
       \/ ~eof /\ Short /\ Croak
       \/ ~Aligned /\ Take(1) /\ (Goto("skipdocs") \/ Goto("len"))
    /\ UNCHANGED got

(* hear returns; "whole" is whether it read what the server sent.  A       *)
(* command whose reply came out empty or cut short may throw.              *)
Accept(whole) ==
    /\ got' = [asked |-> want, answered |-> IF pos > 3 THEN Head(queue) ELSE 0,
               whole |-> whole]
    /\ \/ Return
       \/ ~whole /\ stack # <<>> /\ Croak

(* The four field reads test for -1 only: after a short count, or 0 from a *)
(* closed socket, the code goes on with fields it has not read, and bit 0  *)
(* of such a flag may say "cursor not found".                              *)
ReadFields ==
    /\ pc = "flds"
    /\ \/ Receive /\ Goto("docs")
       \/ ~Silent /\ Short /\ Goto("docs")
       \/ Short /\ Croak
       \/ ~Aligned /\ Receive /\ Croak
    /\ UNCHANGED got

(* flag & 1, "cursor not found": such a reply has no documents to arrive. *)
CursorNotFound ==
    /\ pc = "flds" /\ Aligned /\ mode = "getmore" /\ stack = <<>>
    /\ avail > 1 /\ avail' = IF avail > 4 THEN avail - 4 ELSE 0
    /\ pos' = 0 /\ queue' = Tail(queue)
    /\ Croak
    /\ UNCHANGED <<connected, eof, got>>

(* A -1 from mongo_link_reader croaks; fewer bytes than asked for pass.    *)
ReadDocuments ==
    /\ pc = "docs"
    /\ \/ Receive /\ Accept(Aligned)
       \/ eof /\ Short /\ Accept(FALSE)
       \/ ~eof /\ Short /\ Croak /\ UNCHANGED got
       \/ ~Aligned /\ Take(1) /\ Accept(FALSE)
       \/ ~Aligned /\ Take(1) /\ Goto("docs") /\ UNCHANGED got

-----------------------------------------------------------------------------
(* The other end of the connection *)

Deliver ==
    /\ connected /\ ~eof
    /\ avail < 8 * Len(queue) - pos
    /\ avail' = avail + 1
    /\ UNCHANGED <<connected, eof, queue, pos, call, got>>

PeerClose ==
    /\ connected /\ ~eof
    /\ eof' = TRUE
    /\ UNCHANGED <<connected, queue, pos, avail, call, got>>

Say  == SaySent \/ SayLost \/ SayFailed \/ SayReconnect \/ SayUnreachable
Hear == \/ SelectReady \/ SelectTimeout \/ ReadLength \/ ReadHeader
        \/ SkipFields \/ SkipDocuments \/ ReadFields \/ CursorNotFound
        \/ ReadDocuments

(* The running call moves on. *)
Run == \/ Say /\ UNCHANGED astray
       \/ Hear /\ astray' = (astray \/ Strays)

Next == \/ Run
        \/ (Ask \/ NotMaster \/ Deliver \/ PeerClose) /\ UNCHANGED astray

(* A call that runs keeps running, and select and SO_RCVTIMEO end the      *)
(* waiting; nothing is assumed of the server.                              *)
Fairness == WF_vars(Run)

Spec     == Init /\ [][Next]_vars
FairSpec == Spec /\ Fairness

-----------------------------------------------------------------------------
(* Properties                                                              *)
(*                                                                         *)
(* A receive inside a message that gets less than it asks for, while the   *)
(* peer is there, leaves the connection open at a place the code does not  *)
(* know of: a time-out, or just a cut of the stream at the wrong byte of   *)
(* the header or the fields.  The bytes that follow are then read for what *)
(* they are not, and nothing can be said of what a call is given.          *)
(* "astray" tells those behaviours apart; the properties that name it say  *)
(* what holds until then, whatever else fails.                             *)

(* The reply a call returns answers the request that call sent, whatever   *)
(* late replies of timed-out calls were in the socket (the loop of         *)
(* mongo_link_hear throws out the older ones).                             *)
ReplyMatches == astray \/ got.answered = got.asked

(* The croak "missed the response we wanted" cannot happen: although ids   *)
(* are not sent in order (a query keeps its id while connect or a ping     *)
(* takes newer ones), a reply that arrives is never newer than the request *)
(* being waited for.                                                       *)
NeverMissed == ~astray /\ pc = "hdr" /\ avail > 0 => Head(queue) <= want

(* Short receives inside a message are the only way for the code to lose   *)
(* its place in the stream.  Time-outs between messages, sends that fail,  *)
(* a peer that closes with a message cut anywhere, calls that nest and     *)
(* calls that are sent again all leave the connection closed, at the       *)
(* boundary the code takes it to be at, or with nothing more to read; and  *)
(* get_header's range check ("make sure we're not getting crazy data") is  *)
(* not needed after any of them.                                           *)
NoCrazyData == ~astray /\ avail > 0 => Aligned

(* mongo_link_hear only runs on a connection that is open, so its own      *)
(* "not connected" exit is never taken: say leaves the link open or dies.  *)
HearConnected == pc \in Hearing => connected

(* When a call has returned its reply the server owes nothing on this      *)
(* connection, so the next request finds no stale reply in front of its    *)
(* own.                                                                    *)
Drained   == pc = "idle" /\ got.asked = want /\ got.whole => queue = <<>>
NoBacklog == astray \/ Drained

-----------------------------------------------------------------------------
(* The inductive invariant behind the safety properties: it holds until a  *)
(* receive inside a message comes up short on an open connection.          *)

Below(s, n) == \A i \in 1..Len(s) : s[i] < n

SocketInv ==
    /\ avail <= 8 * Len(queue) - pos
    /\ pos > 0 => Len(queue) > 0
    /\ ~connected => /\ queue = <<>> /\ pos = 0 /\ avail = 0 /\ ~eof
                     /\ pc \notin Hearing

(* Once the stream has run dry at the end of file its position no longer   *)
(* matters, except where the code has just read the part before.           *)
BoundaryInv ==
    /\ Exhausted \/ Aligned
    /\ pc \in {"hdr", "flds"} => Aligned
    /\ pc = "docs" => pos \in 4..6

IdsInv ==
    /\ want <= requestId
    /\ Below(queue, requestId + 1)
    /\ pc # "idle" => Below(stack, want)
    /\ pc = "idle" => stack = <<>>
    /\ \A i, j \in 1..Len(stack) : i < j => stack[i] < stack[j]

OrderInv ==
    /\ ~Exhausted =>
        /\ pc = "say" => Below(queue, want)
        /\ pc \in Hearing => /\ \A i \in 1..(Len(queue) - 1) : queue[i] < want
                             /\ Below(queue, want + 1)
        /\ pc \in {"skip", "skipdocs"} => queue[1] < want
    /\ pc \in {"flds", "docs"} => queue[1] = want

HistoryInv ==
    /\ got.answered = got.asked
    /\ got.asked <= requestId
    /\ pc # "idle" => /\ got.asked # want
                      /\ \A i \in 1..Len(stack) : stack[i] # got.asked
    /\ Drained

IInv == StateOK /\ SocketInv /\ BoundaryInv /\ IdsInv /\ OrderInv /\ HistoryInv

-----------------------------------------------------------------------------
(* Temporal properties *)

(* Every call returns or dies, even if the server stays silent: select or  *)
(* SO_RCVTIMEO ends each wait, and the retries are bounded.                *)
CallReturns == pc # "idle" ~> pc = "idle"
=============================================================================
