------------------------------ MODULE Builder ------------------------------
(***************************************************************************)
(* The calls a program makes to build documents with libbson, one by one   *)
(* or into the buffer of a bson_writer_t, in any order and with any keys,  *)
(* values and documents (bson.c, bson-writer.c).  TLC runs these actions   *)
(* from BsonStream, which bounds them and says what is appended.           *)
(***************************************************************************)
EXTENDS Bson

CONSTANT Modes   \* of "writer", "file", "bcon": how documents are built

ASSUME BuilderAssumption == Modes \subseteq {"writer", "file", "bcon"}

VARIABLES
    mode,     \* fixed
    w,        \* the writer
    b,        \* the bson_t being built
    building  \* whether there is one

builderVars == <<mode, w, b, building>>

(* What the calls may be given *)
Data      == Seq(Int)
Values    == [type : FieldTypes, a : Data, b : Data]
Documents == {doc \in Data : bson_init_static(doc)}

Depth == Len(b.frames) - 1

(* Bound: the buffer lengths that have a power of two here *)
InReach(d) == Top(d).offset + Top(d).len + Top(d).depth <= Biggest

-----------------------------------------------------------------------------
BuilderInit ==
    /\ mode \in Modes
    /\ \E buf \in Data, n, offset \in Nat :
          Len(buf) <= n /\ offset <= Len(buf) /\ w = bson_writer_new(buf, n, offset)
    /\ b = bson_init /\ building = FALSE

StartInWriter ==
    /\ ~building /\ mode = "writer" /\ w.offset + 5 <= Biggest \div 2
    /\ w' = bson_writer_begin(w) /\ b' = w'.b
    /\ building' = TRUE
    /\ UNCHANGED mode

StartNew ==
    /\ ~building /\ mode # "writer"
    /\ b' = bson_init
    /\ building' = TRUE
    /\ UNCHANGED <<mode, w>>

StartCopy(doc) ==
    /\ ~building /\ mode # "writer"
    /\ b' = bson_copy(doc)
    /\ building' = TRUE
    /\ UNCHANGED <<mode, w>>

PutField(key, v) ==
    /\ building
    /\ b' = Put(b, key, v) /\ InReach(b')
    /\ UNCHANGED <<mode, w, building>>

OpenChild(key, type) ==
    /\ building
    /\ b' = IF type = BSON_TYPE_ARRAY THEN bson_append_array_begin(b, key)
                                      ELSE bson_append_document_begin(b, key)
    /\ InReach(b')
    /\ UNCHANGED <<mode, w, building>>

CloseChild ==
    /\ building /\ Depth > 0
    /\ b' = bson_append_document_end(b)
    /\ UNCHANGED <<mode, w, building>>

ConcatDocument(src) ==
    /\ building
    /\ b' = bson_concat(b, src) /\ InReach(b')
    /\ UNCHANGED <<mode, w, building>>

StartAgain ==
    /\ building /\ Depth = 0
    /\ b' = bson_reinit(b)
    /\ UNCHANGED <<mode, w, building>>

HandOver ==
    /\ building /\ Depth = 0
    /\ building' = FALSE
    /\ w' = IF mode = "writer" THEN bson_writer_end([w EXCEPT !.b = b]) ELSE w
    /\ UNCHANGED <<mode, b>>

RollBack ==
    /\ building /\ mode = "writer"
    /\ building' = FALSE
    /\ w' = bson_writer_rollback([w EXCEPT !.b = b])
    /\ UNCHANGED <<mode, b>>

BuilderNext ==
    \/ StartInWriter \/ StartNew \/ CloseChild \/ StartAgain \/ HandOver \/ RollBack
    \/ \E doc \in Documents : StartCopy(doc) \/ ConcatDocument(doc)
    \/ \E key \in Data, v \in Values : PutField(key, v)
    \/ \E key \in Data, type \in {BSON_TYPE_ARRAY, BSON_TYPE_DOCUMENT} : OpenChild(key, type)

BuilderSpec == BuilderInit /\ [][BuilderNext]_builderVars

-----------------------------------------------------------------------------
(* Properties *)

(* The buffer always has room for the end bytes of every open document:    *)
(* closing a child, which writes into the parent without a check of the    *)
(* buffer's length, stays inside it, however the buffer has grown.         *)
RoomToClose ==
    building =>
        IF b.inline THEN Len(b.frames) = 1 /\ Top(b).len <= InlineSize
        ELSE Top(b).offset + Top(b).len + Top(b).depth <= b.cap

(* Whenever no child is open the bytes of the bson_t are a document on the *)
(* outside: its length in front, a NUL at its end.  It is what HandOver    *)
(* hands over, and what a reader asks of the bytes it returns.             *)
WholeWhenClosed ==
    building /\ Depth = 0 => bson_init_static(bson_get_data(b))

(* A document is built in the writer's buffer where the ones before it     *)
(* end, and these stay as they are, whatever is written behind them.       *)
EarlierStay ==
    building /\ mode = "writer" =>
        /\ b.frames[1].offset = w.offset
        /\ \A i \in 1..w.offset : b.buf[i] = w.buf[i]

(* Nothing is written past the end of the buffer but one byte, when an     *)
(* empty document ends there: bson_writer_begin has made room for five     *)
(* bytes and clears six.                                                   *)
WrittenInside ==
    building =>
        \/ Len(b.buf) <= b.cap
        \/ /\ mode = "writer" /\ Len(b.buf) = b.cap + 1
           /\ Depth = 0 /\ Top(b).len = 5 /\ Top(b).offset + 5 = b.cap

(* What is built is well built: there is room for what closing writes,     *)
(* what is closed is a document for everyone who is handed it, and what    *)
(* was handed over before is still there.                                  *)
WellBuilt == RoomToClose /\ WrittenInside /\ WholeWhenClosed /\ EarlierStay
=============================================================================
