------------------------------- MODULE Bson -------------------------------
(***************************************************************************)
(* The bundled libbson, its documents and how they are built (bson.c,      *)
(* bson-writer.c).  A document is the sequence of its bytes; offsets count *)
(* from 0 as in the C code.  A builder stands for a bson_t with the chain  *)
(* of children open below it: they share one buffer, and all of them but   *)
(* the last are IN_CHILD.                                                  *)
(***************************************************************************)
EXTENDS Integers, Sequences

CONSTANTS
    InlineSize,   \* bytes a bson_t holds without a buffer of its own (120)
    MaxSize       \* BSON_MAX_SIZE

(* The largest power of two whose double is no length any more *)
Biggest == 1073741824

ASSUME BsonAssumption == InlineSize \in 5..(Biggest - 8) /\ MaxSize \in Nat

BSON_TYPE_EOD        == 0
BSON_TYPE_DOUBLE     == 1
BSON_TYPE_UTF8       == 2
BSON_TYPE_DOCUMENT   == 3
BSON_TYPE_ARRAY      == 4
BSON_TYPE_BINARY     == 5
BSON_TYPE_UNDEFINED  == 6
BSON_TYPE_OID        == 7
BSON_TYPE_BOOL       == 8
BSON_TYPE_DATE_TIME  == 9
BSON_TYPE_NULL       == 10
BSON_TYPE_REGEX      == 11
BSON_TYPE_DBPOINTER  == 12
BSON_TYPE_CODE       == 13
BSON_TYPE_SYMBOL     == 14
BSON_TYPE_CODEWSCOPE == 15
BSON_TYPE_INT32      == 16
BSON_TYPE_TIMESTAMP  == 17
BSON_TYPE_INT64      == 18
BSON_TYPE_MAXKEY     == 127
BSON_TYPE_MINKEY     == 255

BSON_SUBTYPE_BINARY            == 0
BSON_SUBTYPE_BINARY_DEPRECATED == 2

-----------------------------------------------------------------------------
(* Bytes.  Numbers are kept below 2^31, the sign is extended: enough for    *)
(* the numbers the model uses.                                             *)

Scale == <<1, 256, 65536, 16777216>>
LE(v, n) == [i \in 1..n |-> IF i <= 4 THEN (v \div Scale[i]) % 256
                            ELSE IF v < 0 THEN 255 ELSE 0]

(* The signed 32-bit number at offset o *)
Int32At(raw, o) ==
    raw[o + 1] + 256 * raw[o + 2] + 65536 * raw[o + 3]
    + 16777216 * (IF raw[o + 4] < 128 THEN raw[o + 4] ELSE raw[o + 4] - 256)

(* n bytes from offset o *)
Bytes(raw, o, n) == SubSeq(raw, o + 1, o + n)

(* memcpy of data to offset o, which is not beyond the end of buf *)
Overwrite(buf, o, data) ==
    [i \in 1..(IF o + Len(data) > Len(buf) THEN o + Len(data) ELSE Len(buf)) |->
        IF i > o /\ i <= o + Len(data) THEN data[i - o] ELSE buf[i]]

(* The bytes of s before its first NUL: what strlen and strcmp see of it *)
CString(s) == SubSeq(s, 1, (CHOOSE n \in 0..Len(s) :
                                /\ \A i \in 1..n : s[i] # 0
                                /\ n = Len(s) \/ s[n + 1] = 0))

(* Written out: the lengths of buffers are reasoned about. *)
Powers == {1, 2, 4, 8, 16, 32, 64, 128, 256, 512, 1024, 2048, 4096, 8192, 16384, 32768, 65536,
           131072, 262144, 524288, 1048576, 2097152, 4194304, 8388608, 16777216, 33554432,
           67108864, 134217728, 268435456, 536870912, Biggest}

bson_next_power_of_two(v) == CHOOSE p \in Powers : p >= v /\ (p \div 2) < v

EmptyDocument == <<5, 0, 0, 0, 0>>

-----------------------------------------------------------------------------
(* The builder: buf and cap are *impl->buf and *impl->buflen, inline the   *)
(* flag; frames are the bson_t and its open children; ok is what the last  *)
(* call returned.                                                          *)

Frame(offset, depth) == [offset |-> offset, len |-> 5, depth |-> depth]

bson_init ==
    [buf |-> EmptyDocument, cap |-> InlineSize, inline |-> TRUE,
     realloc |-> TRUE, frames |-> <<Frame(0, 0)>>, ok |-> TRUE]

bson_sized_new(size) ==
    IF size <= InlineSize THEN bson_init
    ELSE [bson_init EXCEPT !.inline = FALSE, !.cap = size]

(* Only the topmost bson_t can be started again. *)
bson_reinit(b) == [b EXCEPT !.buf = Overwrite(@, b.frames[1].offset, EmptyDocument),
                            !.frames = <<Frame(b.frames[1].offset, 0)>>]

Top(b) == b.frames[Len(b.frames)]

(* The document of a bson_t none of whose children is open: bson_get_data *)
bson_get_data(b) == Bytes(b.buf, b.frames[1].offset, b.frames[1].len)

(* _bson_encode_length of the frame f *)
EncodeLength(buf, f) == Overwrite(buf, f.offset, LE(f.len, 4))

Fail(b) == [b EXCEPT !.ok = FALSE]

_bson_impl_inline_grow(b, size) ==
    LET need == Top(b).len + size
    IN  IF need <= InlineSize THEN b
        ELSE [b EXCEPT !.inline = FALSE, !.cap = bson_next_power_of_two(need)]

(* Faulty variant: no room is kept for the end bytes of the parents. *)
AllocGrowForgetsParents(b, size) ==
    LET req == Top(b).offset + Top(b).len + size
    IN  IF req <= b.cap THEN b
        ELSE IF b.realloc THEN [b EXCEPT !.cap = bson_next_power_of_two(req)]
        ELSE Fail(b)

(* The depth leaves room for the end bytes of the parents. *)
_bson_impl_alloc_grow(b, size) ==
    LET req == Top(b).offset + Top(b).len + size + Top(b).depth
    IN  IF req <= b.cap THEN b
        ELSE IF b.realloc THEN [b EXCEPT !.cap = bson_next_power_of_two(req)]
        ELSE Fail(b)

_bson_grow(b, size) ==
    IF b.inline THEN _bson_impl_inline_grow(b, size) ELSE _bson_impl_alloc_grow(b, size)

(* The length in front of the topmost document *)
Lengthened(b) == [b EXCEPT !.buf = EncodeLength(@, Top(b))]

(* The new bytes replace the end byte of the document, and a new one       *)
(* follows them.                                                           *)
Extended(b, data) ==
    IF ~b.ok THEN b
    ELSE Lengthened([b EXCEPT
             !.buf = Overwrite(@, Top(b).offset + Top(b).len - 1, data \o <<0>>),
             !.frames[Len(b.frames)].len = @ + Len(data)])

_bson_append_va(b, data) == Extended(_bson_grow(b, Len(data)), data)

_bson_append(b, data) ==
    IF Len(data) > MaxSize - Top(b).len THEN Fail(b)
    ELSE _bson_append_va([b EXCEPT !.ok = TRUE], data)

Field(type, key) == <<type>> \o key \o <<0>>

(* A document inside the bson_t itself moves to a buffer that its children *)
(* can share.                                                              *)
OutOfLine(b) == IF b.inline THEN _bson_grow(b, InlineSize + 8 - Top(b).len) ELSE b

Opened(b) ==
    IF ~b.ok THEN b
    ELSE [b EXCEPT !.frames =
             Append(@, Frame(Top(b).offset + Top(b).len - 1 - 5, Top(b).depth + 1))]

_bson_append_bson_begin(b, key, type) ==
    Opened(_bson_append(OutOfLine(b), Field(type, key) \o EmptyDocument))

(* The parent takes the child's bytes over, and gets an end byte again. *)
FirstLonger(frames, n, k) == [SubSeq(frames, 1, n) EXCEPT ![n].len = @ + k]
Taken(b, n) == [b EXCEPT !.frames = FirstLonger(@, n, Top(b).len - 5), !.ok = TRUE]
Ended(b) == [b EXCEPT !.buf = Overwrite(@, Top(b).offset + Top(b).len - 1, <<0>>)]

_bson_append_bson_end(b) == Lengthened(Ended(Taken(b, Len(b.frames) - 1)))

bson_append_array_begin(b, key)    == _bson_append_bson_begin(b, key, BSON_TYPE_ARRAY)
bson_append_array_end(b)           == _bson_append_bson_end(b)
bson_append_document_begin(b, key) == _bson_append_bson_begin(b, key, BSON_TYPE_DOCUMENT)
bson_append_document_end(b)        == _bson_append_bson_end(b)

-----------------------------------------------------------------------------
(* The append functions.  A key is handed over without its NUL. *)

bson_append_array(b, key, array) ==
    _bson_append(b, Field(BSON_TYPE_ARRAY, key) \o array)

(* The old subtype carries the length a second time. *)
bson_append_binary(b, key, subtype, binary) ==
    _bson_append(b, Field(BSON_TYPE_BINARY, key) \o
        IF subtype = BSON_SUBTYPE_BINARY_DEPRECATED
        THEN LE(Len(binary) + 4, 4) \o <<subtype>> \o LE(Len(binary), 4) \o binary
        ELSE LE(Len(binary), 4) \o <<subtype>> \o binary)

bson_append_bool(b, key, value) ==
    _bson_append(b, Field(BSON_TYPE_BOOL, key) \o <<IF value = 0 THEN 0 ELSE 1>>)

(* A string with its length in front and a NUL behind *)
Lengthy(s) == LE(Len(s) + 1, 4) \o s \o <<0>>

(* A string handed over without its length ends at its first NUL. *)
bson_append_code(b, key, javascript) ==
    _bson_append(b, Field(BSON_TYPE_CODE, key) \o Lengthy(CString(javascript)))

bson_empty(doc) == Len(doc) = 5 \/ doc[5] = 0

(* The whole value is preceded by its length. *)
Preceded(data) == LE(4 + Len(data), 4) \o data

bson_append_code_with_scope(b, key, javascript, scope) ==
    IF bson_empty(scope) THEN bson_append_code(b, key, javascript)
    ELSE _bson_append(b, Field(BSON_TYPE_CODEWSCOPE, key)
                         \o Preceded(Lengthy(CString(javascript)) \o scope))

bson_append_dbpointer(b, key, collection, oid) ==
    _bson_append(b, Field(BSON_TYPE_DBPOINTER, key) \o Lengthy(CString(collection)) \o oid)

bson_append_document(b, key, value) ==
    _bson_append(b, Field(BSON_TYPE_DOCUMENT, key) \o value)

bson_append_double(b, key, value) == _bson_append(b, Field(BSON_TYPE_DOUBLE, key) \o LE(value, 8))
bson_append_int32(b, key, value)  == _bson_append(b, Field(BSON_TYPE_INT32, key) \o LE(value, 4))
bson_append_int64(b, key, value)  == _bson_append(b, Field(BSON_TYPE_INT64, key) \o LE(value, 8))

bson_append_maxkey(b, key)    == _bson_append(b, Field(BSON_TYPE_MAXKEY, key))
bson_append_minkey(b, key)    == _bson_append(b, Field(BSON_TYPE_MINKEY, key))
bson_append_null(b, key)      == _bson_append(b, Field(BSON_TYPE_NULL, key))
bson_append_undefined(b, key) == _bson_append(b, Field(BSON_TYPE_UNDEFINED, key))

bson_append_oid(b, key, oid) == _bson_append(b, Field(BSON_TYPE_OID, key) \o oid)

bson_append_regex(b, key, regex, options) ==
    _bson_append(b, Field(BSON_TYPE_REGEX, key)
                    \o CString(regex) \o <<0>> \o CString(options) \o <<0>>)

(* The length of a string may be given: it may then hold NULs. *)
bson_append_utf8(b, key, value) ==
    _bson_append(b, Field(BSON_TYPE_UTF8, key) \o Lengthy(value))
bson_append_symbol(b, key, value) ==
    _bson_append(b, Field(BSON_TYPE_SYMBOL, key) \o Lengthy(value))

bson_append_timestamp(b, key, timestamp, increment) ==
    _bson_append(b, Field(BSON_TYPE_TIMESTAMP, key) \o LE(increment, 4) \o LE(timestamp, 4))

(* The precondition that value is not zero: the epoch itself is refused. *)
bson_append_date_time(b, key, value) ==
    IF value = 0 THEN Fail(b)
    ELSE _bson_append(b, Field(BSON_TYPE_DATE_TIME, key) \o LE(value, 8))

bson_append_timeval(b, key, sec, usec) ==
    bson_append_date_time(b, key, sec * 1000 + usec \div 1000)
bson_append_time_t(b, key, sec) == bson_append_timeval(b, key, sec, 0)

bson_concat(b, src) == IF bson_empty(src) THEN [b EXCEPT !.ok = TRUE]
                       ELSE _bson_append(b, Bytes(src, 4, Len(src) - 5))

(* The types Put knows *)
FieldTypes == BSON_TYPE_DOUBLE..BSON_TYPE_INT64 \cup {BSON_TYPE_MAXKEY, BSON_TYPE_MINKEY}

(* A value of any type: a holds it, b its second part where it has two *)
Value(type, x, y) == [type |-> type, a |-> x, b |-> y]

(* What the program appends: text with its length, times in seconds *)
Put(d, key, v) ==
    CASE v.type = BSON_TYPE_DOUBLE     -> bson_append_double(d, key, v.a[1])
      [] v.type = BSON_TYPE_UTF8       -> bson_append_utf8(d, key, v.a)
      [] v.type = BSON_TYPE_DOCUMENT   -> bson_append_document(d, key, v.a)
      [] v.type = BSON_TYPE_ARRAY      -> bson_append_array(d, key, v.a)
      [] v.type = BSON_TYPE_BINARY     -> bson_append_binary(d, key, v.b[1], v.a)
      [] v.type = BSON_TYPE_UNDEFINED  -> bson_append_undefined(d, key)
      [] v.type = BSON_TYPE_OID        -> bson_append_oid(d, key, v.a)
      [] v.type = BSON_TYPE_BOOL       -> bson_append_bool(d, key, v.a[1])
      [] v.type = BSON_TYPE_DATE_TIME  -> bson_append_time_t(d, key, v.a[1])
      [] v.type = BSON_TYPE_NULL       -> bson_append_null(d, key)
      [] v.type = BSON_TYPE_REGEX      -> bson_append_regex(d, key, v.a, v.b)
      [] v.type = BSON_TYPE_DBPOINTER  -> bson_append_dbpointer(d, key, v.a, v.b)
      [] v.type = BSON_TYPE_CODE       -> bson_append_code(d, key, v.a)
      [] v.type = BSON_TYPE_SYMBOL     -> bson_append_symbol(d, key, v.a)
      [] v.type = BSON_TYPE_CODEWSCOPE -> bson_append_code_with_scope(d, key, v.a, v.b)
      [] v.type = BSON_TYPE_INT32      -> bson_append_int32(d, key, v.a[1])
      [] v.type = BSON_TYPE_TIMESTAMP  -> bson_append_timestamp(d, key, v.a[1], v.a[2])
      [] v.type = BSON_TYPE_INT64      -> bson_append_int64(d, key, v.a[1])
      [] v.type = BSON_TYPE_MAXKEY     -> bson_append_maxkey(d, key)
      [] v.type = BSON_TYPE_MINKEY     -> bson_append_minkey(d, key)

-----------------------------------------------------------------------------
(* Whole documents *)

(* What bson_init_static and bson_new_from_data accept *)
bson_init_static(data) ==
    /\ Len(data) >= 5
    /\ Int32At(data, 0) = Len(data)
    /\ data[Len(data)] = 0

(* A copy that can be appended to *)
bson_copy(doc) == [bson_sized_new(Len(doc)) EXCEPT !.buf = doc, !.frames[1].len = Len(doc)]

(* memcmp: the sign of the first difference, or 0 *)
memcmp(s, t) ==
    LET differ == {i \in 1..Len(s) : s[i] # t[i]}
        first  == CHOOSE i \in differ : \A j \in differ : i <= j
    IN  IF differ = {} THEN 0 ELSE IF s[first] < t[first] THEN -1 ELSE 1

bson_compare(doc, other) ==
    LET m == IF Len(doc) < Len(other) THEN Len(doc) ELSE Len(other)
        c == memcmp(SubSeq(doc, 1, m), SubSeq(other, 1, m))
    IN  IF c # 0 THEN c ELSE Len(doc) - Len(other)

-----------------------------------------------------------------------------
(* bson_writer_t: documents one behind the other in a buffer of the caller *)

(* The buffer lengths the loop of bson_writer_begin goes through *)
NotNone(n) == IF n = 0 THEN 64 ELSE n
Doubled(n) == {n} \cup {NotNone(n) * p : p \in {q \in Powers : q <= Biggest \div NotNone(n)}}

bson_writer_begin(w) ==
    LET need == w.offset + 5
        cap  == CHOOSE c \in Doubled(w.buflen) :
                    c >= need /\ \A d \in Doubled(w.buflen) : d >= need => c <= d
        zeroed == Overwrite(Overwrite(w.buf, w.offset, <<5>>), w.offset + 1, <<0, 0, 0, 0, 0>>)
    IN  [w EXCEPT !.ready = FALSE,
                  !.b = [buf |-> zeroed, cap |-> cap, inline |-> FALSE, realloc |-> TRUE,
                         frames |-> <<Frame(w.offset, 0)>>, ok |-> TRUE]]

(* Writer and bson_t share the buffer and its length. *)
Shared(w) == [w EXCEPT !.buf = w.b.buf, !.buflen = w.b.cap]

bson_writer_end(w) ==
    [Shared(w) EXCEPT !.offset = @ + w.b.frames[1].len, !.ready = TRUE, !.b.frames = <<>>]

bson_writer_rollback(w) == [Shared(w) EXCEPT !.ready = TRUE, !.b.frames = <<>>]

bson_writer_new(buf, buflen, offset) ==
    [buf |-> buf, buflen |-> buflen, offset |-> offset, ready |-> TRUE,
     b |-> [bson_init EXCEPT !.frames = <<>>]]
=============================================================================
