----------------------------- MODULE BsonIter -----------------------------
(***************************************************************************)
(* Reading documents: bson_iter_t (bson-iter.c).  An iterator is a record  *)
(* of the offsets bson_iter_t keeps; raw is the document it walks over,    *)
(* and valid is FALSE once raw has been set to NULL.                       *)
(***************************************************************************)
EXTENDS Bson

IterOver(raw) ==
    [raw |-> raw, off |-> 0, d1 |-> 0, d2 |-> 0, d3 |-> 0, d4 |-> 0,
     next |-> 4, err |-> 0, valid |-> TRUE]

(* A document of less than 5 bytes cannot be iterated. *)
bson_iter_init(raw) == [IterOver(raw) EXCEPT !.valid = Len(raw) >= 5]

Byte(it, o) == it.raw[o + 1]
ITER_TYPE(it) == Byte(it, it.off)

(* Offsets from o on that hold a NUL *)
NULs(raw, o) == {p \in o..(Len(raw) - 1) : raw[p + 1] = 0}
First(S) == CHOOSE p \in S : \A q \in S : p <= q

(* The bytes of the C string at offset o *)
StringAt(raw, o) == Bytes(raw, o, First(NULs(raw, o)) - o)

bson_iter_key(it) == StringAt(it.raw, it.off + 1)

-----------------------------------------------------------------------------
(* bson_iter_next: where the value at offset o ends, by its type *)

mark_invalid(it) == [it EXCEPT !.valid = FALSE, !.next = 0]
Corrupt(it, e) == mark_invalid([it EXCEPT !.err = e])

NextFixed(it, o, n) == [it EXCEPT !.next = o + n]

(* A length l at offset o, with at least n bytes of the document behind it *)
LengthRefused(it, o, l, n) == o >= Len(it.raw) - 4 \/ l < 0 \/ l > Len(it.raw) - o - n

StringEnds(it, o, l) ==
    IF LengthRefused(it, o, l, 5) \/ l = 0 THEN Corrupt(it, o)
    ELSE IF Byte(it, o + 4 + l - 1) # 0 THEN Corrupt(it, o + 4 + l - 1)
    ELSE [it EXCEPT !.d2 = o + 4, !.next = o + 4 + l]
NextString(it, o) == StringEnds(it, o, Int32At(it.raw, o))

BinaryEnds(it, o, l) ==
    IF \/ LengthRefused(it, o, l, 1)
       \/ Byte(it, o + 4) = BSON_SUBTYPE_BINARY_DEPRECATED /\ l < 4
    THEN Corrupt(it, o)
    ELSE [it EXCEPT !.d2 = o + 4, !.d3 = o + 5, !.next = o + 5 + l]
NextBinary(it, o) == BinaryEnds(it, o, Int32At(it.raw, o))

DocumentEnds(it, o, l) ==
    IF LengthRefused(it, o, l, 0) THEN Corrupt(it, o) ELSE [it EXCEPT !.next = o + l]
NextDocument(it, o) == DocumentEnds(it, o, Int32At(it.raw, o))

RegexEnds(it, first, second) ==
    IF first = {} \/ second = {} THEN Corrupt(it, it.next)
    ELSE [it EXCEPT !.d2 = First(first) + 1, !.next = First(second) + 1]
NextRegex(it, o) ==
    RegexEnds(it, NULs(it.raw, o), NULs(it.raw, First(NULs(it.raw, o)) + 1))

DbpointerEnds(it, o, l) ==
    IF LengthRefused(it, o, l, 0) THEN Corrupt(it, o)
    ELSE [it EXCEPT !.d2 = o + 4, !.d3 = o + 4 + l, !.next = o + 4 + l + 12]
NextDbpointer(it, o) == DbpointerEnds(it, o, Int32At(it.raw, o))

(* The lengths of the whole, of the code and of the scope must agree. *)
CodewscopeEnds(it, o, l, c) ==
    IF Len(it.raw) < 19 \/ o >= Len(it.raw) - 14 \/ l < 14 \/ l >= Len(it.raw) - o
       \/ c < 0 \/ c >= Len(it.raw) - o - 8
    THEN Corrupt(it, o)
    ELSE IF o + 8 + c + 4 >= o + l THEN Corrupt(it, o + 4)
    ELSE IF 8 + c + Int32At(it.raw, o + 8 + c) # l THEN Corrupt(it, o + 8 + c)
    ELSE [it EXCEPT !.d2 = o + 4, !.d3 = o + 8, !.d4 = o + 8 + c, !.next = o + l]
NextCodewscope(it, o) == CodewscopeEnds(it, o, Int32At(it.raw, o), Int32At(it.raw, o + 4))

NextValue(it, o) ==
    LET type == ITER_TYPE(it)
    IN  CASE type \in {BSON_TYPE_DATE_TIME, BSON_TYPE_DOUBLE, BSON_TYPE_INT64,
                       BSON_TYPE_TIMESTAMP}                        -> NextFixed(it, o, 8)
          [] type \in {BSON_TYPE_CODE, BSON_TYPE_SYMBOL, BSON_TYPE_UTF8} -> NextString(it, o)
          [] type = BSON_TYPE_BINARY                               -> NextBinary(it, o)
          [] type \in {BSON_TYPE_ARRAY, BSON_TYPE_DOCUMENT}        -> NextDocument(it, o)
          [] type = BSON_TYPE_OID                                  -> NextFixed(it, o, 12)
          [] type = BSON_TYPE_BOOL                                 -> NextFixed(it, o, 1)
          [] type = BSON_TYPE_REGEX                                -> NextRegex(it, o)
          [] type = BSON_TYPE_DBPOINTER                            -> NextDbpointer(it, o)
          [] type = BSON_TYPE_CODEWSCOPE                           -> NextCodewscope(it, o)
          [] type = BSON_TYPE_INT32                                -> NextFixed(it, o, 4)
          [] type \in {BSON_TYPE_MAXKEY, BSON_TYPE_MINKEY, BSON_TYPE_NULL,
                       BSON_TYPE_UNDEFINED}                        -> NextFixed(it, o, 0)
          [] OTHER                                                 -> Corrupt(it, o)

(* The key before the value at offset o was read; the value may end       *)
(* wherever the document does not.                                         *)
Arrived(to, o) ==
    IF ~to.valid THEN to
    ELSE IF to.next >= Len(to.raw) THEN Corrupt(to, o)
    ELSE [to EXCEPT !.err = 0]
AtValue(at, o) == Arrived(NextValue([at EXCEPT !.d1 = o], o), o)

(* On the end byte of the document no key follows, and err stays 0. *)
AtKeyFrom(at, nuls) == IF nuls = {} THEN mark_invalid(at) ELSE AtValue(at, First(nuls) + 1)
bson_iter_next(it) ==
    IF ~it.valid THEN it
    ELSE AtKeyFrom([it EXCEPT !.off = it.next, !.d1 = 0, !.d2 = 0, !.d3 = 0, !.d4 = 0],
                   NULs(it.raw, it.next + 1))

-----------------------------------------------------------------------------
(* What the iterator points at.  Every function answers with nothing when  *)
(* the value has another type; the callers below ask for the right one.    *)

Holds(it, type) == it.valid /\ ITER_TYPE(it) = type

(* bson_iter_utf8_len_unsafe *)
Utf8Len(it) == LET n == Int32At(it.raw, it.d1) - 1 IN IF n > 0 THEN n ELSE 0

TextAt(it, type) == IF Holds(it, type) THEN Bytes(it.raw, it.d2, Utf8Len(it)) ELSE <<>>

(* Faulty variant: the second length of the old subtype counts as data. *)
BinaryWithLength(it) ==
    [subtype |-> Byte(it, it.d2), data |-> Bytes(it.raw, it.d3, Int32At(it.raw, it.d1))]

(* The old subtype's second length is stepped over. *)
SecondLength(it) == IF Byte(it, it.d2) = BSON_SUBTYPE_BINARY_DEPRECATED THEN 4 ELSE 0
BinaryBehind(it, skip) == Bytes(it.raw, it.d3 + skip, Int32At(it.raw, it.d1) - skip)
bson_iter_binary(it) ==
    IF Holds(it, BSON_TYPE_BINARY)
    THEN [subtype |-> Byte(it, it.d2), data |-> BinaryBehind(it, SecondLength(it))]
    ELSE [subtype |-> BSON_SUBTYPE_BINARY, data |-> <<>>]

NumberAt(it, type) == IF Holds(it, type) THEN Int32At(it.raw, it.d1) ELSE 0

bson_iter_bool(it)      == IF Holds(it, BSON_TYPE_BOOL) THEN Byte(it, it.d1) ELSE 0
bson_iter_double(it)    == NumberAt(it, BSON_TYPE_DOUBLE)
bson_iter_int32(it)     == NumberAt(it, BSON_TYPE_INT32)
bson_iter_int64(it)     == NumberAt(it, BSON_TYPE_INT64)
bson_iter_date_time(it) == NumberAt(it, BSON_TYPE_DATE_TIME)

bson_iter_as_int64(it) ==
    bson_iter_bool(it) + bson_iter_double(it) + bson_iter_int64(it) + bson_iter_int32(it)

bson_iter_as_bool(it) ==
    LET type == ITER_TYPE(it)
    IN  CASE type = BSON_TYPE_BOOL -> bson_iter_bool(it) # 0
          [] type \in {BSON_TYPE_DOUBLE, BSON_TYPE_INT64, BSON_TYPE_INT32} ->
                 bson_iter_as_int64(it) # 0
          [] type \in {BSON_TYPE_NULL, BSON_TYPE_UNDEFINED} -> FALSE
          [] OTHER -> TRUE

bson_iter_oid(it)    == IF Holds(it, BSON_TYPE_OID) THEN Bytes(it.raw, it.d1, 12) ELSE <<>>
bson_iter_utf8(it)   == TextAt(it, BSON_TYPE_UTF8)
bson_iter_code(it)   == TextAt(it, BSON_TYPE_CODE)
bson_iter_symbol(it) == TextAt(it, BSON_TYPE_SYMBOL)

bson_iter_regex(it) == [regex |-> StringAt(it.raw, it.d1), options |-> StringAt(it.raw, it.d2)]

bson_iter_codewscope(it) ==
    [code  |-> Bytes(it.raw, it.d3, Int32At(it.raw, it.d2) - 1),
     scope |-> Bytes(it.raw, it.d4, Int32At(it.raw, it.d4))]

bson_iter_dbpointer(it) ==
    [collection |-> Bytes(it.raw, it.d2, Int32At(it.raw, it.d1) - 1),
     oid        |-> Bytes(it.raw, it.d3, 12)]

(* bson_iter_time_t cuts the milliseconds off. *)
bson_iter_time_t(it) == bson_iter_date_time(it) \div 1000

bson_iter_timestamp(it) ==
    [timestamp |-> Int32At(it.raw, it.d1 + 4), increment |-> Int32At(it.raw, it.d1)]

bson_iter_document(it) == Bytes(it.raw, it.d1, Int32At(it.raw, it.d1))
bson_iter_array(it)    == Bytes(it.raw, it.d1, Int32At(it.raw, it.d1))

(* The value a child iterator walks over *)
bson_iter_recurse(it) ==
    IF Holds(it, BSON_TYPE_DOCUMENT) THEN IterOver(bson_iter_document(it))
    ELSE IF Holds(it, BSON_TYPE_ARRAY) THEN IterOver(bson_iter_array(it))
    ELSE mark_invalid(it)

(* Numbers are overwritten where they are, in the document itself. *)
bson_iter_overwrite_bool(it, v)  ==
    IF Holds(it, BSON_TYPE_BOOL) THEN Overwrite(it.raw, it.d1, <<v>>) ELSE it.raw
bson_iter_overwrite_int32(it, v) ==
    IF Holds(it, BSON_TYPE_INT32) THEN Overwrite(it.raw, it.d1, LE(v, 4)) ELSE it.raw
bson_iter_overwrite_int64(it, v) ==
    IF Holds(it, BSON_TYPE_INT64) THEN Overwrite(it.raw, it.d1, LE(v, 8)) ELSE it.raw
bson_iter_overwrite_double(it, v) ==
    IF Holds(it, BSON_TYPE_DOUBLE) THEN Overwrite(it.raw, it.d1, LE(v, 8)) ELSE it.raw

-----------------------------------------------------------------------------
(* Copying a field: everything the iterator points at is read and appended *)
(* again, but a null is appended as undefined.                             *)
bson_append_iter(b, key, it) ==
    LET type == ITER_TYPE(it)
        bin  == bson_iter_binary(it)
        rx   == bson_iter_regex(it)
        ptr  == bson_iter_dbpointer(it)
        cws  == bson_iter_codewscope(it)
        ts   == bson_iter_timestamp(it)
    IN  CASE type = BSON_TYPE_DOUBLE    -> bson_append_double(b, key, bson_iter_double(it))
          [] type = BSON_TYPE_UTF8      -> bson_append_utf8(b, key, bson_iter_utf8(it))
          [] type = BSON_TYPE_DOCUMENT  -> bson_append_document(b, key, bson_iter_document(it))
          [] type = BSON_TYPE_ARRAY     -> bson_append_array(b, key, bson_iter_array(it))
          [] type = BSON_TYPE_BINARY    -> bson_append_binary(b, key, bin.subtype, bin.data)
          [] type = BSON_TYPE_UNDEFINED -> bson_append_undefined(b, key)
          [] type = BSON_TYPE_OID       -> bson_append_oid(b, key, bson_iter_oid(it))
          [] type = BSON_TYPE_BOOL      -> bson_append_bool(b, key, bson_iter_bool(it))
          [] type = BSON_TYPE_DATE_TIME -> bson_append_date_time(b, key, bson_iter_date_time(it))
          [] type = BSON_TYPE_NULL      -> bson_append_undefined(b, key)
          [] type = BSON_TYPE_REGEX     -> bson_append_regex(b, key, rx.regex, rx.options)
          [] type = BSON_TYPE_DBPOINTER -> bson_append_dbpointer(b, key, ptr.collection, ptr.oid)
          [] type = BSON_TYPE_CODE      -> bson_append_code(b, key, bson_iter_code(it))
          [] type = BSON_TYPE_SYMBOL    -> bson_append_symbol(b, key, bson_iter_symbol(it))
          [] type = BSON_TYPE_CODEWSCOPE -> bson_append_code_with_scope(b, key, cws.code, cws.scope)
          [] type = BSON_TYPE_INT32     -> bson_append_int32(b, key, bson_iter_int32(it))
          [] type = BSON_TYPE_TIMESTAMP -> bson_append_timestamp(b, key, ts.timestamp, ts.increment)
          [] type = BSON_TYPE_INT64     -> bson_append_int64(b, key, bson_iter_int64(it))
          [] type = BSON_TYPE_MAXKEY    -> bson_append_maxkey(b, key)
          [] type = BSON_TYPE_MINKEY    -> bson_append_minkey(b, key)
          [] OTHER                      -> Fail(b)
=============================================================================
