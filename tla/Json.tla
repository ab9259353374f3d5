-------------------------------- MODULE Json --------------------------------
(***************************************************************************)
(* Documents written as extended JSON: bson_as_json and its visitors       *)
(* (bson.c).  A visitor gives the pieces it appends to the string under    *)
(* construction (bson-string.c).                                           *)
(***************************************************************************)
EXTENDS BsonVisit, Oid

CONSTANT MaxRecursion   \* BSON_MAX_RECURSION

ASSUME JsonAssumption == MaxRecursion \in Nat

-----------------------------------------------------------------------------
(* bson_string_t: the text, and the bytes allocated for it and its NUL *)

bson_string_new(str) == [str |-> UpToNul(str), alloc |-> bson_next_power_of_two(Len(UpToNul(str)) + 1)]

bson_string_append(string, str) ==
    LET len  == Len(UpToNul(str))
        room == string.alloc - Len(string.str) - 1
    IN  [str |-> string.str \o UpToNul(str),
         alloc |-> IF room < len THEN bson_next_power_of_two(string.alloc + len) ELSE string.alloc]

-----------------------------------------------------------------------------
Quoted(s) == <<<<34>>, s, <<34>>>>

(* The pieces of text between the values *)
OpenType   == T("{ \"$type\" : \"")
OpenBinary == T("\", \"$binary\" : \"")
OpenOid    == T("{ \"$oid\" : \"")
OpenDate   == T("{ \"$date\" : ")
OpenRegex  == T("{ \"$regex\" : \"")
AndOptions == T("\", \"$options\" : \"")
OpenTime   == T("{ \"$timestamp\" : { \"t\" : ")
AndI       == T(", \"i\" : ")
OpenRef    == T("{ \"$ref\" : \"")
AndId      == T("\", \"$id\" : \"")
CloseText  == T("\" }")
CloseMap   == T(" }")
CloseTime  == T(" } }")
Fraction   == T(".000000")
Undefined  == T("{ \"$undefined\" : true }")
MinKey     == T("{ \"$minKey\" : 1 }")
MaxKey     == T("{ \"$maxKey\" : 1 }")
Null       == T("null")
True       == T("true")
False      == T("false")
Dots       == T("{ ... }")
OpenMap    == T("{ ")
OpenArray  == T("[ ")
CloseArray == T(" ]")
Comma      == T(", ")
Colon      == T(" : ")
EmptyMap   == T("{ }")

_bson_as_json_visit_utf8(v) == Quoted(bson_utf8_escape_for_json(v))
_bson_as_json_visit_int32(v) == <<Decimal(v)>>
_bson_as_json_visit_int64(v) == <<Decimal(v)>>
_bson_as_json_visit_double(v) == <<Decimal(v) \o Fraction>>
_bson_as_json_visit_undefined == <<Undefined>>
_bson_as_json_visit_null == <<Null>>
_bson_as_json_visit_oid(oid) == <<OpenOid, bson_oid_to_string(oid), CloseText>>
_bson_as_json_visit_binary(bin) ==
    <<OpenType, Hex(<<bin.subtype>>), OpenBinary, b64_ntop(bin.data), CloseText>>
_bson_as_json_visit_bool(v) == <<IF v # 0 THEN True ELSE False>>
_bson_as_json_visit_date_time(msec) == <<OpenDate, Decimal(msec), CloseMap>>

(* The texts of regexes, of code and of symbols go out as they are. *)
_bson_as_json_visit_regex(rx) == <<OpenRegex, rx.regex, AndOptions, rx.options, CloseText>>
_bson_as_json_visit_timestamp(ts) ==
    <<OpenTime, Decimal(ts.timestamp), AndI, Decimal(ts.increment), CloseTime>>
_bson_as_json_visit_dbpointer(ptr) ==
    <<OpenRef, ptr.collection, AndId, bson_oid_to_string(ptr.oid), CloseText>>
_bson_as_json_visit_minkey == <<MinKey>>
_bson_as_json_visit_maxkey == <<MaxKey>>
_bson_as_json_visit_code(v) == Quoted(v)
_bson_as_json_visit_symbol(v) == Quoted(v)
_bson_as_json_visit_codewscope(cws) == Quoted(cws.code)

_bson_as_json_visit_before(count, keys, key) ==
    (IF count > 0 THEN <<Comma>> ELSE <<>>)
    \o (IF keys THEN Quoted(bson_utf8_escape_for_json(key)) \o <<Colon>> ELSE <<>>)

(* bson_as_json_visitors; child is what the visitor of a child returns *)
Visit(it, child) ==
    LET type == ITER_TYPE(it)
    IN  CASE type = BSON_TYPE_DOUBLE     -> _bson_as_json_visit_double(bson_iter_double(it))
          [] type = BSON_TYPE_UTF8       -> _bson_as_json_visit_utf8(bson_iter_utf8(it))
          [] type = BSON_TYPE_DOCUMENT   -> child
          [] type = BSON_TYPE_ARRAY      -> child
          [] type = BSON_TYPE_BINARY     -> _bson_as_json_visit_binary(bson_iter_binary(it))
          [] type = BSON_TYPE_UNDEFINED  -> _bson_as_json_visit_undefined
          [] type = BSON_TYPE_OID        -> _bson_as_json_visit_oid(bson_iter_oid(it))
          [] type = BSON_TYPE_BOOL       -> _bson_as_json_visit_bool(bson_iter_bool(it))
          [] type = BSON_TYPE_DATE_TIME  -> _bson_as_json_visit_date_time(bson_iter_date_time(it))
          [] type = BSON_TYPE_NULL       -> _bson_as_json_visit_null
          [] type = BSON_TYPE_REGEX      -> _bson_as_json_visit_regex(bson_iter_regex(it))
          [] type = BSON_TYPE_DBPOINTER  -> _bson_as_json_visit_dbpointer(bson_iter_dbpointer(it))
          [] type = BSON_TYPE_CODE       -> _bson_as_json_visit_code(bson_iter_code(it))
          [] type = BSON_TYPE_SYMBOL     -> _bson_as_json_visit_symbol(bson_iter_symbol(it))
          [] type = BSON_TYPE_CODEWSCOPE -> _bson_as_json_visit_codewscope(bson_iter_codewscope(it))
          [] type = BSON_TYPE_INT32      -> _bson_as_json_visit_int32(bson_iter_int32(it))
          [] type = BSON_TYPE_TIMESTAMP  -> _bson_as_json_visit_timestamp(bson_iter_timestamp(it))
          [] type = BSON_TYPE_INT64      -> _bson_as_json_visit_int64(bson_iter_int64(it))
          [] type = BSON_TYPE_MAXKEY     -> _bson_as_json_visit_maxkey
          [] type = BSON_TYPE_MINKEY     -> _bson_as_json_visit_minkey

(* _bson_as_json_visit_document and _bson_as_json_visit_array: a string of *)
(* its own for the fields of a child, unless it is too deep.               *)
RECURSIVE VisitFields(_, _, _)
VisitFields(fields, keys, depth) ==
    LET child(it) ==
            IF depth >= MaxRecursion THEN <<Dots>>
            ELSE <<VisitFields(Visited(bson_iter_recurse(it).raw),
                               ITER_TYPE(it) = BSON_TYPE_DOCUMENT, depth + 1).str>>
        pieces(i) == _bson_as_json_visit_before(i - 1, keys, bson_iter_key(fields[i]))
                     \o Visit(fields[i], child(fields[i]))
    IN  FoldLeft(bson_string_append, bson_string_new(IF keys THEN OpenMap ELSE OpenArray),
                 Append(FlattenSeq([i \in 1..Len(fields) |-> pieces(i)]),
                        IF keys THEN CloseMap ELSE CloseArray))

(* The string, with the bytes allocated for it *)
JsonString(raw) == IF bson_empty(raw) THEN bson_string_new(EmptyMap) ELSE VisitFields(Visited(raw), TRUE, 0)
bson_as_json(raw) == JsonString(raw).str
=============================================================================
