------------------------------- MODULE Bcon -------------------------------
(***************************************************************************)
(* BCON: documents written as, and taken apart by, a list of arguments     *)
(* that looks like the document (bcon.c).  An argument is a bare string,   *)
(* or a value with its type behind a magic pointer.                        *)
(***************************************************************************)
EXTENDS BsonVisit

(* The types of bcon_type_t that no field of a document has *)
BCON_TYPE_DOC_START   == 301
BCON_TYPE_DOC_END     == 302
BCON_TYPE_ARRAY_START == 303
BCON_TYPE_ARRAY_END   == 304
BCON_TYPE_BCON        == 305
BCON_TYPE_SKIP        == 306
BCON_TYPE_ITER        == 307
BCON_TYPE_RAW         == 308

Bare(s)  == [magic |-> FALSE, v |-> Value(BSON_TYPE_UTF8, s, <<>>)]
Typed(v) == [magic |-> TRUE, v |-> v]

(* What a bare string stands for: its first character decides. *)
Mark(s, text) ==
    CASE At(s, 1) = 123 -> BCON_TYPE_DOC_START
      [] At(s, 1) = 125 -> BCON_TYPE_DOC_END
      [] At(s, 1) = 91  -> BCON_TYPE_ARRAY_START
      [] At(s, 1) = 93  -> BCON_TYPE_ARRAY_END
      [] OTHER          -> text

_bcon_append_tokenize(arg)  == IF arg.magic THEN arg.v.type ELSE Mark(arg.v.a, BSON_TYPE_UTF8)
_bcon_extract_tokenize(arg) == IF arg.magic THEN arg.v.type ELSE Mark(arg.v.a, BCON_TYPE_RAW)

-----------------------------------------------------------------------------
(* Appending.  The context is the stack of open documents and arrays, with *)
(* the number of arguments taken by each array; key is the name read last, *)
(* <<>> when a name comes next; b is the document.                         *)

bcon_append_ctx_init == <<[is_array |-> FALSE, i |-> 0]>>

(* Strings are handed over without their length, times in milliseconds. *)
_bcon_append_single(b, key, v) ==
    CASE v.type \in {BSON_TYPE_UTF8, BSON_TYPE_SYMBOL} -> Put(b, key, [v EXCEPT !.a = CString(@)])
      [] v.type = BSON_TYPE_DATE_TIME -> bson_append_date_time(b, key, v.a[1])
      [] v.type = BCON_TYPE_ITER      -> bson_append_iter(b, key, v.a[1])
      [] OTHER                        -> Put(b, key, v)

InArray(s) == Last(s.stack).is_array
AtKey(s)   == ~InArray(s) /\ s.key = <<>>

STACK_PUSH(s, is_array, b) ==
    [s EXCEPT !.b = b, !.stack = Append(@, [is_array |-> is_array, i |-> 0])]
STACK_POP(s, b) == [s EXCEPT !.b = b, !.stack = Front(@)]

(* The fields of src take the next numbers of the array: the number        *)
(* already given to the argument itself is taken back.                     *)
_bson_concat_array(s, src) ==
    FoldLeft(LAMBDA t, it :
                 [t EXCEPT !.b = bson_append_iter(@, bson_uint32_to_string(Last(t.stack).i), it),
                           !.stack[Len(t.stack)].i = @ + 1],
             [s EXCEPT !.stack[Len(s.stack)].i = @ - 1], Fields(src))

(* The key of the argument, and the context behind it *)
KeyNow(s) == IF InArray(s) THEN bson_uint32_to_string(Last(s.stack).i) ELSE s.key[1]
KeyTaken(s) == [s EXCEPT !.key = <<>>,
                         !.stack[Len(s.stack)].i = IF InArray(s) THEN @ + 1 ELSE @]

(* What the assertions admit as the next argument *)
Admitted(s, arg) ==
    LET type == _bcon_append_tokenize(arg)
    IN  /\ type = BCON_TYPE_DOC_END => ~InArray(s) /\ Len(s.stack) > 1
        /\ type = BCON_TYPE_ARRAY_END => InArray(s)
        /\ AtKey(s) => type \in {BSON_TYPE_UTF8, BCON_TYPE_DOC_END, BCON_TYPE_BCON}
        /\ type = BCON_TYPE_BCON => AtKey(s) \/ InArray(s)

(* The argument where a name comes next, and where a value does *)
AppendName(s, arg, type) ==
    CASE type = BCON_TYPE_DOC_END -> STACK_POP(s, bson_append_document_end(s.b))
      [] type = BCON_TYPE_BCON    -> [s EXCEPT !.b = bson_concat(@, arg.v.a)]
      [] OTHER                    -> [s EXCEPT !.key = <<CString(arg.v.a)>>]

AppendValue(t, key, arg, type) ==
    CASE type = BCON_TYPE_BCON        -> _bson_concat_array(t, arg.v.a)
      [] type = BCON_TYPE_DOC_START   -> STACK_PUSH(t, FALSE, bson_append_document_begin(t.b, key))
      [] type = BCON_TYPE_DOC_END     -> STACK_POP(t, bson_append_document_end(t.b))
      [] type = BCON_TYPE_ARRAY_START -> STACK_PUSH(t, TRUE, bson_append_array_begin(t.b, key))
      [] type = BCON_TYPE_ARRAY_END   -> STACK_POP(t, bson_append_array_end(t.b))
      [] OTHER                        -> [t EXCEPT !.b = _bcon_append_single(@, key, arg.v)]

(* One turn of the loop, cut where it reads an argument *)
bcon_append_ctx_va(s, arg) ==
    IF AtKey(s) THEN AppendName(s, arg, _bcon_append_tokenize(arg))
    ELSE AppendValue(KeyTaken(s), KeyNow(s), arg, _bcon_append_tokenize(arg))

-----------------------------------------------------------------------------
(* Extracting.  Each level of the stack has the document it looks into;    *)
(* out are the values stored so far; ok turns FALSE when a field is not    *)
(* there or has another type, which ends the call.                         *)

bcon_extract_ctx_init(raw) == <<[is_array |-> FALSE, i |-> 0, raw |-> raw]>>

(* What is stored for the field at it *)
Extracted(it) ==
    LET type == ITER_TYPE(it)
    IN  CASE type = BSON_TYPE_UTF8      -> Value(type, CString(bson_iter_utf8(it)), <<>>)
          [] type = BSON_TYPE_DOUBLE    -> Value(type, <<bson_iter_double(it)>>, <<>>)
          [] type = BSON_TYPE_BINARY    -> Value(type, bson_iter_binary(it).data, <<bson_iter_binary(it).subtype>>)
          [] type = BSON_TYPE_OID       -> Value(type, bson_iter_oid(it), <<>>)
          [] type = BSON_TYPE_BOOL      -> Value(type, <<bson_iter_bool(it)>>, <<>>)
          [] type = BSON_TYPE_DATE_TIME -> Value(type, <<bson_iter_date_time(it)>>, <<>>)
          [] type = BSON_TYPE_REGEX     -> Value(type, bson_iter_regex(it).regex, bson_iter_regex(it).options)
          [] type = BSON_TYPE_DBPOINTER -> Value(type, bson_iter_dbpointer(it).collection, bson_iter_dbpointer(it).oid)
          [] type = BSON_TYPE_CODE      -> Value(type, CString(bson_iter_code(it)), <<>>)
          [] type = BSON_TYPE_SYMBOL    -> Value(type, CString(bson_iter_symbol(it)), <<>>)
          [] type = BSON_TYPE_CODEWSCOPE -> Value(type, bson_iter_codewscope(it).code, bson_iter_codewscope(it).scope)
          [] type = BSON_TYPE_INT32     -> Value(type, <<bson_iter_int32(it)>>, <<>>)
          [] type = BSON_TYPE_TIMESTAMP -> Value(type, <<bson_iter_timestamp(it).timestamp, bson_iter_timestamp(it).increment>>, <<>>)
          [] type = BSON_TYPE_INT64     -> Value(type, <<bson_iter_int64(it)>>, <<>>)
          [] type = BSON_TYPE_ARRAY     -> Value(type, bson_iter_array(it), <<>>)
          [] type = BSON_TYPE_DOCUMENT  -> Value(type, bson_iter_document(it), <<>>)
          [] OTHER                      -> Value(type, <<>>, <<>>)

(* SKIP only checks the type, ITER stores the iterator whatever it is. *)
_bcon_extract_single(it, v) ==
    CASE v.type = BCON_TYPE_SKIP -> [ok |-> ITER_TYPE(it) = v.a[1], out |-> <<>>]
      [] v.type = BCON_TYPE_ITER -> [ok |-> TRUE, out |-> <<Value(BCON_TYPE_ITER, <<it.off>>, <<>>)>>]
      [] OTHER -> IF ITER_TYPE(it) = v.type THEN [ok |-> TRUE, out |-> <<Extracted(it)>>]
                  ELSE [ok |-> FALSE, out |-> <<>>]

(* The next level down, if the field has the type it takes *)
Into(t, is_array, it) ==
    IF ITER_TYPE(it) # (IF is_array THEN BSON_TYPE_ARRAY ELSE BSON_TYPE_DOCUMENT)
    THEN [t EXCEPT !.ok = FALSE]
    ELSE [t EXCEPT !.stack = Append(@, [is_array |-> is_array, i |-> 0,
                                        raw |-> bson_iter_recurse(it).raw])]
StoredOne(t, one) == [t EXCEPT !.ok = one.ok, !.out = @ \o one.out]

ExtractFound(t, found, arg, type) ==
    IF type \in {BCON_TYPE_DOC_END, BCON_TYPE_ARRAY_END} THEN [t EXCEPT !.stack = Front(@)]
    ELSE IF found = <<>> THEN [t EXCEPT !.ok = FALSE]
    ELSE IF type \in {BCON_TYPE_DOC_START, BCON_TYPE_ARRAY_START}
    THEN Into(t, type = BCON_TYPE_ARRAY_START, found[1])
    ELSE StoredOne(t, _bcon_extract_single(found[1], arg.v))

bcon_extract_ctx_va(x, arg) ==
    IF ~x.ok THEN x
    ELSE IF ~AtKey(x)
    THEN ExtractFound(KeyTaken(x), FirstWith(Fields(Last(x.stack).raw), KeyNow(x)),
                      arg, _bcon_extract_tokenize(arg))
    ELSE IF _bcon_extract_tokenize(arg) = BCON_TYPE_DOC_END THEN [x EXCEPT !.stack = Front(@)]
    ELSE [x EXCEPT !.key = <<CString(arg.v.a)>>]

(* The call: whether it succeeded, and what it stored *)
bcon_extract(raw, args) ==
    FoldLeft(bcon_extract_ctx_va,
             [stack |-> bcon_extract_ctx_init(raw), key |-> <<>>, ok |-> TRUE, out |-> <<>>],
             args)
=============================================================================
