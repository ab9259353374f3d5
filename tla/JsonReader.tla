----------------------------- MODULE JsonReader -----------------------------
(***************************************************************************)
(* A program that writes documents as JSON and reads JSON back with a      *)
(* bson_json_reader_t (bson-json.c), which feeds the parser of the bundled *)
(* yajl (yajl.c, yajl_parser.c) with the pieces a read returns and builds  *)
(* a document in the parser's callbacks.                                   *)
(***************************************************************************)
EXTENDS Json, Yajl

CONSTANTS
    Docs,       \* the documents the program writes first
    Texts,      \* other texts it is given
    MoreDocs,   \* the documents that follow
    MaxTexts,   \* bound: documents and texts
    Kinds,      \* of "data", "fd": what is read, memory or a file
    DataSize,   \* bytes handed out of memory at a time, one less than buf_size
    Chunks,     \* bytes a read of a file may return at most
    Int32Max,   \* INT32_MAX
    STACK_MAX   \* levels a document read may have (100)

ASSUME JsonReaderAssumption ==
    /\ MaxTexts \in Nat /\ Kinds \subseteq {"data", "fd"}
    /\ DataSize \in Nat \ {0} /\ Chunks \subseteq Nat \ {0}
    /\ Int32Max \in Nat /\ STACK_MAX \in Nat

VARIABLES
    docs,    \* history: what was written, a document or a text each
    text,    \* the bytes in front of the reader
    pos,     \* how many of them the reads have returned
    rd,      \* the reader: what it reads, the last piece and how much of it was parsed,
             \* yajl's stack of states and the bytes its lexer keeps
    bson,    \* bson_json_reader_bson_t: the document and the callbacks' state
    got,     \* history: the documents returned
    end      \* "none", or how the last read ended: "eof", "error"

vars == <<docs, text, pos, rd, bson, got, end>>

-----------------------------------------------------------------------------
(* bson_json_reader_bson_t.  stack has n + 1 frames; has1 and has2 are the *)
(* first two flags of the union bson_type_data, val1 and val2 its values;  *)
(* ok is what the last callback returned, error whether one was set.       *)

NewReaderBson ==
    [b |-> bson_init, stack |-> <<>>, key |-> <<>>, read_state |-> "REGULAR",
     bson_state |-> "REGEX", bson_type |-> 0, buf0 |-> <<>>, buf1 |-> <<>>,
     has1 |-> FALSE, has2 |-> FALSE, val1 |-> <<>>, val2 |-> <<>>, ok |-> TRUE, error |-> FALSE]

Refuse(c) == [c EXCEPT !.ok = FALSE]
_bson_json_read_set_error(c) == [c EXCEPT !.ok = FALSE, !.error = TRUE, !.read_state = "ERROR"]
Regular(c) == c.read_state = "REGULAR"

(* Faulty variant: the index of an array is not counted. *)
FixupKeepsIndex(c) ==
    IF Len(c.stack) > 1 /\ Last(c.stack).array
    THEN [c EXCEPT !.key = bson_uint32_to_string(Last(c.stack).i)] ELSE c

(* In an array the key is the index, which every callback of a value moves *)
(* on.                                                                     *)
_bson_json_read_fixup_key(c) ==
    IF Len(c.stack) > 1 /\ Last(c.stack).array
    THEN [c EXCEPT !.key = bson_uint32_to_string(Last(c.stack).i),
                   !.stack[Len(c.stack)].i = @ + 1]
    ELSE c

(* STACK_PUSH_DOC, STACK_PUSH_ARRAY, STACK_POP_DOC and STACK_POP_ARRAY *)
PushDoc(c) ==
    IF Len(c.stack) >= STACK_MAX THEN Refuse(c)
    ELSE [c EXCEPT !.stack = Append(@, [array |-> FALSE, i |-> 0]),
                   !.b = IF c.stack = <<>> THEN @ ELSE bson_append_document_begin(@, c.key)]
PushArray(c) ==
    IF Len(c.stack) >= STACK_MAX \/ c.stack = <<>> THEN Refuse(c)
    ELSE [c EXCEPT !.stack = Append(@, [array |-> TRUE, i |-> 0]),
                   !.b = bson_append_array_begin(@, c.key)]
PopDoc(c) ==
    IF c.stack = <<>> \/ Last(c.stack).array THEN Refuse(c)
    ELSE [c EXCEPT !.stack = Front(@),
                   !.b = IF Len(c.stack) = 1 THEN @ ELSE bson_append_document_end(@)]
PopArray(c) ==
    IF ~Last(c.stack).array THEN Refuse(c)
    ELSE [c EXCEPT !.stack = Front(@), !.b = bson_append_array_end(@)]

-----------------------------------------------------------------------------
(* The callbacks of values; c has its key already. *)

_bson_json_read_null(c) ==
    IF Regular(c) THEN [c EXCEPT !.b = bson_append_null(@, c.key)] ELSE _bson_json_read_set_error(c)

_bson_json_read_boolean(c, val) ==
    IF c.read_state = "IN_BSON_TYPE" /\ c.bson_state = "UNDEFINED" THEN [c EXCEPT !.has1 = TRUE]
    ELSE IF Regular(c) THEN [c EXCEPT !.b = bson_append_bool(@, c.key, val)]
    ELSE _bson_json_read_set_error(c)

(* (int)val *)
AsInt(val) == LET m == val % (2 * (Int32Max + 1)) IN IF m <= Int32Max THEN m ELSE m - 2 * (Int32Max + 1)

InType(c) == c.read_state \in {"IN_BSON_TYPE", "IN_BSON_TYPE_TIMESTAMP_VALUES"}

(* Every number up to INT32_MAX is taken for one of 32 bits. *)
_bson_json_read_integer(c, val) ==
    IF Regular(c)
    THEN [c EXCEPT !.b = IF val <= Int32Max THEN bson_append_int32(@, c.key, AsInt(val))
                         ELSE bson_append_int64(@, c.key, val)]
    ELSE IF InType(c) /\ c.bson_state \in {"DATE", "TIMESTAMP_T", "MINKEY", "MAXKEY"}
    THEN [c EXCEPT !.has1 = TRUE, !.val1 = <<val>>]
    ELSE IF InType(c) /\ c.bson_state = "TIMESTAMP_I"
    THEN [c EXCEPT !.has2 = TRUE, !.val2 = <<val>>]
    ELSE _bson_json_read_set_error(c)

_bson_json_read_double(c, val) ==
    IF Regular(c) THEN [c EXCEPT !.b = bson_append_double(@, c.key, val)] ELSE _bson_json_read_set_error(c)

_bson_json_read_string(c, val) ==
    LET bs == c.bson_state
    IN  IF Regular(c) THEN [c EXCEPT !.b = bson_append_utf8(@, c.key, val)]
        ELSE IF ~InType(c) THEN _bson_json_read_set_error(c)
        ELSE CASE bs \in {"REGEX", "REF"} -> [c EXCEPT !.has1 = TRUE, !.buf0 = val]
               [] bs = "OPTIONS"          -> [c EXCEPT !.has2 = TRUE, !.buf1 = val]
               [] bs = "OID" /\ Len(val) = 24 ->
                    [c EXCEPT !.has1 = TRUE, !.val1 = bson_oid_init_from_string(val)]
               [] bs = "ID" /\ Len(val) = 24 ->
                    [c EXCEPT !.has2 = TRUE, !.val2 = bson_oid_init_from_string(val)]
               [] bs = "TYPE" ->
                    [c EXCEPT !.has2 = TRUE, !.val2 = <<16 * FromHexDigit(val[1]) + FromHexDigit(val[2])>>]
               [] bs = "BINARY"           -> [c EXCEPT !.has1 = TRUE, !.buf0 = b64_pton(val).bytes]
               [] OTHER                   -> _bson_json_read_set_error(c)

_bson_json_read_start_map(c) ==
    [c EXCEPT !.read_state = IF @ = "IN_BSON_TYPE_TIMESTAMP_STARTMAP"
                             THEN "IN_BSON_TYPE_TIMESTAMP_VALUES" ELSE "IN_START_MAP"]

_bson_json_read_start_array(c) == IF Regular(c) THEN PushArray(c) ELSE _bson_json_read_set_error(c)
_bson_json_read_end_array(c)   == IF Regular(c) THEN PopArray(c) ELSE _bson_json_read_set_error(c)

(* The keys of the types JSON does not have, with the type and with what   *)
(* their value is                                                          *)
SpecialKeys == {
    <<T("$regex"), BSON_TYPE_REGEX, "REGEX">>, <<T("$options"), BSON_TYPE_REGEX, "OPTIONS">>,
    <<T("$oid"), BSON_TYPE_OID, "OID">>,
    <<T("$binary"), BSON_TYPE_BINARY, "BINARY">>, <<T("$type"), BSON_TYPE_BINARY, "TYPE">>,
    <<T("$date"), BSON_TYPE_DATE_TIME, "DATE">>,
    <<T("$ref"), BSON_TYPE_DBPOINTER, "REF">>, <<T("$id"), BSON_TYPE_DBPOINTER, "ID">>,
    <<T("$undefined"), BSON_TYPE_UNDEFINED, "UNDEFINED">>,
    <<T("$minKey"), BSON_TYPE_MINKEY, "MINKEY">>, <<T("$maxKey"), BSON_TYPE_MAXKEY, "MAXKEY">>,
    <<T("$timestamp"), BSON_TYPE_TIMESTAMP, "TIMESTAMP">>}
KeyT == T("t")
KeyI == T("i")

(* The last character of a known key is not looked at, nor what follows. *)
_is_known_key(key) == \E k \in SpecialKeys : IsPrefix(Front(k[1]), key)

(* The first key of a map tells whether it stands for a value. *)
MapBegun(c, val) ==
    IF c.read_state # "IN_START_MAP" THEN c
    ELSE IF _is_known_key(val)
    THEN [c EXCEPT !.read_state = "IN_BSON_TYPE", !.bson_type = 0, !.has1 = FALSE, !.has2 = FALSE,
                   !.val1 = [i \in 1..12 |-> 0], !.val2 = [i \in 1..12 |-> 0]]
    ELSE PushDoc([c EXCEPT !.read_state = "REGULAR"])

(* The key of a part of such a value; options are the special keys it is. *)
TypeKey(c, options) ==
    IF options = {} THEN _bson_json_read_set_error(c)
    ELSE LET k == CHOOSE x \in options : TRUE
         IN  IF k[3] = "TIMESTAMP"
             THEN [c EXCEPT !.bson_type = k[2], !.read_state = "IN_BSON_TYPE_TIMESTAMP_STARTMAP"]
             ELSE [c EXCEPT !.bson_type = k[2], !.bson_state = k[3]]

MapKey(c, val) ==
    IF ~c.ok THEN c
    ELSE IF c.read_state = "IN_BSON_TYPE" THEN TypeKey(c, {k \in SpecialKeys : k[1] = val})
    ELSE IF c.read_state # "IN_BSON_TYPE_TIMESTAMP_VALUES" THEN [c EXCEPT !.key = val]
    ELSE IF val = KeyT THEN [c EXCEPT !.bson_state = "TIMESTAMP_T"]
    ELSE IF val = KeyI THEN [c EXCEPT !.bson_state = "TIMESTAMP_I"]
    ELSE _bson_json_read_set_error(c)

_bson_json_read_map_key(c, val) == MapKey(MapBegun(c, val), val)

(* A type that comes in two parts needs the first, or both. *)
Appended(c, parts, b) == IF parts THEN [c EXCEPT !.b = b, !.ok = b.ok] ELSE _bson_json_read_set_error(c)

_bson_json_read_append_binary(c) ==
    Appended(c, c.has1 /\ c.has2, bson_append_binary(c.b, c.key, c.val2[1], c.buf0))
_bson_json_read_append_regex(c) ==
    Appended(c, c.has1, bson_append_regex(c.b, c.key, c.buf0, IF c.has2 THEN c.buf1 ELSE <<>>))
_bson_json_read_append_oid(c) == Appended(c, TRUE, bson_append_oid(c.b, c.key, c.val1))
_bson_json_read_append_date_time(c) == Appended(c, TRUE, bson_append_date_time(c.b, c.key, c.val1[1]))
_bson_json_read_append_timestamp(c) ==
    Appended(c, c.has1 /\ c.has2, bson_append_timestamp(c.b, c.key, c.val1[1], c.val2[1]))
_bson_json_read_append_dbpointer(c) ==
    Appended(c, c.has1 /\ c.has2, bson_append_dbpointer(c.b, c.key, c.buf0, c.val2))

EndOfType(c) ==
    LET type == c.bson_type
    IN  CASE type = BSON_TYPE_REGEX     -> _bson_json_read_append_regex(c)
          [] type = BSON_TYPE_OID       -> _bson_json_read_append_oid(c)
          [] type = BSON_TYPE_BINARY    -> _bson_json_read_append_binary(c)
          [] type = BSON_TYPE_DATE_TIME -> _bson_json_read_append_date_time(c)
          [] type = BSON_TYPE_DBPOINTER -> _bson_json_read_append_dbpointer(c)
          [] type = BSON_TYPE_UNDEFINED -> Appended(c, TRUE, bson_append_undefined(c.b, c.key))
          [] type = BSON_TYPE_MINKEY    -> Appended(c, TRUE, bson_append_minkey(c.b, c.key))
          [] type = BSON_TYPE_MAXKEY    -> Appended(c, TRUE, bson_append_maxkey(c.b, c.key))
          [] OTHER                      -> _bson_json_read_set_error(c)

(* The end of the document itself stops the parser. *)
MapPopped(c) == IF c.ok /\ c.stack = <<>> THEN [Refuse(c) EXCEPT !.read_state = "DONE"] ELSE c

EndMap(c) ==
    CASE ~c.ok -> c
      [] c.ok /\ c.read_state = "IN_BSON_TYPE" -> EndOfType([c EXCEPT !.read_state = "REGULAR"])
      [] c.ok /\ c.read_state = "IN_BSON_TYPE_TIMESTAMP_VALUES" ->
            _bson_json_read_append_timestamp([c EXCEPT !.read_state = "IN_BSON_TYPE_TIMESTAMP_ENDMAP"])
      [] c.ok /\ c.read_state = "IN_BSON_TYPE_TIMESTAMP_ENDMAP" -> [c EXCEPT !.read_state = "REGULAR"]
      [] c.ok /\ Regular(c) -> MapPopped(PopDoc(c))
      [] OTHER -> _bson_json_read_set_error(c)

_bson_json_read_end_map(c) ==
    EndMap(IF c.read_state = "IN_START_MAP" THEN PushDoc([c EXCEPT !.read_state = "REGULAR"]) ELSE c)

-----------------------------------------------------------------------------
(* yajl_do_parse.  A document ends in a callback that refuses, so that the *)
(* states yajl_state_parse_complete and yajl_state_got_value never come.   *)

Move(states, c) == [states |-> states, c |-> c, wrong |-> FALSE]
Wrong(states, c) == [states |-> states, c |-> c, wrong |-> TRUE]

AfterValue(state) == CASE state = "start"        -> "parse_complete"
                       [] state = "map_need_val" -> "map_got_val"
                       [] OTHER                  -> "array_got_val"

(* The text of a token without its quotes *)
StringOf(tok, bytes) == LET inner == SubSeq(bytes, 2, Len(bytes) - 1)
                        IN  IF tok = "string" THEN inner ELSE yajl_string_decode(inner)
IsText(tok) == tok \in {"string", "string_with_escapes"}

(* What a value does; next are the states behind it, k is c with its key.  *)
OnInteger(states, c, next, k, num) ==
    IF num.ok THEN Move(next, _bson_json_read_integer(k, num.value)) ELSE Wrong(states, c)

OnValueThen(states, c, next, k, tok, bytes) ==
    CASE IsText(tok)       -> Move(next, _bson_json_read_string(k, StringOf(tok, bytes)))
      [] tok = "bool"      -> Move(next, _bson_json_read_boolean(k, IF bytes[1] = 116 THEN 1 ELSE 0))
      [] tok = "null"      -> Move(next, _bson_json_read_null(k))
      [] tok = "integer"   -> OnInteger(states, c, next, k, yajl_parse_integer(bytes))
      [] tok = "double"    -> Move(next, _bson_json_read_double(k, strtod(bytes)))
      [] tok = "left_bracket" -> Move(Append(next, "map_start"), _bson_json_read_start_map(k))
      [] tok = "left_brace"   -> Move(Append(next, "array_start"), _bson_json_read_start_array(k))
      [] OTHER             -> Wrong(states, c)

(* A token where a value may be, or the end of an array in place of one *)
OnValue(states, c, tok, bytes) ==
    IF tok = "right_brace" /\ Last(states) = "array_start"
    THEN Move(Front(states), _bson_json_read_end_array(c))
    ELSE OnValueThen(states, c, Append(Front(states), AfterValue(Last(states))),
                     _bson_json_read_fixup_key(c), tok, bytes)

(* A token in any other place *)
OnOther(states, c, tok, bytes) ==
    LET state == Last(states)
        set(x) == Append(Front(states), x)
    IN  CASE state \in {"map_start", "map_need_key"} /\ IsText(tok) ->
                Move(set("map_sep"), _bson_json_read_map_key(c, StringOf(tok, bytes)))
          [] state \in {"map_start", "map_got_val"} /\ tok = "right_bracket" ->
                Move(Front(states), _bson_json_read_end_map(c))
          [] state = "map_sep" /\ tok = "colon"     -> Move(set("map_need_val"), c)
          [] state = "map_got_val" /\ tok = "comma" -> Move(set("map_need_key"), c)
          [] state = "array_got_val" /\ tok = "right_brace" ->
                Move(Front(states), _bson_json_read_end_array(c))
          [] state = "array_got_val" /\ tok = "comma" -> Move(set("array_need_val"), c)
          [] OTHER -> Wrong(states, c)

OnToken(states, c, tok, bytes) ==
    IF Last(states) \in {"start", "map_need_val", "array_need_val", "array_start"}
    THEN OnValue(states, c, tok, bytes)
    ELSE OnOther(states, c, tok, bytes)

Parsed(status, states, c, to, kept) ==
    [status |-> status, states |-> states, c |-> c, to |-> to, kept |-> kept]

(* Faulty variant: what was read of a token at the end of a piece is lost. *)
KeepsNothing(s, lex) == <<>>

(* The lexer keeps a token that is cut. *)
Kept(s, lex) == SubSeq(s, lex.from, Len(s))

(* yajl_config of two options at once sets neither: a reader of a file,    *)
(* which may hold several documents, leaves the check of UTF-8 on.         *)
validateUTF8 == rd.kind = "fd"

RECURSIVE yajl_do_parse(_, _, _, _)

AfterMove(move, s, to) ==
    IF move.wrong THEN Parsed("error", move.states, move.c, to, <<>>)
    ELSE IF ~move.c.ok THEN Parsed("client_canceled", move.states, move.c, to, <<>>)
    ELSE yajl_do_parse(move.states, move.c, s, to)

AfterToken(states, c, s, lex) ==
    CASE lex.tok = "eof"   -> Parsed("ok", states, c, Len(s), Kept(s, lex))
      [] lex.tok = "error" -> Parsed("error", states, c, lex.to, <<>>)
      [] OTHER -> AfterMove(OnToken(states, c, lex.tok, SubSeq(s, lex.from, lex.to)), s, lex.to)

yajl_do_parse(states, c, s, at) == AfterToken(states, c, s, yajl_lex_lex(s, at, validateUTF8))

-----------------------------------------------------------------------------
(* The program and bson_json_reader_read *)

NewReader(kind) ==
        [kind |-> kind, in |-> FALSE, piece |-> <<>>, parsed |-> 0, something |-> FALSE, all_whitespace |-> TRUE,
         states |-> <<"start">>, kept |-> <<>>]

Init ==
    /\ docs = <<>> /\ text = <<>> /\ pos = 0
    /\ \E kind \in Kinds : rd = NewReader(kind)
    /\ bson = NewReaderBson /\ got = <<>> /\ end = "none"

Newline == <<10>>

Write(d) ==
    /\ pos = 0 /\ ~rd.in /\ end = "none" /\ Len(docs) < MaxTexts
    /\ docs' = Append(docs, [doc |-> d, json |-> TRUE])
    /\ text' = text \o bson_as_json(d) \o Newline
    /\ UNCHANGED <<pos, rd, bson, got, end>>

Take(t) ==
    /\ pos = 0 /\ ~rd.in /\ end = "none" /\ Len(docs) < MaxTexts
    /\ docs' = Append(docs, [doc |-> t, json |-> FALSE])
    /\ text' = text \o t
    /\ UNCHANGED <<pos, rd, bson, got, end>>

(* What a call of bson_json_reader_read sets first *)
StartRead ==
    /\ ~rd.in /\ end = "none" /\ docs # <<>>
    /\ rd' = [rd EXCEPT !.in = TRUE, !.something = FALSE, !.all_whitespace = TRUE]
    /\ bson' = [bson EXCEPT !.b = bson_init, !.stack = <<>>, !.read_state = "REGULAR",
                            !.ok = TRUE, !.error = FALSE]
    /\ UNCHANGED <<docs, text, pos, got, end>>

_bson_json_all_whitespace(s) == \A i \in 1..Len(s) : IsSpace(s[i])

Left == SubSeq(rd.piece, rd.parsed + 1, Len(rd.piece))
HasLeft == ~rd.something /\ rd.parsed > 0 /\ Left # <<>>

(* _bson_json_read_parse_error, and what the call returns: the document,   *)
(* nothing if there was only white space, or an error.                     *)
_bson_json_read_parse_error(p, whitespace) ==
    /\ bson' = [p.c EXCEPT !.error = @ \/ (p.status = "error" /\ ~whitespace)]
    /\ IF p.status = "client_canceled" /\ p.c.read_state = "DONE"
       THEN got' = Append(got, bson_get_data(p.c.b)) /\ end' = "none"
       ELSE got' = got /\ end' = IF p.status = "error" /\ whitespace THEN "eof" ELSE "error"

(* yajl_parse of one piece, whose first byte is behind parsed others *)
PieceParsed(piece, parsed, p, whitespace) ==
    IF p.status = "ok"
    THEN /\ rd' = [rd EXCEPT !.piece = piece, !.parsed = parsed, !.something = TRUE,
                             !.all_whitespace = whitespace, !.states = p.states, !.kept = p.kept]
         /\ bson' = p.c /\ UNCHANGED <<got, end>>
    ELSE /\ rd' = [rd EXCEPT !.in = FALSE, !.piece = piece, !.parsed = parsed + p.to - Len(rd.kept),
                             !.something = FALSE, !.all_whitespace = TRUE,
                             !.states = <<"start">>, !.kept = <<>>]
         /\ _bson_json_read_parse_error(p, whitespace)
Parse(piece, parsed, s) ==
    PieceParsed(piece, parsed, yajl_do_parse(rd.states, bson, rd.kept \o s, 0),
                rd.all_whitespace /\ _bson_json_all_whitespace(s))

ReadLeft ==
    /\ rd.in /\ HasLeft
    /\ Parse(rd.piece, rd.parsed, Left)
    /\ UNCHANGED <<docs, text, pos>>

(* _bson_json_data_reader_cb or _bson_json_reader_handle_fd_read *)
ReadPiece(n) ==
    LET piece == SubSeq(text, pos + 1, Min({pos + n, Len(text)}))
    IN  /\ rd.in /\ ~HasLeft /\ pos < Len(text)
        /\ pos' = pos + Len(piece)
        /\ Parse(piece, 0, piece)
        /\ UNCHANGED <<docs, text>>

(* yajl_complete_parse: one more space, and there must be no value begun *)
Completed(p) == [p EXCEPT !.status = IF @ = "ok" THEN "error" ELSE @]
AtEnd ==
    /\ rd.in /\ ~HasLeft /\ pos = Len(text)
    /\ rd' = NewReader(rd.kind)
    /\ IF rd.something
       THEN _bson_json_read_parse_error(Completed(yajl_do_parse(rd.states, bson, rd.kept \o <<32>>, 0)),
                                        rd.all_whitespace)
       ELSE end' = "eof" /\ UNCHANGED <<bson, got>>
    /\ UNCHANGED <<docs, text, pos>>

(* A read of a file fails. *)
ReadFails ==
    /\ rd.kind = "fd" /\ rd.in /\ ~HasLeft
    /\ rd' = [rd EXCEPT !.in = FALSE] /\ end' = "failed" /\ bson' = [bson EXCEPT !.error = TRUE]
    /\ UNCHANGED <<docs, text, pos, got>>

Next ==
    \/ \E d \in IF docs = <<>> THEN Docs ELSE MoreDocs : Write(d)
    \/ docs = <<>> /\ \E t \in Texts : Take(t)
    \/ StartRead \/ ReadLeft \/ AtEnd \/ ReadFails
    \/ \E n \in IF rd.kind = "fd" THEN Chunks ELSE {DataSize} : ReadPiece(n)

Spec == Init /\ [][Next]_vars

-----------------------------------------------------------------------------
(* Properties *)

(* A document as it is read back: what is not in JSON as it was has become *)
(* something else, code and symbols strings, short numbers 32 bits long.   *)
RECURSIVE AddAsRead(_, _)
AddAsRead(b, raw) ==
    FoldLeft(LAMBDA to, it :
                 LET key == bson_iter_key(it)
                     sub == bson_iter_recurse(it).raw
                     int == bson_iter_int64(it)
                 IN  CASE ITER_TYPE(it) = BSON_TYPE_DOCUMENT ->
                            bson_append_document_end(AddAsRead(bson_append_document_begin(to, key), sub))
                       [] ITER_TYPE(it) = BSON_TYPE_ARRAY ->
                            bson_append_array_end(AddAsRead(bson_append_array_begin(to, key), sub))
                       [] ITER_TYPE(it) = BSON_TYPE_CODE   -> bson_append_utf8(to, key, bson_iter_code(it))
                       [] ITER_TYPE(it) = BSON_TYPE_SYMBOL -> bson_append_utf8(to, key, bson_iter_symbol(it))
                       [] ITER_TYPE(it) = BSON_TYPE_CODEWSCOPE ->
                            bson_append_utf8(to, key, bson_iter_codewscope(it).code)
                       [] ITER_TYPE(it) = BSON_TYPE_INT64 /\ int <= Int32Max -> bson_append_int32(to, key, int)
                       [] ITER_TYPE(it) = BSON_TYPE_NULL -> bson_append_null(to, key)
                       [] OTHER -> bson_append_iter(to, key, it),
             b, Fields(raw))
AsRead(raw) == bson_get_data(AddAsRead(bson_init, raw))

(* The documents for which that is so.  Not so: text with a control        *)
(* character that is escaped by its number, if the number has two digits;  *)
(* a quote, a backslash or a control character in a regex, in code, in a   *)
(* symbol or in the name of a collection; a number below the least of 32   *)
(* bits; the date 0; in an array, a value of a type that JSON does not     *)
(* have; a child whose first key begins like one that stands for a type;   *)
(* and the last level bson_as_json still writes.                           *)
PlainText(s) == \A i \in 1..Len(s) : s[i] \notin {11} \cup 14..31
RawText(s) == \A i \in 1..Len(s) : s[i] \notin IJC
NotInJson == {BSON_TYPE_BINARY, BSON_TYPE_UNDEFINED, BSON_TYPE_OID, BSON_TYPE_DATE_TIME,
              BSON_TYPE_REGEX, BSON_TYPE_DBPOINTER, BSON_TYPE_TIMESTAMP, BSON_TYPE_MAXKEY, BSON_TYPE_MINKEY}

PlainValue(it, type) ==
    /\ PlainText(bson_iter_key(it))
    /\ type = BSON_TYPE_UTF8 => PlainText(bson_iter_utf8(it))
    /\ type = BSON_TYPE_REGEX => RawText(bson_iter_regex(it).regex) /\ RawText(bson_iter_regex(it).options)
    /\ type = BSON_TYPE_CODE => RawText(bson_iter_code(it))
    /\ type = BSON_TYPE_SYMBOL => RawText(bson_iter_symbol(it))
    /\ type = BSON_TYPE_CODEWSCOPE => RawText(bson_iter_codewscope(it).code)
    /\ type = BSON_TYPE_DBPOINTER => RawText(bson_iter_dbpointer(it).collection)
    /\ type = BSON_TYPE_INT64 => bson_iter_int64(it) \in (-Int32Max - 1)..Int64Max
    /\ type = BSON_TYPE_DATE_TIME => bson_iter_date_time(it) # 0

(* The fields of a document, or of an array; depth is how deep it is. *)
RECURSIVE Plain(_, _, _)
Plain(fields, array, depth) ==
    /\ depth < STACK_MAX
    /\ Len(VisitedOf(fields)) = Len(fields)
    /\ \A i \in 1..Len(fields) : \E type \in {ITER_TYPE(fields[i])} :
          /\ PlainValue(fields[i], type)
          /\ array => type \notin NotInJson
          /\ type \in {BSON_TYPE_DOCUMENT, BSON_TYPE_ARRAY} =>
                \E sub \in {Fields(bson_iter_recurse(fields[i]).raw)} :
                   /\ Plain(sub, type = BSON_TYPE_ARRAY, depth + 1)
                   /\ type = BSON_TYPE_DOCUMENT /\ sub # <<>> => ~_is_known_key(bson_iter_key(sub[1]))

(* The documents written in front of the first that is not plain *)
PlainDocs ==
    LET n == SelectInSeq(docs, LAMBDA d : ~d.json \/ ~Plain(Fields(d.doc), FALSE, 0))
    IN  IF n = 0 THEN docs ELSE SubSeq(docs, 1, n - 1)

(* What is written as JSON and read again is the document that was         *)
(* written, whatever its types and however deep it is, with the exceptions *)
(* above; documents that follow each other are read one by one.  The       *)
(* string it is written into has room for the NUL behind it.               *)
JsonReadsBack ==
    end # "none" \/ ~rd.in => \E plain \in {PlainDocs} :
        /\ \A i \in 1..Len(docs) : docs[i].json =>
              \E string \in {JsonString(docs[i].doc)} : string.alloc > Len(string.str)
        /\ \A i \in 1..Len(plain) : i <= Len(got) => got[i] = AsRead(plain[i].doc)
        /\ end \in {"eof", "error"} => Len(got) >= Len(plain)

(* The text read in one piece, up to the first error *)
RECURSIVE WholeFrom(_, _, _)
WholeAfter(p, at, docsRead) ==
    IF p.status = "client_canceled" /\ p.c.read_state = "DONE"
    THEN WholeFrom(p.c, p.to, Append(docsRead, bson_get_data(p.c.b)))
    ELSE [got |-> docsRead,
          end |-> IF _bson_json_all_whitespace(SubSeq(text, at + 1, Len(text))) THEN "eof" ELSE "error"]
WholeFrom(c, at, docsRead) ==
    WholeAfter(yajl_do_parse(<<"start">>, [c EXCEPT !.b = bson_init, !.stack = <<>>, !.read_state = "REGULAR",
                                                    !.ok = TRUE, !.error = FALSE], text, at),
               at, docsRead)

(* Where the pieces of the text end does not matter: a token, an escape or *)
(* a character that is cut is put together again, and every call returns   *)
(* what it would of the whole text, for text that is not JSON too.         *)
CutsDontMatter ==
    end # "none" => \E whole \in {WholeFrom(NewReaderBson, 0, <<>>)} :
        IF end = "failed" THEN IsPrefix(got, whole.got)
        ELSE got = whole.got /\ end = whole.end
=============================================================================
