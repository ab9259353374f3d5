---------------------------- MODULE MCJsonReader ----------------------------
(* Values of the constants of JsonReader that a .cfg cannot spell. *)
EXTENDS JsonReader

Oid12 == [i \in 1..12 |-> 16 * i + 3]
Scope == <<12, 0, 0, 0, 16, 120, 0, 1, 0, 0, 0, 0>>   \* {x: 1}
KeyA  == T("a")
Key0  == T("0")
Code  == T("f()")
Slash == T("a\\d")

(* b with one more field, of every type, and of several values where the   *)
(* code tells them apart                                                   *)
OneMore(b, key) == {
    bson_append_double(b, key, -5),
    bson_append_utf8(b, key, <<34, 92, 47, 10, 65, 1, 0, 195, 169>>),
    bson_append_utf8(b, key, <<240, 159, 152, 128>>),
    bson_append_utf8(b, key, <<16>>),
    bson_append_binary(b, key, BSON_SUBTYPE_BINARY, <<7, 0>>),
    bson_append_binary(b, key, 128, <<1, 2, 3, 250>>),
    bson_append_undefined(b, key),
    bson_append_oid(b, key, Oid12),
    bson_append_bool(b, key, 0),
    bson_append_date_time(b, key, 40000),
    bson_append_null(b, key),
    bson_append_regex(b, key, T("x"), T("i")),
    bson_append_regex(b, key, Slash, <<>>),
    bson_append_dbpointer(b, key, T("c"), Oid12),
    bson_append_code(b, key, Code),
    bson_append_symbol(b, key, T("s")),
    bson_append_code_with_scope(b, key, Code, Scope),
    bson_append_int32(b, key, -2),
    bson_append_timestamp(b, key, 4, 1),
    bson_append_int64(b, key, 32768),
    bson_append_int64(b, key, -32768),
    bson_append_int64(b, key, -32769),
    bson_append_maxkey(b, key),
    bson_append_minkey(b, key)}

InDoc(b)   == {bson_append_document_end(x) : x \in OneMore(bson_append_document_begin(b, KeyA), Slash)}
InArray(b) == {bson_append_array_end(bson_append_bool(x, T("1"), 1)) :
                   x \in OneMore(bson_append_array_begin(b, KeyA), Key0)}
RECURSIVE Nested(_, _)
Nested(b, n) == IF n = 0 THEN b
                ELSE bson_append_document_end(Nested(bson_append_document_begin(b, KeyA), n - 1))

SomeDocs == {bson_get_data(x) : x \in
    OneMore(bson_init, KeyA) \cup InDoc(bson_init) \cup InArray(bson_init)
    \cup {Nested(bson_init, n) : n \in 0..4}}
FewDocs == {bson_get_data(bson_append_oid(bson_append_null(bson_init, Slash), KeyA, Oid12))}

(* JSON that bson_as_json does not write, and text that is not JSON *)
SomeTexts == {
    T("[ 1 ] "),
    T("{ \"a\" : [ 1, ] }"),
    T("{ \"a\" 1 }"),
    T("{ \"a\" : 1 "),
    T("{ \"a\" : tru }"),
    T("{\"a\":1e2,\"b\":[[],-0.0]}"),
    T("{ \"a\" : -x }"),
    T("{ \"a\" : \"\\x\" }"),
    T("{ \"a\" : \"\\u00eg\" }"),
    T("{\"a\":\"\\u00e9\\ud83d\\ude00\\ud800xy\"}"),
    T("{ \"a\" : 99999999 }"),
    T("{ \"a\" : { \"$oid\" : \"12\" } }"),
    T("{ \"a\" : { \"$type\" : \"00\" } }"),
    T("{ \"a\" : { \"$date\" : 0 } }"),
    T("{ \"a\" : { \"$timestamp\" : { \"t\" : 1 } } }"),
    T("{ \"a\" : { \"$in\" : [ ] } }"),
    T("{ // }"),
    T("{ \"a\" : \"") \o <<200, 34>> \o T(" }"),
    <<32, 10>>}
=============================================================================
