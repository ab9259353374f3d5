---------------------------- MODULE MCBsonStream ----------------------------
(* Values of the constants of BsonStream that a .cfg cannot spell. *)
EXTENDS BsonStream

(* Two keys, one the beginning of the other *)
SomeKeys == {T("a"), T("ab")}

Oid12 == [i \in 1..12 |-> i]
Scope == <<12, 0, 0, 0, 16, 120, 0, 1, 0, 0, 0, 0>>   \* {x: 1}

(* One field of every type, two where the code tells them apart *)
SomeFields == {
    [key |-> T("a"), v |-> Value(BSON_TYPE_DOUBLE, <<5>>, <<>>)],
    [key |-> T("ab"), v |-> Value(BSON_TYPE_UTF8, <<104, 0, 105>>, <<>>)],
    [key |-> T("a"), v |-> Value(BSON_TYPE_BINARY, <<7, 0>>, <<BSON_SUBTYPE_BINARY>>)],
    [key |-> T("ab"), v |-> Value(BSON_TYPE_BINARY, <<7>>, <<BSON_SUBTYPE_BINARY_DEPRECATED>>)],
    [key |-> T("a"), v |-> Value(BSON_TYPE_UNDEFINED, <<>>, <<>>)],
    [key |-> T("ab"), v |-> Value(BSON_TYPE_OID, Oid12, <<>>)],
    [key |-> T("a"), v |-> Value(BSON_TYPE_BOOL, <<1>>, <<>>)],
    [key |-> T("ab"), v |-> Value(BSON_TYPE_DATE_TIME, <<0>>, <<>>)],
    [key |-> T("a"), v |-> Value(BSON_TYPE_DATE_TIME, <<3>>, <<>>)],
    [key |-> T("ab"), v |-> Value(BSON_TYPE_NULL, <<>>, <<>>)],
    [key |-> T("a"), v |-> Value(BSON_TYPE_REGEX, T("x"), T("i"))],
    [key |-> T("ab"), v |-> Value(BSON_TYPE_DBPOINTER, T("c"), Oid12)],
    [key |-> T("a"), v |-> Value(BSON_TYPE_CODE, T("f"), <<>>)],
    [key |-> T("ab"), v |-> Value(BSON_TYPE_SYMBOL, T("s"), <<>>)],
    [key |-> T("a"), v |-> Value(BSON_TYPE_CODEWSCOPE, T("g"), Scope)],
    [key |-> T("ab"), v |-> Value(BSON_TYPE_CODEWSCOPE, T("g"), EmptyDocument)],
    [key |-> T("a"), v |-> Value(BSON_TYPE_INT32, <<-2>>, <<>>)],
    [key |-> T("ab"), v |-> Value(BSON_TYPE_TIMESTAMP, <<4, 1>>, <<>>)],
    [key |-> T("a"), v |-> Value(BSON_TYPE_INT64, <<300>>, <<>>)],
    [key |-> T("ab"), v |-> Value(BSON_TYPE_MAXKEY, <<>>, <<>>)],
    [key |-> T("a"), v |-> Value(BSON_TYPE_MINKEY, <<>>, <<>>)]}

(* A short one, a long one, text and a number *)
FewFields == {f \in SomeFields :
    \/ f.v.type \in {BSON_TYPE_NULL, BSON_TYPE_UTF8, BSON_TYPE_INT32}
    \/ f.v.type = BSON_TYPE_CODEWSCOPE /\ f.v.b = Scope}

(* {"x": null, "y": {"x": 1}}, whose null BCON turns into undefined in an array *)
Inner == <<23, 0, 0, 0, 10, 120, 0, 3, 121, 0>> \o Scope \o <<0>>

SomeArguments ==
    {Bare(s) : s \in {T("a"), T("b"), T("{"), T("}"), T("["), T("]")}} \cup
    {Typed(Value(BSON_TYPE_INT32, <<7>>, <<>>)), Typed(Value(BSON_TYPE_BINARY, <<1>>, <<BSON_SUBTYPE_BINARY>>)),
     Typed(Value(BCON_TYPE_BCON, Inner, <<>>))}
=============================================================================
