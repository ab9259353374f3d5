---------------------------- MODULE MCPerlBson ----------------------------
(* Values of the constants of PerlBson that a .cfg cannot spell. *)
EXTENDS PerlBson

At_(key, cls, s, t) == [key |-> key, v |-> SV(cls, s, t, 0)]
a == T("a")

(* The defaults, and options that change how data are read or written *)
SomeSettings == {
    [char |-> 36, numbers |-> FALSE, utf8 |-> TRUE, binary |-> FALSE,
     dt |-> "DateTime", dbrefs |-> TRUE, regexps |-> TRUE],
    [char |-> 58, numbers |-> TRUE, utf8 |-> FALSE, binary |-> TRUE,
     dt |-> "Tiny", dbrefs |-> FALSE, regexps |-> FALSE],
    [char |-> 36, numbers |-> TRUE, utf8 |-> TRUE, binary |-> TRUE,
     dt |-> "raw", dbrefs |-> TRUE, regexps |-> FALSE]}

(* Values of every class, and keys of every kind *)
SomeStores == {
    At_(a, "undef", <<>>, <<>>),
    At_(a, "str", T("x"), <<>>),
    At_(a, "str", <<104, 0, 233>>, <<>>),
    At_(a, "str", <<0, 300>>, <<>>),
    At_(a, "str", <<233, 8364>>, <<>>),
    At_(a, "str", T("42"), <<>>),
    At_(a, "str", T("7.0"), <<>>),
    At_(a, "int", <<-3>>, <<>>),
    At_(a, "num", <<5>>, <<>>),
    At_(_id, "OID", T("0123456789abcdefABCDEF01"), <<>>),
    At_(a, "BigInt", <<42>>, <<-1, 0>>),
    At_(a, "BigInt", <<5, 31>>, <<1, 2, 2>>),
    At_(a, "BigInt", <<45, 3>>, <<-1, 0, 0>>),
    At_(a, "BigInt", <<5, 31>>, <<1, 0, 0>>),
    At_(a, "BigInt", <<0, 3>>, <<1, 0, 0>>),
    At_(a, "BigInt", <<5, 31, 2>>, <<1, 2, 2, 2>>),
    At_(a, "BigInt", <<1, 1, 1, 1, 1>>, <<1, 2, 2, 2, 2, 2>>),
    At_(a, "DateTime", <<7, 250>>, <<>>),
    At_(a, "DateTime", <<0, 0>>, <<>>),
    At_(a, "Tiny", <<1970, 1, 3, 4, 5, 6>>, <<>>),
    At_(a, "boolean", <<0>>, <<>>),
    At_(a, "Code", T("f"), <<>>),
    At_(a, "Timestamp", <<9, 1>>, <<>>),
    At_(a, "MinKey", <<>>, <<>>),
    At_(a, "MaxKey", <<>>, <<>>),
    At_(a, "String", T("12"), <<>>),
    At_(a, "Binary", <<1, 0, 255>>, <<2>>),
    At_(a, "Binary", <<1>>, <<5>>),
    At_(a, "scalarref", <<0>>, <<>>),
    At_(a, "qr", T("^x"), T("iu")),
    At_(a, "Regexp", T("y$"), T("m")),
    At_(a, "DBRef", T("c"), T("k")),
    At_(a, "GLOB", <<>>, <<>>),
    At_(_id, "int", <<1>>, <<>>),
    At_(<<>>, "int", <<1>>, <<>>),
    At_(T("b.c"), "int", <<1>>, <<>>),
    At_(<<98, 0, 99>>, "int", <<1>>, <<>>),
    At_(T(":gt"), "int", <<1>>, <<>>),
    At_(<<233>>, "int", <<1>>, <<>>)}

FewStores == {At_(_id, "int", <<2>>, <<>>), At_(T("z"), "DateTime", <<0, 0>>, <<>>),
              At_(T("b"), "str", <<1, 0>>, <<>>)}
=============================================================================
