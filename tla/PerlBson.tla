------------------------------ MODULE PerlBson ------------------------------
(***************************************************************************)
(* How the driver turns Perl data into BSON and back (perl_mongo.c), and   *)
(* writes the messages that carry it (Mongo.xs).  A program builds a       *)
(* structure of hashes, ordered hashes and arrays that may share parts or  *)
(* contain themselves, the driver writes it into a message, and the        *)
(* documents of the message are read back.                                 *)
(***************************************************************************)
EXTENDS BsonVisit, Oid, FiniteSets

CONSTANTS
    Nodes,           \* the program's containers, from 1 up; 1 is the document
    TopKinds,        \* what that is: of "hash", "ixhash", "list"
    Kinds,           \* what the others are: of "hash", "ixhash", "array"
    Stores,          \* what the program stores: [key, v] records
    MoreStores,      \* what it stores after the first
    MaxStores,       \* bound: stores per behaviour
    Settings,        \* the options of MongoDB::BSON and of the client
    MaxNesting,      \* how deep the C stack lets the recursion go
    InitialBufSize,  \* INITIAL_BUF_SIZE
    GrowSlowly       \* GROW_SLOWLY

ASSUME PerlBsonAssumption ==
    /\ TopKinds \subseteq {"hash", "ixhash", "list"}
    /\ 1 \in Nodes /\ IsFiniteSet(Nodes) /\ Kinds \subseteq {"hash", "ixhash", "array"}
    /\ MaxStores \in Nat /\ MaxNesting \in Nat
    /\ InitialBufSize \in Nat \ {0} /\ GrowSlowly \in Nat

VARIABLES
    heap,    \* node -> [kind, keys, vals]
    set,     \* the settings, fixed
    stores,  \* how many stores there were
    msg,     \* the message, with what was croaked instead
    got      \* the documents read back

vars == <<heap, set, stores, msg, got>>

(* A Perl value: its class, up to two sequences of numbers, and the node a *)
(* reference points to.  Text is a sequence of characters.                 *)
SV(cls, s, t, at) == [cls |-> cls, s |-> s, t |-> t, at |-> at]
Undef  == SV("undef", <<>>, <<>>, 0)
Str(s) == SV("str", s, <<>>, 0)

_id == T("_id")

(* SvPVutf8, and the characters of UTF-8 *)
Utf8(s) == FlattenSeq([i \in 1..Len(s) |-> bson_utf8_from_unichar(s[i])])
RECURSIVE Characters(_)
Characters(s) == IF s = <<>> THEN <<>>
                 ELSE <<bson_utf8_get_char(s)>> \o Characters(bson_utf8_next_char(s))

-----------------------------------------------------------------------------
(* Encoding.  The state e of it: the builder, what was croaked, the ids    *)
(* collected for the caller.                                               *)

Encoding(b, ids) == [b |-> b, err |-> "none", ids |-> ids]
Croak(e, why)    == [e EXCEPT !.err = why]

(* The stack of containers around a value.  deep counts the C frames.      *)
EMPTY_STACK(deep) == [ptrs |-> {}, deep |-> deep]
check_circular_ref(ptr, stack) == ptr \notin stack.ptrs
Push(ptr, stack) == [ptrs |-> stack.ptrs \cup {ptr}, deep |-> stack.deep + 1]

(* A new object id stands for what the generator returns: unlike any other *)
NewOid(e) == [i \in 1..12 |-> IF i = 12 THEN Len(e.ids) + 1 ELSE 200]

perl_mongo_prep(e) ==
    LET oid == NewOid(e)
    IN  [e EXCEPT !.b = bson_append_oid(@, _id, oid),
                  !.ids = Append(@, SV("OID", bson_oid_to_string(oid), <<>>, 0))]

containsNullChar(key) == \E i \in 1..Len(key) : key[i] = 0

(* The key, or why it is refused; str ends at its first NUL.               *)
CleanKey(key, is_insert) ==
    CASE key = <<>> -> [err |-> "empty", key |-> key]
      [] is_insert /\ \E i \in 1..Len(key) : key[i] = 46 -> [err |-> "dot", key |-> key]
      [] key # <<>> /\ ~(is_insert /\ \E i \in 1..Len(key) : key[i] = 46) ->
            [err |-> "none",
             key |-> IF set.char = key[1] THEN [key EXCEPT ![1] = 36] ELSE key]
clean_key(str, is_insert) == CleanKey(UpToNul(str), is_insert)

serialize_binary(b, key, subtype, s) == bson_append_binary(b, key, subtype, s)
serialize_regex_obj(b, key, pattern, flags) == bson_append_regex(b, key, pattern, flags)

(* Of at most seven flags, the ones that MongoDB knows *)
perl_mongo_regex_flags(flags) == SubSeq(flags, 1, IF Len(flags) < 7 THEN Len(flags) ELSE 7)
serialize_regex_flags(flags) ==
    SelectSeq(perl_mongo_regex_flags(flags), LAMBDA f : f \in {105, 109, 120, 115})
serialize_regex(b, key, pattern, flags) ==
    bson_append_regex(b, key, pattern, serialize_regex_flags(flags))

(* Whether a text looks like a number, with or without decimals *)
Digit(c) == c \in 48..57
DigitsOf(s) == LET n == SelectInSeq(s, LAMBDA c : ~Digit(c)) IN IF n = 0 THEN s ELSE SubSeq(s, 1, n - 1)
looks_like_int(s)    == s # <<>> /\ DigitsOf(s) = s
looks_like_double(s) == /\ DigitsOf(s) # <<>> /\ DigitsOf(s) # s
                        /\ \A i \in (Len(DigitsOf(s)) + 1)..Len(s) :
                              IF i = Len(DigitsOf(s)) + 1 THEN s[i] = 46 ELSE s[i] = 48
Number(s) == FoldLeft(LAMBDA n, c : 10 * n + c - 48, 0, DigitsOf(s))


(* A plain scalar.  Text with a NUL in it is stored as binary data, which  *)
(* it can only be without wide characters.                                 *)
append_scalar(e, key, v) ==
    LET aggressively == set.numbers /\ v.cls = "str"
        wide == \E i \in 1..Len(v.s) : v.s[i] > 255
    IN  IF v.cls = "num" \/ (aggressively /\ looks_like_double(v.s))
        THEN [e EXCEPT !.b = bson_append_double(@, key, IF v.cls = "num" THEN v.s[1] ELSE Number(v.s))]
        ELSE IF v.cls = "int" \/ (aggressively /\ looks_like_int(v.s))
        THEN [e EXCEPT !.b = bson_append_int64(@, key, IF v.cls = "int" THEN v.s[1] ELSE Number(v.s))]
        ELSE IF containsNullChar(v.s)
        THEN IF wide THEN Croak(e, "wide")
             ELSE [e EXCEPT !.b = serialize_binary(@, key, BSON_SUBTYPE_BINARY, v.s)]
        ELSE [e EXCEPT !.b = bson_append_utf8(@, key, Utf8(v.s))]

(* A Math::BigInt: its sign, its limbs, lowest first, and the digits each  *)
(* has as a text, 0 for a limb that is a number and counted in digits      *)
(* without its leading zeros.  The digits of all limbs so far move the     *)
(* next one up once more.                                                  *)
Width(v, i) == IF v.t[i + 1] # 0 THEN v.t[i + 1]
               ELSE IF v.s[i] = 0 THEN 0 ELSE Len(Decimal(v.s[i]))
RECURSIVE Limbs(_, _, _)
Limbs(v, i, length) ==
    IF i = Len(v.s) THEN v.s[i]
    ELSE v.s[i] + (10 ^ (length + Width(v, i))) * Limbs(v, i + 1, length + Width(v, i))
append_bigint(e, key, v) ==
    IF Len(v.s) > 4 THEN Croak(e, "large")
    ELSE [e EXCEPT !.b = bson_append_int64(@, key, v.t[1] * Limbs(v, 1, 0))]

is_leap_year(y) == (y + 1900) % 4 = 0 /\ ((y + 1900) % 100 # 0 \/ (y + 1900) % 400 = 0)
month_start(y) == [m \in 0..11 |->
    <<0, 31, 59, 90, 120, 151, 181, 212, 243, 273, 304, 334>>[m + 1]
    + IF is_leap_year(y) /\ m > 1 THEN 1 ELSE 0]
(* year from 1900, month from 0, day, hour, minute, second *)
timegm(tm) ==
    LET days == FoldLeft(LAMBDA n, i : n + IF is_leap_year(69 + i) THEN 366 ELSE 365, 0,
                         [i \in 1..(tm[1] - 70) |-> i])
                + month_start(tm[1])[tm[2]] + tm[3] - 1
    IN  ((days * 24 + tm[4]) * 60 + tm[5]) * 60 + tm[6]

(* Objects that hold no container *)
append_object(e, key, v) ==
    CASE v.cls = "OID"       -> [e EXCEPT !.b = bson_append_oid(@, key, bson_oid_init_from_string(v.s))]
      [] v.cls = "BigInt"    -> append_bigint(e, key, v)
      [] v.cls = "DateTime"  -> [e EXCEPT !.b = bson_append_date_time(@, key, v.s[1] * 1000 + v.s[2])]
      [] v.cls = "Tiny"      -> [e EXCEPT !.b = bson_append_date_time(@, key,
                                    timegm(<<v.s[1] - 1900, v.s[2] - 1, v.s[3], v.s[4], v.s[5], v.s[6]>>) * 1000)]
      [] v.cls = "boolean"   -> [e EXCEPT !.b = bson_append_bool(@, key, v.s[1])]
      [] v.cls = "Timestamp" -> [e EXCEPT !.b = bson_append_timestamp(@, key, v.s[1], v.s[2])]
      [] v.cls = "MinKey"    -> [e EXCEPT !.b = bson_append_minkey(@, key)]
      [] v.cls = "MaxKey"    -> [e EXCEPT !.b = bson_append_maxkey(@, key)]
      [] v.cls = "String"    -> [e EXCEPT !.b = bson_append_utf8(@, key, v.s)]
      [] v.cls = "Binary"    -> [e EXCEPT !.b = serialize_binary(@, key, v.t[1], v.s)]
      [] v.cls = "qr"        -> [e EXCEPT !.b = serialize_regex(@, key, v.s, v.t)]
      [] v.cls = "scalarref" -> [e EXCEPT !.b = serialize_binary(@, key, BSON_SUBTYPE_BINARY, v.s)]
      [] v.cls = "Regexp"    -> [e EXCEPT !.b = serialize_regex_obj(@, key, v.s, v.t)]
      [] OTHER               -> Croak(e, "unhandled")

(* The fields of a MongoDB::DBRef, in order *)
_ordered(v) == <<[key |-> T("$ref"), v |-> Str(v.s)],
                 [key |-> T("$id"),  v |-> Str(v.t)],
                 [key |-> T("$db"),  v |-> Str(T("d"))]>>

Pairs(at) == [i \in 1..Len(heap[at].keys) |-> [key |-> heap[at].keys[i], v |-> heap[at].vals[i]]]
(* A list of keys and values is an array to whoever refers to it. *)
Elements(at) == IF heap[at].kind # "list" THEN heap[at].vals
                ELSE FlattenSeq([i \in 1..Len(heap[at].keys) |-> <<Str(heap[at].keys[i]), heap[at].vals[i]>>])
KeyAt(pairs, key) == SelectInSeq(pairs, LAMBDA p : p.key = key)

RECURSIVE append_sv(_, _, _, _, _)

(* The pairs one after the other, until something is croaked.  The keys of *)
(* a hash must have no NUL.                                                *)
append_pairs(e, pairs, hashed, stack, is_insert) ==
    FoldLeft(LAMBDA f, p : IF f.err # "none" THEN f
                           ELSE IF hashed /\ containsNullChar(p.key) THEN Croak(f, "null")
                           ELSE append_sv(f, p.key, p.v, stack, is_insert),
             e, pairs)

(* Those of the container at, if it is not one of those around it *)
append_inside(e, at, pairs, hashed, stack, is_insert) ==
    IF stack.deep > MaxNesting THEN Croak(e, "nests")
    ELSE IF ~check_circular_ref(at, stack) THEN Croak(e, "circular")
    ELSE append_pairs(e, pairs, hashed, Push(at, stack), is_insert)

(* Faulty variant: a new _id is made although there is one. *)
IdAlwaysNew(e, pairs) == perl_mongo_prep(e)

(* The _id of the document goes first, a new one when there is none; its   *)
(* value is handed to the caller.                                          *)
append_id(e, pairs) ==
    IF KeyAt(pairs, _id) = 0 THEN perl_mongo_prep(e)
    ELSE [e EXCEPT !.ids = Append(@, pairs[KeyAt(pairs, _id)].v)]
WithId(e, at, ids) == IF ids THEN append_id(e, Pairs(at)) ELSE e
IdOf(pairs, ids) == IF ids /\ KeyAt(pairs, _id) # 0 THEN <<pairs[KeyAt(pairs, _id)]>> ELSE <<>>

(* Faulty variant: the container is not pushed on the stack. *)
HashUnmarked(e, at, ids, stack, is_insert) ==
    IF stack.deep > MaxNesting THEN Croak(e, "nests")
    ELSE append_pairs(WithId(e, at, ids),
                      IdOf(Pairs(at), ids) \o SelectSeq(Pairs(at), LAMBDA p : ~(ids /\ p.key = _id)),
                      TRUE, [stack EXCEPT !.deep = @ + 1], is_insert)

(* A key with a NUL in it ends the walk when its turn comes. *)
hv_to_bson(e, at, ids, stack, is_insert) ==
    append_inside(WithId(e, at, ids), at,
                  IdOf(Pairs(at), ids) \o SelectSeq(Pairs(at), LAMBDA p : ~(ids /\ p.key = _id)),
                  TRUE, stack, is_insert)

av_to_bson(e, at, stack, is_insert) ==
    append_inside(e, at,
                  [i \in 1..Len(Elements(at)) |-> [key |-> Decimal(i - 1), v |-> Elements(at)[i]]],
                  FALSE, stack, is_insert)

(* The _id, put first, comes once more in its own place. *)
ixhash_to_bson(e, at, ids, stack, is_insert) ==
    append_inside(WithId(e, at, ids), at, IdOf(Pairs(at), ids) \o Pairs(at), TRUE, stack, is_insert)

(* A reference to a container opens a child document. *)
Begun(e, key, v) ==
    [e EXCEPT !.b = _bson_append_bson_begin(@, key, IF v.cls = "array" THEN BSON_TYPE_ARRAY
                                                    ELSE BSON_TYPE_DOCUMENT)]
ChildEnded(e) == IF e.err # "none" THEN e ELSE [e EXCEPT !.b = _bson_append_bson_end(@)]
append_child(e, v, stack, is_insert) ==
    CASE v.cls = "hash"   -> hv_to_bson(e, v.at, FALSE, stack, is_insert)
      [] v.cls = "ixhash" -> ixhash_to_bson(e, v.at, FALSE, stack, is_insert)
      [] v.cls = "array"  -> av_to_bson(e, v.at, stack, is_insert)
      [] v.cls = "DBRef"  -> append_pairs(e, _ordered(v), TRUE, stack, is_insert)

(* The scope of a code is built on its own, with a stack of its own. *)
append_scope(e, key, v, scope) ==
    IF scope.err # "none" THEN Croak(e, scope.err)
    ELSE [e EXCEPT !.b = bson_append_code_with_scope(@, key, v.s, bson_get_data(scope.b))]

append_container(e, key, v, stack, is_insert) ==
    IF v.cls # "Code"
    THEN ChildEnded(append_child(Begun(e, key, v), v, stack, is_insert))
    ELSE IF v.at = 0 THEN [e EXCEPT !.b = bson_append_code(@, key, v.s)]
    ELSE append_scope(e, key, v, hv_to_bson(Encoding(bson_init, <<>>), v.at, FALSE,
                                            EMPTY_STACK(stack.deep), is_insert))

append_value(e, clean, v, stack, is_insert) ==
    IF clean.err # "none" THEN Croak(e, clean.err)
    ELSE IF v.cls = "undef" THEN [e EXCEPT !.b = bson_append_null(@, clean.key)]
    ELSE IF v.cls \in {"str", "int", "num"} THEN append_scalar(e, clean.key, v)
    ELSE IF v.cls \in {"hash", "ixhash", "array", "DBRef", "Code"}
    THEN append_container(e, clean.key, v, stack, is_insert)
    ELSE append_object(e, clean.key, v)

append_sv(e, in_key, v, stack, is_insert) ==
    append_value(e, clean_key(Utf8(in_key), is_insert), v, stack, is_insert)

(* A top-level array is a list of keys and values, without a stack. *)
perl_mongo_sv_to_bson(e, at, ids) ==
    CASE heap[at].kind = "hash"   -> hv_to_bson(e, at, ids, EMPTY_STACK(0), ids)
      [] heap[at].kind = "ixhash" -> ixhash_to_bson(e, at, ids, EMPTY_STACK(0), ids)
      [] heap[at].kind = "list"   ->
            append_pairs(WithId(e, at, ids), IdOf(Pairs(at), ids) \o Pairs(at), FALSE, EMPTY_STACK(0), ids)

-----------------------------------------------------------------------------
(* Decoding: a value is a tree, sub the pairs of key and value below it.   *)

Tree(cls, s, t, sub) == [cls |-> cls, s |-> s, t |-> t, sub |-> sub]
Leaf(cls, s, t) == Tree(cls, s, t, {})

(* Text keeps its characters, or with utf8_flag_on = 0 the bytes of UTF-8. *)
TextOf(bytes) == IF set.utf8 THEN Characters(bytes) ELSE bytes

oid_to_sv(it) == Leaf("OID", bson_oid_to_string(bson_iter_oid(it)), <<>>)

elem_text(it) == Leaf("str", TextOf(IF ITER_TYPE(it) = BSON_TYPE_SYMBOL THEN bson_iter_symbol(it)
                                    ELSE bson_iter_utf8(it)), <<>>)

BinaryLeaf(bin) == IF set.binary THEN Leaf("Binary", bin.data, <<bin.subtype>>)
                   ELSE Leaf("str", bin.data, <<>>)
elem_binary(it) == BinaryLeaf(bson_iter_binary(it))

(* use_boolean is only asked whether it exists, which it always does. *)
elem_bool(it) == Leaf("boolean", <<bson_iter_bool(it)>>, <<>>)

(* gmtime, for the days of the first month *)
gmtime(sec) == <<1970, 1, 1 + sec \div 86400, (sec \div 3600) % 24, (sec \div 60) % 60, sec % 60>>

elem_date_time(it) ==
    LET ms == bson_iter_date_time(it)
    IN  CASE set.dt = "raw"      -> Leaf("int", <<ms \div 1000>>, <<>>)
          [] set.dt = "Tiny"     -> Leaf("Tiny", gmtime(bson_iter_time_t(it)), <<>>)
          [] set.dt = "DateTime" -> Leaf("DateTime", <<ms \div 1000, ms % 1000>>, <<>>)
          [] OTHER               -> Leaf("croak", <<>>, <<>>)

elem_regex(it) ==
    LET rx == bson_iter_regex(it)
    IN  IF set.regexps THEN Leaf("Regexp", rx.regex, rx.options)
        ELSE Leaf("qr", rx.regex, SelectSeq(rx.options, LAMBDA f : f \in {108, 109, 105, 120, 115}))

RECURSIVE elem_to_sv(_)

bson_to_av(its) ==
    Tree("array", <<>>, <<>>, {<<Decimal(i - 1), elem_to_sv(its[i])>> : i \in 1..Len(its)})

(* The last value of a key counts.  A document of exactly the fields of a  *)
(* DBRef, in their order, becomes one.                                     *)
bson_to_sv(its) ==
    LET key(i) == bson_iter_key(its[i])
        last == {i \in 1..Len(its) : \A j \in (i + 1)..Len(its) : key(j) # key(i)}
        names == <<T("$ref"), T("$id"), T("$db")>>
        ref  == Len(its) = 3 /\ \A i \in 1..3 : key(i) = names[i]
    IN  Tree(IF set.dbrefs /\ ref THEN "DBRef" ELSE "hash", <<>>, <<>>,
             {<<TextOf(key(i)), elem_to_sv(its[i])>> : i \in last})

CodeLeaf(cws) ==
    IF ~bson_init_static(cws.scope) THEN Leaf("croak", <<>>, <<>>)
    ELSE Tree("Code", cws.code, <<>>, {<<T("scope"), bson_to_sv(Fields(cws.scope))>>})
elem_codewscope(it) == CodeLeaf(bson_iter_codewscope(it))

elem_to_sv(it) ==
    LET type == ITER_TYPE(it)
    IN  CASE type = BSON_TYPE_OID        -> oid_to_sv(it)
          [] type = BSON_TYPE_DOUBLE     -> Leaf("num", <<bson_iter_double(it)>>, <<>>)
          [] type \in {BSON_TYPE_SYMBOL, BSON_TYPE_UTF8} -> elem_text(it)
          [] type = BSON_TYPE_DOCUMENT   -> bson_to_sv(Fields(bson_iter_recurse(it).raw))
          [] type = BSON_TYPE_ARRAY      -> bson_to_av(Fields(bson_iter_recurse(it).raw))
          [] type = BSON_TYPE_BINARY     -> elem_binary(it)
          [] type = BSON_TYPE_BOOL       -> elem_bool(it)
          [] type \in {BSON_TYPE_UNDEFINED, BSON_TYPE_NULL} -> Leaf("undef", <<>>, <<>>)
          [] type = BSON_TYPE_INT32      -> Leaf("int", <<bson_iter_int32(it)>>, <<>>)
          [] type = BSON_TYPE_INT64      -> Leaf("int", <<bson_iter_int64(it)>>, <<>>)
          [] type = BSON_TYPE_DATE_TIME  -> elem_date_time(it)
          [] type = BSON_TYPE_REGEX      -> elem_regex(it)
          [] type = BSON_TYPE_CODE       -> Leaf("Code", bson_iter_code(it), <<>>)
          [] type = BSON_TYPE_CODEWSCOPE -> elem_codewscope(it)
          [] type = BSON_TYPE_TIMESTAMP  ->
                Leaf("Timestamp", <<bson_iter_timestamp(it).timestamp, bson_iter_timestamp(it).increment>>, <<>>)
          [] type = BSON_TYPE_MINKEY     -> Leaf("MinKey", <<>>, <<>>)
          [] type = BSON_TYPE_MAXKEY     -> Leaf("MaxKey", <<>>, <<>>)
          [] OTHER                       -> Leaf("croak", <<>>, <<>>)

(* What dies inside dies as a whole. *)
RECURSIVE Croaked(_)
Croaked(tree) == tree.cls = "croak" \/ \E p \in tree.sub : Croaked(p[2])
Whole(tree) == IF Croaked(tree) THEN Leaf("croak", <<>>, <<>>) ELSE tree
perl_mongo_bson_to_sv(raw) == Whole(bson_to_sv(Fields(raw)))

-----------------------------------------------------------------------------
(* The buffer of a message: its bytes up to pos, the length of it, and     *)
(* whether a write has gone past its end (see Beyond)                      *)

BufRemaining(buf) == buf.cap - Len(buf.bytes)

(* Faulty variant: the length asked for is taken to fit after one step. *)
ResizeOnce(buf, size) ==
    [buf EXCEPT !.cap = IF @ < GrowSlowly THEN @ * 2 ELSE @ + InitialBufSize]

(* The steps the loop of perl_mongo_resize_buf adds until size fits *)
perl_mongo_resize_buf(buf, size) ==
    LET total == IF buf.cap < GrowSlowly THEN buf.cap * 2 ELSE buf.cap + InitialBufSize
        short == size - (total - Len(buf.bytes))
    IN  [buf EXCEPT !.cap = IF short <= 0 THEN total ELSE total + size * ((short + size - 1) \div size)]

Reserved(buf, n) == IF BufRemaining(buf) <= n THEN perl_mongo_resize_buf(buf, n) ELSE buf

WriteOn(buf, data) == [buf EXCEPT !.bytes = @ \o data, !.over = @ \/ Len(buf.bytes \o data) > buf.cap]

perl_mongo_serialize_string(buf, str) == WriteOn(Reserved(buf, Len(str) + 1), str \o <<0>>)
perl_mongo_serialize_int(buf, num) == WriteOn(Reserved(buf, 4), LE(num, 4))
perl_mongo_serialize_size(buf) == [buf EXCEPT !.bytes = Overwrite(@, 0, LE(Len(buf.bytes), 4))]

(* bson_writer_begin clears one byte more than it makes room for; behind a *)
(* document that stays empty it may be the one after the buffer.           *)
Beyond(d) == Len(d.buf) > (IF d.frames[1].len = 5 THEN d.cap + 1 ELSE d.cap)

(* The writer's buffer is the message's again. *)
TakenBack(m, d, z) ==
    [m EXCEPT !.buf = [bytes |-> SubSeq(z.buf, 1, z.offset), cap |-> z.buflen,
                       over |-> m.buf.over \/ Beyond(d)],
              !.docs = Append(@, Len(m.buf.bytes))]
InBuffer(m, w, e) ==
    IF e.err # "none" THEN [m EXCEPT !.err = e.err]
    ELSE TakenBack([m EXCEPT !.ids = e.ids], e.b, bson_writer_end([w EXCEPT !.b = e.b]))
BuiltWith(m, w, at, ids) == InBuffer(m, w, perl_mongo_sv_to_bson(Encoding(w.b, m.ids), at, ids))

(* A document is built in the buffer itself, behind what it holds.  What   *)
(* is croaked leaves the message unfinished.                               *)
perl_mongo_sv_to_buffer(m, at, ids) ==
    IF m.err # "none" THEN m
    ELSE BuiltWith(m, bson_writer_begin(bson_writer_new(m.buf.bytes, m.buf.cap, Len(m.buf.bytes))),
                   at, ids)

(* The document n times *)
Documents(m, ids, n) ==
    FoldLeft(LAMBDA f, i : perl_mongo_sv_to_buffer(f, 1, ids), m, [i \in 1..n |-> i])

OP_UPDATE == 2001
OP_INSERT == 2002
OP_QUERY  == 2004
OP_DELETE == 2006

(* CREATE_HEADER: the length is filled in at the end. *)
Header(op, ns) ==
    LET start == [bytes |-> <<0, 0, 0, 0>>, cap |-> InitialBufSize, over |-> FALSE]
        ints  == FoldLeft(perl_mongo_serialize_int, start, <<1, 0, op, 0>>)
    IN  [op |-> op, err |-> "none", ids |-> <<>>, docs |-> <<>>, buf |-> perl_mongo_serialize_string(ints, ns)]

Ints(m, nums) == [m EXCEPT !.buf = FoldLeft(perl_mongo_serialize_int, @, nums)]
Sized(m) == [m EXCEPT !.buf = perl_mongo_serialize_size(@)]

ns == T("db.collection")

-----------------------------------------------------------------------------
NoMessage == [op |-> 0, err |-> "none", ids |-> <<>>, docs |-> <<>>, buf |-> [bytes |-> <<>>, cap |-> 0, over |-> FALSE]]

Init ==
    /\ set \in Settings
    /\ \E top \in TopKinds, kind \in [Nodes \ {1} -> Kinds] :
          heap = [n \in Nodes |-> [kind |-> IF n = 1 THEN top ELSE kind[n],
                                   keys |-> <<>>, vals |-> <<>>]]
    /\ stores = 0 /\ msg = NoMessage /\ got = <<>>

(* A reference to node n *)
RefTo(n) == SV(IF heap[n].kind = "list" THEN "array" ELSE heap[n].kind, <<>>, <<>>, n)

(* A hash keeps its keys in an order of its own; an array has no keys. *)
Stored(node, key, v) ==
    LET at == SelectInSeq(node.keys, LAMBDA k : k = key)
        back == [node EXCEPT !.keys = Append(@, key), !.vals = Append(@, v)]
        front == [node EXCEPT !.keys = <<key>> \o @, !.vals = <<v>> \o @]
    IN  CASE node.kind = "array" -> {[node EXCEPT !.vals = Append(@, v)]}
          [] node.kind = "list"  -> {back}
          [] node.kind \in {"hash", "ixhash"} /\ at # 0 -> {[node EXCEPT !.vals[at] = v]}
          [] node.kind = "hash" /\ at = 0   -> {back, front}
          [] node.kind = "ixhash" /\ at = 0 -> {back}

Store(n, key, v) ==
    /\ msg = NoMessage /\ stores < MaxStores
    /\ \E node \in Stored(heap[n], key, v) : heap' = [heap EXCEPT ![n] = node]
    /\ stores' = stores + 1
    /\ UNCHANGED <<set, msg, got>>

(* A container, or code with one for its scope, goes into another. *)
StoreRef(n, m) ==
    \/ Store(n, T("r"), RefTo(m))
    \/ heap[m].kind = "hash" /\ Store(n, T("f"), SV("Code", T("f"), <<>>, m))

(* The nodes that are reached over references of the classes *)
Below(n, classes) == {heap[n].vals[i].at : i \in {j \in 1..Len(heap[n].vals) : heap[n].vals[j].cls \in classes}} \ {0}
RECURSIVE Reach(_, _)
Reach(S, classes) == LET more == S \cup UNION {Below(n, classes) : n \in S}
                     IN  IF more = S THEN S ELSE Reach(more, classes)
Containers == {"hash", "ixhash", "array"}

(* Only what the document refers to matters to the driver. *)
Relevant == \A n \in Nodes : heap[n].vals # <<>> => n \in Reach({1}, Containers \cup {"Code"})

Written(m) ==
    /\ msg = NoMessage /\ Relevant
    /\ msg' = IF m.err = "none" THEN Sized(m) ELSE m
    /\ UNCHANGED <<heap, set, stores, got>>

(* A query, or a query and the fields to return *)
write_query == \E n \in 1..2 : Written(Documents(Ints(Header(OP_QUERY, ns), <<0, 0>>), FALSE, n))

(* One document or two, with or without ids *)
write_insert ==
    \E add_ids \in BOOLEAN, n \in 1..2 : Written(Documents(Header(OP_INSERT, ns), add_ids, n))

write_remove == Written(Documents(Ints(Header(OP_DELETE, ns), <<0>>), FALSE, 1))

write_update == Written(Documents(Ints(Header(OP_UPDATE, ns), <<0>>), FALSE, 2))

(* A document on its own, in a bson_t *)
Alone(e) == [op |-> 1, err |-> e.err, ids |-> <<>>, docs |-> <<0>>,
             buf |-> IF e.err = "none" THEN [NoMessage.buf EXCEPT !.bytes = bson_get_data(e.b)]
                     ELSE NoMessage.buf]
encode_bson ==
    /\ msg = NoMessage /\ Relevant
    /\ msg' = Alone(perl_mongo_sv_to_bson(Encoding(bson_init, <<>>), 1, FALSE))
    /\ UNCHANGED <<heap, set, stores, got>>

(* The next document of the message, as the driver reads those of a reply *)
perl_mongo_buffer_to_sv ==
    LET from == msg.docs[Len(got) + 1]
        blen == Int32At(msg.buf.bytes, from)
    IN  /\ msg.op # 0 /\ msg.err = "none" /\ Len(got) < Len(msg.docs)
        /\ got' = Append(got, perl_mongo_bson_to_sv(Bytes(msg.buf.bytes, from, blen)))
        /\ UNCHANGED <<heap, set, stores, msg>>

Next ==
    \/ \E n \in Nodes, s \in IF stores = 0 THEN Stores ELSE MoreStores : Store(n, s.key, s.v)
    \/ \E n, m \in Nodes : StoreRef(n, m)
    \/ write_query \/ write_insert \/ write_remove \/ write_update \/ encode_bson
    \/ perl_mongo_buffer_to_sv

Spec == Init /\ [][Next]_vars

-----------------------------------------------------------------------------
(* Properties *)

LimbDigits == 2   \* digits of a full limb, nine in Math::BigInt

(* The big integers that append_bigint stores as the number they are: of   *)
(* one limb, or of two with all the digits of the lower one counted.  It   *)
(* moves a third limb up too far, and the second one not far enough when   *)
(* the lower one is a number with fewer digits, or 0.                      *)
Storable(v) == v.cls # "BigInt" \/ Len(v.s) = 1 \/ (Len(v.s) = 2 /\ Width(v, 1) = LimbDigits)
AllStorable == \A n \in Nodes : \A i \in 1..Len(heap[n].vals) : Storable(heap[n].vals[i])

(* What a value is to come back as, under the settings: a boolean as one,  *)
(* whatever use_boolean says                                               *)
DateRead(sec, ms) ==
    CASE set.dt = "raw"      -> Leaf("int", <<sec>>, <<>>)
      [] set.dt = "Tiny"     -> Leaf("Tiny", gmtime(sec), <<>>)
      [] set.dt = "DateTime" -> Leaf("DateTime", <<sec, ms>>, <<>>)
BinaryRead(s, subtype) == IF set.binary THEN Leaf("Binary", s, <<subtype>>) ELSE Leaf("str", s, <<>>)
TextRead(s) ==
    IF set.numbers /\ looks_like_double(s) THEN Leaf("num", <<Number(s)>>, <<>>)
    ELSE IF set.numbers /\ looks_like_int(s) THEN Leaf("int", <<Number(s)>>, <<>>)
    ELSE IF \E i \in 1..Len(s) : s[i] = 0 THEN BinaryRead(s, 0)
    ELSE Leaf("str", IF set.utf8 THEN s ELSE Utf8(s), <<>>)
RegexpRead(s, t) == Leaf(IF set.regexps THEN "Regexp" ELSE "qr", s, t)
KeyRead(key) ==
    LET k == IF key[1] = set.char THEN [key EXCEPT ![1] = 36] ELSE key
    IN  IF set.utf8 THEN k ELSE Utf8(k)

(* A date at the epoch is left out, in an array those behind it move up;   *)
(* and the last value of a key counts.                                     *)
Left(v) == v.cls = "DateTime" /\ v.s = <<0, 0>>
RECURSIVE Normal(_)
PairsRead(pairs) ==
    {<<KeyRead(UpToNul(pairs[i].key)), Normal(pairs[i].v)>> :
        i \in {j \in 1..Len(pairs) :
                  /\ ~Left(pairs[j].v)
                  /\ \A k \in (j + 1)..Len(pairs) : UpToNul(pairs[k].key) # UpToNul(pairs[j].key)}}
Normal(v) ==
    CASE v.cls = "str"       -> TextRead(v.s)
      [] v.cls = "OID"       -> Leaf("OID", Lower(v.s), <<>>)
      [] v.cls = "BigInt"    -> Leaf("int", <<v.t[1] * FoldRight(LAMBDA l, n : l + 10 ^ LimbDigits * n, v.s, 0)>>, <<>>)
      [] v.cls = "DateTime"  -> DateRead(v.s[1], v.s[2])
      [] v.cls = "Tiny"      -> DateRead((v.s[3] - 1) * 86400 + v.s[4] * 3600 + v.s[5] * 60 + v.s[6], 0)
      [] v.cls = "boolean"   -> Leaf("boolean", <<v.s[1]>>, <<>>)
      [] v.cls = "String"    -> Leaf("str", v.s, <<>>)
      [] v.cls = "Binary"    -> BinaryRead(v.s, v.t[1])
      [] v.cls = "scalarref" -> BinaryRead(v.s, 0)
      [] v.cls = "qr"        -> RegexpRead(v.s, SelectSeq(v.t, LAMBDA f : f # 117))
      [] v.cls = "Regexp"    -> RegexpRead(v.s, v.t)
      [] v.cls = "Code"      -> IF v.at = 0 \/ PairsRead(Pairs(v.at)) = {} THEN Leaf("Code", v.s, <<>>)
                                ELSE Tree("Code", v.s, <<>>, {<<T("scope"), Tree("hash", <<>>, <<>>, PairsRead(Pairs(v.at)))>>})
      [] v.cls = "DBRef"     -> Tree(IF set.dbrefs THEN "DBRef" ELSE "hash", <<>>, <<>>, PairsRead(_ordered(v)))
      [] v.cls \in {"hash", "ixhash"} -> Tree("hash", <<>>, <<>>, PairsRead(Pairs(v.at)))
      [] v.cls = "array"     -> LET kept == SelectSeq(Elements(v.at), LAMBDA x : ~Left(x))
                                IN  Tree("array", <<>>, <<>>, {<<Decimal(i - 1), Normal(kept[i])>> : i \in 1..Len(kept)})
      [] OTHER               -> Leaf(v.cls, v.s, v.t)


(* An inserted document begins with its _id, the one the program gave it   *)
(* or a new one that no other document of the message has, and insert      *)
(* returns the same ids in the same order.                                 *)
IdsFirst ==
    msg.ids # <<>> /\ msg.err = "none" =>
        /\ Len(msg.ids) = Len(msg.docs)
        /\ \A i \in 1..Len(msg.docs) :
              LET own == KeyAt(Pairs(1), _id)
                  at  == msg.docs[i]
              IN  \E first \in {Fields(Bytes(msg.buf.bytes, at, Int32At(msg.buf.bytes, at)))[1]} :
                  /\ bson_iter_key(first) = _id
                  /\ elem_to_sv(first) = Normal(msg.ids[i])
                  /\ IF own # 0 THEN msg.ids[i] = heap[1].vals[own]
                     ELSE \A j \in 1..Len(msg.ids) : msg.ids[j] = msg.ids[i] => j = i

(* A structure is refused as circular only if it contains itself, and one  *)
(* that does, other than through the scope of a code, is never written,    *)
(* nor followed until the stack runs out.                                  *)
Circular(through, around) ==
    \E n \in Reach({1}, through) : n \in Reach(Below(n, around), around)
CircularCaught ==
    msg.op # 0 =>
        /\ msg.err = "circular" => Circular(Containers \cup {"Code"}, Containers)
        /\ Circular(Containers, Containers) => msg.err # "none"
        /\ msg.err = "nests" =>
              \E n \in Reach({1}, Containers \cup {"Code"}) :
                  n \in Reach(Below(n, {"Code"}), Containers \cup {"Code"})

(* No write goes past the end of the buffer, but for the byte that         *)
(* bson_writer_begin clears behind an empty document; and a finished       *)
(* message begins with its own length and its documents follow each other  *)
(* up to its last byte, each with its own length and end.                  *)
MessageWhole ==
    msg.op # 0 /\ msg.err = "none" =>
        LET bytes == msg.buf.bytes
            ends(i) == IF i < Len(msg.docs) THEN msg.docs[i + 1] ELSE Len(bytes)
        IN  /\ ~msg.buf.over
            /\ Int32At(bytes, 0) = Len(bytes)
            /\ \A i \in 1..Len(msg.docs) :
                  bson_init_static(Bytes(bytes, msg.docs[i], ends(i) - msg.docs[i]))
=============================================================================
