---------------------------- MODULE BsonStream ----------------------------
(***************************************************************************)
(* A program that builds documents with libbson, into the buffer of a      *)
(* bson_writer_t as the driver's messages are built, or one by one into a  *)
(* file, and reads them back with a bson_reader_t, from memory as the      *)
(* driver reads a reply, or from a file descriptor that hands out a few    *)
(* bytes at a time (bson-reader.c).  Or it builds one with BCON.           *)
(***************************************************************************)
EXTENDS Bcon, Builder, Reader, FiniteSets

CONSTANTS
    Keys,         \* names of fields
    Appends,      \* the fields the program may append first: [key, v] records
    MoreAppends,  \* the ones it appends after that
    Arguments,    \* the arguments it hands to BCON
    MaxArguments, \* bound: arguments of one call
    MaxFields,    \* bound: fields and children per behaviour
    MaxDepth,     \* bound: open children
    MaxDocs,      \* bound: documents
    WriterBuffer, \* lengths of the writer's buffer at first
    WriterOffset  \* where in it the first document goes

ASSUME StreamAssumption ==
    /\ MaxArguments \in Nat /\ MaxFields \in Nat /\ MaxDepth \in Nat /\ MaxDocs \in Nat
    /\ WriterBuffer \subseteq Nat /\ WriterOffset \in Nat /\ \A n \in WriterBuffer : WriterOffset <= n

VARIABLES
    ctx,      \* BCON's context and the name it read last
    appended, \* how many fields were appended, or arguments read, so far
    log,      \* history: what was appended to b, in order
    logs      \* history: what was appended to each document of written

vars == <<builderVars, readerVars, ctx, appended, log, logs>>

(* One entry of log: a field, with the number of open children around it *)
Entry(depth, key, v) == [depth |-> depth, key |-> key, v |-> v]

(* What it reads at an iterator *)
Get(it) ==
    LET type == ITER_TYPE(it)
    IN  CASE type = BSON_TYPE_UTF8      -> Value(type, bson_iter_utf8(it), <<>>)
          [] type = BSON_TYPE_SYMBOL    -> Value(type, bson_iter_symbol(it), <<>>)
          [] type = BSON_TYPE_DATE_TIME -> Value(type, <<bson_iter_time_t(it)>>, <<>>)
          [] type \in {BSON_TYPE_ARRAY, BSON_TYPE_DOCUMENT} -> Value(type, <<>>, <<>>)
          [] OTHER                      -> Extracted(it)

NullAsUndefined(e) ==
    IF e.v.type = BSON_TYPE_NULL THEN [e EXCEPT !.v.type = BSON_TYPE_UNDEFINED] ELSE e

(* Everything in a document, children behind their own field *)
RECURSIVE Flat(_, _)
Flat(raw, depth) ==
    LET under(sub) == IF sub.valid THEN Flat(sub.raw, depth + 1) ELSE <<>>
        field(it) == <<Entry(depth, bson_iter_key(it), Get(it))>> \o under(bson_iter_recurse(it))
    IN  FoldLeft(LAMBDA all, it : all \o field(it), <<>>, Fields(raw))

-----------------------------------------------------------------------------
NoContext == [stack |-> bcon_append_ctx_init, key |-> <<>>]

Init ==
    /\ mode \in Modes
    /\ \E n \in IF mode = "writer" THEN WriterBuffer ELSE {WriterOffset} :
          w = bson_writer_new([i \in 1..WriterOffset |-> 1], n, WriterOffset)
    /\ b = bson_init /\ building = FALSE /\ ctx = NoContext
    /\ appended = 0 /\ log = <<>> /\ logs = <<>>
    /\ ReaderInit

(* Building: the steps of Builder, with what was appended *)

(* What a step that only builds leaves alone *)
Otherwise == UNCHANGED <<ctx, logs, written, ends, rd, got>>

Start ==
    /\ rd = NoReader /\ Len(written) < MaxDocs /\ (mode = "bcon" => written = <<>>)
    /\ \/ (StartInWriter \/ StartNew) /\ log' = <<>>
       \/ mode = "file" /\ written # <<>> /\ StartCopy(Last(written)) /\ log' = Last(logs)
    /\ UNCHANGED appended /\ Otherwise

(* A code with an empty scope is stored as a code. *)
Stored(v) == IF v.type = BSON_TYPE_CODEWSCOPE /\ bson_empty(v.b)
             THEN Value(BSON_TYPE_CODE, v.a, <<>>) ELSE v

AppendField(key, v) ==
    /\ mode # "bcon" /\ appended < MaxFields
    /\ PutField(key, v)
    /\ log' = IF b'.ok THEN Append(log, Entry(Depth, key, Stored(v))) ELSE log
    /\ appended' = appended + 1 /\ Otherwise

BeginChild(key, type) ==
    /\ mode # "bcon" /\ appended < MaxFields /\ Depth < MaxDepth
    /\ OpenChild(key, type)
    /\ log' = Append(log, Entry(Depth, key, Value(type, <<>>, <<>>)))
    /\ appended' = appended + 1 /\ Otherwise

EndChild == mode # "bcon" /\ CloseChild /\ UNCHANGED <<appended, log>> /\ Otherwise

(* All fields of the last document once more *)
Concat ==
    /\ mode # "bcon" /\ written # <<>> /\ appended < MaxFields
    /\ ConcatDocument(Last(written))
    /\ log' = log \o [i \in 1..Len(Last(logs)) |-> [Last(logs)[i] EXCEPT !.depth = @ + Depth]]
    /\ appended' = appended + 1 /\ Otherwise

Reinit ==
    /\ mode # "bcon" /\ log # <<>>
    /\ StartAgain
    /\ log' = <<>>
    /\ UNCHANGED appended /\ Otherwise

(* The log with more entries behind it: the ones of the array being built  *)
(* are numbered.                                                           *)
Numbered(entries) ==
    LET before == SelectLastInSeq(log, LAMBDA e : e.depth < Depth)
        siblings(es) == Len(SelectSeq(SubSeq(es, before + 1, Len(es)), LAMBDA e : e.depth = Depth))
        name(es, e) == IF e.depth # Depth THEN e
                       ELSE [e EXCEPT !.key = bson_uint32_to_string(siblings(es))]
    IN  FoldLeft(LAMBDA es, e : Append(es, name(es, e)), log, entries)

(* Fields copied into an array are appended one by one. *)
Copied(s, entries) ==
    [i \in 1..Len(entries) |-> IF InArray(s) /\ entries[i].depth = Depth
                               THEN NullAsUndefined(entries[i]) ELSE entries[i]]

(* What the argument adds to the document: its entries                     *)
Added(s, arg, type) ==
    CASE type = BCON_TYPE_BCON -> Copied(s, Flat(arg.v.a, Depth))
      [] AtKey(s) \/ type \in {BCON_TYPE_DOC_END, BCON_TYPE_ARRAY_END} -> <<>>
      [] OTHER ->
             <<Entry(Depth, IF InArray(s) THEN <<>> ELSE s.key[1],
                     CASE type = BCON_TYPE_DOC_START   -> Value(BSON_TYPE_DOCUMENT, <<>>, <<>>)
                       [] type = BCON_TYPE_ARRAY_START -> Value(BSON_TYPE_ARRAY, <<>>, <<>>)
                       [] OTHER                        -> arg.v)>>

(* BCON reads its next argument.  A call may end and another go on with    *)
(* the context wherever a name comes next.                                 *)
BconArgument(arg) ==
    LET s == [b |-> b, stack |-> ctx.stack, key |-> ctx.key]
        type == _bcon_append_tokenize(arg)
        added == Added(s, arg, type)
    IN  /\ building /\ mode = "bcon" /\ appended < MaxArguments
        /\ Admitted(s, arg)
        /\ type \in {BCON_TYPE_DOC_START, BCON_TYPE_ARRAY_START} => Depth < MaxDepth
        /\ \E t \in {bcon_append_ctx_va(s, arg)} :
               b' = t.b /\ ctx' = [stack |-> t.stack, key |-> t.key]
        /\ log' = IF InArray(s) THEN Numbered(added) ELSE log \o added
        /\ appended' = appended + 1
        /\ UNCHANGED <<mode, w, building, logs, written, ends, rd, got>>

Finish ==
    /\ ctx = NoContext
    /\ HandOver
    /\ Noted(bson_get_data(b)) /\ logs' = Append(logs, log)
    /\ UNCHANGED <<ctx, appended, log, rd, got>>

Rollback == log # <<>> /\ RollBack /\ UNCHANGED <<appended, log>> /\ Otherwise

-----------------------------------------------------------------------------
(* Reading: the steps of Reader *)

(* The bytes in front of the reader: the writer's buffer from its first    *)
(* document on, or the file.                                               *)
Source == IF mode = "writer" THEN Bytes(w.buf, WriterOffset, w.offset - WriterOffset)
                             ELSE FlattenSeq(written)

Read ==
    /\ ~building /\ mode # "bcon"
    /\ \/ OpenReader \/ _bson_reader_data_read
       \/ _bson_reader_handle_fill_buffer \/ _bson_reader_handle_read
    /\ UNCHANGED <<builderVars, ctx, appended, log, logs>>

Next ==
    /\ \/ Start \/ EndChild \/ Concat \/ Reinit \/ Finish \/ Rollback
       \/ \E f \in IF appended = 0 THEN Appends ELSE MoreAppends : AppendField(f.key, f.v)
       \/ \E type \in {BSON_TYPE_ARRAY, BSON_TYPE_DOCUMENT} : BeginChild(T("0"), type)
       \/ \E arg \in Arguments : BconArgument(arg)
       \/ Read
    /\ stream' = Source'

Spec == Init /\ [][Next]_vars

-----------------------------------------------------------------------------
(* Properties *)

(* The document just finished: written is a history, so that what holds of *)
(* each document then holds of it for good.                                *)
Newest == IF ~building /\ rd = NoReader /\ written # <<>>
          THEN {[bytes |-> Last(written), log |-> Last(logs)]} ELSE {}

(* Iterating a finished document, children included, gives the fields that *)
(* were appended, in their order, with their keys, types and values, ends  *)
(* on its last byte without an error, and bson_validate accepts it.        *)
IteratesBack ==
    \A d \in Newest :
        /\ Flat(d.bytes, 0) = d.log
        /\ Stop(d.bytes).err = 0
        /\ bson_validate(d.bytes, {"utf8", "utf8_allow_null", "dollar", "dot"})

(* The fields of a document at its top level *)
TopFields(fields) ==
    [i \in 1..Len(fields) |->
        [key |-> bson_iter_key(fields[i]), v |-> Get(fields[i]), inside |-> Inside(fields[i])]]
Without(top, key) ==
    LET rest == SelectSeq(top, LAMBDA f : f.key # key)
    IN  [j \in 1..Len(rest) |-> NullAsUndefined(rest[j])]

(* A copy without some fields has all the others, in order, with the same  *)
(* bytes, but nulls have become undefined.                                 *)
CopyKeepsTheRest ==
    \A d \in Newest, key \in Keys :
        \E copy \in {bson_copy_to_excluding(d.bytes, {key})} :
            /\ copy.ok
            /\ TopFields(Fields(bson_get_data(copy))) = Without(TopFields(Fields(d.bytes)), key)

(* No other field's key begins with the n-th one's. *)
Alone(fields, n) ==
    \A j \in 1..Len(fields) :
        j # n => ~IsPrefix(Lower(bson_iter_key(fields[n])), Lower(bson_iter_key(fields[j])))
(* path is the way to the document raw with these fields. *)
RECURSIVE FoundUnder(_, _, _, _)
FoundUnder(root, raw, fields, path) ==
    \A n \in 1..Len(fields) : Alone(fields, n) =>
        \E key \in {bson_iter_key(fields[n])}, sub \in {bson_iter_recurse(fields[n])} :
            /\ bson_has_field(raw, key) /\ bson_iter_find(raw, key) = n
            /\ bson_iter_find_case(raw, Lower(key)) = n
            /\ bson_iter_find_descendant(root, Append(path, key)) = <<fields[n]>>
            /\ sub.valid => FoundUnder(root, sub.raw, Fields(sub.raw), Append(path, key))

Overwritten(it, v) ==
    CASE ITER_TYPE(it) = BSON_TYPE_BOOL   -> bson_iter_overwrite_bool(it, 1)
      [] ITER_TYPE(it) = BSON_TYPE_INT32  -> bson_iter_overwrite_int32(it, v)
      [] ITER_TYPE(it) = BSON_TYPE_INT64  -> bson_iter_overwrite_int64(it, v)
      [] ITER_TYPE(it) = BSON_TYPE_DOUBLE -> bson_iter_overwrite_double(it, v)
      [] OTHER                            -> it.raw
OverwrittenAlone(fields, top) ==
    \A n \in 1..Len(top) :
        TopFields(Fields(Overwritten(fields[n], 77))) =
            IF top[n].v.type \in {BSON_TYPE_INT32, BSON_TYPE_INT64, BSON_TYPE_DOUBLE}
            THEN [top EXCEPT ![n].v.a = <<77>>] ELSE top

(* Every field as an argument list asks for it *)
RECURSIVE Pattern(_, _)
Pattern(fields, is_array) ==
    LET type(it) == ITER_TYPE(it)
        name(it) == IF is_array THEN <<>> ELSE <<Bare(bson_iter_key(it))>>
        value(it) == IF ~bson_iter_recurse(it).valid
                     THEN <<Typed(Value(type(it), <<>>, <<>>))>>
                     ELSE LET array == type(it) = BSON_TYPE_ARRAY
                          IN  <<Bare(T(IF array THEN "[" ELSE "{"))>>
                              \o Pattern(Fields(bson_iter_recurse(it).raw), array)
                              \o <<Bare(T(IF array THEN "]" ELSE "}"))>>
    IN  FoldLeft(LAMBDA args, it : args \o name(it) \o value(it), <<>>, fields)
RECURSIVE AllAlone(_)
AllAlone(fields) ==
    \A n \in 1..Len(fields) :
        /\ Alone(fields, n)
        /\ bson_iter_recurse(fields[n]).valid => AllAlone(Fields(bson_iter_recurse(fields[n]).raw))

(* The calls of bcon_extract for these arguments: as they are, and with    *)
(* another type in the place of one value                                  *)
ExtractedAll(d, args) ==
    LET given == SelectSeq(d.log, LAMBDA e : e.v.type \notin {BSON_TYPE_ARRAY, BSON_TYPE_DOCUMENT})
        wrong == Typed(Value(BCON_TYPE_SKIP, <<BSON_TYPE_EOD>>, <<>>))
    IN  \A i \in {0} \cup {j \in 1..Len(args) : args[j].magic} :
            \E call \in {bcon_extract(d.bytes, IF i = 0 THEN args ELSE [args EXCEPT ![i] = wrong])} :
                /\ call.ok <=> i = 0
                /\ call.ok => call.out = [k \in 1..Len(given) |-> given[k].v]

(* An iterator can be put on any field whose key begins no other key of    *)
(* its document, by the key in either case and by the dotted path to it,   *)
(* however deep it is; overwriting a number through an iterator changes    *)
(* that field and nothing else; and bcon_extract, asked for everything     *)
(* that BCON was given, stores it all in its order, and refuses when one   *)
(* of the fields is asked for with another type.                           *)
FieldsByKey ==
    \A d \in Newest : \E fields \in {Fields(d.bytes)} :
        /\ FoundUnder(d.bytes, d.bytes, fields, <<>>)
        /\ OverwrittenAlone(fields, TopFields(fields))
        /\ mode = "bcon" /\ AllAlone(fields) => ExtractedAll(d, Pattern(fields, FALSE))
=============================================================================
