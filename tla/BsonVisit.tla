----------------------------- MODULE BsonVisit -----------------------------
(***************************************************************************)
(* Whole documents walked with an iterator: finding fields, visiting,      *)
(* validating, copying (bson-iter.c, bson.c).                              *)
(***************************************************************************)
EXTENDS BsonIter, Text

(* The iterator at every field it reaches, and where it stops *)
RECURSIVE FieldsFrom(_)
FieldsFrom(it) == IF it.valid THEN <<it>> \o FieldsFrom(bson_iter_next(it)) ELSE <<it>>

Walk(raw) == IF Len(raw) < 5 THEN <<bson_iter_init(raw)>>
             ELSE FieldsFrom(bson_iter_next(bson_iter_init(raw)))
Fields(raw) == Front(Walk(raw))
Stop(raw)   == Last(Walk(raw))

bson_count_keys(raw) == Len(Fields(raw))

-----------------------------------------------------------------------------
(* Finding a field.  0 stands for not found. *)

Lower(s) == [i \in 1..Len(s) |-> IF s[i] \in 65..90 THEN s[i] + 32 ELSE s[i]]

(* Faulty variant: the names are compared over the length of the field's. *)
FindByNameLength(raw, key) ==
    SelectInSeq(Fields(raw), LAMBDA it : IsPrefix(bson_iter_key(it), key))

(* strncmp over the length of the key: a field whose name begins with the  *)
(* key is taken for it.                                                    *)
BeginsWith(it, key) == IsPrefix(key, bson_iter_key(it))
_bson_iter_find_with_len(raw, key) ==
    SelectInSeq(Fields(raw), LAMBDA it : BeginsWith(it, key))

(* The first of the fields found that way, as a sequence of at most one *)
FirstWith(fields, key) ==
    LET found == SelectSeq(fields, LAMBDA it : BeginsWith(it, key))
    IN  SubSeq(found, 1, Min({1, Len(found)}))

bson_iter_find(raw, key) == _bson_iter_find_with_len(raw, key)

bson_iter_find_case(raw, key) ==
    SelectInSeq(Fields(raw), LAMBDA it : Lower(bson_iter_key(it)) = Lower(key))

bson_has_field(raw, key) == bson_iter_find(raw, key) # 0

(* path is the dotted key, split at its dots *)
RECURSIVE DescendantAmong(_, _)
DescendantAmong(found, path) ==
    IF found = <<>> \/ Len(path) = 1 THEN found
    ELSE IF ITER_TYPE(found[1]) \in {BSON_TYPE_DOCUMENT, BSON_TYPE_ARRAY}
    THEN DescendantAmong(FirstWith(Fields(bson_iter_recurse(found[1]).raw), path[2]), Tail(path))
    ELSE <<>>
bson_iter_find_descendant(raw, path) ==
    DescendantAmong(FirstWith(Fields(raw), path[1]), path)

-----------------------------------------------------------------------------
(* bson_iter_visit_all: the fields a visitor sees.  A key or a string that *)
(* is not UTF-8 ends the visit, without a call to visit_corrupt.           *)

Visitable(it) ==
    /\ bson_utf8_validate(bson_iter_key(it), FALSE)
    /\ Holds(it, BSON_TYPE_UTF8) => bson_utf8_validate(bson_iter_utf8(it), TRUE)

VisitedOf(fields) ==
    LET bad == SelectInSeq(fields, LAMBDA it : ~Visitable(it))
    IN  IF bad = 0 THEN fields ELSE SubSeq(fields, 1, bad - 1)

Visited(raw) == VisitedOf(Fields(raw))

-----------------------------------------------------------------------------
(* bson_validate.  The result is the offset of an error, or -1; flags is a *)
(* subset of {"utf8", "utf8_allow_null", "dollar", "dot"}.                 *)

KeyRefused(it, flags) ==
    \/ "dollar" \in flags /\ Len(bson_iter_key(it)) > 0 /\ bson_iter_key(it)[1] = 36
    \/ "dot" \in flags /\ \E i \in 1..Len(bson_iter_key(it)) : bson_iter_key(it)[i] = 46

TextRefused(it, flags) ==
    /\ Holds(it, BSON_TYPE_UTF8) /\ "utf8" \in flags
    /\ ~bson_utf8_validate(bson_iter_utf8(it), "utf8_allow_null" \in flags)

(* What is inside the field at it, where bson_validate goes into it *)
Inside(it) ==
    IF ITER_TYPE(it) \in {BSON_TYPE_DOCUMENT, BSON_TYPE_ARRAY} THEN bson_iter_recurse(it).raw
    ELSE IF Holds(it, BSON_TYPE_CODEWSCOPE) THEN bson_iter_codewscope(it).scope
    ELSE <<>>

(* The visit v goes on behind a value whose inside was visited with the    *)
(* result e.  A valid scope ends it, a broken one does not.                *)
AfterInside(v, it, e) ==
    IF ~Holds(it, BSON_TYPE_CODEWSCOPE) THEN [v EXCEPT !.err = e]
    ELSE IF e = -1 THEN [v EXCEPT !.ended = TRUE]
    ELSE [v EXCEPT !.err = it.off + e]

(* A visit that saw every field reports where the walk broke off. *)
AfterWalk(v, seen, walk) ==
    IF ~v.ended /\ seen = Len(walk) - 1 /\ Last(walk).err # 0 THEN Last(walk).err ELSE v.err

(* The fields one after the other: the error found last, or -1 *)
RECURSIVE ValidateWalk(_, _, _)
ValidateWalk(walk, flags, err) ==
    LET within(v, it, inside) ==
            IF ~bson_init_static(inside) THEN v
            ELSE AfterInside(v, it, ValidateWalk(Walk(inside), flags,
                                        IF Holds(it, BSON_TYPE_CODEWSCOPE) THEN -1 ELSE v.err))
        field(v, it) == IF v.ended THEN v
                        ELSE IF KeyRefused(it, flags) \/ TextRefused(it, flags)
                        THEN [err |-> it.off, ended |-> TRUE]
                        ELSE within(v, it, Inside(it))
        visit(fields) == AfterWalk(FoldLeft(field, [err |-> err, ended |-> FALSE], fields),
                                   Len(fields), walk)
    IN  visit(VisitedOf(Front(walk)))

bson_validate(raw, flags) == Len(raw) >= 5 /\ ValidateWalk(Walk(raw), flags, -1) < 0

-----------------------------------------------------------------------------
(* Copying *)

should_ignore(exclude, name) == name \in exclude

(* Faulty variant: one excluded field ends the copy. *)
CopyStopsAtExcluded(raw, exclude) ==
    FoldLeft(LAMBDA c, it : IF c.ended \/ bson_iter_key(it) \in exclude THEN [c EXCEPT !.ended = TRUE]
                            ELSE [c EXCEPT !.b = bson_append_iter(@, bson_iter_key(it), it)],
             [b |-> bson_init, ended |-> FALSE], Fields(raw)).b

(* ok is FALSE where the assertion fails that every field can be appended. *)
bson_copy_to_excluding(raw, exclude) ==
    FoldLeft(LAMBDA b, it : IF ~b.ok \/ should_ignore(exclude, bson_iter_key(it)) THEN b
                            ELSE bson_append_iter(b, bson_iter_key(it), it),
             bson_init, Fields(raw))
=============================================================================
