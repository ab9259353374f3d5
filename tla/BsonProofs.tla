----------------------------- MODULE BsonProofs -----------------------------
(***************************************************************************)
(* Proofs about libbson's builder and readers.                             *)
(*                                                                         *)
(* The builder.  Why closing a child never needs room: a child lies six    *)
(* bytes before the end its parent had when it was opened and is one       *)
(* deeper (Inside), so its offset, length and depth add up to what its     *)
(* parent's do, at the opening and, with the child's bytes taken over, at  *)
(* the closing (OpenedChain, ClosedChain).  Every append keeps that sum    *)
(* inside the buffer (VaAppended), in the bson_t itself as long as there   *)
(* is no child.                                                            *)
(*                                                                         *)
(* Why what is closed is whole: the topmost document always has its length *)
(* in front and its end byte behind (Whole).  An append writes both anew   *)
(* behind the data (ExtendedWhole), a child begins as the empty document   *)
(* the append put at the end of its parent (OpenedWhole), and a parent     *)
(* gets both back when its child is closed (ClosedWhole), as long as its   *)
(* length has its place in four bytes, which the sum above says.           *)
(*                                                                         *)
(* Why a writer's earlier documents stay: the outermost document begins    *)
(* where they end, no child begins before it (Behind), and every write     *)
(* goes to an offset of one of them or behind it (WrittenBehind).          *)
(*                                                                         *)
(* Why no write goes beyond the buffer: an append makes room for what it   *)
(* writes before it writes (ExtendedLength), everything else writes below  *)
(* the sum above, and only bson_writer_begin clears a byte it made no room *)
(* for (AtEdge), behind a document that is still empty (GrewContained,     *)
(* VaContained).                                                           *)
(*                                                                         *)
(* The readers.  The documents lie one behind another in the stream        *)
(* (LaidOut); a reader stands behind the last one it returned, and what a  *)
(* buffered reader holds is the slice of the stream it has read last and   *)
(* not passed yet (Buffered), so the document it finds at its offset is    *)
(* the next one of the stream.                                             *)
(***************************************************************************)
EXTENDS Builder, Reader, SequenceTheorems, WellFoundedInduction, TLAPS

Frames == [offset : Nat, len : Nat, depth : Nat]

(* Where the end bytes of a document's parents go: behind this place *)
Reach(f) == f.offset + f.len + f.depth

(* A bson_t behind its parent, whose end byte comes behind its own *)
Inside(f, g) == g.offset = f.offset + f.len - 6 /\ g.depth = f.depth + 1

(* The bson_t and its open children, from the outside in *)
Chained(fs) ==
    /\ fs \in Seq(Frames) /\ Len(fs) >= 1
    /\ \A i \in 1..Len(fs) : fs[i].len >= 5
    /\ fs[1].depth = 0
    /\ \A i \in 1..(Len(fs) - 1) : Inside(fs[i], fs[i + 1])

(* All of it in the buffer, with the end bytes to come *)
Fits(inline, cap, fs) ==
    /\ inline \in BOOLEAN /\ cap \in Nat
    /\ inline => Len(fs) = 1 /\ fs[1].offset = 0 /\ fs[1].len <= InlineSize
    /\ ~inline => Reach(fs[Len(fs)]) <= cap

(* A bson_t with its open children *)
Record(buf, cap, inline, realloc, frames, ok) ==
    [buf |-> buf, cap |-> cap, inline |-> inline, realloc |-> realloc, frames |-> frames, ok |-> ok]

Shaped(d) == d = Record(d.buf, d.cap, d.inline, d.realloc, d.frames, d.ok)

Sound(d) ==
    /\ Shaped(d) /\ d.ok \in BOOLEAN
    /\ Chained(d.frames)
    /\ Fits(d.inline, d.cap, d.frames)

-----------------------------------------------------------------------------
(* One field of the record changed *)

LEMMA SetOk ==
    ASSUME NEW d, Shaped(d), NEW x
    PROVE  [d EXCEPT !.ok = x] = Record(d.buf, d.cap, d.inline, d.realloc, d.frames, x)
BY DEF Shaped, Record

LEMMA SetBuf ==
    ASSUME NEW d, Shaped(d), NEW x
    PROVE  [d EXCEPT !.buf = x] = Record(x, d.cap, d.inline, d.realloc, d.frames, d.ok)
BY DEF Shaped, Record

LEMMA SetCap ==
    ASSUME NEW d, Shaped(d), NEW x
    PROVE  [d EXCEPT !.cap = x] = Record(d.buf, x, d.inline, d.realloc, d.frames, d.ok)
BY DEF Shaped, Record

LEMMA SetInline ==
    ASSUME NEW d, Shaped(d), NEW x
    PROVE  [d EXCEPT !.inline = x] = Record(d.buf, d.cap, x, d.realloc, d.frames, d.ok)
BY DEF Shaped, Record

LEMMA SetFrames ==
    ASSUME NEW d, Shaped(d), NEW x
    PROVE  [d EXCEPT !.frames = x] = Record(d.buf, d.cap, d.inline, d.realloc, x, d.ok)
BY DEF Shaped, Record

LEMMA Parts ==
    ASSUME NEW buf, NEW cap, NEW inline, NEW realloc, NEW frames, NEW ok,
           NEW d, d = Record(buf, cap, inline, realloc, frames, ok)
    PROVE  /\ Shaped(d)
           /\ d.buf = buf /\ d.cap = cap /\ d.inline = inline /\ d.realloc = realloc
           /\ d.frames = frames /\ d.ok = ok
BY DEF Shaped, Record

LEMMA SetInlineCap ==
    ASSUME NEW d, Shaped(d), NEW x, NEW y
    PROVE  [d EXCEPT !.inline = x, !.cap = y] = Record(d.buf, y, x, d.realloc, d.frames, d.ok)
<1> DEFINE e == [d EXCEPT !.inline = x]
<1>1. e = Record(d.buf, d.cap, x, d.realloc, d.frames, d.ok)
  BY SetInline
<1> HIDE DEF e
<1>2. [e EXCEPT !.cap = y] = Record(d.buf, y, x, d.realloc, d.frames, d.ok)
  BY <1>1, SetCap, Parts
<1> QED
  BY <1>2, Zenon DEF e

LEMMA SetFramesOk ==
    ASSUME NEW d, Shaped(d), NEW x, NEW y
    PROVE  [d EXCEPT !.frames = x, !.ok = y] = Record(d.buf, d.cap, d.inline, d.realloc, x, y)
<1> DEFINE e == [d EXCEPT !.frames = x]
<1>1. e = Record(d.buf, d.cap, d.inline, d.realloc, x, d.ok)
  BY SetFrames
<1> HIDE DEF e
<1>2. [e EXCEPT !.ok = y] = Record(d.buf, d.cap, d.inline, d.realloc, x, y)
  BY <1>1, SetOk, Parts
<1> QED
  BY <1>2, Zenon DEF e

(* The n-th frame k bytes longer *)
Longer(fs, n, k) == [fs EXCEPT ![n] = [fs[n] EXCEPT !.len = fs[n].len + k]]

LEMMA SetFrameLen ==
    ASSUME NEW d, Shaped(d), NEW n, NEW k
    PROVE  [d EXCEPT !.frames[n].len = @ + k]
           = Record(d.buf, d.cap, d.inline, d.realloc, Longer(d.frames, n, k), d.ok)
BY SetFrames, Zenon DEF Longer

-----------------------------------------------------------------------------
(* A power of two below 2 ^ 30 is found. *)
LEMMA NextPower ==
    ASSUME NEW v \in Nat, v <= Biggest, v >= 1
    PROVE  bson_next_power_of_two(v) \in Nat /\ bson_next_power_of_two(v) >= v
<1>1. \E p \in Powers : p >= v /\ (p \div 2) < v
  BY SMT DEF Powers, Biggest
<1>2. Powers \subseteq Nat
  BY SMT DEF Powers, Biggest
<1> HIDE DEF Powers
<1>3. bson_next_power_of_two(v) \in Powers /\ bson_next_power_of_two(v) >= v
  BY <1>1, Zenon DEF bson_next_power_of_two
<1> QED
  BY <1>2, <1>3

-----------------------------------------------------------------------------
(* The frames *)

LEMMA LongerChain ==
    ASSUME NEW fs, Chained(fs), NEW k \in Nat
    PROVE  /\ Chained(Longer(fs, Len(fs), k))
           /\ Len(Longer(fs, Len(fs), k)) = Len(fs)
           /\ Reach(Longer(fs, Len(fs), k)[Len(fs)]) = Reach(fs[Len(fs)]) + k
           /\ Longer(fs, Len(fs), k)[Len(fs)].len = fs[Len(fs)].len + k
           /\ Longer(fs, Len(fs), k)[Len(fs)].offset = fs[Len(fs)].offset
           /\ Longer(fs, Len(fs), k)[Len(fs)].depth = fs[Len(fs)].depth
<1> DEFINE n == Len(fs)
<1> DEFINE last == [fs[n] EXCEPT !.len = fs[n].len + k]
<1> DEFINE gs == Longer(fs, n, k)
<1>1. fs \in Seq(Frames) /\ n \in Nat /\ n >= 1 /\ n \in 1..n
  BY DEF Chained
<1>2. fs[n] \in Frames
  BY <1>1
<1>3. last \in Frames /\ last.len = fs[n].len + k /\ last.offset = fs[n].offset /\ last.depth = fs[n].depth
  BY <1>2 DEF Frames
<1>4. gs \in Seq(Frames) /\ Len(gs) = n /\ gs[n] = last /\ \A i \in 1..n : i # n => gs[i] = fs[i]
  <2> HIDE DEF last
  <2>1. gs = [fs EXCEPT ![n] = last]
    BY Zenon DEF Longer, last
  <2> HIDE DEF gs, n
  <2> QED
    BY <1>1, <1>3, <2>1, SMT DEF n
<1> HIDE DEF gs, last
<1>5. Chained(gs)
  <2>1. \A i \in 1..n : fs[i].len >= 5
    BY DEF Chained
  <2>2. \A i \in 1..n : gs[i].len >= 5
    <3>1. fs[n].len \in Nat /\ fs[n].len >= 5
      BY <1>1, <1>2, <2>1 DEF Frames
    <3>2. gs[n].len >= 5
      BY <1>3, <1>4, <3>1
    <3> QED
      BY <1>4, <2>1, <3>2
  <2>3. gs[1].depth = 0
    BY <1>1, <1>3, <1>4 DEF Chained
  <2>4. ASSUME NEW i \in 1..(n - 1) PROVE Inside(gs[i], gs[i + 1])
    <3>1. Inside(fs[i], fs[i + 1])
      BY DEF Chained
    <3>2. i \in 1..n /\ i # n /\ i + 1 \in 1..n
      BY <1>1
    <3>3. gs[i] = fs[i] /\ gs[i + 1].offset = fs[i + 1].offset /\ gs[i + 1].depth = fs[i + 1].depth
      BY <1>3, <1>4, <3>2
    <3> QED
      BY <3>1, <3>3 DEF Inside
  <2> QED
    BY <1>1, <1>4, <2>2, <2>3, <2>4 DEF Chained
<1>6. Reach(last) = Reach(fs[n]) + k
  BY <1>2, <1>3 DEF Reach, Frames
<1> QED
  BY <1>3, <1>4, <1>5, <1>6 DEF gs

(* A child opened behind the end of its field's key *)
LEMMA OpenedChain ==
    ASSUME NEW fs, Chained(fs), fs[Len(fs)].len >= 6
    PROVE  LET f  == fs[Len(fs)]
               g  == Frame(f.offset + f.len - 1 - 5, f.depth + 1)
               gs == Append(fs, g)
           IN  Chained(gs) /\ Len(gs) = Len(fs) + 1 /\ gs[Len(gs)] = g /\ Reach(g) = Reach(f)
<1> DEFINE n == Len(fs)
           f == fs[n]
           g == Frame(f.offset + f.len - 1 - 5, f.depth + 1)
           gs == Append(fs, g)
<1>1. fs \in Seq(Frames) /\ n \in Nat /\ n >= 1 /\ f \in Frames
  BY DEF Chained
<1>2. g \in Frames /\ g.offset = f.offset + f.len - 6 /\ g.depth = f.depth + 1 /\ g.len = 5
  <2>1. f.offset \in Nat /\ f.len \in Nat /\ f.depth \in Nat /\ f.len >= 6
    BY <1>1 DEF Frames
  <2> DEFINE o == f.offset + f.len - 1 - 5
             k == f.depth + 1
  <2>2. o \in Nat /\ k \in Nat /\ o = f.offset + f.len - 6
    <3> HIDE DEF f
    <3> QED
      BY ONLY <2>1, SMT
  <2>3. g = [offset |-> o, len |-> 5, depth |-> k]
    BY Zenon DEF Frame
  <2> HIDE DEF g, o
  <2> QED
    BY <2>2, <2>3 DEF Frames
<1> HIDE DEF g
<1>3. gs \in Seq(Frames) /\ Len(gs) = n + 1 /\ gs[n + 1] = g /\ \A i \in 1..n : gs[i] = fs[i]
  BY <1>1, <1>2
<1> HIDE DEF gs
<1>4. Reach(g) = Reach(f)
  <2>1. f.offset \in Nat /\ f.len \in Nat /\ f.depth \in Nat
    BY <1>1 DEF Frames
  <2> HIDE DEF f
  <2>2. g.offset + g.len + g.depth = f.offset + f.len + f.depth
    BY ONLY <1>2, <2>1, SMT
  <2> QED
    BY <2>2, Zenon DEF Reach
<1>5. Chained(gs)
  <2>1. (\A i \in 1..n : fs[i].len >= 5) /\ fs[1].depth = 0 /\ \A i \in 1..(n - 1) : Inside(fs[i], fs[i + 1])
    BY DEF Chained
  <2>2. \A i \in 1..(n + 1) : gs[i].len >= 5
    BY <1>1, <1>2, <1>3, <2>1
  <2>3. gs[1].depth = 0
    BY <1>1, <1>3, <2>1
  <2>4. ASSUME NEW i \in 1..n PROVE Inside(gs[i], gs[i + 1])
    <3>1. CASE i = n
      BY <1>1, <1>2, <1>3, <3>1 DEF Inside
    <3>2. CASE i # n
      <4>1. i \in 1..(n - 1) /\ i + 1 \in 1..n
        BY <1>1, <3>2
      <4> QED
        BY <1>3, <2>1, <4>1
    <3> QED
      BY <3>1, <3>2
  <2> QED
    BY <1>1, <1>3, <2>2, <2>3, <2>4 DEF Chained
<1> QED
  BY <1>3, <1>4, <1>5 DEF gs, g

(* The last child closed: its parent reaches as far as it did *)
ClosedFrames(fs) ==
    Longer(SubSeq(fs, 1, Len(fs) - 1), Len(fs) - 1, fs[Len(fs)].len - 5)

LEMMA ClosedChain ==
    ASSUME NEW fs, Chained(fs), Len(fs) > 1
    PROVE  /\ Chained(ClosedFrames(fs)) /\ Len(ClosedFrames(fs)) = Len(fs) - 1
           /\ Reach(ClosedFrames(fs)[Len(fs) - 1]) = Reach(fs[Len(fs)])
<1> DEFINE n == Len(fs) - 1
           es == SubSeq(fs, 1, n)
           k == fs[n + 1].len - 5
<1>1. fs \in Seq(Frames) /\ n \in Nat /\ n >= 1 /\ Len(fs) = n + 1
  BY DEF Chained
<1>2. es \in Seq(Frames) /\ Len(es) = n /\ \A i \in 1..n : es[i] = fs[i]
  BY <1>1
<1> HIDE DEF es, n
<1>3. (\A i \in 1..(n + 1) : fs[i].len >= 5) /\ fs[1].depth = 0 /\ \A i \in 1..n : Inside(fs[i], fs[i + 1])
  BY <1>1 DEF Chained
<1>4. fs[n] \in Frames /\ fs[n + 1] \in Frames /\ Inside(fs[n], fs[n + 1]) /\ fs[n + 1].len >= 5
  BY <1>1, <1>3
<1>5. k \in Nat
  BY <1>4 DEF Frames
<1>6. Chained(es)
  <2>1. \A i \in 1..n : es[i].len >= 5
    BY <1>1, <1>2, <1>3
  <2>2. es[1].depth = 0
    BY <1>1, <1>2, <1>3
  <2>3. ASSUME NEW i \in 1..(n - 1) PROVE Inside(es[i], es[i + 1])
    <3>1. i \in 1..n /\ i + 1 \in 1..n
      BY <1>1
    <3> QED
      BY <1>2, <1>3, <3>1
  <2> QED
    BY <1>1, <1>2, <2>1, <2>2, <2>3 DEF Chained
<1>7. /\ Chained(Longer(es, n, k)) /\ Len(Longer(es, n, k)) = n
      /\ Reach(Longer(es, n, k)[n]) = Reach(es[n]) + k
  <2> HIDE DEF k
  <2> QED
    BY <1>2, <1>5, <1>6, LongerChain
<1>8. Reach(fs[n]) + k = Reach(fs[n + 1])
  <2> DEFINE f == fs[n]
             g == fs[n + 1]
  <2>1. f.offset \in Nat /\ f.len \in Nat /\ f.depth \in Nat /\ g.len \in Nat
    BY <1>4 DEF Frames
  <2>2. g.offset = f.offset + f.len - 6 /\ g.depth = f.depth + 1
    BY <1>4 DEF Inside
  <2> HIDE DEF f, g
  <2>3. f.offset + f.len + f.depth + (g.len - 5) = g.offset + g.len + g.depth
    BY ONLY <2>1, <2>2, SMT
  <2> QED
    BY <2>3 DEF Reach, f, g
<1>9. ClosedFrames(fs) = Longer(es, n, k)
  BY <1>1, Zenon DEF ClosedFrames, es, n
<1>10. es[n] = fs[n]
  BY <1>1, <1>2
<1> QED
  BY <1>1, <1>7, <1>8, <1>9, <1>10

-----------------------------------------------------------------------------
(* Growing the buffer *)

(* size bytes more would fit. *)
RoomFor(d, size) ==
    /\ d.inline => Top(d).len + size <= InlineSize
    /\ ~d.inline => Reach(Top(d)) + size <= d.cap

LEMMA TopFrame ==
    ASSUME NEW d, Sound(d)
    PROVE  /\ d.frames \in Seq(Frames) /\ Len(d.frames) \in Nat /\ Len(d.frames) >= 1
           /\ Top(d) = d.frames[Len(d.frames)] /\ Top(d) \in Frames /\ Top(d).len >= 5
           /\ Top(d).offset \in Nat /\ Top(d).len \in Nat /\ Top(d).depth \in Nat
           /\ Reach(Top(d)) \in Nat /\ Reach(Top(d)) = Top(d).offset + Top(d).len + Top(d).depth
           /\ Len(d.frames) = 1 => Top(d).depth = 0
<1>1. d.frames \in Seq(Frames) /\ Len(d.frames) \in Nat /\ Len(d.frames) >= 1
  BY DEF Sound, Chained
<1>2. Top(d) = d.frames[Len(d.frames)]
  BY DEF Top
<1>3. Top(d) \in Frames /\ Top(d).len >= 5 /\ (Len(d.frames) = 1 => Top(d).depth = 0)
  BY <1>1, <1>2 DEF Sound, Chained
<1>4. Top(d).offset \in Nat /\ Top(d).len \in Nat /\ Top(d).depth \in Nat
  BY <1>3 DEF Frames
<1>5. Reach(Top(d)) = Top(d).offset + Top(d).len + Top(d).depth
  BY DEF Reach
<1> QED
  BY <1>1, <1>2, <1>3, <1>4, <1>5

LEMMA FailSound ==
    ASSUME NEW d, Sound(d)
    PROVE  Sound(Fail(d)) /\ Fail(d).frames = d.frames /\ Fail(d).ok = FALSE
<1> DEFINE no == FALSE
           e == [d EXCEPT !.ok = no]
<1> HIDE DEF no
<1>1. e = Record(d.buf, d.cap, d.inline, d.realloc, d.frames, no)
  BY SetOk DEF Sound
<1> HIDE DEF e
<1>2. /\ Shaped(e) /\ e.cap = d.cap /\ e.inline = d.inline /\ e.frames = d.frames
      /\ e.ok = no
  BY <1>1, Parts
<1>3. Fail(d) = e /\ e.ok = FALSE
  BY <1>2, Zenon DEF Fail, e, no
<1>4. Sound(e)
  BY <1>2, <1>3, Zenon DEF Sound
<1> QED
  BY <1>2, <1>3, <1>4, Zenon

LEMMA Bigger ==
    ASSUME NEW d, Sound(d), ~d.inline, NEW size \in Nat, NEW c \in Nat, Reach(Top(d)) + size <= c
    PROVE  LET e == [d EXCEPT !.cap = c]
           IN  Sound(e) /\ e.frames = d.frames /\ e.ok = d.ok /\ RoomFor(e, size)
<1> DEFINE e == [d EXCEPT !.cap = c]
<1>1. e = Record(d.buf, c, d.inline, d.realloc, d.frames, d.ok)
  BY SetCap DEF Sound
<1>2. Shaped(e) /\ e.cap = c /\ e.inline = d.inline /\ e.frames = d.frames /\ e.ok = d.ok
  BY <1>1, Parts
<1> HIDE DEF e
<1>3. Top(e) = Top(d)
  BY <1>2, Zenon DEF Top
<1>4. Reach(Top(d)) <= c
  BY TopFrame
<1>5. Fits(e.inline, e.cap, e.frames)
  BY <1>2, <1>4, Zenon DEF Fits, Sound, Top
<1>6. Sound(e)
  BY <1>2, <1>5, Zenon DEF Sound
<1>7. RoomFor(e, size)
  BY <1>2, <1>3, Zenon DEF RoomFor
<1> QED
  BY <1>2, <1>6, <1>7 DEF e

LEMMA AllocGrown ==
    ASSUME NEW d, Sound(d), ~d.inline, NEW size \in Nat, Reach(Top(d)) + size <= Biggest
    PROVE  LET e == _bson_impl_alloc_grow(d, size)
           IN  Sound(e) /\ e.frames = d.frames /\ (e.ok => RoomFor(e, size))
<1> DEFINE req == Top(d).offset + Top(d).len + size + Top(d).depth
           e == _bson_impl_alloc_grow(d, size)
<1>1. req \in Nat /\ req = Reach(Top(d)) + size /\ req >= 1 /\ req <= Biggest
  BY TopFrame
<1>2. d.cap \in Nat
  BY DEF Sound, Fits
<1>3. e = IF req <= d.cap THEN d
          ELSE IF d.realloc THEN [d EXCEPT !.cap = bson_next_power_of_two(req)] ELSE Fail(d)
  BY Zenon DEF _bson_impl_alloc_grow
<1>4. CASE req <= d.cap
  BY <1>1, <1>3, <1>4 DEF RoomFor
<1>5. CASE ~(req <= d.cap) /\ d.realloc
  <2>1. bson_next_power_of_two(req) \in Nat /\ Reach(Top(d)) + size <= bson_next_power_of_two(req)
    <3> HIDE DEF req
    <3>1. bson_next_power_of_two(req) \in Nat /\ bson_next_power_of_two(req) >= req
      BY <1>1, NextPower
    <3> QED
      BY <1>1, <3>1
  <2>2. e = [d EXCEPT !.cap = bson_next_power_of_two(req)]
    BY <1>3, <1>5
  <2> HIDE DEF req, e
  <2> QED
    BY <2>1, <2>2, Bigger DEF e
<1>6. CASE ~(req <= d.cap) /\ ~d.realloc
  <2>1. e = Fail(d)
    BY <1>3, <1>6
  <2> QED
    BY <2>1, FailSound
<1> QED
  BY <1>4, <1>5, <1>6

LEMMA InlineGrown ==
    ASSUME NEW d, Sound(d), d.inline, NEW size \in Nat, Top(d).len + size <= Biggest
    PROVE  LET e == _bson_impl_inline_grow(d, size)
           IN  /\ Sound(e) /\ e.frames = d.frames /\ RoomFor(e, size) /\ e.ok = d.ok
               /\ Top(d).len + size > InlineSize => ~e.inline
<1> DEFINE need == Top(d).len + size
           c == bson_next_power_of_two(need)
           e == _bson_impl_inline_grow(d, size)
<1>1. need \in Nat /\ need >= 1 /\ need <= Biggest
  BY TopFrame
<1>2. c \in Nat /\ c >= need
  <2> HIDE DEF need
  <2> QED
    BY <1>1, NextPower
<1>3. e = IF need <= InlineSize THEN d ELSE [d EXCEPT !.inline = FALSE, !.cap = c]
  BY Zenon DEF _bson_impl_inline_grow
<1>4. CASE need <= InlineSize
  <2>1. InlineSize \in Int
    BY BsonAssumption
  <2>2. e = d
    BY <1>3, <1>4
  <2> QED
    BY <1>1, <1>4, <2>1, <2>2 DEF RoomFor
<1>5. CASE ~(need <= InlineSize)
  <2>1. e = [d EXCEPT !.inline = FALSE, !.cap = c]
    BY <1>3, <1>5
  <2>2. Shaped(e) /\ e.cap = c /\ e.inline = FALSE /\ e.frames = d.frames /\ e.ok = d.ok
    <3> DEFINE no == FALSE
    <3> HIDE DEF no, c, e
    <3>1. e = [d EXCEPT !.inline = no, !.cap = c]
      BY <2>1 DEF no
    <3>2. e = Record(d.buf, c, no, d.realloc, d.frames, d.ok)
      BY <3>1, SetInlineCap, Zenon DEF Sound
    <3>3. Shaped(e) /\ e.cap = c /\ e.inline = no /\ e.frames = d.frames /\ e.ok = d.ok
      BY <3>2, Parts
    <3> QED
      BY <3>3, Zenon DEF no
  <2>3. Top(e) = Top(d)
    BY <2>2, Zenon DEF Top
  <2>4. Reach(Top(d)) + size = need
    <3>1. Top(d).offset = 0 /\ Top(d).depth = 0
      BY TopFrame DEF Sound, Fits
    <3> QED
      BY <3>1, TopFrame
  <2> HIDE DEF e, c
  <2>5. Reach(Top(d)) <= c /\ Reach(Top(d)) + size <= c
    BY <1>2, <2>4, TopFrame
  <2>6. Fits(e.inline, e.cap, e.frames)
    BY <1>2, <2>2, <2>5, Zenon DEF Fits, Top
  <2>7. Sound(e)
    BY <2>2, <2>6, Zenon DEF Sound
  <2>8. RoomFor(e, size)
    BY <2>2, <2>3, <2>5, Zenon DEF RoomFor
  <2> QED
    BY <2>2, <2>7, <2>8, Zenon DEF e
<1> QED
  BY <1>4, <1>5

LEMMA Grown ==
    ASSUME NEW d, Sound(d), NEW size \in Nat, Reach(Top(d)) + size <= Biggest
    PROVE  LET e == _bson_grow(d, size)
           IN  Sound(e) /\ e.frames = d.frames /\ (e.ok => RoomFor(e, size))
<1>1. Top(d).len + size <= Biggest
  BY TopFrame DEF Biggest
<1>2. CASE d.inline
  BY <1>1, <1>2, InlineGrown, Zenon DEF _bson_grow
<1>3. CASE ~d.inline
  BY <1>3, AllocGrown, Zenon DEF _bson_grow
<1> QED
  BY <1>2, <1>3

LEMMA CapKeeps ==
    ASSUME NEW d, Shaped(d), NEW c
    PROVE  LET e == [d EXCEPT !.cap = c]
           IN  Shaped(e) /\ e.frames = d.frames /\ e.ok = d.ok /\ e.inline = d.inline
<1> DEFINE e == [d EXCEPT !.cap = c]
<1>1. e = Record(d.buf, c, d.inline, d.realloc, d.frames, d.ok)
  BY SetCap
<1> HIDE DEF e
<1>2. Shaped(e) /\ e.frames = d.frames /\ e.ok = d.ok /\ e.inline = d.inline
  BY <1>1, Parts
<1> QED
  BY <1>2, Zenon DEF e

(* Whether or not the new length has a power of two *)
LEMMA GrownAnyhow ==
    ASSUME NEW d, Sound(d), d.ok, NEW size \in Nat
    PROVE  LET e == _bson_grow(d, size)
           IN  /\ Shaped(e) /\ e.ok \in BOOLEAN /\ e.frames = d.frames
               /\ e.inline => d.inline
               /\ ~e.ok => Sound(e)
<1> DEFINE e == _bson_grow(d, size)
<1>1. Shaped(d) /\ d.ok = TRUE /\ d.ok \in BOOLEAN
  BY Zenon DEF Sound
<1>2. CASE d.inline
  <2> DEFINE need == Top(d).len + size
             c == bson_next_power_of_two(need)
  <2>1. e = IF need <= InlineSize THEN d ELSE [d EXCEPT !.inline = FALSE, !.cap = c]
    BY <1>2, Zenon DEF _bson_grow, _bson_impl_inline_grow
  <2> HIDE DEF need, c, e
  <2>2. Shaped(e) /\ e.ok = TRUE /\ e.frames = d.frames
    <3>1. CASE e = d
      BY <1>1, <3>1, Zenon
    <3>2. CASE e = [d EXCEPT !.inline = FALSE, !.cap = c]
      <4> DEFINE no == FALSE
                 h == [d EXCEPT !.inline = no, !.cap = c]
      <4> HIDE DEF no
      <4>1. Shaped(h) /\ h.ok = d.ok /\ h.frames = d.frames
        <5>1. h = Record(d.buf, c, no, d.realloc, d.frames, d.ok)
          BY <1>1, SetInlineCap, Zenon
        <5> HIDE DEF h
        <5> QED
          BY ONLY <5>1, Parts
      <4> HIDE DEF h
      <4>2. e = h
        BY <3>2 DEF h, no
      <4> QED
        BY <1>1, <4>1, <4>2, Zenon
    <3> QED
      BY <2>1, <3>1, <3>2, Zenon
  <2> QED
    BY <1>2, <2>2, Zenon DEF e
<1>3. CASE ~d.inline
  <2> DEFINE req == Top(d).offset + Top(d).len + size + Top(d).depth
             c == bson_next_power_of_two(req)
  <2>1. e = IF req <= d.cap THEN d ELSE IF d.realloc THEN [d EXCEPT !.cap = c] ELSE Fail(d)
    BY <1>3, Zenon DEF _bson_grow, _bson_impl_alloc_grow
  <2> HIDE DEF req, c, e
  <2>2. CASE e = d
    BY <1>1, <2>2, Zenon DEF e
  <2>3. CASE e = [d EXCEPT !.cap = c]
    <3>1. Shaped(e) /\ e.frames = d.frames /\ e.ok = d.ok /\ e.inline = d.inline
      BY <1>1, <2>3, CapKeeps, Zenon
    <3> QED
      BY <1>1, <3>1, Zenon DEF e
  <2>4. CASE e = Fail(d)
    <3>1. Sound(e) /\ e.frames = d.frames /\ e.ok = FALSE
      BY <2>4, FailSound, Zenon
    <3>2. e.inline = d.inline
      BY <1>1, <2>4, Zenon DEF Fail, Shaped, Record
    <3> QED
      BY <3>1, <3>2, Zenon DEF e, Sound
  <2> QED
    BY <2>1, <2>2, <2>3, <2>4, Zenon
<1> QED
  BY <1>2, <1>3

-----------------------------------------------------------------------------
(* Appending *)

LEMMA LengthenedKeeps ==
    ASSUME NEW d, Shaped(d)
    PROVE  LET e == Lengthened(d)
           IN  Shaped(e) /\ e.frames = d.frames /\ e.ok = d.ok /\ e.inline = d.inline /\ e.cap = d.cap
<1> DEFINE buf == EncodeLength(d.buf, Top(d))
           e == [d EXCEPT !.buf = buf]
<1> HIDE DEF buf
<1>1. e = Record(buf, d.cap, d.inline, d.realloc, d.frames, d.ok)
  BY SetBuf
<1> HIDE DEF e
<1>2. Shaped(e) /\ e.frames = d.frames /\ e.ok = d.ok /\ e.inline = d.inline /\ e.cap = d.cap
  BY <1>1, Parts
<1>3. Lengthened(d) = e
  BY Zenon DEF Lengthened, e, buf
<1> QED
  BY <1>2, <1>3, Zenon

LEMMA ExtendedFrames ==
    ASSUME NEW d, Shaped(d), NEW data
    PROVE  LET e == Extended(d, data)
           IN  /\ Shaped(e) /\ e.ok = d.ok /\ e.inline = d.inline /\ e.cap = d.cap
               /\ e.frames = IF d.ok THEN Longer(d.frames, Len(d.frames), Len(data)) ELSE d.frames
<1> DEFINE e == Extended(d, data)
           buf == Overwrite(d.buf, Top(d).offset + Top(d).len - 1, data \o <<0>>)
           n == Len(d.frames)
           k == Len(data)
           f == [d EXCEPT !.buf = buf, !.frames[n].len = @ + k]
<1>1. e = IF ~d.ok THEN d ELSE Lengthened(f)
  BY Zenon DEF Extended
<1> HIDE DEF buf, n, k
<1>2. f = Record(buf, d.cap, d.inline, d.realloc, Longer(d.frames, n, k), d.ok)
  <2> DEFINE g == [d EXCEPT !.buf = buf]
  <2>1. g = Record(buf, d.cap, d.inline, d.realloc, d.frames, d.ok)
    BY SetBuf
  <2>2. Shaped(g) /\ g.frames = d.frames /\ g.cap = d.cap /\ g.buf = buf /\ g.inline = d.inline
        /\ g.realloc = d.realloc /\ g.ok = d.ok
    BY <2>1, Parts
  <2> HIDE DEF g
  <2>3. [g EXCEPT !.frames[n].len = @ + k]
        = Record(g.buf, g.cap, g.inline, g.realloc, Longer(g.frames, n, k), g.ok)
    BY <2>2, SetFrames, Zenon DEF Longer
  <2>4. [g EXCEPT !.frames[n].len = @ + k]
        = Record(buf, d.cap, d.inline, d.realloc, Longer(d.frames, n, k), d.ok)
    BY <2>2, <2>3, Zenon
  <2> QED
    BY <2>4, Zenon DEF g
<1> HIDE DEF f
<1>3. Shaped(f) /\ f.frames = Longer(d.frames, n, k) /\ f.ok = d.ok /\ f.inline = d.inline /\ f.cap = d.cap
  <2> DEFINE fs == Longer(d.frames, n, k)
  <2> HIDE DEF fs
  <2>1. f = Record(buf, d.cap, d.inline, d.realloc, fs, d.ok)
    BY <1>2, Zenon DEF fs
  <2>2. Shaped(f) /\ f.frames = fs /\ f.ok = d.ok /\ f.inline = d.inline /\ f.cap = d.cap
    BY <2>1, Parts
  <2> QED
    BY <2>2, Zenon DEF fs
<1> HIDE DEF e
<1>4. CASE d.ok
  <2>1. e = Lengthened(f)
    BY <1>1, <1>4, Zenon
  <2>2. Shaped(e) /\ e.frames = f.frames /\ e.ok = f.ok /\ e.inline = f.inline /\ e.cap = f.cap
    BY <1>3, <2>1, LengthenedKeeps, Zenon
  <2> QED
    BY <1>3, <1>4, <2>2, Zenon DEF e, n, k
<1>5. CASE ~d.ok
  BY <1>1, <1>5, Zenon DEF e
<1> QED
  BY <1>4, <1>5

LEMMA TopIsLast == ASSUME NEW d PROVE Top(d) = d.frames[Len(d.frames)]
BY DEF Top

LEMMA OkSet ==
    ASSUME NEW d, Sound(d)
    PROVE  LET e == [d EXCEPT !.ok = TRUE]
           IN  Sound(e) /\ e.ok = TRUE /\ e.frames = d.frames /\ e.inline = d.inline
<1> DEFINE yes == TRUE
           e == [d EXCEPT !.ok = yes]
<1> HIDE DEF yes
<1>1. e = Record(d.buf, d.cap, d.inline, d.realloc, d.frames, yes)
  BY SetOk DEF Sound
<1> HIDE DEF e
<1>2. Shaped(e) /\ e.cap = d.cap /\ e.inline = d.inline /\ e.frames = d.frames /\ e.ok = yes
  BY <1>1, Parts
<1>3. Sound(e)
  BY <1>2, Zenon DEF Sound, yes
<1> QED
  BY <1>2, <1>3, Zenon DEF e, yes

(* What an append of k bytes makes of a bson_t *)
Appended(d, e, k) ==
    /\ Shaped(e) /\ e.ok \in BOOLEAN /\ Chained(e.frames)
    /\ e.inline => d.inline
    /\ Len(e.frames) = Len(d.frames)
    /\ ~e.ok => Sound(e) /\ e.frames = d.frames
    /\ e.ok => Reach(Top(e)) = Reach(Top(d)) + k /\ Top(e).len = Top(d).len + k
                /\ Top(e).offset = Top(d).offset
    /\ Reach(Top(e)) <= Biggest => Sound(e)

LEMMA VaAppended ==
    ASSUME NEW d, Sound(d), d.ok, NEW data, Len(data) \in Nat
    PROVE  Appended(d, _bson_append_va(d, data), Len(data))
<1> DEFINE k == Len(data)
           g == _bson_grow(d, k)
           e == Extended(g, data)
           n == Len(d.frames)
<1> HIDE DEF k, g, e
<1>1. /\ Shaped(g) /\ g.ok \in BOOLEAN /\ g.frames = d.frames
      /\ g.inline => d.inline
      /\ ~g.ok => Sound(g)
  BY GrownAnyhow, Zenon DEF g, k
<1>2. /\ Shaped(e) /\ e.ok = g.ok /\ e.inline = g.inline /\ e.cap = g.cap
      /\ e.frames = IF g.ok THEN Longer(d.frames, n, k) ELSE d.frames
  <2>1. /\ Shaped(e) /\ e.ok = g.ok /\ e.inline = g.inline /\ e.cap = g.cap
        /\ e.frames = IF g.ok THEN Longer(g.frames, Len(g.frames), Len(data)) ELSE g.frames
    BY <1>1, ExtendedFrames, Zenon DEF e
  <2> QED
    BY <1>1, <2>1, Zenon DEF k
<1>3. _bson_append_va(d, data) = e
  BY Zenon DEF _bson_append_va, e, g, k
<1>4. CASE ~g.ok
  <2>1. e = g
    BY <1>4, Zenon DEF Extended, e
  <2>2. Chained(e.frames) /\ Len(e.frames) = Len(d.frames) /\ e.frames = d.frames /\ Sound(e)
    BY <1>1, <1>4, <2>1, Zenon DEF Sound
  <2> QED
    BY <1>1, <1>2, <1>3, <1>4, <2>2, Zenon DEF Appended, k
<1>5. CASE g.ok
  <2> DEFINE fs == d.frames
             gs == Longer(fs, n, k)
  <2>1. Chained(fs) /\ k \in Nat
    BY Zenon DEF Sound, k
  <2>2. /\ Chained(gs) /\ Len(gs) = n /\ Reach(gs[n]) = Reach(fs[n]) + k /\ gs[n].len = fs[n].len + k
        /\ gs[n].offset = fs[n].offset
    BY <2>1, LongerChain, Zenon
  <2>3. e.frames = gs
    BY <1>2, <1>5, Zenon
  <2> HIDE DEF gs
  <2>4. Top(e) = gs[n] /\ Top(d) = fs[n] /\ Top(g) = fs[n]
    BY <1>1, <2>2, <2>3, Zenon DEF Top
  <2>5. ASSUME Reach(Top(e)) <= Biggest PROVE Sound(e)
    <3>1. Sound(g) /\ RoomFor(g, k)
      <4>1. Reach(Top(d)) + k <= Biggest
        BY <2>2, <2>4, <2>5
      <4>2. k \in Nat
        BY <2>1
      <4>3. Sound(g) /\ (g.ok => RoomFor(g, k))
        BY <4>1, <4>2, Grown, Zenon DEF g
      <4> QED
        BY <1>5, <4>3, Zenon
    <3>2. Fits(e.inline, e.cap, e.frames)
      <4>1. g.inline \in BOOLEAN /\ g.cap \in Nat
        BY <3>1, Zenon DEF Sound, Fits
      <4>2. ASSUME g.inline PROVE n = 1 /\ gs[1].offset = 0 /\ gs[1].len <= InlineSize
        <5>1. n = 1 /\ fs[1].offset = 0
          BY <1>1, <3>1, <4>2, Zenon DEF Sound, Fits
        <5>2. fs[n].len + k <= InlineSize
          BY <2>4, <3>1, <4>2, Zenon DEF RoomFor
        <5> QED
          BY <2>2, <5>1, <5>2
      <4>3. ASSUME ~g.inline PROVE Reach(gs[n]) <= g.cap
        <5>1. Reach(fs[n]) + k <= g.cap
          BY <2>4, <3>1, <4>3, Zenon DEF RoomFor
        <5> QED
          BY <2>2, <5>1
      <4> QED
        BY <1>2, <2>2, <2>3, <4>1, <4>2, <4>3, Zenon DEF Fits
    <3> QED
      BY <1>1, <1>2, <2>2, <2>3, <3>2, Zenon DEF Sound
  <2> QED
    BY <1>1, <1>2, <1>3, <1>5, <2>2, <2>3, <2>4, <2>5, Zenon DEF Appended, k
<1> QED
  BY <1>4, <1>5

LEMMA AppendAppended ==
    ASSUME NEW d, Sound(d), NEW data, Len(data) \in Nat
    PROVE  Appended(d, _bson_append(d, data), Len(data))
<1> DEFINE c == [d EXCEPT !.ok = TRUE]
           e == _bson_append(d, data)
<1>1. Sound(c) /\ c.ok /\ c.frames = d.frames /\ c.inline = d.inline
  BY OkSet, Zenon
<1> HIDE DEF c
<1>2. Top(c) = Top(d)
  BY <1>1, Zenon DEF Top
<1>3. CASE Len(data) > MaxSize - Top(d).len
  <2>1. e = Fail(d)
    BY <1>3, Zenon DEF _bson_append
  <2> HIDE DEF e
  <2>2. Sound(e) /\ e.frames = d.frames /\ e.ok = FALSE /\ Shaped(e) /\ Chained(e.frames)
    BY <2>1, FailSound, Zenon DEF Sound
  <2>3. e.inline = d.inline
    BY <2>1, Zenon DEF Fail, Sound, Shaped, Record
  <2> QED
    BY <2>2, <2>3, Zenon DEF Appended, e
<1>4. CASE ~(Len(data) > MaxSize - Top(d).len)
  <2>1. e = _bson_append_va(c, data)
    BY <1>4, Zenon DEF _bson_append, c
  <2> HIDE DEF e
  <2>2. Appended(c, e, Len(data))
    BY <1>1, <2>1, VaAppended, Zenon
  <2> QED
    BY <1>1, <1>2, <2>2, Zenon DEF Appended, e
<1> QED
  BY <1>3, <1>4

-----------------------------------------------------------------------------
(* What is appended has a length, whatever its bytes are. *)

IsString(s) == \E S : s \in Seq(S)

LEMMA StringLength == ASSUME NEW s, IsString(s) PROVE Len(s) \in Nat
BY DEF IsString

LEMMA Concatenated ==
    ASSUME NEW s, NEW t, IsString(s), IsString(t)
    PROVE  IsString(s \o t) /\ Len(s \o t) = Len(s) + Len(t)
<1>1. PICK S : s \in Seq(S)
  BY DEF IsString
<1>2. PICK T : t \in Seq(T)
  BY DEF IsString
<1> DEFINE U == S \cup T
<1>3. s \in Seq(U) /\ t \in Seq(U)
  BY <1>1, <1>2
<1> HIDE DEF U
<1>4. s \o t \in Seq(U) /\ Len(s \o t) = Len(s) + Len(t)
  BY <1>3
<1> QED
  BY <1>4, Zenon DEF IsString

LEMMA DataString == ASSUME NEW s \in Data PROVE IsString(s)
BY Zenon DEF Data, IsString

LEMMA OneByte == ASSUME NEW x PROVE IsString(<<x>>) /\ Len(<<x>>) = 1
<1>1. <<x>> \in Seq({x}) /\ Len(<<x>>) = 1
  OBVIOUS
<1> QED
  BY <1>1, Zenon DEF IsString

LEMMA EmptyString == IsString(EmptyDocument) /\ Len(EmptyDocument) = 5
<1>1. EmptyDocument \in Seq(Int) /\ Len(EmptyDocument) = 5
  BY DEF EmptyDocument
<1> QED
  BY <1>1, Zenon DEF IsString

LEMMA NumberString == ASSUME NEW v, NEW n \in Nat PROVE IsString(LE(v, n))
<1> DEFINE e(i) == IF i <= 4 THEN (v \div Scale[i]) % 256 ELSE IF v < 0 THEN 255 ELSE 0
           S == {e(i) : i \in 1..n}
<1>1. LE(v, n) = [i \in 1..n |-> e(i)]
  BY Zenon DEF LE
<1> HIDE DEF e
<1>2. [i \in 1..n |-> e(i)] \in Seq(S)
  <2>1. \A i \in 1..n : e(i) \in S
    BY Zenon
  <2> HIDE DEF S
  <2>2. [i \in 1..n |-> e(i)] \in [1..n -> S]
    BY <2>1, Zenon
  <2> QED
    BY <2>2, SeqDef, Zenon
<1> QED
  BY <1>1, <1>2, Zenon DEF IsString

LEMMA FieldString ==
    ASSUME NEW type, NEW key \in Data
    PROVE  IsString(Field(type, key)) /\ Len(Field(type, key)) \in Nat /\ Len(Field(type, key)) >= 2
<1>1. IsString(<<type>> \o key) /\ Len(<<type>> \o key) = 1 + Len(key)
  BY OneByte, DataString, Concatenated, Zenon
<1>2. IsString(<<type>> \o key \o <<0>>) /\ Len(<<type>> \o key \o <<0>>) = (1 + Len(key)) + 1
  <2> DEFINE s == <<type>> \o key
             t == <<0>>
  <2>1. IsString(s) /\ Len(s) = 1 + Len(key) /\ IsString(t) /\ Len(t) = 1
    BY <1>1, OneByte
  <2> HIDE DEF s, t
  <2>2. IsString(s \o t) /\ Len(s \o t) = (1 + Len(key)) + 1
    BY <2>1, Concatenated, Zenon
  <2> QED
    BY <2>2, Zenon DEF s, t
<1>3. Len(key) \in Nat
  BY DataString, StringLength
<1>4. Field(type, key) = <<type>> \o key \o <<0>>
  BY Zenon DEF Field
<1> DEFINE f == Field(type, key)
           k == Len(f)
<1>5. IsString(f) /\ k = (1 + Len(key)) + 1
  BY <1>2, <1>4, Zenon
<1> HIDE DEF k
<1>6. k \in Nat /\ k >= 2
  BY <1>3, <1>5
<1> QED
  BY <1>5, <1>6 DEF k

-----------------------------------------------------------------------------
(* Children *)

LEMMA FramesReplaced ==
    ASSUME NEW d, Shaped(d), NEW fs
    PROVE  LET e == [d EXCEPT !.frames = fs]
           IN  Shaped(e) /\ e.frames = fs /\ e.ok = d.ok /\ e.inline = d.inline /\ e.cap = d.cap
<1> DEFINE e == [d EXCEPT !.frames = fs]
<1>1. e = Record(d.buf, d.cap, d.inline, d.realloc, fs, d.ok)
  BY SetFrames
<1> HIDE DEF e
<1>2. Shaped(e) /\ e.frames = fs /\ e.ok = d.ok /\ e.inline = d.inline /\ e.cap = d.cap
  BY <1>1, Parts
<1> QED
  BY <1>2, Zenon DEF e

LEMMA OutOfLineSound ==
    ASSUME NEW d, Sound(d)
    PROVE  LET e == OutOfLine(d) IN Sound(e) /\ ~e.inline /\ e.frames = d.frames
<1>1. CASE ~d.inline
  BY <1>1, Zenon DEF OutOfLine
<1>2. CASE d.inline
  <2> DEFINE size == InlineSize + 8 - Top(d).len
             e == _bson_impl_inline_grow(d, size)
  <2>1. Top(d).len <= InlineSize /\ Top(d).len \in Nat /\ InlineSize \in Nat /\ InlineSize <= Biggest - 8
    <3>1. InlineSize \in Nat /\ InlineSize <= Biggest - 8
      <4>1. InlineSize \in 5..(Biggest - 8)
        BY BsonAssumption, Zenon
      <4>2. Biggest \in Nat
        BY SMT DEF Biggest
      <4> QED
        BY ONLY <4>1, <4>2, SMT
    <3>2. Top(d).len <= InlineSize
      BY <1>2, Zenon DEF Sound, Fits, Top
    <3> QED
      BY <3>1, <3>2, TopFrame
  <2>2. size \in Nat /\ Top(d).len + size <= Biggest /\ Top(d).len + size > InlineSize
    BY <2>1, SMT DEF Biggest
  <2>3. OutOfLine(d) = e
    BY <1>2, Zenon DEF OutOfLine, _bson_grow
  <2> HIDE DEF size
  <2>4. Sound(e) /\ e.frames = d.frames /\ ~e.inline
    BY <1>2, <2>2, InlineGrown, Zenon
  <2> QED
    BY <2>3, <2>4, Zenon
<1> QED
  BY <1>1, <1>2

LEMMA OpenedSound ==
    ASSUME NEW d, Sound(d), NEW key \in Data, NEW type,
           InReach(_bson_append_bson_begin(d, key, type))
    PROVE  Sound(_bson_append_bson_begin(d, key, type))
<1> DEFINE o == OutOfLine(d)
           data == Field(type, key) \o EmptyDocument
           a == _bson_append(o, data)
           e == Opened(a)
<1>1. Sound(o) /\ ~o.inline
  BY OutOfLineSound, Zenon
<1>2. Len(data) \in Nat /\ Len(data) >= 1
  <2> DEFINE f == Field(type, key)
  <2>1. IsString(f) /\ Len(f) \in Nat
    BY FieldString
  <2> HIDE DEF f
  <2>2. Len(f \o EmptyDocument) = Len(f) + Len(EmptyDocument)
    BY <2>1, EmptyString, Concatenated, Zenon
  <2>3. Len(f) + Len(EmptyDocument) \in Nat /\ Len(f) + Len(EmptyDocument) >= 1
    BY <2>1, EmptyString
  <2> QED
    BY <2>2, <2>3, Zenon DEF f
<1>3. _bson_append_bson_begin(d, key, type) = e
  BY Zenon DEF _bson_append_bson_begin
<1> HIDE DEF o, data
<1>4. Appended(o, a, Len(data))
  BY <1>1, <1>2, AppendAppended, Zenon
<1> HIDE DEF a
<1>5. CASE ~a.ok
  BY <1>3, <1>4, <1>5, Zenon DEF Appended, Opened
<1>6. CASE a.ok
  <2> DEFINE fs == a.frames
             n == Len(fs)
             g == Frame(fs[n].offset + fs[n].len - 1 - 5, fs[n].depth + 1)
             gs == Append(fs, g)
  <2>1. e = [a EXCEPT !.frames = gs]
    BY <1>6, Zenon DEF Opened, Top
  <2>2. Shaped(a) /\ Chained(fs) /\ ~a.inline /\ a.ok \in BOOLEAN
    BY <1>1, <1>4, Zenon DEF Appended
  <2>3. Shaped(e) /\ e.frames = gs /\ e.ok = a.ok /\ e.inline = a.inline /\ e.cap = a.cap
    <3> HIDE DEF gs, e
    <3> QED
      BY <2>1, <2>2, FramesReplaced, Zenon
  <2>4. fs[n].len >= 6
    <3>1. Top(a).len = Top(o).len + Len(data) /\ Top(a) = fs[n]
      BY <1>4, <1>6, Zenon DEF Appended, Top
    <3>2. Top(o).len \in Nat /\ Top(o).len >= 5
      BY <1>1, TopFrame
    <3> DEFINE k == Len(data)
    <3>3. k \in Nat /\ k >= 1 /\ fs[n].len = Top(o).len + k
      BY <1>2, <3>1
    <3> HIDE DEF k, fs, n
    <3> QED
      BY <3>2, <3>3
  <2>5. Chained(gs) /\ Len(gs) = n + 1 /\ gs[Len(gs)] = g /\ Reach(g) = Reach(fs[n])
    BY <2>2, <2>4, OpenedChain, Zenon
  <2> HIDE DEF gs, g, e
  <2>6. Top(e) = g /\ Top(a) = fs[n]
    BY <2>3, <2>5, Zenon DEF Top
  <2>7. Reach(Top(a)) <= Biggest
    BY <1>3, <2>5, <2>6, Zenon DEF InReach, Reach
  <2>8. Sound(a)
    BY <1>4, <2>7, Zenon DEF Appended
  <2>9. Fits(e.inline, e.cap, e.frames)
    BY <2>2, <2>3, <2>5, <2>8, Zenon DEF Fits, Sound
  <2>10. Sound(e)
    BY <2>2, <2>3, <2>5, <2>9, Zenon DEF Sound
  <2> QED
    BY <1>3, <2>10, Zenon DEF e
<1> QED
  BY <1>5, <1>6

LEMMA ClosedSound ==
    ASSUME NEW d, Sound(d), Len(d.frames) > 1
    PROVE  Sound(_bson_append_bson_end(d))
<1> DEFINE n == Len(d.frames) - 1
           fs == ClosedFrames(d.frames)
           t == Taken(d, n)
           u == Ended(t)
           e == Lengthened(u)
<1>1. /\ Chained(fs) /\ Len(fs) = n
      /\ Reach(fs[n]) = Reach(d.frames[n + 1])
  <2>1. Chained(d.frames) /\ Len(d.frames) \in Nat
    BY TopFrame, Zenon DEF Sound
  <2>2. n + 1 = Len(d.frames)
    BY <2>1
  <2> QED
    BY <2>1, <2>2, ClosedChain, Zenon
<1>2. n + 1 = Len(d.frames) /\ Top(d) = d.frames[n + 1]
  BY TopFrame, TopIsLast
<1>3. ~d.inline /\ d.inline \in BOOLEAN /\ Shaped(d) /\ Reach(Top(d)) <= d.cap /\ d.cap \in Nat
  <2>1. d.inline => Len(d.frames) = 1
    BY Zenon DEF Sound, Fits
  <2>2. ~d.inline
    BY <2>1, TopFrame
  <2> QED
    BY <2>2, Zenon DEF Sound, Fits, Top
<1>4. t = [d EXCEPT !.frames = fs, !.ok = TRUE]
  BY Zenon DEF Taken, ClosedFrames, FirstLonger, Longer, Top
<1> HIDE DEF fs, n, t
<1>5. Shaped(t) /\ t.frames = fs /\ t.ok = TRUE /\ t.inline = d.inline /\ t.cap = d.cap
  <2> DEFINE yes == TRUE
             h == [d EXCEPT !.frames = fs, !.ok = yes]
  <2> HIDE DEF yes
  <2>1. h = Record(d.buf, d.cap, d.inline, d.realloc, fs, yes)
    BY <1>3, SetFramesOk, Zenon
  <2> HIDE DEF h
  <2>2. Shaped(h) /\ h.frames = fs /\ h.ok = yes /\ h.inline = d.inline /\ h.cap = d.cap
    BY ONLY <2>1, Parts
  <2>3. t = h
    BY <1>4 DEF h, yes
  <2> QED
    BY <2>2, <2>3, Zenon DEF yes
<1>6. Shaped(u) /\ u.frames = fs /\ u.ok = TRUE /\ u.inline = d.inline /\ u.cap = d.cap
  <2> DEFINE buf == Overwrite(t.buf, Top(t).offset + Top(t).len - 1, <<0>>)
             h == [t EXCEPT !.buf = buf]
  <2>1. u = h
    BY Zenon DEF Ended
  <2> HIDE DEF buf
  <2>2. h = Record(buf, t.cap, t.inline, t.realloc, t.frames, t.ok)
    BY <1>5, SetBuf
  <2> HIDE DEF h, u
  <2>3. Shaped(h) /\ h.frames = t.frames /\ h.ok = t.ok /\ h.inline = t.inline /\ h.cap = t.cap
    BY ONLY <2>2, Parts
  <2> QED
    BY <1>5, <2>1, <2>3, Zenon
<1> HIDE DEF u
<1>7. Shaped(e) /\ e.frames = fs /\ e.ok = TRUE /\ e.inline = d.inline /\ e.cap = d.cap
  BY <1>6, LengthenedKeeps, Zenon
<1> HIDE DEF e
<1>8. Fits(e.inline, e.cap, e.frames)
  BY <1>1, <1>2, <1>3, <1>7, Zenon DEF Fits
<1>9. Sound(e)
  BY <1>1, <1>7, <1>8, Zenon DEF Sound
<1>10. _bson_append_bson_end(d) = e
  BY Zenon DEF _bson_append_bson_end, e, u, t, n
<1> QED
  BY <1>9, <1>10, Zenon

-----------------------------------------------------------------------------
(* The append functions *)

LEMMA HasLeast == ASSUME NEW T, T \subseteq Nat, T # {} PROVE \E d \in T : \A j \in T : d <= j
<1>1. PICK d \in T : \A j \in T : ~(<<j, d>> \in OpToRel(<, Nat))
  BY NatLessThanWellFounded, WFMin
<1>2. ASSUME NEW j \in T PROVE d <= j
  <2>1. ~(j < d) /\ j \in Nat /\ d \in Nat
    BY <1>1 DEF OpToRel
  <2> QED
    BY <2>1
<1> QED
  BY <1>2

LEMMA CStringString == ASSUME NEW s \in Data PROVE IsString(CString(s))
<1> DEFINE k == Len(s)
           Ends(n) == (\A i \in 1..n : s[i] # 0) /\ (n = k \/ s[n + 1] = 0)
           c == CHOOSE n \in 0..k : Ends(n)
<1>1. k \in Nat /\ s \in Seq(Int)
  BY DEF Data
<1>2. \E n \in 0..k : Ends(n)
  <2> DEFINE T == {i \in 1..k : s[i] = 0}
  <2>1. CASE T = {}
    <3>1. \A i \in 1..k : s[i] # 0
      BY <2>1
    <3>2. k \in 0..k
      BY <1>1
    <3> QED
      BY <3>1, <3>2, Zenon
  <2>2. CASE T # {}
    <3>0. T \subseteq Nat
      BY <1>1
    <3>1. PICK d \in T : \A j \in T : d <= j
      <4> HIDE DEF T
      <4> QED
        BY <2>2, <3>0, HasLeast, Zenon
    <3>2. d \in 1..k /\ s[d] = 0
      OBVIOUS
    <3>3. \A i \in 1..(d - 1) : s[i] # 0
      BY <1>1, <3>1, <3>2
    <3>4. d - 1 \in 0..k /\ (d - 1) + 1 = d
      BY <1>1, <3>2
    <3>5. Ends(d - 1)
      BY <3>2, <3>3, <3>4
    <3> QED
      BY <3>4, <3>5
  <2> QED
    BY <2>1, <2>2
<1> HIDE DEF k, Ends
<1>3. c \in 0..k
  BY <1>2, Zenon
<1>4. CString(s) = SubSeq(s, 1, c)
  BY Zenon DEF CString, c, Ends, k
<1> HIDE DEF c
<1>5. SubSeq(s, 1, c) \in Seq(Int)
  <2>1. k = Len(s)
    BY DEF k
  <2> QED
    BY <1>1, <1>3, <2>1
<1> QED
  BY <1>4, <1>5, Zenon DEF IsString

LEMMA Joined == ASSUME NEW s, NEW t, IsString(s), IsString(t) PROVE IsString(s \o t)
BY Concatenated, Zenon

LEMMA Number8 == ASSUME NEW v PROVE IsString(LE(v, 8))
BY NumberString

LEMMA Number4 == ASSUME NEW v PROVE IsString(LE(v, 4))
BY NumberString

LEMMA LengthyString == ASSUME NEW s, IsString(s) PROVE IsString(Lengthy(s))
BY Number4, OneByte, Joined, Zenon DEF Lengthy

LEMMA PrecededString == ASSUME NEW s, IsString(s) PROVE IsString(Preceded(s))
BY Number4, Joined, Zenon DEF Preceded

(* What a call that appends may make of d *)
Adds(d, e) ==
    \/ e = Fail(d)
    \/ e = [d EXCEPT !.ok = TRUE]
    \/ \E data : IsString(data) /\ e = _bson_append(d, data)

LEMMA AppendAdds ==
    ASSUME NEW d, NEW data, IsString(data)
    PROVE  Adds(d, _bson_append(d, data))
BY Zenon DEF Adds

LEMMA FieldAdds ==
    ASSUME NEW d, NEW key \in Data, NEW type, NEW data, IsString(data)
    PROVE  Adds(d, _bson_append(d, Field(type, key) \o data))
BY AppendAdds, FieldString, Joined, Zenon

LEMMA EmptyFieldAdds ==
    ASSUME NEW d, NEW key \in Data, NEW type
    PROVE  Adds(d, _bson_append(d, Field(type, key)))
BY AppendAdds, FieldString, Zenon

LEMMA FailAdds == ASSUME NEW d PROVE Adds(d, Fail(d))
BY Zenon DEF Adds

(* It is sound unless it became longer than the model's lengths go. *)
LEMMA AddsSound ==
    ASSUME NEW d, Sound(d), NEW e, Adds(d, e), InReach(e)
    PROVE  Sound(e)
<1>1. CASE e = Fail(d)
  BY <1>1, FailSound, Zenon
<1>2. CASE e = [d EXCEPT !.ok = TRUE]
  BY <1>2, OkSet, Zenon
<1>3. ASSUME NEW data, IsString(data), e = _bson_append(d, data) PROVE Sound(e)
  <2>1. Appended(d, e, Len(data))
    BY <1>3, AppendAppended, StringLength, Zenon
  <2> QED
    BY <2>1, Zenon DEF Appended, InReach, Reach
<1> QED
  BY <1>1, <1>2, <1>3, Zenon DEF Adds

(* What the program appends: _bson_append of a string, or nothing *)
LEMMA PutAdds ==
    ASSUME NEW d, NEW key \in Data, NEW v \in Values
    PROVE  Adds(d, Put(d, key, v))
<1>1. IsString(v.a) /\ IsString(v.b) /\ IsString(CString(v.a)) /\ IsString(CString(v.b))
  <2>1. v.a \in Data /\ v.b \in Data
    BY DEF Values
  <2> QED
    BY <2>1, DataString, CStringString, Zenon
<1>2. Adds(d, bson_append_double(d, key, v.a[1]))
  BY FieldAdds, Number8, Zenon DEF bson_append_double
<1>3. Adds(d, bson_append_utf8(d, key, v.a)) /\ Adds(d, bson_append_symbol(d, key, v.a))
  BY <1>1, FieldAdds, LengthyString, Zenon DEF bson_append_utf8, bson_append_symbol
<1>4. Adds(d, bson_append_document(d, key, v.a)) /\ Adds(d, bson_append_array(d, key, v.a))
  BY <1>1, FieldAdds, Zenon DEF bson_append_document, bson_append_array
<1>5. Adds(d, bson_append_binary(d, key, v.b[1], v.a))
  <2> DEFINE m == v.b[1]
             n == Len(v.a)
  <2>1. IsString(LE(n, 4) \o <<m>> \o v.a)
    BY <1>1, Number4, OneByte, Joined, Zenon
  <2>2. IsString(LE(n + 4, 4) \o <<m>> \o LE(n, 4) \o v.a)
    BY <1>1, Number4, OneByte, Joined, Zenon
  <2>3. CASE m = BSON_SUBTYPE_BINARY_DEPRECATED
    BY <2>2, <2>3, FieldAdds, Zenon DEF bson_append_binary
  <2>4. CASE m # BSON_SUBTYPE_BINARY_DEPRECATED
    BY <2>1, <2>4, FieldAdds, Zenon DEF bson_append_binary
  <2> QED
    BY <2>3, <2>4
<1>6. /\ Adds(d, bson_append_undefined(d, key)) /\ Adds(d, bson_append_null(d, key))
      /\ Adds(d, bson_append_maxkey(d, key)) /\ Adds(d, bson_append_minkey(d, key))
  BY EmptyFieldAdds, Zenon
  DEF bson_append_undefined, bson_append_null, bson_append_maxkey, bson_append_minkey
<1>7. Adds(d, bson_append_oid(d, key, v.a))
  BY <1>1, FieldAdds, Zenon DEF bson_append_oid
<1>8. Adds(d, bson_append_bool(d, key, v.a[1]))
  BY OneByte, FieldAdds, Zenon DEF bson_append_bool
<1>9. Adds(d, bson_append_time_t(d, key, v.a[1]))
  <2> DEFINE ms == v.a[1] * 1000 + 0 \div 1000
  <2>1. bson_append_time_t(d, key, v.a[1])
        = IF ms = 0 THEN Fail(d) ELSE _bson_append(d, Field(BSON_TYPE_DATE_TIME, key) \o LE(ms, 8))
    BY Zenon DEF bson_append_time_t, bson_append_timeval, bson_append_date_time
  <2> HIDE DEF ms
  <2>2. Adds(d, Fail(d)) /\ Adds(d, _bson_append(d, Field(BSON_TYPE_DATE_TIME, key) \o LE(ms, 8)))
    BY FailAdds, FieldAdds, Number8, Zenon
  <2> QED
    BY <2>1, <2>2, Zenon
<1>10. Adds(d, bson_append_regex(d, key, v.a, v.b))
  <2> DEFINE s == CString(v.a)
             t == CString(v.b)
             f == Field(BSON_TYPE_REGEX, key)
  <2>1. IsString(f \o s \o <<0>> \o t \o <<0>>)
    BY <1>1, FieldString, OneByte, Joined, Zenon
  <2> QED
    BY <2>1, AppendAdds, Zenon DEF bson_append_regex
<1>11. Adds(d, bson_append_dbpointer(d, key, v.a, v.b))
  <2> DEFINE s == Lengthy(CString(v.a))
             f == Field(BSON_TYPE_DBPOINTER, key)
  <2>1. IsString(f \o s \o v.b)
    BY <1>1, FieldString, LengthyString, Joined, Zenon
  <2> QED
    BY <2>1, AppendAdds, Zenon DEF bson_append_dbpointer
<1>12. Adds(d, bson_append_code(d, key, v.a))
  BY <1>1, FieldAdds, LengthyString, Zenon DEF bson_append_code
<1>13. Adds(d, bson_append_code_with_scope(d, key, v.a, v.b))
  <2> DEFINE s == Preceded(Lengthy(CString(v.a)) \o v.b)
  <2>1. IsString(s)
    BY <1>1, LengthyString, PrecededString, Joined, Zenon
  <2>2. CASE bson_empty(v.b)
    BY <1>12, <2>2, Zenon DEF bson_append_code_with_scope
  <2>3. CASE ~bson_empty(v.b)
    BY <2>1, <2>3, FieldAdds, Zenon DEF bson_append_code_with_scope
  <2> QED
    BY <2>2, <2>3
<1>14. Adds(d, bson_append_int32(d, key, v.a[1])) /\ Adds(d, bson_append_int64(d, key, v.a[1]))
  BY FieldAdds, Number4, Number8, Zenon DEF bson_append_int32, bson_append_int64
<1>15. Adds(d, bson_append_timestamp(d, key, v.a[1], v.a[2]))
  <2> DEFINE s == LE(v.a[2], 4)
             t == LE(v.a[1], 4)
             f == Field(BSON_TYPE_TIMESTAMP, key)
  <2>1. IsString(f \o s \o t)
    BY FieldString, Number4, Joined, Zenon
  <2> QED
    BY <2>1, AppendAdds, Zenon DEF bson_append_timestamp
<1>16. v.type \in FieldTypes
  BY DEF Values
<1>17. \/ v.type = BSON_TYPE_DOUBLE \/ v.type = BSON_TYPE_UTF8 \/ v.type = BSON_TYPE_DOCUMENT
       \/ v.type = BSON_TYPE_ARRAY \/ v.type = BSON_TYPE_BINARY \/ v.type = BSON_TYPE_UNDEFINED
       \/ v.type = BSON_TYPE_OID \/ v.type = BSON_TYPE_BOOL \/ v.type = BSON_TYPE_DATE_TIME
       \/ v.type = BSON_TYPE_NULL \/ v.type = BSON_TYPE_REGEX \/ v.type = BSON_TYPE_DBPOINTER
       \/ v.type = BSON_TYPE_CODE \/ v.type = BSON_TYPE_SYMBOL \/ v.type = BSON_TYPE_CODEWSCOPE
       \/ v.type = BSON_TYPE_INT32 \/ v.type = BSON_TYPE_TIMESTAMP \/ v.type = BSON_TYPE_INT64
       \/ v.type = BSON_TYPE_MAXKEY \/ v.type = BSON_TYPE_MINKEY
  BY <1>16, SMT
  DEF FieldTypes, BSON_TYPE_DOUBLE, BSON_TYPE_UTF8, BSON_TYPE_DOCUMENT, BSON_TYPE_ARRAY,
      BSON_TYPE_BINARY, BSON_TYPE_UNDEFINED, BSON_TYPE_OID, BSON_TYPE_BOOL, BSON_TYPE_DATE_TIME,
      BSON_TYPE_NULL, BSON_TYPE_REGEX, BSON_TYPE_DBPOINTER, BSON_TYPE_CODE, BSON_TYPE_SYMBOL,
      BSON_TYPE_CODEWSCOPE, BSON_TYPE_INT32, BSON_TYPE_TIMESTAMP, BSON_TYPE_INT64,
      BSON_TYPE_MAXKEY, BSON_TYPE_MINKEY
<1> QED
  BY <1>2, <1>3, <1>4, <1>5, <1>6, <1>7, <1>8, <1>9, <1>10, <1>11, <1>12, <1>13, <1>14, <1>15, <1>17,
     Zenon DEF Put

LEMMA ConcatAdds == ASSUME NEW d, NEW src \in Documents PROVE Adds(d, bson_concat(d, src))
<1>1. CASE bson_empty(src)
  <2>1. bson_concat(d, src) = [d EXCEPT !.ok = TRUE]
    BY <1>1, Zenon DEF bson_concat
  <2> QED
    BY <2>1, Zenon DEF Adds
<1>2. CASE ~bson_empty(src)
  <2> DEFINE n == Len(src) - 5
             data == Bytes(src, 4, n)
  <2>1. data \in Seq(Int)
    <3>1. src \in Seq(Int) /\ n \in Nat /\ n + 5 = Len(src)
      BY DEF Documents, Data, bson_init_static
    <3> HIDE DEF n
    <3>2. SubSeq(src, 4 + 1, 4 + n) \in Seq(Int)
      BY <3>1
    <3> QED
      BY <3>2, Zenon DEF Bytes
  <2> HIDE DEF data
  <2>2. Adds(d, _bson_append(d, data))
    BY <2>1, AppendAdds, Zenon DEF IsString
  <2> QED
    BY <1>2, <2>2, Zenon DEF bson_concat, data, n
<1> QED
  BY <1>1, <1>2

-----------------------------------------------------------------------------
(* How a bson_t starts *)

LEMMA OneFrame ==
    ASSUME NEW f \in Frames, f.depth = 0, f.len >= 5
    PROVE  Chained(<<f>>) /\ Len(<<f>>) = 1 /\ <<f>>[1] = f
<1>1. <<f>> \in Seq(Frames) /\ Len(<<f>>) = 1 /\ <<f>>[1] = f
  OBVIOUS
<1> DEFINE fs == <<f>>
<1> HIDE DEF fs
<1>2. Chained(fs)
  BY <1>1 DEF Chained, fs
<1> QED
  BY <1>1, <1>2 DEF fs

LEMMA StartSound ==
    ASSUME NEW buf, NEW cap \in Nat, NEW inline \in BOOLEAN, NEW realloc, NEW f \in Frames, f.depth = 0, f.len >= 5,
           inline => f.offset = 0 /\ f.len <= InlineSize,
           ~inline => f.offset + f.len <= cap,
           NEW ok \in BOOLEAN
    PROVE  Sound(Record(buf, cap, inline, realloc, <<f>>, ok))
<1> DEFINE d == Record(buf, cap, inline, realloc, <<f>>, ok)
           fs == <<f>>
<1>1. Chained(fs) /\ Len(fs) = 1 /\ fs[1] = f
  BY OneFrame
<1> HIDE DEF fs
<1>2. /\ Shaped(d) /\ d.cap = cap /\ d.inline = inline /\ d.frames = fs /\ d.ok = ok
  <2>1. d = Record(buf, cap, inline, realloc, fs, ok)
    BY Zenon DEF fs
  <2> HIDE DEF d
  <2> QED
    BY ONLY <2>1, Parts
<1>3. Reach(f) = f.offset + f.len
  BY DEF Reach, Frames
<1>4. Fits(inline, cap, fs)
  BY <1>1, <1>3, Zenon DEF Fits
<1> HIDE DEF d
<1>5. Sound(d)
  BY <1>1, <1>2, <1>4, Zenon DEF Sound
<1> QED
  BY <1>5 DEF d

LEMMA FrameType ==
    ASSUME NEW offset \in Nat, NEW depth \in Nat
    PROVE  LET f == Frame(offset, depth)
           IN  f \in Frames /\ f.offset = offset /\ f.len = 5 /\ f.depth = depth
BY DEF Frame, Frames

LEMMA InitSound == Sound(bson_init)
<1> DEFINE f == Frame(0, 0)
<1>1. f \in Frames /\ f.offset = 0 /\ f.len = 5 /\ f.depth = 0
  BY FrameType
<1> HIDE DEF f
<1>2. InlineSize \in Nat /\ 5 <= InlineSize
  <2>1. InlineSize \in 5..(Biggest - 8)
    BY BsonAssumption, Zenon
  <2>2. Biggest \in Nat
    BY SMT DEF Biggest
  <2> QED
    BY ONLY <2>1, <2>2, SMT
<1>3. f.offset = 0 /\ f.len <= InlineSize /\ f.len >= 5
  BY <1>1, <1>2
<1>4. Sound(Record(EmptyDocument, InlineSize, TRUE, TRUE, <<f>>, TRUE))
  BY <1>1, <1>2, <1>3, StartSound, Zenon
<1> QED
  BY <1>4, Zenon DEF bson_init, Record, f

LEMMA CopiedRecord ==
    ASSUME NEW s, Shaped(s), s.frames = <<Frame(0, 0)>>, NEW doc, NEW n
    PROVE  [s EXCEPT !.buf = doc, !.frames[1].len = n]
           = Record(doc, s.cap, s.inline, s.realloc, <<[offset |-> 0, len |-> n, depth |-> 0]>>, s.ok)
<1> DEFINE f == [offset |-> 0, len |-> n, depth |-> 0]
           c == [s EXCEPT !.buf = doc]
<1>1. c = Record(doc, s.cap, s.inline, s.realloc, s.frames, s.ok)
  BY SetBuf
<1>2. /\ Shaped(c) /\ c.buf = doc /\ c.cap = s.cap /\ c.inline = s.inline /\ c.realloc = s.realloc
      /\ c.frames = s.frames /\ c.ok = s.ok
  <2> HIDE DEF c
  <2> QED
    BY ONLY <1>1, Parts
<1>3. [c.frames EXCEPT ![1] = [c.frames[1] EXCEPT !.len = n]] = <<f>>
  <2>1. [<<Frame(0, 0)>> EXCEPT ![1] = f] = <<f>>
    OBVIOUS
  <2>2. [<<Frame(0, 0)>>[1] EXCEPT !.len = n] = f
    BY DEF Frame
  <2>3. c.frames = <<Frame(0, 0)>>
    BY <1>2
  <2> HIDE DEF c, f
  <2> QED
    BY <2>1, <2>2, <2>3, Zenon
<1> HIDE DEF c, f
<1>4. [c EXCEPT !.frames[1].len = n]
      = Record(c.buf, c.cap, c.inline, c.realloc, [c.frames EXCEPT ![1] = [c.frames[1] EXCEPT !.len = n]], c.ok)
  BY <1>2, SetFrames, Zenon
<1>5. [c EXCEPT !.frames[1].len = n] = Record(doc, s.cap, s.inline, s.realloc, <<f>>, s.ok)
  BY <1>2, <1>3, <1>4, Zenon
<1> QED
  BY <1>5, Zenon DEF c, f

LEMMA CopiedSound ==
    ASSUME NEW s, Shaped(s), s.frames = <<Frame(0, 0)>>, s.ok = TRUE, s.cap \in Nat, s.inline \in BOOLEAN,
           NEW doc, NEW n \in Nat, n >= 5,
           s.inline => n <= InlineSize,
           ~s.inline => n <= s.cap
    PROVE  Sound([s EXCEPT !.buf = doc, !.frames[1].len = n])
<1> DEFINE f == [offset |-> 0, len |-> n, depth |-> 0]
           e == [s EXCEPT !.buf = doc, !.frames[1].len = n]
<1>1. f \in Frames /\ f.offset = 0 /\ f.len = n /\ f.depth = 0 /\ f.offset + f.len = n
  BY DEF Frames
<1>2. e = Record(doc, s.cap, s.inline, s.realloc, <<f>>, s.ok)
  BY CopiedRecord, Zenon
<1> HIDE DEF e, f
<1>3. Sound(Record(doc, s.cap, s.inline, s.realloc, <<f>>, s.ok))
  BY <1>1, StartSound, Zenon
<1> QED
  BY <1>2, <1>3, Zenon DEF e

LEMMA CopySound == ASSUME NEW doc \in Documents PROVE Sound(bson_copy(doc))
<1> DEFINE n == Len(doc)
<1>1. n \in Nat /\ n >= 5
  BY DEF Documents, Data, bson_init_static
<1> HIDE DEF n
<1>2. InlineSize \in Nat
  BY BsonAssumption
<1>3. CASE n <= InlineSize
  <2>1. bson_copy(doc) = [bson_init EXCEPT !.buf = doc, !.frames[1].len = n]
    BY <1>3, Zenon DEF bson_copy, bson_sized_new, n
  <2>2. SUFFICES ASSUME NEW s, s = bson_init
                 PROVE  Sound([s EXCEPT !.buf = doc, !.frames[1].len = n])
    BY <2>1, Zenon
  <2>3. /\ Shaped(s) /\ s.cap = InlineSize /\ s.inline = TRUE
        /\ s.frames = <<Frame(0, 0)>> /\ s.ok = TRUE
    BY <2>2, Zenon DEF bson_init, Shaped, Record
  <2> QED
    BY <1>1, <1>2, <1>3, <2>3, CopiedSound, Zenon
<1>4. CASE ~(n <= InlineSize)
  <2>1. bson_copy(doc)
        = [[bson_init EXCEPT !.inline = FALSE, !.cap = n] EXCEPT !.buf = doc, !.frames[1].len = n]
    BY <1>4, Zenon DEF bson_copy, bson_sized_new, n
  <2>2. SUFFICES ASSUME NEW s, s = [bson_init EXCEPT !.inline = FALSE, !.cap = n]
                 PROVE  Sound([s EXCEPT !.buf = doc, !.frames[1].len = n])
    BY <2>1, Zenon
  <2>3. s = Record(EmptyDocument, n, FALSE, TRUE, <<Frame(0, 0)>>, TRUE)
    BY <2>2, Zenon DEF bson_init, Record
  <2>4. Shaped(s) /\ s.cap = n /\ s.inline = FALSE /\ s.frames = <<Frame(0, 0)>> /\ s.ok = TRUE
    BY <2>3, Zenon DEF Shaped, Record
  <2>5. n <= s.cap
    BY <1>1, <2>4
  <2> QED
    BY <1>1, <2>4, <2>5, CopiedSound, Zenon
<1> QED
  BY <1>3, <1>4

LEMMA AgainSound == ASSUME NEW d, Sound(d), Len(d.frames) = 1 PROVE Sound(bson_reinit(d))
<1> DEFINE g == d.frames[1]
           f == Frame(g.offset, 0)
           buf == Overwrite(d.buf, g.offset, EmptyDocument)
           e == [d EXCEPT !.buf = buf, !.frames = <<f>>]
<1>1. g = Top(d) /\ g.offset \in Nat /\ g.len \in Nat /\ g.len >= 5 /\ Reach(Top(d)) = g.offset + g.len
  <2>1. g = Top(d)
    BY Zenon DEF Top
  <2> QED
    BY <2>1, TopFrame
<1>2. f \in Frames /\ f.offset = g.offset /\ f.len = 5 /\ f.depth = 0
  BY <1>1, FrameType
<1>3. bson_reinit(d) = e
  BY Zenon DEF bson_reinit
<1>4. d.cap \in Nat /\ d.inline \in BOOLEAN /\ d.ok \in BOOLEAN /\ Shaped(d)
  BY Zenon DEF Sound, Fits
<1> HIDE DEF g, f, buf
<1>5. e = Record(buf, d.cap, d.inline, d.realloc, <<f>>, d.ok)
  <2> DEFINE c == [d EXCEPT !.buf = buf]
             fs == <<f>>
  <2>1. c = Record(buf, d.cap, d.inline, d.realloc, d.frames, d.ok)
    BY <1>4, SetBuf
  <2> HIDE DEF c, fs
  <2>2. [c EXCEPT !.frames = fs] = Record(buf, d.cap, d.inline, d.realloc, fs, d.ok)
    BY <2>1, Parts, SetFrames
  <2> QED
    BY <2>2, Zenon DEF c, fs
<1>6. d.inline => g.offset = 0 /\ g.len <= InlineSize
  BY <1>1, Zenon DEF Sound, Fits, g
<1>7. ~d.inline => g.offset + g.len <= d.cap
  BY <1>1, Zenon DEF Sound, Fits, Top
<1>8. InlineSize \in Nat
  BY BsonAssumption
<1>9. d.inline => f.offset = 0 /\ f.len <= InlineSize
  BY <1>1, <1>2, <1>6, <1>8
<1>10. ~d.inline => f.offset + f.len <= d.cap
  BY <1>1, <1>2, <1>4, <1>7
<1>11. f.len >= 5
  BY <1>2
<1>12. Sound(Record(buf, d.cap, d.inline, d.realloc, <<f>>, d.ok))
  BY <1>2, <1>4, <1>9, <1>10, <1>11, StartSound, Zenon
<1> QED
  BY <1>3, <1>5, <1>12, Zenon

-----------------------------------------------------------------------------
(* The writer *)

Writer(buf, buflen, offset, ready, d) ==
    [buf |-> buf, buflen |-> buflen, offset |-> offset, ready |-> ready, b |-> d]

WriterSound(v) ==
    /\ v = Writer(v.buf, v.buflen, v.offset, v.ready, v.b)
    /\ v.buflen \in Nat /\ v.offset \in Nat

LEMMA WriterMade ==
    ASSUME NEW buf, NEW buflen \in Nat, NEW offset \in Nat, NEW ready, NEW d,
           NEW v, v = Writer(buf, buflen, offset, ready, d)
    PROVE  WriterSound(v) /\ v.b = d
BY DEF WriterSound, Writer

(* Some length the loop goes through is enough. *)
LEMMA EnoughDoubled ==
    ASSUME NEW n \in Nat, NEW need \in Nat, need <= Biggest \div 2, need >= 1
    PROVE  /\ Doubled(n) \subseteq Nat
           /\ \E c \in Doubled(n) : c >= need /\ \A d \in Doubled(n) : d >= need => c <= d
<1> DEFINE m == NotNone(n)
           D == Doubled(n)
<1>1. m \in Nat /\ m >= 1
  BY DEF NotNone
<1>2. Powers \subseteq Nat
  BY SMT DEF Powers, Biggest
<1>3. D = {n} \cup {m * p : p \in {q \in Powers : q <= Biggest \div m}}
  BY Zenon DEF Doubled
<1> HIDE DEF m, D
<1>4. D \subseteq Nat
  <2>1. ASSUME NEW p \in Nat PROVE m * p \in Nat
    BY <1>1
  <2> HIDE DEF Powers
  <2> QED
    BY <1>2, <1>3, <2>1
<1>5. \E c \in D : c >= need
  <2>1. CASE m > Biggest
    <3>1. n \in D
      BY <1>3
    <3>2. m = n \/ m = 64
      BY DEF m, NotNone
    <3>3. n >= need
      BY <2>1, <3>2, SMT DEF Biggest
    <3> QED
      BY <3>1, <3>3
  <2>2. CASE m <= Biggest
    <3> DEFINE q == Biggest \div m
    <3>1. q \in Nat /\ q >= 1 /\ q <= Biggest /\ q * m <= Biggest /\ Biggest < (q + 1) * m
      <4>1. Biggest \in Nat
        BY SMT DEF Biggest
      <4> QED
        BY ONLY <1>1, <2>2, <4>1, SMT
    <3> HIDE DEF q
    <3>2. PICK p \in Powers : p <= q /\ q < 2 * p
      BY <3>1, SMT DEF Powers, Biggest
    <3>3. p \in Nat
      BY <1>2
    <3>4. m * p \in D
      BY <1>3, <3>2, Zenon DEF q
    <3>5. m * p >= need
      <4>1. q + 1 <= 2 * p
        BY <3>1, <3>2, <3>3
      <4>2. (q + 1) * m <= (2 * p) * m
        BY ONLY <1>1, <3>1, <3>3, <4>1, SMT
      <4>3. (2 * p) * m = 2 * (m * p) /\ m * p \in Nat
        BY ONLY <1>1, <3>3, SMT
      <4> DEFINE x == m * p
                 y == (q + 1) * m
      <4>4. Biggest < y /\ y <= 2 * x /\ x \in Nat /\ y \in Int
        <5>1. y \in Int
          BY <1>1, <3>1
        <5> QED
          BY <3>1, <4>2, <4>3, <5>1
      <4> HIDE DEF x, y
      <4>5. x >= need
        BY ONLY <4>4, need \in Nat, need <= Biggest \div 2, SMT DEF Biggest
      <4> QED
        BY <4>5 DEF x
    <3> QED
      BY <3>4, <3>5
  <2>3. Biggest \in Nat
    BY SMT DEF Biggest
  <2> QED
    BY <1>1, <2>1, <2>2, <2>3
<1>6. \E c \in D : c >= need /\ \A d \in D : d >= need => c <= d
  <2> DEFINE T == {c \in D : c >= need}
  <2>1. T \subseteq Nat /\ T # {}
    BY <1>4, <1>5
  <2>2. PICK c \in T : \A d \in T : c <= d
    <3> HIDE DEF T
    <3> QED
      BY <2>1, HasLeast, Zenon
  <2> QED
    BY <2>2
<1> QED
  BY <1>4, <1>6 DEF D

LEMMA BegunSound ==
    ASSUME NEW v, WriterSound(v), v.offset + 5 <= Biggest \div 2
    PROVE  WriterSound(bson_writer_begin(v)) /\ Sound(bson_writer_begin(v).b)
<1> DEFINE need == v.offset + 5
           cap == CHOOSE c \in Doubled(v.buflen) :
                      c >= need /\ \A d \in Doubled(v.buflen) : d >= need => c <= d
           zeroed == Overwrite(Overwrite(v.buf, v.offset, <<5>>), v.offset + 1, <<0, 0, 0, 0, 0>>)
           f == Frame(v.offset, 0)
           no == FALSE
           yes == TRUE
           d == Record(zeroed, cap, no, yes, <<f>>, yes)
           e == [v EXCEPT !.ready = no, !.b = d]
<1>1. v.buflen \in Nat /\ v.offset \in Nat /\ need \in Nat /\ need >= 1
  BY DEF WriterSound
<1>2. cap \in Nat /\ cap >= need
  <2> HIDE DEF need
  <2>1. /\ Doubled(v.buflen) \subseteq Nat
        /\ \E c \in Doubled(v.buflen) : c >= need /\ \A x \in Doubled(v.buflen) : x >= need => c <= x
    <3>1. need <= Biggest \div 2
      BY DEF need
    <3> QED
      BY <1>1, <3>1, EnoughDoubled, Zenon
  <2>2. cap \in Doubled(v.buflen) /\ cap >= need
    BY <2>1, Zenon
  <2> QED
    BY <2>1, <2>2, Zenon
<1>3. bson_writer_begin(v) = e
  BY Zenon DEF bson_writer_begin, Record
<1> HIDE DEF cap, zeroed
<1>4. f \in Frames /\ f.offset = v.offset /\ f.len = 5 /\ f.depth = 0
  BY <1>1, FrameType
<1> HIDE DEF f
<1>5. f.offset + f.len <= cap /\ f.len >= 5
  BY <1>1, <1>2, <1>4
<1>6. Sound(d)
  BY <1>2, <1>4, <1>5, StartSound, Zenon
<1> HIDE DEF no, d
<1>7. e = Writer(v.buf, v.buflen, v.offset, no, d)
  <2>1. v = Writer(v.buf, v.buflen, v.offset, v.ready, v.b)
    BY Zenon DEF WriterSound
  <2> DEFINE h == [v EXCEPT !.ready = no]
  <2>2. h = Writer(v.buf, v.buflen, v.offset, no, v.b)
    BY <2>1 DEF Writer
  <2> HIDE DEF h
  <2>3. [h EXCEPT !.b = d] = Writer(v.buf, v.buflen, v.offset, no, d)
    BY <2>2 DEF Writer
  <2> QED
    BY <2>3, Zenon DEF h
<1>8. WriterSound(e) /\ e.b = d
  <2> HIDE DEF e
  <2> QED
    BY ONLY <1>1, <1>7, WriterMade
<1> QED
  BY <1>3, <1>6, <1>8, Zenon

LEMMA WithBson ==
    ASSUME NEW v, WriterSound(v), NEW d
    PROVE  [v EXCEPT !.b = d] = Writer(v.buf, v.buflen, v.offset, v.ready, d)
BY DEF WriterSound, Writer

LEMMA SharedSound ==
    ASSUME NEW v, WriterSound(v), NEW d, Sound(d)
    PROVE  LET u == Shared([v EXCEPT !.b = d])
           IN  WriterSound(u) /\ u.b = d /\ u.offset = v.offset
<1> DEFINE x == [v EXCEPT !.b = d]
           y == [x EXCEPT !.buf = x.b.buf]
           u == [y EXCEPT !.buflen = x.b.cap]
<1>1. x = Writer(v.buf, v.buflen, v.offset, v.ready, d)
  BY WithBson
<1>2. x.b = d
  BY <1>1, Zenon DEF Writer
<1> HIDE DEF x
<1>3. y = Writer(d.buf, v.buflen, v.offset, v.ready, d)
  BY <1>1, <1>2 DEF Writer
<1> HIDE DEF y
<1>4. u = Writer(d.buf, d.cap, v.offset, v.ready, d)
  BY <1>2, <1>3 DEF Writer
<1>5. Shared([v EXCEPT !.b = d]) = u
  BY Zenon DEF Shared, u, y, x
<1>6. d.cap \in Nat /\ v.offset \in Nat
  BY Zenon DEF Sound, Fits, WriterSound
<1> HIDE DEF u
<1>7. WriterSound(u) /\ u.b = d
  BY ONLY <1>4, <1>6, WriterMade
<1>8. u.offset = v.offset
  BY <1>4, Zenon DEF Writer
<1> QED
  BY <1>5, <1>7, <1>8, Zenon

LEMMA Released ==
    ASSUME NEW u, WriterSound(u), NEW offset \in Nat, NEW fs
    PROVE  /\ WriterSound([u EXCEPT !.offset = offset, !.ready = TRUE, !.b.frames = fs])
           /\ WriterSound([u EXCEPT !.ready = TRUE, !.b.frames = fs])
<1> DEFINE yes == TRUE
           d == [u.b EXCEPT !.frames = fs]
           x == [u EXCEPT !.offset = offset]
           y == [x EXCEPT !.ready = yes]
           z == [u EXCEPT !.ready = yes]
<1> HIDE DEF yes, d
<1>1. u = Writer(u.buf, u.buflen, u.offset, u.ready, u.b) /\ u.buflen \in Nat /\ u.offset \in Nat
  BY Zenon DEF WriterSound
<1>2. x = Writer(u.buf, u.buflen, offset, u.ready, u.b)
  BY <1>1 DEF Writer
<1> HIDE DEF x
<1>3. y = Writer(u.buf, u.buflen, offset, yes, u.b) /\ y.b = u.b
  BY <1>2 DEF Writer
<1> HIDE DEF y
<1>4. [y EXCEPT !.b = d] = Writer(u.buf, u.buflen, offset, yes, d)
  BY <1>3 DEF Writer
<1>5. z = Writer(u.buf, u.buflen, u.offset, yes, u.b) /\ z.b = u.b
  BY <1>1 DEF Writer
<1> HIDE DEF z
<1>6. [z EXCEPT !.b = d] = Writer(u.buf, u.buflen, u.offset, yes, d)
  BY <1>5 DEF Writer
<1>7. WriterSound([y EXCEPT !.b = d]) /\ WriterSound([z EXCEPT !.b = d])
  <2> DEFINE p == [y EXCEPT !.b = d]
             q == [z EXCEPT !.b = d]
  <2>1. p = Writer(u.buf, u.buflen, offset, yes, d) /\ q = Writer(u.buf, u.buflen, u.offset, yes, d)
    BY <1>4, <1>6
  <2>2. u.buflen \in Nat /\ u.offset \in Nat /\ offset \in Nat
    BY <1>1
  <2> HIDE DEF p, q
  <2>3. WriterSound(p) /\ WriterSound(q)
    BY ONLY <2>1, <2>2, WriterMade
  <2> QED
    BY <2>3 DEF p, q
<1>8. [u EXCEPT !.offset = offset, !.ready = TRUE, !.b.frames = fs] = [y EXCEPT !.b = d]
  <2>1. [y EXCEPT !.b.frames = fs] = [y EXCEPT !.b = d]
    BY <1>3, Zenon DEF d
  <2> QED
    BY <2>1, Zenon DEF y, x, yes
<1>9. [u EXCEPT !.ready = TRUE, !.b.frames = fs] = [z EXCEPT !.b = d]
  <2>1. [z EXCEPT !.b.frames = fs] = [z EXCEPT !.b = d]
    BY <1>5, Zenon DEF d
  <2> QED
    BY <2>1, Zenon DEF z, yes
<1> QED
  BY <1>7, <1>8, <1>9, Zenon

LEMMA EndedSound ==
    ASSUME NEW v, WriterSound(v), NEW d, Sound(d)
    PROVE  /\ WriterSound(bson_writer_end([v EXCEPT !.b = d]))
           /\ WriterSound(bson_writer_rollback([v EXCEPT !.b = d]))
<1> DEFINE x == [v EXCEPT !.b = d]
           u == Shared(x)
           offset == u.offset + x.b.frames[1].len
<1>1. WriterSound(u) /\ u.offset = v.offset
  BY SharedSound, Zenon
<1>2. x.b = d
  BY WithBson, Zenon DEF Writer
<1>3. offset \in Nat
  <2>1. d.frames \in Seq(Frames) /\ Len(d.frames) >= 1
    BY TopFrame
  <2>2. d.frames[1] \in Frames
    BY <2>1
  <2>3. d.frames[1].len \in Nat /\ v.offset \in Nat
    BY <2>2 DEF Frames, WriterSound
  <2> HIDE DEF x, u
  <2> QED
    BY <1>1, <1>2, <2>3
<1>4. bson_writer_end(x) = [u EXCEPT !.offset = offset, !.ready = TRUE, !.b.frames = <<>>]
  BY Zenon DEF bson_writer_end
<1>5. bson_writer_rollback(x) = [u EXCEPT !.ready = TRUE, !.b.frames = <<>>]
  BY Zenon DEF bson_writer_rollback
<1> HIDE DEF u, offset
<1>6. /\ WriterSound([u EXCEPT !.offset = offset, !.ready = TRUE, !.b.frames = <<>>])
      /\ WriterSound([u EXCEPT !.ready = TRUE, !.b.frames = <<>>])
  BY <1>1, <1>3, Released, Zenon
<1> QED
  BY <1>4, <1>5, <1>6, Zenon

-----------------------------------------------------------------------------
(* The invariant: while a document is built its bson_t is sound, and the   *)
(* writer's lengths are lengths.                                           *)
BuilderInv == (building => Sound(b)) /\ WriterSound(w)

LEMMA InitInv == BuilderInit => BuilderInv
<1>1. ASSUME NEW buf, NEW n \in Nat, NEW offset \in Nat
      PROVE  WriterSound(bson_writer_new(buf, n, offset))
  <2> DEFINE d == [bson_init EXCEPT !.frames = <<>>]
             yes == TRUE
  <2>1. bson_writer_new(buf, n, offset) = Writer(buf, n, offset, yes, d)
    BY Zenon DEF bson_writer_new, Writer
  <2> HIDE DEF d, yes
  <2> DEFINE v == bson_writer_new(buf, n, offset)
  <2> HIDE DEF v
  <2>2. v = Writer(buf, n, offset, yes, d)
    BY <2>1 DEF v
  <2>3. WriterSound(v)
    BY <2>2, WriterMade
  <2> QED
    BY <2>3 DEF v
<1> QED
  BY <1>1, Zenon DEF BuilderInit, BuilderInv

LEMMA NextInv == ASSUME BuilderInv, [BuilderNext]_builderVars PROVE BuilderInv'
<1> USE DEF BuilderInv
<1>1. CASE StartInWriter
  BY <1>1, BegunSound, Zenon DEF StartInWriter
<1>2. CASE StartNew
  BY <1>2, InitSound, Zenon DEF StartNew
<1>3. ASSUME NEW doc \in Documents, StartCopy(doc) PROVE BuilderInv'
  BY <1>3, CopySound, Zenon DEF StartCopy
<1>4. ASSUME NEW key \in Data, NEW v \in Values, PutField(key, v) PROVE BuilderInv'
  BY <1>4, PutAdds, AddsSound, Zenon DEF PutField
<1>5. ASSUME NEW key \in Data, NEW type, OpenChild(key, type) PROVE BuilderInv'
  <2>1. b' = _bson_append_bson_begin(b, key, BSON_TYPE_ARRAY) \/ b' = _bson_append_bson_begin(b, key, BSON_TYPE_DOCUMENT)
    BY <1>5, Zenon DEF OpenChild, bson_append_array_begin, bson_append_document_begin
  <2>2. Sound(b')
    BY <1>5, <2>1, OpenedSound, Zenon DEF OpenChild
  <2> QED
    BY <1>5, <2>2, Zenon DEF OpenChild
<1>6. CASE CloseChild
  <2>1. Sound(b) /\ Len(b.frames) > 1
    <3>1. Sound(b) /\ Len(b.frames) - 1 > 0
      BY <1>6, Zenon DEF CloseChild, Depth
    <3>2. Len(b.frames) \in Nat
      BY <3>1, TopFrame
    <3> QED
      BY <3>1, <3>2
  <2> QED
    BY <1>6, <2>1, ClosedSound, Zenon DEF CloseChild, bson_append_document_end
<1>7. ASSUME NEW src \in Documents, ConcatDocument(src) PROVE BuilderInv'
  BY <1>7, ConcatAdds, AddsSound, Zenon DEF ConcatDocument
<1>8. CASE StartAgain
  <2>1. Sound(b) /\ Len(b.frames) = 1
    <3>1. Sound(b) /\ Len(b.frames) - 1 = 0
      BY <1>8, Zenon DEF StartAgain, Depth
    <3>2. Len(b.frames) \in Nat
      BY <3>1, TopFrame
    <3> QED
      BY <3>1, <3>2
  <2> QED
    BY <1>8, <2>1, AgainSound, Zenon DEF StartAgain
<1>9. CASE HandOver
  BY <1>9, EndedSound, Zenon DEF HandOver
<1>10. CASE RollBack
  BY <1>10, EndedSound, Zenon DEF RollBack
<1>11. CASE UNCHANGED builderVars
  BY <1>11, Zenon DEF builderVars
<1> QED
  BY <1>1, <1>2, <1>3, <1>4, <1>5, <1>6, <1>7, <1>8, <1>9, <1>10, <1>11, Zenon DEF BuilderNext

LEMMA InvRoom == BuilderInv => RoomToClose
<1> SUFFICES ASSUME BuilderInv, building PROVE RoomToClose
  BY Zenon DEF RoomToClose
<1>1. Sound(b)
  BY Zenon DEF BuilderInv
<1> QED
  BY <1>1, Zenon DEF Sound, Fits, Reach, Top, RoomToClose

(* Whatever is appended, however deep the children, and wherever in its    *)
(* buffer a writer stands: the buffer has room for every end byte that     *)
(* closing the open documents writes (_bson_append_bson_end of bson.c).    *)
THEOREM ClosingHasRoom == BuilderSpec => []RoomToClose
<1>1. BuilderSpec => []BuilderInv
  <2>1. BuilderInv /\ [BuilderNext]_builderVars => BuilderInv'
    BY NextInv
  <2> QED
    BY InitInv, <2>1, PTL DEF BuilderSpec
<1>2. BuilderInv => RoomToClose
  BY InvRoom
<1> QED
  BY <1>1, <1>2, PTL

-----------------------------------------------------------------------------
(* The bytes written *)

(* The bytes of a string, and of strings written over one another *)

LEMMA BytesIn ==
    ASSUME NEW S, NEW s \in Seq(S), NEW o \in Nat, NEW n \in Nat, o + n <= Len(s)
    PROVE  /\ Bytes(s, o, n) \in Seq(S)
           /\ Len(Bytes(s, o, n)) = n
           /\ \A j \in 1..n : Bytes(s, o, n)[j] = s[o + j]
<1> DEFINE a == o + 1
           e == o + n
           v == SubSeq(s, a, e)
<1>1. a \in Int /\ e \in Int /\ e - a + 1 = n /\ \A i \in a..e : s[i] \in S
    OBVIOUS
<1>2. \A i \in 1..n : a + i - 1 = o + i
    OBVIOUS
<1>3. Bytes(s, o, n) = v
    BY DEF Bytes
<1> HIDE DEF a, e
<1>4. v \in Seq(S) /\ Len(v) = (IF a <= e THEN e - a + 1 ELSE 0) /\ \A i \in 1..(e - a + 1) : v[i] = s[a + i - 1]
    BY ONLY <1>1, SubSeqProperties
<1> HIDE DEF v
<1>5. Len(v) = n
    BY <1>1, <1>4
<1>6. \A j \in 1..n : v[j] = s[o + j]
    BY <1>1, <1>2, <1>4
<1> QED BY <1>3, <1>4, <1>5, <1>6

LEMMA BytesOfString ==
    ASSUME NEW s, IsString(s), NEW o \in Nat, NEW n \in Nat, o + n <= Len(s)
    PROVE  /\ IsString(Bytes(s, o, n)) /\ Len(Bytes(s, o, n)) = n
           /\ \A j \in 1..n : Bytes(s, o, n)[j] = s[o + j]
<1> DEFINE v == Bytes(s, o, n)
<1>1. PICK S : s \in Seq(S)
  BY DEF IsString
<1>2. v \in Seq(S) /\ Len(v) = n /\ \A j \in 1..n : v[j] = s[o + j]
  BY <1>1, BytesIn
<1> HIDE DEF v
<1>3. IsString(v)
  BY <1>2, Zenon DEF IsString
<1> QED
  BY <1>2, <1>3 DEF v

LEMMA Overwritten ==
    ASSUME NEW buf, IsString(buf), NEW o \in Nat, NEW data, IsString(data)
    PROVE  LET r == Overwrite(buf, o, data)
           IN  /\ IsString(r) /\ Len(r) \in Nat /\ Len(r) >= Len(buf) /\ Len(r) >= o + Len(data)
               /\ Len(r) = Len(buf) \/ Len(r) = o + Len(data)
               /\ \A j \in 1..Len(data) : r[o + j] = data[j]
               /\ \A i \in 1..Len(r) : ~(i > o /\ i <= o + Len(data)) => r[i] = buf[i]
<1> DEFINE m == Len(buf)
           k == Len(data)
           n == IF o + k > m THEN o + k ELSE m
           x(i) == IF i > o /\ i <= o + k THEN data[i - o] ELSE buf[i]
           r == [i \in 1..n |-> x(i)]
           S == {x(i) : i \in 1..n}
<1>1. m \in Nat /\ k \in Nat
  BY StringLength
<1>2. Overwrite(buf, o, data) = r
  BY Zenon DEF Overwrite
<1>3. \A i : x(i) = IF i > o /\ i <= o + k THEN data[i - o] ELSE buf[i]
  OBVIOUS
<1> HIDE DEF m, k, x
<1>4. n \in Nat /\ n >= m /\ n >= o + k /\ (n = m \/ n = o + k)
  BY <1>1
<1> HIDE DEF n
<1>5. r \in Seq(S) /\ Len(r) = n
  <2>1. \A i \in 1..n : x(i) \in S
    BY Zenon
  <2> HIDE DEF S
  <2>2. r \in [1..n -> S]
    BY <2>1, Zenon
  <2> HIDE DEF r
  <2> QED
    BY ONLY <1>4, <2>2, SMT
<1>6. \A i \in 1..n : r[i] = x(i)
  BY Zenon
<1> HIDE DEF r, S
<1>7. \A j \in 1..k : o + j \in 1..n /\ o + j > o /\ o + j <= o + k /\ (o + j) - o = j
  BY <1>1, <1>4
<1>8. \A j \in 1..k : r[o + j] = data[j]
  <2> TAKE j \in 1..k
  <2>1. x(o + j) = data[(o + j) - o]
    BY <1>3, <1>7
  <2> QED
    BY <1>6, <1>7, <2>1
<1>9. \A i \in 1..n : ~(i > o /\ i <= o + k) => r[i] = buf[i]
  BY <1>3, <1>6, Zenon
<1>10. IsString(r)
  BY <1>5, Zenon DEF IsString
<1> QED
  BY <1>2, <1>4, <1>5, <1>8, <1>9, <1>10 DEF m, k

(* The bytes of data behind p *)
Carries(r, p, data) == \A j \in 1..Len(data) : r[p + j] = data[j]

(* What is not written over stays. *)
Keeps(buf, r, o, n) == \A i \in 1..Len(r) : ~(i > o /\ i <= o + n) => r[i] = buf[i]

LEMMA OverwrittenBytes ==
    ASSUME NEW buf, IsString(buf), NEW o \in Nat, NEW data, IsString(data)
    PROVE  LET r == Overwrite(buf, o, data)
           IN  /\ IsString(r) /\ Len(r) \in Nat /\ Len(r) >= o + Len(data)
               /\ Carries(r, o, data) /\ Keeps(buf, r, o, Len(data))
BY Overwritten DEF Carries, Keeps

(* A length below 2 ^ 31 in four bytes gives itself back. *)
LEMMA LengthBytes ==
    ASSUME NEW n \in Nat, n <= Biggest
    PROVE  /\ IsString(LE(n, 4)) /\ Len(LE(n, 4)) = 4
           /\ LE(n, 4)[1] + 256 * LE(n, 4)[2] + 65536 * LE(n, 4)[3] + 16777216 * LE(n, 4)[4] = n
           /\ LE(n, 4)[4] < 128
<1> DEFINE l == LE(n, 4)
<1>1. l[1] = (n \div 1) % 256 /\ l[2] = (n \div 256) % 256 /\ l[3] = (n \div 65536) % 256 /\ l[4] = (n \div 16777216) % 256
  BY DEF LE, Scale
<1>2. Len(l) = 4
  BY DEF LE
<1>3. IsString(l)
  BY Number4
<1> HIDE DEF l
<1>4. n <= 1073741824
  BY DEF Biggest
<1>5. ((n \div 1) % 256) + 256 * ((n \div 256) % 256) + 65536 * ((n \div 65536) % 256) + 16777216 * ((n \div 16777216) % 256) = n
      /\ (n \div 16777216) % 256 < 128
  BY ONLY <1>4, n \in Nat, SMT
<1> QED
  BY <1>1, <1>2, <1>3, <1>5 DEF l

(* buf holds at o what looks from outside like a document of n bytes. *)
Holds(buf, o, n) ==
    /\ IsString(buf) /\ o + n <= Len(buf)
    /\ Int32At(buf, o) = n /\ buf[o + n] = 0

(* The length put in front of the bytes makes them one. *)
LEMMA EncodedHolds ==
    ASSUME NEW buf, IsString(buf), NEW o \in Nat, NEW n \in Nat, n >= 5, n <= Biggest,
           o + n <= Len(buf), buf[o + n] = 0
    PROVE  LET r == Overwrite(buf, o, LE(n, 4))
           IN  Holds(r, o, n) /\ \A i \in 1..Len(buf) : i > o + 4 => r[i] = buf[i]
<1> DEFINE l == LE(n, 4)
           r == Overwrite(buf, o, l)
<1>1. /\ IsString(l) /\ Len(l) = 4 /\ l[4] < 128
      /\ l[1] + 256 * l[2] + 65536 * l[3] + 16777216 * l[4] = n
  BY LengthBytes
<1> HIDE DEF l
<1>2. /\ IsString(r) /\ Len(r) \in Nat /\ Len(r) >= Len(buf)
      /\ \A j \in 1..Len(l) : r[o + j] = l[j]
      /\ \A i \in 1..Len(r) : ~(i > o /\ i <= o + Len(l)) => r[i] = buf[i]
  <2>1. IsString(l)
    BY <1>1
  <2> QED
    BY ONLY <2>1, IsString(buf), o \in Nat, Overwritten
<1> HIDE DEF r
<1>3. r[o + 1] = l[1] /\ r[o + 2] = l[2] /\ r[o + 3] = l[3] /\ r[o + 4] = l[4]
  <2>1. 1 \in 1..4 /\ 2 \in 1..4 /\ 3 \in 1..4 /\ 4 \in 1..4
    OBVIOUS
  <2> QED
    BY <1>1, <1>2, <2>1
<1>4. Int32At(r, o) = n
  <2>1. Int32At(r, o) = l[1] + 256 * l[2] + 65536 * l[3] + 16777216 * l[4]
    BY ONLY <1>1, <1>3 DEF Int32At
  <2> QED
    BY ONLY <1>1, <2>1
<1>5. Len(buf) \in Nat
  BY StringLength
<1>6. \A i \in 1..Len(buf) : i > o + 4 => r[i] = buf[i]
  BY <1>1, <1>2, <1>5
<1>7. r[o + n] = 0 /\ o + n <= Len(r)
  BY <1>2, <1>5, <1>6
<1> QED
  BY <1>2, <1>4, <1>6, <1>7 DEF Holds, r, l

(* The end byte put behind them, too *)
LEMMA EndedHolds ==
    ASSUME NEW buf, IsString(buf), NEW o \in Nat, NEW n \in Nat, n >= 5, n <= Biggest
    PROVE  Holds(Overwrite(Overwrite(buf, o + n - 1, <<0>>), o, LE(n, 4)), o, n)
<1> DEFINE p == o + n - 1
           zero == <<0>>
           s == Overwrite(buf, p, zero)
<1>1. p \in Nat /\ p + 1 = o + n
  OBVIOUS
<1>2. IsString(zero) /\ Len(zero) = 1 /\ zero[1] = 0 /\ 1 \in 1..1
  BY OneByte
<1> HIDE DEF p, zero
<1>3. IsString(s) /\ Len(s) \in Nat /\ Len(s) >= p + Len(zero) /\ Carries(s, p, zero)
  BY <1>1, <1>2, OverwrittenBytes, Zenon
<1> HIDE DEF s
<1>4. Len(s) >= p + 1 /\ s[p + 1] = 0
  BY <1>2, <1>3 DEF Carries
<1>5. o + n <= Len(s) /\ s[o + n] = 0
  BY <1>1, <1>4
<1>6. Holds(Overwrite(s, o, LE(n, 4)), o, n)
  BY <1>3, <1>5, EncodedHolds
<1> QED
  BY <1>6 DEF s, p, zero

(* Data in place of the end byte, a new one behind them, and the new length *)
ExtendedBuffer(buf, o, n, data) ==
    Overwrite(Overwrite(buf, o + n - 1, data \o <<0>>), o, LE(n + Len(data), 4))

LEMMA ExtendedHolds ==
    ASSUME NEW buf, IsString(buf), NEW o \in Nat, NEW n \in Nat, n >= 5,
           NEW data, IsString(data), n + Len(data) <= Biggest,
           NEW r, r = ExtendedBuffer(buf, o, n, data)
    PROVE  Holds(r, o, n + Len(data)) /\ Carries(r, o + n - 1, data)
<1> DEFINE p == o + n - 1
           k == Len(data)
           t == data \o <<0>>
           s == Overwrite(buf, p, t)
           m == n + k
<1>1. k \in Nat /\ m \in Nat /\ m >= 5 /\ m <= Biggest
  <2>1. k \in Nat
    BY StringLength
  <2> QED
    BY <2>1
<1>2. p \in Nat /\ p + (k + 1) = o + m /\ \A j \in 1..k : p + j > o + 4 /\ p + j <= o + m
  BY <1>1
<1>3. /\ IsString(t) /\ Len(t) = k + 1 /\ t[k + 1] = 0 /\ \A j \in 1..k : t[j] = data[j]
  <2>1. IsString(t) /\ Len(t) = k + 1
    BY OneByte, Concatenated
  <2>2. PICK S : data \in Seq(S)
    BY DEF IsString
  <2>3. t[k + 1] = 0 /\ \A j \in 1..k : t[j] = data[j]
    <3> DEFINE T == S \cup {0}
    <3>1. data \in Seq(T) /\ <<0>> \in Seq(T) /\ Len(<<0>>) = 1 /\ <<0>>[1] = 0
      BY <2>2
    <3> HIDE DEF T
    <3>2. \A i \in 1..(Len(data) + Len(<<0>>)) : (data \o <<0>>)[i] = IF i <= Len(data) THEN data[i] ELSE <<0>>[i - Len(data)]
      BY ONLY <3>1, ConcatProperties
    <3>3. k + 1 \in 1..(k + Len(<<0>>)) /\ ~(k + 1 <= k) /\ (k + 1) - k = 1
          /\ \A j \in 1..k : j \in 1..(k + Len(<<0>>)) /\ j <= k
      BY <1>1, <3>1
    <3> HIDE DEF k
    <3>4. k = Len(data)
      BY DEF k
    <3>5. t[k + 1] = <<0>>[1]
      BY <3>2, <3>3, <3>4
    <3>6. \A j \in 1..k : t[j] = data[j]
      BY <3>2, <3>3, <3>4
    <3> QED
      BY <3>1, <3>5, <3>6
  <2> QED
    BY <2>1, <2>3
<1> HIDE DEF p, t, k, m
<1>4. /\ IsString(s) /\ Len(s) \in Nat /\ Len(s) >= p + Len(t)
      /\ \A j \in 1..Len(t) : s[p + j] = t[j]
  BY <1>2, <1>3, Overwritten
<1> HIDE DEF s
<1>5. o + m <= Len(s)
  BY <1>2, <1>3, <1>4
<1>6. s[o + m] = 0 /\ \A j \in 1..k : s[p + j] = data[j]
  <2>1. k + 1 \in 1..(k + 1) /\ \A j \in 1..k : j \in 1..(k + 1)
    BY <1>1
  <2> QED
    BY <1>2, <1>3, <1>4, <2>1
<1>0. r = Overwrite(s, o, LE(m, 4))
  BY Zenon DEF s, p, t, m, k, ExtendedBuffer
<1>7. Holds(r, o, m) /\ \A i \in 1..Len(s) : i > o + 4 => r[i] = s[i]
  BY <1>0, <1>1, <1>4, <1>5, <1>6, EncodedHolds
<1>8. \A j \in 1..k : r[p + j] = data[j]
  <2> TAKE j \in 1..k
  <2>1. p + j \in 1..Len(s) /\ p + j > o + 4
    <3>1. j \in Nat /\ j >= 1 /\ p \in Nat /\ p + j > o + 4 /\ p + j <= o + m
      BY <1>1, <1>2
    <3>2. o + m <= Len(s) /\ Len(s) \in Nat /\ m \in Nat
      BY <1>1, <1>4, <1>5
    <3> QED
      BY ONLY <3>1, <3>2, o \in Nat, SMT
  <2> QED
    BY <1>6, <1>7, <2>1
<1> QED
  BY <1>7, <1>8, Zenon DEF m, k, p, Carries

(* What holds a document hands it out. *)
LEMMA HeldBytes ==
    ASSUME NEW buf, NEW o \in Nat, NEW n \in Nat, n >= 5, Holds(buf, o, n)
    PROVE  bson_init_static(Bytes(buf, o, n))
<1> DEFINE v == Bytes(buf, o, n)
<1>1. Len(v) = n /\ \A j \in 1..n : v[j] = buf[o + j]
  BY BytesOfString DEF Holds
<1> HIDE DEF v
<1>2. 1 \in 1..n /\ 2 \in 1..n /\ 3 \in 1..n /\ 4 \in 1..n /\ n \in 1..n
  OBVIOUS
<1>3. v[1] = buf[o + 1] /\ v[2] = buf[o + 2] /\ v[3] = buf[o + 3] /\ v[4] = buf[o + 4] /\ v[n] = buf[o + n]
  BY <1>1, <1>2
<1>4. Int32At(v, 0) = Int32At(buf, o)
  <2>1. 0 + 1 = 1 /\ 0 + 2 = 2 /\ 0 + 3 = 3 /\ 0 + 4 = 4
    OBVIOUS
  <2>2. v[0 + 1] = buf[o + 1] /\ v[0 + 2] = buf[o + 2] /\ v[0 + 3] = buf[o + 3] /\ v[0 + 4] = buf[o + 4]
    BY ONLY <1>3, <2>1
  <2> QED
    BY ONLY <2>2 DEF Int32At
<1> QED
  BY <1>1, <1>3, <1>4 DEF Holds, bson_init_static, v

-----------------------------------------------------------------------------
(* The topmost document looks like one. *)
Whole(d) == Holds(d.buf, Top(d).offset, Top(d).len)

LEMMA SameWhole ==
    ASSUME NEW d, Whole(d), NEW e, e.buf = d.buf, e.frames = d.frames
    PROVE  Whole(e)
BY Zenon DEF Whole, Top

LEMMA FailKeeps ==
    ASSUME NEW d, Shaped(d)
    PROVE  Fail(d).buf = d.buf /\ Fail(d).frames = d.frames
<1> DEFINE no == FALSE
           e == [d EXCEPT !.ok = no]
<1> HIDE DEF no
<1>1. e = Record(d.buf, d.cap, d.inline, d.realloc, d.frames, no)
  BY SetOk
<1> HIDE DEF e
<1>2. e.buf = d.buf /\ e.frames = d.frames
  BY ONLY <1>1, Parts
<1> QED
  BY <1>2, Zenon DEF Fail, e, no

LEMMA OkKeeps ==
    ASSUME NEW d, Shaped(d)
    PROVE  [d EXCEPT !.ok = TRUE].buf = d.buf /\ [d EXCEPT !.ok = TRUE].frames = d.frames
<1> DEFINE yes == TRUE
           e == [d EXCEPT !.ok = yes]
<1> HIDE DEF yes
<1>1. e = Record(d.buf, d.cap, d.inline, d.realloc, d.frames, yes)
  BY SetOk
<1> HIDE DEF e
<1>2. e.buf = d.buf /\ e.frames = d.frames
  BY ONLY <1>1, Parts
<1> QED
  BY <1>2, Zenon DEF e, yes

(* Growing moves the bytes as they are. *)
LEMMA GrownKeeps ==
    ASSUME NEW d, Shaped(d), NEW size
    PROVE  _bson_grow(d, size).buf = d.buf
<1> DEFINE e == _bson_grow(d, size)
<1>1. ASSUME NEW c PROVE [d EXCEPT !.cap = c].buf = d.buf
  <2> DEFINE h == [d EXCEPT !.cap = c]
  <2>1. h = Record(d.buf, c, d.inline, d.realloc, d.frames, d.ok)
    BY SetCap
  <2> HIDE DEF h
  <2>2. h.buf = d.buf
    BY ONLY <2>1, Parts
  <2> QED
    BY <2>2 DEF h
<1>2. ASSUME NEW c, NEW x PROVE [d EXCEPT !.inline = x, !.cap = c].buf = d.buf
  <2> DEFINE h == [d EXCEPT !.inline = x, !.cap = c]
  <2>1. h = Record(d.buf, c, x, d.realloc, d.frames, d.ok)
    BY SetInlineCap, Zenon
  <2> HIDE DEF h
  <2>2. h.buf = d.buf
    BY ONLY <2>1, Parts
  <2> QED
    BY <2>2 DEF h
<1>3. CASE d.inline
  <2> DEFINE c == bson_next_power_of_two(Top(d).len + size)
             no == FALSE
  <2>1. e = d \/ e = [d EXCEPT !.inline = no, !.cap = c]
    BY <1>3, Zenon DEF _bson_grow, _bson_impl_inline_grow
  <2> HIDE DEF c, no, e
  <2>2. e.buf = d.buf
    <3>1. CASE e = d
      BY <3>1, Zenon
    <3>2. CASE e = [d EXCEPT !.inline = no, !.cap = c]
      BY <1>2, <3>2, Zenon
    <3> QED
      BY <2>1, <3>1, <3>2
  <2> QED
    BY <2>2 DEF e
<1>4. CASE ~d.inline
  <2> DEFINE c == bson_next_power_of_two(Top(d).offset + Top(d).len + size + Top(d).depth)
  <2>1. e = d \/ e = [d EXCEPT !.cap = c] \/ e = Fail(d)
    BY <1>4, Zenon DEF _bson_grow, _bson_impl_alloc_grow
  <2> HIDE DEF c, e
  <2>2. e.buf = d.buf
    <3>1. CASE e = d
      BY <3>1, Zenon
    <3>2. CASE e = [d EXCEPT !.cap = c]
      BY <1>1, <3>2, Zenon
    <3>3. CASE e = Fail(d)
      BY <3>3, FailKeeps, Zenon
    <3> QED
      BY <2>1, <3>1, <3>2, <3>3
  <2> QED
    BY <2>2 DEF e
<1> QED
  BY <1>3, <1>4

LEMMA LengthenedBuf ==
    ASSUME NEW d, Shaped(d)
    PROVE  Lengthened(d).buf = Overwrite(d.buf, Top(d).offset, LE(Top(d).len, 4))
<1> DEFINE buf == Overwrite(d.buf, Top(d).offset, LE(Top(d).len, 4))
           e == [d EXCEPT !.buf = buf]
<1>1. Lengthened(d) = e
  BY Zenon DEF Lengthened, EncodeLength
<1> HIDE DEF buf
<1>2. e = Record(buf, d.cap, d.inline, d.realloc, d.frames, d.ok)
  BY SetBuf
<1> HIDE DEF e
<1>3. e.buf = buf
  BY ONLY <1>2, Parts
<1> QED
  BY <1>1, <1>3, Zenon DEF buf

LEMMA ExtendedBuf ==
    ASSUME NEW d, Shaped(d), d.ok, Chained(d.frames), NEW data, Len(data) \in Nat
    PROVE  LET e == Extended(d, data)
               o == Top(d).offset
               n == Top(d).len
           IN  /\ e.buf = ExtendedBuffer(d.buf, o, n, data)
               /\ Top(e).offset = o /\ Top(e).len = n + Len(data)
<1> DEFINE e == Extended(d, data)
           buf == Overwrite(d.buf, Top(d).offset + Top(d).len - 1, data \o <<0>>)
           n == Len(d.frames)
           k == Len(data)
           fs == Longer(d.frames, n, k)
           f == [d EXCEPT !.buf = buf, !.frames[n].len = @ + k]
<1>1. e = Lengthened(f)
  BY Zenon DEF Extended
<1> HIDE DEF buf, n, k
<1>2. f = Record(buf, d.cap, d.inline, d.realloc, fs, d.ok)
  <2> DEFINE g == [d EXCEPT !.buf = buf]
  <2>1. g = Record(buf, d.cap, d.inline, d.realloc, d.frames, d.ok)
    BY SetBuf
  <2> HIDE DEF g
  <2>2. Shaped(g) /\ g.frames = d.frames /\ g.cap = d.cap /\ g.buf = buf /\ g.inline = d.inline
        /\ g.realloc = d.realloc /\ g.ok = d.ok
    BY ONLY <2>1, Parts
  <2>3. [g EXCEPT !.frames[n].len = @ + k]
        = Record(g.buf, g.cap, g.inline, g.realloc, Longer(g.frames, n, k), g.ok)
    BY <2>2, SetFrames, Zenon DEF Longer
  <2>4. [g EXCEPT !.frames[n].len = @ + k]
        = Record(buf, d.cap, d.inline, d.realloc, Longer(d.frames, n, k), d.ok)
    BY <2>2, <2>3, Zenon
  <2> QED
    BY <2>4, Zenon DEF g
<1>3. Len(fs) = n /\ fs[n].len = d.frames[n].len + k /\ fs[n].offset = d.frames[n].offset
  BY LongerChain, Zenon DEF n, k
<1> HIDE DEF f, fs, e
<1>4. Shaped(f) /\ f.buf = buf /\ f.frames = fs
  BY ONLY <1>2, Parts
<1>5. Top(f) = fs[n] /\ Top(d) = d.frames[n]
  BY <1>3, <1>4, Zenon DEF Top, n
<1>6. e.buf = Overwrite(buf, Top(f).offset, LE(Top(f).len, 4)) /\ e.frames = fs
  <2>1. Lengthened(f).buf = Overwrite(f.buf, Top(f).offset, LE(Top(f).len, 4)) /\ Lengthened(f).frames = f.frames
    BY <1>4, LengthenedBuf, LengthenedKeeps, Zenon
  <2> QED
    BY <1>1, <1>4, <2>1, Zenon
<1>7. Top(e) = fs[n]
  BY <1>3, <1>6, Zenon DEF Top
<1> QED
  BY <1>3, <1>5, <1>6, <1>7, Zenon DEF buf, k, e, ExtendedBuffer

LEMMA ExtendedWhole ==
    ASSUME NEW d, Shaped(d), d.ok, Chained(d.frames), IsString(d.buf),
           NEW data, IsString(data), Top(d).len + Len(data) <= Biggest
    PROVE  LET e == Extended(d, data)
           IN  /\ Whole(e) /\ Top(e).offset = Top(d).offset /\ Top(e).len = Top(d).len + Len(data)
               /\ Carries(e.buf, Top(d).offset + Top(d).len - 1, data)
<1> DEFINE e == Extended(d, data)
           o == Top(d).offset
           n == Top(d).len
<1>1. Len(data) \in Nat
  BY StringLength
<1>2. /\ e.buf = ExtendedBuffer(d.buf, o, n, data)
      /\ Top(e).offset = o /\ Top(e).len = n + Len(data)
  BY <1>1, ExtendedBuf, Zenon
<1>3. o \in Nat /\ n \in Nat /\ n >= 5 /\ n + Len(data) <= Biggest
  <2>1. d.frames \in Seq(Frames) /\ Len(d.frames) \in Nat /\ Len(d.frames) >= 1
    BY DEF Chained
  <2>2. Top(d) \in Frames /\ Top(d).len >= 5
    BY <2>1 DEF Chained, Top
  <2> QED
    BY <2>2 DEF Frames
<1> HIDE DEF e, o, n
<1> DEFINE buf == d.buf
<1> HIDE DEF buf
<1>4. IsString(buf)
  BY DEF buf
<1> DEFINE r == ExtendedBuffer(buf, o, n, data)
<1> HIDE DEF r
<1>5. Holds(r, o, n + Len(data)) /\ Carries(r, o + n - 1, data)
  <2>1. r = ExtendedBuffer(buf, o, n, data)
    BY Zenon DEF r
  <2>2. Holds(r, o, n + Len(data))
    BY <1>3, <1>4, <2>1, ExtendedHolds, Zenon
  <2>3. Carries(r, o + n - 1, data)
    BY <1>3, <1>4, <2>1, ExtendedHolds, Zenon
  <2> QED
    BY <2>2, <2>3
<1>6. e.buf = r
  BY <1>2, Zenon DEF buf, r
<1>7. Whole(e)
  BY <1>2, <1>5, <1>6, Zenon DEF Whole
<1> QED
  BY <1>2, <1>5, <1>6, <1>7, Zenon DEF e, o, n

(* What an append leaves: the bytes of a document, the data at their end *)
Added(d, e, data) ==
    /\ Whole(e)
    /\ e.ok => Carries(e.buf, Top(d).offset + Top(d).len - 1, data)

LEMMA WholeString == ASSUME NEW d, Whole(d) PROVE IsString(d.buf)
BY Zenon DEF Whole, Holds

LEMMA VaWhole ==
    ASSUME NEW d, Sound(d), d.ok, Whole(d), NEW data, IsString(data),
           InReach(_bson_append_va(d, data))
    PROVE  Added(d, _bson_append_va(d, data), data)
<1> DEFINE k == Len(data)
           g == _bson_grow(d, k)
           e == Extended(g, data)
<1>1. k \in Nat /\ Shaped(d) /\ IsString(d.buf) /\ Chained(d.frames)
  BY StringLength, WholeString, Zenon DEF Sound
<1>2. _bson_append_va(d, data) = e
  BY Zenon DEF _bson_append_va
<1>3. Appended(d, e, k)
  BY <1>1, <1>2, VaAppended, Zenon
<1>4. Shaped(g) /\ g.ok \in BOOLEAN /\ g.frames = d.frames /\ g.buf = d.buf
  BY <1>1, GrownAnyhow, GrownKeeps, Zenon
<1>5. Top(g) = Top(d)
  BY <1>4, Zenon DEF Top
<1> HIDE DEF g
<1>6. e.ok = g.ok
  BY ONLY <1>4, ExtendedFrames, Zenon
<1>7. CASE ~g.ok
  <2>1. e = g
    BY <1>7, Zenon DEF Extended
  <2>2. Whole(e)
    BY <1>4, <2>1, SameWhole, Zenon
  <2> QED
    BY <1>2, <1>6, <1>7, <2>2, Zenon DEF Added
<1>8. CASE g.ok
  <2>1. Top(g).len + Len(data) <= Biggest
    <3>1. Reach(Top(e)) = Reach(Top(d)) + k /\ Reach(Top(e)) <= Biggest
      BY <1>2, <1>3, <1>6, <1>8, Zenon DEF Appended, InReach, Reach
    <3>2. Reach(Top(d)) = Top(d).offset + Top(d).len + Top(d).depth
          /\ Top(d).offset \in Nat /\ Top(d).len \in Nat /\ Top(d).depth \in Nat
      BY TopFrame, Zenon
    <3> HIDE DEF g, e
    <3>3. Top(d).len + k <= Biggest
      BY ONLY <1>1, <3>1, <3>2, SMT DEF Biggest
    <3> QED
      BY <1>5, <3>3, Zenon
  <2>2. Chained(g.frames) /\ IsString(g.buf)
    BY <1>1, <1>4, Zenon
  <2>3. Whole(e) /\ Carries(e.buf, Top(g).offset + Top(g).len - 1, data)
    BY <1>4, <1>8, <2>1, <2>2, ExtendedWhole, Zenon
  <2> QED
    BY <1>2, <1>5, <2>3, Zenon DEF Added
<1> QED
  BY <1>7, <1>8

LEMMA AppendWhole ==
    ASSUME NEW d, Sound(d), Whole(d), NEW data, IsString(data), InReach(_bson_append(d, data))
    PROVE  Added(d, _bson_append(d, data), data)
<1> DEFINE c == [d EXCEPT !.ok = TRUE]
<1>1. Sound(c) /\ c.ok /\ c.frames = d.frames /\ c.buf = d.buf
  BY OkSet, OkKeeps, Zenon DEF Sound
<1>2. Whole(c) /\ Top(c) = Top(d)
  BY <1>1, SameWhole, Zenon DEF Top
<1>3. CASE Len(data) > MaxSize - Top(d).len
  <2>1. _bson_append(d, data) = Fail(d)
    BY <1>3, Zenon DEF _bson_append
  <2>2. Whole(Fail(d)) /\ Fail(d).ok = FALSE
    BY FailKeeps, FailSound, SameWhole, Zenon DEF Sound
  <2> QED
    BY <2>1, <2>2, Zenon DEF Added
<1>4. CASE ~(Len(data) > MaxSize - Top(d).len)
  <2>1. _bson_append(d, data) = _bson_append_va(c, data)
    BY <1>4, Zenon DEF _bson_append
  <2>2. Added(c, _bson_append_va(c, data), data)
    <3> HIDE DEF c
    <3> QED
      BY <1>1, <1>2, <2>1, VaWhole, Zenon
  <2> QED
    BY <1>2, <2>1, <2>2, Zenon DEF Added
<1> QED
  BY <1>3, <1>4

LEMMA AddsWhole ==
    ASSUME NEW d, Sound(d), Whole(d), NEW e, Adds(d, e), InReach(e)
    PROVE  Whole(e)
<1>1. CASE e = Fail(d)
  BY <1>1, FailKeeps, SameWhole, Zenon DEF Sound
<1>2. CASE e = [d EXCEPT !.ok = TRUE]
  BY <1>2, OkKeeps, SameWhole, Zenon DEF Sound
<1>3. ASSUME NEW data, IsString(data), e = _bson_append(d, data) PROVE Whole(e)
  BY <1>3, AppendWhole, Zenon DEF Added
<1> QED
  BY <1>1, <1>2, <1>3, Zenon DEF Adds

LEMMA OutOfLineKeeps ==
    ASSUME NEW d, Shaped(d)
    PROVE  OutOfLine(d).buf = d.buf
<1>1. CASE ~d.inline
  BY <1>1, Zenon DEF OutOfLine
<1>2. CASE d.inline
  <2> DEFINE size == InlineSize + 8 - Top(d).len
  <2>1. OutOfLine(d) = _bson_grow(d, size)
    BY <1>2, Zenon DEF OutOfLine
  <2> HIDE DEF size
  <2> QED
    BY <2>1, GrownKeeps, Zenon
<1> QED
  BY <1>1, <1>2

(* The five bytes of an empty document *)
LEMMA EmptyHolds ==
    ASSUME NEW buf, IsString(buf), NEW c \in Nat, c + 5 <= Len(buf), Carries(buf, c, EmptyDocument)
    PROVE  Holds(buf, c, 5)
<1>1. /\ EmptyDocument[1] = 5 /\ EmptyDocument[2] = 0 /\ EmptyDocument[3] = 0
      /\ EmptyDocument[4] = 0 /\ EmptyDocument[5] = 0
  BY DEF EmptyDocument
<1>2. 1 \in 1..5 /\ 2 \in 1..5 /\ 3 \in 1..5 /\ 4 \in 1..5 /\ 5 \in 1..5
  OBVIOUS
<1>3. \A j \in 1..5 : buf[c + j] = EmptyDocument[j]
  BY EmptyString, Zenon DEF Carries
<1>4. buf[c + 1] = 5 /\ buf[c + 2] = 0 /\ buf[c + 3] = 0 /\ buf[c + 4] = 0 /\ buf[c + 5] = 0
  BY ONLY <1>1, <1>2, <1>3, Zenon
<1>5. Int32At(buf, c) = 5
  BY ONLY <1>4 DEF Int32At
<1> QED
  BY <1>4, <1>5, Zenon DEF Holds

(* What carries two strings carries the second behind the first. *)
LEMMA CarriesSecond ==
    ASSUME NEW buf, NEW p \in Nat, NEW s, NEW t, IsString(s), IsString(t), Carries(buf, p, s \o t)
    PROVE  Carries(buf, p + Len(s), t)
<1> DEFINE m == Len(s)
           k == Len(t)
           q == s \o t
<1>1. PICK S : s \in Seq(S)
  BY DEF IsString
<1>2. PICK T : t \in Seq(T)
  BY DEF IsString
<1> DEFINE U == S \cup T
<1>3. s \in Seq(U) /\ t \in Seq(U)
  BY <1>1, <1>2
<1> HIDE DEF U
<1>4. Len(q) = m + k /\ \A i \in 1..(m + k) : q[i] = IF i <= m THEN s[i] ELSE t[i - m]
  BY ONLY <1>3, ConcatProperties
<1>5. m \in Nat /\ k \in Nat
  BY <1>3
<1> HIDE DEF q, m, k
<1>6. \A j \in 1..k : m + j \in 1..(m + k) /\ ~(m + j <= m) /\ (m + j) - m = j /\ p + (m + j) = (p + m) + j
  BY <1>5
<1>7. ASSUME NEW j \in 1..k PROVE buf[(p + m) + j] = t[j]
  <2>1. buf[p + (m + j)] = q[m + j]
    BY <1>4, <1>6, Zenon DEF Carries, q
  <2>2. q[m + j] = t[j]
    BY <1>4, <1>6
  <2> QED
    BY <1>6, <2>1, <2>2
<1> QED
  BY <1>7, Zenon DEF Carries, k, m

LEMMA OpenedWhole ==
    ASSUME NEW d, Sound(d), Whole(d), NEW key \in Data, NEW type,
           InReach(_bson_append_bson_begin(d, key, type))
    PROVE  Whole(_bson_append_bson_begin(d, key, type))
<1> DEFINE o == OutOfLine(d)
           f == Field(type, key)
           data == f \o EmptyDocument
           a == _bson_append(o, data)
           e == Opened(a)
<1>1. Sound(o) /\ o.frames = d.frames /\ o.buf = d.buf
  BY OutOfLineSound, OutOfLineKeeps, Zenon DEF Sound
<1>2. Whole(o)
  BY <1>1, SameWhole, Zenon
<1>3. IsString(f) /\ Len(f) \in Nat
  BY FieldString
<1> HIDE DEF f
<1>4. IsString(data) /\ Len(data) = Len(f) + 5
  BY <1>3, EmptyString, Concatenated, Zenon
<1>5. _bson_append_bson_begin(d, key, type) = e
  BY Zenon DEF _bson_append_bson_begin, f
<1> HIDE DEF o
<1>6. Appended(o, a, Len(data))
  BY <1>1, <1>4, AppendAppended, StringLength, Zenon
<1>7. CASE ~a.ok
  <2>1. e = a
    BY <1>7, Zenon DEF Opened
  <2> HIDE DEF e
  <2>2. InReach(a)
    BY <1>5, <2>1, Zenon
  <2>3. Added(o, a, data)
    BY <1>1, <1>2, <1>4, <2>2, AppendWhole, Zenon
  <2> QED
    BY <1>5, <2>1, <2>3, Zenon DEF Added
<1>8. CASE a.ok
  <2> DEFINE fs == a.frames
             n == Len(fs)
             g == Frame(fs[n].offset + fs[n].len - 1 - 5, fs[n].depth + 1)
             gs == Append(fs, g)
  <2>1. e = [a EXCEPT !.frames = gs]
    BY <1>8, Zenon DEF Opened, Top
  <2>2. Shaped(a) /\ Chained(fs)
    BY <1>6, Zenon DEF Appended
  <2>3. e.frames = gs /\ e.buf = a.buf
    <3> HIDE DEF gs, e, a
    <3> DEFINE h == [a EXCEPT !.frames = gs]
    <3>1. h = Record(a.buf, a.cap, a.inline, a.realloc, gs, a.ok)
      BY <2>2, SetFrames, Zenon
    <3> HIDE DEF h
    <3>2. h.frames = gs /\ h.buf = a.buf
      BY ONLY <3>1, Parts
    <3> QED
      BY <2>1, <3>2, Zenon DEF h
  <2> HIDE DEF a, e
  <2>4. Top(a) = fs[n]
    BY Zenon DEF Top
  <2>5. /\ Top(a).len = Top(o).len + (Len(f) + 5) /\ Top(a).offset = Top(o).offset
        /\ Top(o).len \in Nat /\ Top(o).len >= 5 /\ Top(o).offset \in Nat
    <3>1. Top(a).len = Top(o).len + Len(data) /\ Top(a).offset = Top(o).offset
      BY <1>6, <1>8, Zenon DEF Appended
    <3>2. Top(o).len \in Nat /\ Top(o).len >= 5 /\ Top(o).offset \in Nat
      BY <1>1, TopFrame, Zenon
    <3> QED
      BY <1>4, <3>1, <3>2, Zenon
  <2>6. fs[n].len >= 6
    <3> DEFINE k == Len(f)
    <3> HIDE DEF k
    <3>1. k \in Nat /\ fs[n].len = Top(o).len + (k + 5)
      BY <1>3, <2>4, <2>5 DEF k
    <3> HIDE DEF fs, n
    <3> QED
      BY ONLY <2>5, <3>1, SMT
  <2>7. Chained(gs) /\ Len(gs) = n + 1 /\ gs[Len(gs)] = g /\ Reach(g) = Reach(fs[n])
    BY <2>2, <2>6, OpenedChain, Zenon
  <2> DEFINE c == Top(o).offset + Top(o).len - 1 + Len(f)
  <2>8. g.offset = c /\ g.len = 5 /\ c \in Nat
    <3> DEFINE k == Len(f)
               x == Top(o).offset
               y == Top(o).len
    <3>1. k \in Nat /\ x \in Nat /\ y \in Nat /\ y >= 5 /\ fs[n].len = y + (k + 5) /\ fs[n].offset = x
      BY <1>3, <2>4, <2>5
    <3>2. g.offset = fs[n].offset + fs[n].len - 1 - 5 /\ g.len = 5
      BY DEF Frame
    <3> HIDE DEF k, x, y, g, fs, n
    <3>3. g.offset = x + y - 1 + k /\ x + y - 1 + k \in Nat
      BY ONLY <3>1, <3>2, SMT
    <3> QED
      BY <3>2, <3>3 DEF k, x, y
  <2> HIDE DEF gs, g
  <2>9. Top(e) = g
    BY <2>3, <2>7, Zenon DEF Top
  <2>10. InReach(a)
    BY <1>5, <2>4, <2>7, <2>9, Zenon DEF InReach, Reach
  <2>11. Whole(a) /\ Carries(a.buf, Top(o).offset + Top(o).len - 1, data)
    <3>1. a = _bson_append(o, data)
      BY Zenon DEF a
    <3> HIDE DEF data
    <3> QED
      BY <1>1, <1>2, <1>4, <1>8, <2>10, <3>1, AppendWhole, Zenon DEF Added
  <2>12. Carries(a.buf, c, EmptyDocument)
    <3> DEFINE p == Top(o).offset + Top(o).len - 1
    <3>1. p \in Nat
      BY <2>5
    <3> HIDE DEF p
    <3>2. Carries(a.buf, p, f \o EmptyDocument)
      BY <2>11, Zenon DEF p
    <3>3. Carries(a.buf, p + Len(f), EmptyDocument)
      BY <1>3, <3>1, <3>2, EmptyString, CarriesSecond, Zenon
    <3> QED
      BY <3>3, Zenon DEF p
  <2>13. IsString(a.buf) /\ c + 5 <= Len(a.buf)
    <3>1. IsString(a.buf) /\ Top(a).offset + Top(a).len <= Len(a.buf)
      BY <2>11, Zenon DEF Whole, Holds
    <3>2. Len(a.buf) \in Nat
      BY <3>1, StringLength
    <3> DEFINE k == Len(f)
               x == Top(o).offset
               y == Top(o).len
               l == Len(a.buf)
    <3>3. k \in Nat /\ x \in Nat /\ y \in Nat /\ l \in Nat /\ x + (y + (k + 5)) <= l
      BY <1>3, <2>5, <3>1, <3>2
    <3> HIDE DEF k, x, y, l
    <3>4. x + y - 1 + k + 5 <= l
      BY ONLY <3>3, SMT
    <3> QED
      BY <3>1, <3>4 DEF k, x, y, l
  <2> HIDE DEF c
  <2>14. Holds(a.buf, c, 5)
    BY <2>8, <2>12, <2>13, EmptyHolds, Zenon
  <2>15. Whole(e)
    BY <2>3, <2>8, <2>9, <2>14, Zenon DEF Whole
  <2> QED
    BY <1>5, <2>15, Zenon
<1> QED
  BY <1>7, <1>8

LEMMA ClosedWhole ==
    ASSUME NEW d, Sound(d), Len(d.frames) > 1, Whole(d), InReach(d)
    PROVE  Whole(_bson_append_bson_end(d)) /\ InReach(_bson_append_bson_end(d))
<1> DEFINE n == Len(d.frames) - 1
           fs == ClosedFrames(d.frames)
           t == Taken(d, n)
           u == Ended(t)
           e == Lengthened(u)
           x == fs[n].offset
           y == fs[n].len
<1>1. /\ Chained(fs) /\ Len(fs) = n
      /\ Reach(fs[n]) = Reach(d.frames[n + 1])
  <2>1. Chained(d.frames) /\ Len(d.frames) \in Nat
    BY TopFrame, Zenon DEF Sound
  <2>2. n + 1 = Len(d.frames)
    BY <2>1
  <2> QED
    BY <2>1, <2>2, ClosedChain, Zenon
<1>2. n + 1 = Len(d.frames) /\ Top(d) = d.frames[n + 1]
  BY TopFrame, TopIsLast
<1>3. t = [d EXCEPT !.frames = fs, !.ok = TRUE]
  BY Zenon DEF Taken, ClosedFrames, FirstLonger, Longer, Top
<1>4. _bson_append_bson_end(d) = e
  BY Zenon DEF _bson_append_bson_end
<1> HIDE DEF fs, n, t
<1>5. Shaped(t) /\ t.frames = fs /\ t.buf = d.buf
  <2> DEFINE yes == TRUE
             h == [d EXCEPT !.frames = fs, !.ok = yes]
  <2> HIDE DEF yes
  <2>1. h = Record(d.buf, d.cap, d.inline, d.realloc, fs, yes)
    BY SetFramesOk, Zenon DEF Sound
  <2> HIDE DEF h
  <2>2. Shaped(h) /\ h.frames = fs /\ h.buf = d.buf
    BY ONLY <2>1, Parts
  <2>3. t = h
    BY <1>3 DEF h, yes
  <2> QED
    BY <2>2, <2>3, Zenon
<1>6. Top(t) = fs[n]
  BY <1>1, <1>5, Zenon DEF Top
<1>7. Shaped(u) /\ u.frames = fs /\ u.buf = Overwrite(d.buf, x + y - 1, <<0>>)
  <2> DEFINE buf == Overwrite(t.buf, Top(t).offset + Top(t).len - 1, <<0>>)
             h == [t EXCEPT !.buf = buf]
  <2>1. u = h
    BY Zenon DEF Ended
  <2>2. buf = Overwrite(d.buf, x + y - 1, <<0>>)
    BY <1>5, <1>6, Zenon
  <2> HIDE DEF buf
  <2>3. h = Record(buf, t.cap, t.inline, t.realloc, t.frames, t.ok)
    BY <1>5, SetBuf
  <2> HIDE DEF h, u
  <2>4. Shaped(h) /\ h.frames = t.frames /\ h.buf = buf
    BY ONLY <2>3, Parts
  <2> QED
    BY <1>5, <2>1, <2>2, <2>4, Zenon
<1> HIDE DEF u
<1>8. Top(u) = fs[n]
  BY <1>1, <1>7, Zenon DEF Top
<1>9. e.frames = fs /\ e.buf = Overwrite(u.buf, x, LE(y, 4))
  BY <1>7, <1>8, LengthenedKeeps, LengthenedBuf, Zenon
<1>10. Top(e) = fs[n]
  BY <1>1, <1>9, Zenon DEF Top
<1>11. Reach(fs[n]) <= Biggest
  BY <1>1, <1>2, Zenon DEF InReach, Reach
<1>12. x \in Nat /\ y \in Nat /\ y >= 5 /\ y <= Biggest
  <2>1. fs \in Seq(Frames) /\ Len(fs) >= 1 /\ \A i \in 1..Len(fs) : fs[i].len >= 5
    BY <1>1 DEF Chained
  <2>2. fs[n] \in Frames /\ fs[n].len >= 5
    BY <1>1, <2>1
  <2> DEFINE f == fs[n]
  <2> HIDE DEF f
  <2>3. f \in Frames /\ f.len >= 5 /\ Reach(f) <= Biggest
    BY <1>11, <2>2 DEF f
  <2>4. f.offset \in Nat /\ f.len \in Nat /\ f.len >= 5 /\ f.len <= Biggest
    BY ONLY <2>3 DEF Frames, Reach, Biggest
  <2> QED
    BY <2>4 DEF f
<1>13. IsString(d.buf)
  BY WholeString
<1> HIDE DEF x, y, e
<1>14. Holds(e.buf, x, y)
  BY <1>7, <1>9, <1>12, <1>13, EndedHolds, Zenon
<1>15. Whole(e)
  BY <1>10, <1>14, Zenon DEF Whole, x, y
<1>16. InReach(e)
  BY <1>10, <1>11, Zenon DEF InReach, Reach
<1> QED
  BY <1>4, <1>15, <1>16, Zenon DEF e

LEMMA OverwrittenHolds ==
    ASSUME NEW buf, IsString(buf), NEW o \in Nat
    PROVE  Holds(Overwrite(buf, o, EmptyDocument), o, 5)
<1> DEFINE r == Overwrite(buf, o, EmptyDocument)
<1>1. IsString(r) /\ Len(r) >= o + Len(EmptyDocument) /\ Carries(r, o, EmptyDocument)
  BY EmptyString, OverwrittenBytes, Zenon
<1> HIDE DEF r
<1>2. Len(r) \in Nat /\ o + 5 <= Len(r)
  <2>1. Len(r) \in Nat
    BY <1>1, StringLength
  <2> QED
    BY <1>1, <2>1, EmptyString
<1>3. Holds(r, o, 5)
  BY <1>1, <1>2, EmptyHolds, Zenon
<1> QED
  BY <1>3 DEF r

LEMMA ZeroedHolds ==
    ASSUME NEW buf, IsString(buf), NEW o \in Nat
    PROVE  Holds(Overwrite(Overwrite(buf, o, <<5>>), o + 1, <<0, 0, 0, 0, 0>>), o, 5)
<1> DEFINE five == <<5>>
           zeros == <<0, 0, 0, 0, 0>>
           s == Overwrite(buf, o, five)
           q == o + 1
           r == Overwrite(s, q, zeros)
<1>1. IsString(five) /\ Len(five) = 1 /\ five[1] = 5
  BY OneByte
<1>2. IsString(zeros) /\ Len(zeros) = 5 /\ \A j \in 1..5 : zeros[j] = 0
  <2>1. zeros \in Seq(Int) /\ Len(zeros) = 5 /\ \A j \in 1..5 : zeros[j] = 0
    OBVIOUS
  <2> QED
    BY <2>1, Zenon DEF IsString
<1> HIDE DEF five, zeros
<1>3. q \in Nat /\ q = o + 1
  OBVIOUS
<1> HIDE DEF q
<1>4. IsString(s) /\ Carries(s, o, five)
  BY <1>1, OverwrittenBytes, Zenon
<1> HIDE DEF s
<1>5. /\ IsString(r) /\ Len(r) \in Nat /\ Len(r) >= q + Len(zeros)
      /\ Carries(r, q, zeros) /\ Keeps(s, r, q, Len(zeros))
  BY <1>2, <1>3, <1>4, OverwrittenBytes, Zenon
<1> HIDE DEF r
<1>6. r[o + 1] = 5
  <2>1. o + 1 \in 1..Len(r) /\ ~(o + 1 > q)
    BY <1>2, <1>3, <1>5
  <2>2. r[o + 1] = s[o + 1]
    BY <1>5, <2>1, Zenon DEF Keeps
  <2>3. 1 \in 1..1
    OBVIOUS
  <2>4. s[o + 1] = five[1]
    BY <1>1, <1>4, <2>3, Zenon DEF Carries
  <2> QED
    BY <1>1, <2>2, <2>4, Zenon
<1>7. r[o + 2] = 0 /\ r[o + 3] = 0 /\ r[o + 4] = 0 /\ r[o + 5] = 0
  <2>1. \A j \in 1..5 : r[q + j] = 0
    BY <1>2, <1>5, Zenon DEF Carries
  <2>2. q + 1 = o + 2 /\ q + 2 = o + 3 /\ q + 3 = o + 4 /\ q + 4 = o + 5
        /\ 1 \in 1..5 /\ 2 \in 1..5 /\ 3 \in 1..5 /\ 4 \in 1..5
    BY <1>3
  <2> QED
    BY <2>1, <2>2, Zenon
<1>8. o + 5 <= Len(r)
  BY <1>2, <1>3, <1>5
<1>9. Int32At(r, o) = 5
  BY ONLY <1>6, <1>7 DEF Int32At
<1>10. Holds(r, o, 5)
  BY <1>5, <1>7, <1>8, <1>9, Zenon DEF Holds
<1> QED
  BY <1>10 DEF r, s, q, five, zeros

(* A whole document without open children *)
Alone(d) == Whole(d) /\ Len(d.frames) = 1

LEMMA OneFrameWhole ==
    ASSUME NEW buf, NEW cap, NEW inline, NEW realloc, NEW f, NEW ok, Holds(buf, f.offset, f.len),
           NEW d, d = Record(buf, cap, inline, realloc, <<f>>, ok)
    PROVE  Alone(d)
<1> DEFINE fs == <<f>>
<1>1. Len(fs) = 1 /\ fs[1] = f
  OBVIOUS
<1>2. d.buf = buf /\ d.frames = fs
  BY Zenon DEF Record
<1> HIDE DEF fs
<1> QED
  BY <1>1, <1>2, Zenon DEF Alone, Whole, Top

LEMMA InitWhole == Alone(bson_init)
<1> DEFINE f == Frame(0, 0)
<1>1. f.offset = 0 /\ f.len = 5
  BY DEF Frame
<1>2. Holds(EmptyDocument, 0, 5)
  <2>1. Carries(EmptyDocument, 0, EmptyDocument)
    <3>1. \A j \in 1..Len(EmptyDocument) : 0 + j = j
      BY EmptyString
    <3> QED
      BY <3>1, Zenon DEF Carries
  <2>2. 0 \in Nat /\ 0 + 5 <= Len(EmptyDocument)
    BY EmptyString
  <2> QED
    BY <2>1, <2>2, EmptyString, EmptyHolds, Zenon
<1>3. bson_init = Record(EmptyDocument, InlineSize, TRUE, TRUE, <<f>>, TRUE)
  BY Zenon DEF bson_init, Record
<1> HIDE DEF f
<1>4. Holds(EmptyDocument, f.offset, f.len)
  BY <1>1, <1>2, Zenon
<1> QED
  BY <1>3, <1>4, OneFrameWhole, Zenon

LEMMA DocumentHolds == ASSUME NEW doc \in Documents PROVE Holds(doc, 0, Len(doc))
<1>1. doc \in Data /\ Int32At(doc, 0) = Len(doc) /\ doc[Len(doc)] = 0
  BY Zenon DEF Documents, bson_init_static
<1>2. IsString(doc)
  BY <1>1, DataString, Zenon
<1>3. Len(doc) \in Nat
  BY <1>2, StringLength
<1>4. 0 + Len(doc) = Len(doc) /\ Len(doc) <= Len(doc)
  BY <1>3
<1> QED
  BY <1>1, <1>2, <1>4, Zenon DEF Holds

LEMMA CopyWhole == ASSUME NEW doc \in Documents PROVE Alone(bson_copy(doc))
<1> DEFINE n == Len(doc)
           f == [offset |-> 0, len |-> n, depth |-> 0]
<1>1. Holds(doc, f.offset, f.len)
  BY DocumentHolds
<1> HIDE DEF f, n
<1>2. ASSUME NEW s, Shaped(s), s.frames = <<Frame(0, 0)>>
      PROVE  Alone([s EXCEPT !.buf = doc, !.frames[1].len = n])
  <2> DEFINE e == [s EXCEPT !.buf = doc, !.frames[1].len = n]
  <2>1. e = Record(doc, s.cap, s.inline, s.realloc, <<f>>, s.ok)
    BY <1>2, CopiedRecord, Zenon DEF f
  <2> HIDE DEF e
  <2>2. Alone(e)
    BY <1>1, <2>1, OneFrameWhole, Zenon
  <2> QED
    BY <2>2 DEF e
<1>3. CASE n <= InlineSize
  <2>1. bson_copy(doc) = [bson_init EXCEPT !.buf = doc, !.frames[1].len = n]
    BY <1>3, Zenon DEF bson_copy, bson_sized_new, n
  <2>2. Shaped(bson_init) /\ bson_init.frames = <<Frame(0, 0)>>
    BY Zenon DEF bson_init, Shaped, Record
  <2> QED
    BY <1>2, <2>1, <2>2, Zenon
<1>4. CASE ~(n <= InlineSize)
  <2>1. bson_copy(doc)
        = [[bson_init EXCEPT !.inline = FALSE, !.cap = n] EXCEPT !.buf = doc, !.frames[1].len = n]
    BY <1>4, Zenon DEF bson_copy, bson_sized_new, n
  <2>2. SUFFICES ASSUME NEW s, s = [bson_init EXCEPT !.inline = FALSE, !.cap = n]
                 PROVE  Alone([s EXCEPT !.buf = doc, !.frames[1].len = n])
    BY <2>1, Zenon
  <2>3. s = Record(EmptyDocument, n, FALSE, TRUE, <<Frame(0, 0)>>, TRUE)
    BY <2>2, Zenon DEF bson_init, Record
  <2>4. Shaped(s) /\ s.frames = <<Frame(0, 0)>>
    BY <2>3, Zenon DEF Shaped, Record
  <2> QED
    BY <1>2, <2>4, Zenon
<1> QED
  BY <1>3, <1>4

LEMMA AgainWhole ==
    ASSUME NEW d, Sound(d), Len(d.frames) = 1, Whole(d)
    PROVE  Alone(bson_reinit(d))
<1> DEFINE g == d.frames[1]
           f == Frame(g.offset, 0)
           buf == Overwrite(d.buf, g.offset, EmptyDocument)
           e == [d EXCEPT !.buf = buf, !.frames = <<f>>]
<1>1. g = Top(d) /\ g.offset \in Nat
  <2>1. g = Top(d)
    BY Zenon DEF Top
  <2> QED
    BY <2>1, TopFrame, Zenon
<1>2. f.offset = g.offset /\ f.len = 5
  BY Zenon DEF Frame
<1>3. bson_reinit(d) = e
  BY Zenon DEF bson_reinit
<1>4. Holds(buf, g.offset, 5)
  BY <1>1, WholeString, OverwrittenHolds, Zenon
<1> HIDE DEF g, f, buf
<1>5. e = Record(buf, d.cap, d.inline, d.realloc, <<f>>, d.ok)
  <2> DEFINE c == [d EXCEPT !.buf = buf]
             fs == <<f>>
  <2>1. c = Record(buf, d.cap, d.inline, d.realloc, d.frames, d.ok)
    BY SetBuf DEF Sound
  <2> HIDE DEF c, fs
  <2>2. [c EXCEPT !.frames = fs] = Record(buf, d.cap, d.inline, d.realloc, fs, d.ok)
    BY <2>1, Parts, SetFrames
  <2> QED
    BY <2>2, Zenon DEF c, fs
<1> HIDE DEF e
<1>6. Holds(buf, f.offset, f.len)
  BY <1>2, <1>4, Zenon
<1> QED
  BY <1>3, <1>5, <1>6, OneFrameWhole, Zenon

LEMMA BegunWhole ==
    ASSUME NEW v, WriterSound(v), IsString(v.buf)
    PROVE  IsString(bson_writer_begin(v).buf) /\ Alone(bson_writer_begin(v).b)
<1> DEFINE need == v.offset + 5
           cap == CHOOSE c \in Doubled(v.buflen) :
                      c >= need /\ \A d \in Doubled(v.buflen) : d >= need => c <= d
           zeroed == Overwrite(Overwrite(v.buf, v.offset, <<5>>), v.offset + 1, <<0, 0, 0, 0, 0>>)
           f == Frame(v.offset, 0)
           no == FALSE
           yes == TRUE
           d == Record(zeroed, cap, no, yes, <<f>>, yes)
           e == [v EXCEPT !.ready = no, !.b = d]
<1>1. v.offset \in Nat
  BY DEF WriterSound
<1>2. bson_writer_begin(v) = e
  BY Zenon DEF bson_writer_begin, Record
<1>3. Holds(zeroed, v.offset, 5)
  BY <1>1, ZeroedHolds, Zenon
<1>4. f.offset = v.offset /\ f.len = 5
  BY <1>1, FrameType, Zenon
<1> HIDE DEF cap, zeroed, f
<1>5. Alone(d)
  <2>1. Holds(zeroed, f.offset, f.len)
    BY <1>3, <1>4, Zenon
  <2> QED
    BY <2>1, OneFrameWhole, Zenon
<1> HIDE DEF no, d
<1>6. e = Writer(v.buf, v.buflen, v.offset, no, d)
  <2>1. v = Writer(v.buf, v.buflen, v.offset, v.ready, v.b)
    BY Zenon DEF WriterSound
  <2> DEFINE h == [v EXCEPT !.ready = no]
  <2>2. h = Writer(v.buf, v.buflen, v.offset, no, v.b)
    BY <2>1 DEF Writer
  <2> HIDE DEF h
  <2>3. [h EXCEPT !.b = d] = Writer(v.buf, v.buflen, v.offset, no, d)
    BY <2>2 DEF Writer
  <2> QED
    BY <2>3, Zenon DEF h
<1> HIDE DEF e
<1>7. e.buf = v.buf /\ e.b = d
  BY <1>6, Zenon DEF Writer
<1> QED
  BY <1>2, <1>5, <1>7, Zenon

LEMMA ReturnedBuf ==
    ASSUME NEW v, WriterSound(v), NEW d, Sound(d)
    PROVE  /\ bson_writer_end([v EXCEPT !.b = d]).buf = d.buf
           /\ bson_writer_rollback([v EXCEPT !.b = d]).buf = d.buf
<1> DEFINE x == [v EXCEPT !.b = d]
           u == Shared(x)
           offset == u.offset + x.b.frames[1].len
<1>1. WriterSound(u) /\ u.buf = d.buf
  <2>1. WriterSound(u)
    BY SharedSound, Zenon
  <2>2. x = Writer(v.buf, v.buflen, v.offset, v.ready, d)
    BY WithBson
  <2>3. x.b = d
    BY <2>2, Zenon DEF Writer
  <2> HIDE DEF x
  <2> DEFINE y == [x EXCEPT !.buf = x.b.buf]
  <2>4. y = Writer(d.buf, v.buflen, v.offset, v.ready, d)
    BY <2>2, <2>3 DEF Writer
  <2> HIDE DEF y
  <2>5. [y EXCEPT !.buflen = x.b.cap] = Writer(d.buf, d.cap, v.offset, v.ready, d)
    BY <2>3, <2>4 DEF Writer
  <2>6. u = [y EXCEPT !.buflen = x.b.cap]
    BY Zenon DEF Shared, y
  <2>7. u = Writer(d.buf, d.cap, v.offset, v.ready, d)
    BY <2>5, <2>6, Zenon
  <2> HIDE DEF u
  <2>8. u.buf = d.buf
    BY <2>7, Zenon DEF Writer
  <2> QED
    BY <2>1, <2>8
<1>2. bson_writer_end(x) = [u EXCEPT !.offset = offset, !.ready = TRUE, !.b.frames = <<>>]
  BY Zenon DEF bson_writer_end
<1>3. bson_writer_rollback(x) = [u EXCEPT !.ready = TRUE, !.b.frames = <<>>]
  BY Zenon DEF bson_writer_rollback
<1> HIDE DEF u, offset
<1>4. u = Writer(u.buf, u.buflen, u.offset, u.ready, u.b)
  BY <1>1, Zenon DEF WriterSound
<1>5. /\ [u EXCEPT !.offset = offset, !.ready = TRUE, !.b.frames = <<>>].buf = u.buf
      /\ [u EXCEPT !.ready = TRUE, !.b.frames = <<>>].buf = u.buf
  BY <1>4, Zenon DEF Writer
<1> QED
  BY <1>1, <1>2, <1>3, <1>5, Zenon

(* The invariant that says more: the writer's buffer holds bytes, the      *)
(* topmost document is whole, and a parent's length will have a place.     *)
WholeInv ==
    /\ BuilderInv /\ IsString(w.buf)
    /\ building => Whole(b) /\ (Depth > 0 => InReach(b))

LEMMA AloneDepth == Alone(b') => Whole(b') /\ ~(Depth' > 0)
BY DEF Alone, Depth

LEMMA InitWholeInv == BuilderInit => WholeInv
<1>1. ASSUME NEW buf \in Data, NEW n, NEW offset PROVE bson_writer_new(buf, n, offset).buf = buf
  BY Zenon DEF bson_writer_new
<1>2. BuilderInit => IsString(w.buf)
  <2> SUFFICES ASSUME BuilderInit PROVE IsString(w.buf)
    OBVIOUS
  <2>1. PICK buf \in Data, n \in Nat, offset \in Nat : w = bson_writer_new(buf, n, offset)
    BY Zenon DEF BuilderInit
  <2>2. w.buf = buf
    BY <1>1, <2>1, Zenon
  <2> QED
    BY <2>2, DataString, Zenon
<1>3. BuilderInit => ~building
  BY Zenon DEF BuilderInit
<1> QED
  BY <1>2, <1>3, InitInv, Zenon DEF WholeInv

LEMMA NextWholeInv == ASSUME WholeInv, [BuilderNext]_builderVars PROVE WholeInv'
<1>1. BuilderInv'
  BY NextInv, Zenon DEF WholeInv
<1>2. IsString(w.buf) /\ WriterSound(w)
  BY Zenon DEF WholeInv, BuilderInv
<1>3. ASSUME building PROVE Sound(b) /\ Whole(b) /\ IsString(b.buf) /\ Len(b.frames) \in Nat
  BY <1>3, WholeString, TopFrame, Zenon DEF WholeInv, BuilderInv
<1> DEFINE Kept == IsString(w'.buf) /\ (building' => Whole(b') /\ (Depth' > 0 => InReach(b')))
<1>4. SUFFICES Kept
  BY <1>1, Zenon DEF WholeInv
<1>5. CASE StartInWriter
  <2>1. IsString(w'.buf) /\ Alone(b')
    BY <1>2, <1>5, BegunWhole, Zenon DEF StartInWriter
  <2> QED
    BY <2>1, AloneDepth, Zenon
<1>6. CASE StartNew
  <2>1. IsString(w'.buf) /\ Alone(b')
    BY <1>2, <1>6, InitWhole, Zenon DEF StartNew
  <2> QED
    BY <2>1, AloneDepth, Zenon
<1>7. ASSUME NEW doc \in Documents, StartCopy(doc) PROVE Kept
  <2>1. IsString(w'.buf) /\ Alone(b')
    BY <1>2, <1>7, CopyWhole, Zenon DEF StartCopy
  <2> QED
    BY <2>1, AloneDepth, Zenon
<1>8. ASSUME NEW key \in Data, NEW v \in Values, PutField(key, v) PROVE Kept
  BY <1>2, <1>3, <1>8, PutAdds, AddsWhole, Zenon DEF PutField
<1>9. ASSUME NEW key \in Data, NEW type, OpenChild(key, type) PROVE Kept
  <2>1. b' = _bson_append_bson_begin(b, key, BSON_TYPE_ARRAY) \/ b' = _bson_append_bson_begin(b, key, BSON_TYPE_DOCUMENT)
    BY <1>9, Zenon DEF OpenChild, bson_append_array_begin, bson_append_document_begin
  <2>2. Whole(b')
    BY <1>3, <1>9, <2>1, OpenedWhole, Zenon DEF OpenChild
  <2> QED
    BY <1>2, <1>9, <2>2, Zenon DEF OpenChild
<1>10. CASE CloseChild
  <2>1. Len(b.frames) - 1 > 0 /\ InReach(b)
    BY <1>10, Zenon DEF CloseChild, Depth, WholeInv
  <2>2. Len(b.frames) > 1
    BY <1>3, <1>10, <2>1 DEF CloseChild
  <2>3. Whole(b') /\ InReach(b')
    BY <1>3, <1>10, <2>1, <2>2, ClosedWhole, Zenon DEF CloseChild, bson_append_document_end
  <2> QED
    BY <1>2, <1>10, <2>3, Zenon DEF CloseChild
<1>11. ASSUME NEW src \in Documents, ConcatDocument(src) PROVE Kept
  BY <1>2, <1>3, <1>11, ConcatAdds, AddsWhole, Zenon DEF ConcatDocument
<1>12. CASE StartAgain
  <2>1. Len(b.frames) - 1 = 0
    BY <1>12, Zenon DEF StartAgain, Depth
  <2>2. Len(b.frames) = 1
    BY <1>3, <1>12, <2>1 DEF StartAgain
  <2>3. Alone(b')
    BY <1>3, <1>12, <2>2, AgainWhole, Zenon DEF StartAgain
  <2> QED
    BY <1>2, <1>12, <2>3, AloneDepth, Zenon DEF StartAgain
<1>13. CASE HandOver
  BY <1>2, <1>3, <1>13, ReturnedBuf, Zenon DEF HandOver
<1>14. CASE RollBack
  BY <1>2, <1>3, <1>14, ReturnedBuf, Zenon DEF RollBack
<1>15. CASE UNCHANGED builderVars
  BY <1>15, Zenon DEF builderVars, WholeInv, Depth
<1> QED
  BY <1>5, <1>6, <1>7, <1>8, <1>9, <1>10, <1>11, <1>12, <1>13, <1>14, <1>15, Zenon DEF BuilderNext

LEMMA InvWhole == WholeInv => WholeWhenClosed
<1> SUFFICES ASSUME WholeInv, building, Depth = 0 PROVE bson_init_static(bson_get_data(b))
  BY Zenon DEF WholeWhenClosed
<1>1. Sound(b) /\ Whole(b)
  BY Zenon DEF WholeInv, BuilderInv
<1>2. Len(b.frames) = 1
  <2>1. Len(b.frames) \in Nat /\ Len(b.frames) - 1 = 0
    BY <1>1, TopFrame, Zenon DEF Depth
  <2> QED
    BY <2>1
<1>3. Top(b) = b.frames[1] /\ Top(b).offset \in Nat /\ Top(b).len \in Nat /\ Top(b).len >= 5
  BY <1>1, <1>2, TopFrame, Zenon
<1>4. bson_init_static(Bytes(b.buf, Top(b).offset, Top(b).len))
  BY <1>1, <1>3, HeldBytes, Zenon DEF Whole
<1> QED
  BY <1>3, <1>4, Zenon DEF bson_get_data

(* Whatever is appended, closed, started again or failed in between: when  *)
(* no child is open the bytes of a bson_t (bson_get_data of bson.c) are    *)
(* what bson_init_static and the readers take for a document.              *)
THEOREM ClosedIsWhole == BuilderSpec => []WholeWhenClosed
<1>1. BuilderSpec => []WholeInv
  <2>1. WholeInv /\ [BuilderNext]_builderVars => WholeInv'
    BY NextWholeInv
  <2> QED
    BY InitWholeInv, <2>1, PTL DEF BuilderSpec
<1>2. WholeInv => WholeWhenClosed
  BY InvWhole
<1> QED
  BY <1>1, <1>2, PTL

-----------------------------------------------------------------------------
(* What a writer holds in front of the document being built *)

(* The first x bytes are the old ones. *)
SameUpTo(buf, old, x) == \A i \in 1..x : buf[i] = old[i]
(* The outermost document begins behind them, and none before it. *)
Behind(fs, x) == fs[1].offset = x /\ \A i \in 1..Len(fs) : fs[i].offset >= x
(* Built behind them, with these as they were *)
Since(d, x, old) == Behind(d.frames, x) /\ SameUpTo(d.buf, old, x)

LEMMA WrittenBehind ==
    ASSUME NEW buf, IsString(buf), NEW o \in Nat, NEW data, IsString(data),
           NEW old, NEW x \in Nat, x <= o, SameUpTo(buf, old, x)
    PROVE  SameUpTo(Overwrite(buf, o, data), old, x) /\ IsString(Overwrite(buf, o, data))
<1> DEFINE r == Overwrite(buf, o, data)
           k == Len(data)
<1>1. IsString(r) /\ Len(r) \in Nat /\ Len(r) >= o + k /\ Keeps(buf, r, o, k)
  BY OverwrittenBytes, Zenon
<1>2. k \in Nat
  BY StringLength
<1> HIDE DEF r, k
<1>3. \A i \in 1..x : i \in 1..Len(r) /\ ~(i > o)
  BY <1>1, <1>2
<1>4. \A i \in 1..x : r[i] = buf[i]
  BY <1>1, <1>3, Zenon DEF Keeps
<1>5. SameUpTo(r, old, x)
  BY <1>4, Zenon DEF SameUpTo
<1> QED
  BY <1>1, <1>5 DEF r

LEMMA LongerOffsets ==
    ASSUME NEW fs \in Seq(Frames), NEW n \in 1..Len(fs), NEW k \in Nat
    PROVE  LET gs == Longer(fs, n, k)
           IN  Len(gs) = Len(fs) /\ \A i \in 1..Len(fs) : gs[i].offset = fs[i].offset
<1> DEFINE f == [fs[n] EXCEPT !.len = fs[n].len + k]
           gs == Longer(fs, n, k)
<1>1. fs[n] \in Frames
  OBVIOUS
<1>2. f \in Frames /\ f.offset = fs[n].offset
  <2> DEFINE h == fs[n]
  <2>1. h \in Frames
    BY <1>1
  <2> HIDE DEF h
  <2> DEFINE l == h.len + k
  <2>2. l \in Nat
    BY <2>1 DEF Frames
  <2> HIDE DEF l
  <2>3. [h EXCEPT !.len = l] \in Frames /\ [h EXCEPT !.len = l].offset = h.offset
    BY ONLY <2>1, <2>2 DEF Frames
  <2> QED
    BY <2>3 DEF h, l
<1> HIDE DEF f
<1>3. gs = [fs EXCEPT ![n] = f]
  BY Zenon DEF Longer, f
<1> HIDE DEF gs
<1>4. Len(gs) = Len(fs) /\ gs[n] = f /\ \A i \in 1..Len(fs) : i # n => gs[i] = fs[i]
  BY <1>2, <1>3
<1>5. \A i \in 1..Len(fs) : gs[i].offset = fs[i].offset
  BY <1>2, <1>4
<1> QED
  BY <1>4, <1>5 DEF gs

LEMMA BehindKept ==
    ASSUME NEW fs, NEW gs, Len(fs) \in Nat, Len(gs) \in Nat, Len(gs) >= 1, Len(gs) <= Len(fs),
           \A i \in 1..Len(gs) : gs[i].offset = fs[i].offset, NEW x, Behind(fs, x)
    PROVE  Behind(gs, x)
<1>1. \A i \in 1..Len(gs) : i \in 1..Len(fs)
  OBVIOUS
<1>2. 1 \in 1..Len(gs)
  OBVIOUS
<1> QED
  BY <1>1, <1>2, Zenon DEF Behind

LEMMA TopBehind ==
    ASSUME NEW d, Sound(d), NEW x \in Nat, Behind(d.frames, x)
    PROVE  /\ Top(d).offset \in Nat /\ x <= Top(d).offset
           /\ Top(d).offset + Top(d).len - 1 \in Nat /\ x <= Top(d).offset + Top(d).len - 1
<1>1. /\ Len(d.frames) \in 1..Len(d.frames) /\ Top(d) = d.frames[Len(d.frames)]
      /\ Top(d).offset \in Nat /\ Top(d).len \in Nat /\ Top(d).len >= 5
  BY TopFrame
<1>2. Top(d).offset >= x
  BY <1>1, Zenon DEF Behind
<1> DEFINE o == Top(d).offset
           l == Top(d).len
<1>3. o \in Nat /\ l \in Nat /\ l >= 5 /\ o >= x
  BY <1>1, <1>2, Zenon
<1> HIDE DEF o, l
<1>4. x <= o /\ o + l - 1 \in Nat /\ x <= o + l - 1
  BY ONLY <1>3, x \in Nat, SMT
<1> QED
  BY <1>3, <1>4, Zenon DEF o, l

LEMMA SameSince ==
    ASSUME NEW d, NEW e, e.buf = d.buf, e.frames = d.frames, NEW x, NEW old, Since(d, x, old)
    PROVE  Since(e, x, old)
BY Zenon DEF Since

LEMMA VaSince ==
    ASSUME NEW d, Sound(d), d.ok, Whole(d), NEW data, IsString(data),
           NEW x \in Nat, NEW old, Since(d, x, old)
    PROVE  Since(_bson_append_va(d, data), x, old)
<1> DEFINE k == Len(data)
           g == _bson_grow(d, k)
           e == Extended(g, data)
<1>1. k \in Nat /\ Shaped(d) /\ IsString(d.buf) /\ Chained(d.frames)
  BY StringLength, WholeString, Zenon DEF Sound
<1>2. _bson_append_va(d, data) = e
  BY Zenon DEF _bson_append_va
<1>3. Shaped(g) /\ g.ok \in BOOLEAN /\ g.frames = d.frames /\ g.buf = d.buf
  BY <1>1, GrownAnyhow, GrownKeeps, Zenon
<1> HIDE DEF g
<1>4. CASE ~g.ok
  <2>1. e = g
    BY <1>4, Zenon DEF Extended
  <2>2. Since(e, x, old)
    BY <1>3, <2>1, SameSince, Zenon
  <2> QED
    BY <1>2, <2>2, Zenon
<1>5. CASE g.ok
  <2> DEFINE fs == d.frames
             n == Len(fs)
             o == Top(d).offset
             l == Top(d).len
  <2>1. e.frames = Longer(fs, n, k)
    <3>1. e.frames = IF g.ok THEN Longer(g.frames, Len(g.frames), Len(data)) ELSE g.frames
      BY <1>3, ExtendedFrames, Zenon
    <3>2. e.frames = Longer(g.frames, Len(g.frames), Len(data))
      BY <1>5, <3>1, Zenon
    <3> QED
      BY <1>3, <3>2, Zenon
  <2>2. fs \in Seq(Frames) /\ n \in Nat /\ n >= 1 /\ n \in 1..n
    BY TopFrame
  <2>3. Behind(e.frames, x)
    <3>1. Len(e.frames) = n /\ \A i \in 1..n : e.frames[i].offset = fs[i].offset
      <4> DEFINE hs == Longer(fs, n, k)
      <4>1. Len(hs) = Len(fs) /\ \A i \in 1..Len(fs) : hs[i].offset = fs[i].offset
        BY <1>1, <2>2, LongerOffsets, Zenon
      <4> HIDE DEF hs
      <4>2. e.frames = hs
        BY <2>1, Zenon DEF hs
      <4> QED
        BY <4>1, <4>2, Zenon
    <3>2. Behind(fs, x)
      BY Zenon DEF Since
    <3> DEFINE gs == e.frames
    <3> HIDE DEF gs, e, fs
    <3>3. Len(fs) \in Nat /\ Len(gs) \in Nat /\ Len(gs) >= 1 /\ Len(gs) <= Len(fs)
      BY <2>2, <3>1 DEF gs
    <3>4. Behind(gs, x)
      BY <3>1, <3>2, <3>3, BehindKept, Zenon DEF gs
    <3> QED
      BY <3>4 DEF gs
  <2>4. e.buf = ExtendedBuffer(d.buf, o, l, data)
    <3>1. Top(g) = Top(d)
      BY <1>3, Zenon DEF Top
    <3>2. Chained(g.frames)
      BY <1>1, <1>3, Zenon
    <3>3. e.buf = ExtendedBuffer(g.buf, Top(g).offset, Top(g).len, data)
      BY <1>1, <1>3, <1>5, <3>2, ExtendedBuf, Zenon
    <3> QED
      BY <1>3, <3>1, <3>3, Zenon
  <2>5. o \in Nat /\ x <= o /\ o + l - 1 \in Nat /\ x <= o + l - 1
    BY TopBehind, Zenon DEF Since
  <2>6. SameUpTo(d.buf, old, x)
    BY Zenon DEF Since
  <2>7. IsString(data \o <<0>>)
    BY OneByte, Concatenated, Zenon
  <2> DEFINE p == o + l - 1
             t == data \o <<0>>
             s == Overwrite(d.buf, p, t)
             r == Overwrite(s, o, LE(l + k, 4))
  <2>8. e.buf = r
    BY <2>4, Zenon DEF ExtendedBuffer
  <2> HIDE DEF p, t
  <2>9. p \in Nat /\ x <= p /\ IsString(t)
    BY <2>5, <2>7 DEF p, t
  <2>10. SameUpTo(s, old, x) /\ IsString(s)
    BY <1>1, <2>6, <2>9, WrittenBehind, Zenon
  <2> HIDE DEF s, o
  <2>11. SameUpTo(r, old, x)
    BY <2>5, <2>10, Number4, WrittenBehind, Zenon
  <2> HIDE DEF r, e
  <2>12. Since(e, x, old)
    BY <2>3, <2>8, <2>11, Zenon DEF Since
  <2> QED
    BY <1>2, <2>12, Zenon
<1> QED
  BY <1>3, <1>4, <1>5

LEMMA AppendSince ==
    ASSUME NEW d, Sound(d), Whole(d), NEW data, IsString(data),
           NEW x \in Nat, NEW old, Since(d, x, old)
    PROVE  Since(_bson_append(d, data), x, old)
<1> DEFINE c == [d EXCEPT !.ok = TRUE]
<1>1. Sound(c) /\ c.ok /\ c.frames = d.frames /\ c.buf = d.buf
  BY OkSet, OkKeeps, Zenon DEF Sound
<1>2. Whole(c) /\ Since(c, x, old)
  BY <1>1, SameWhole, SameSince, Zenon
<1>3. CASE Len(data) > MaxSize - Top(d).len
  <2>1. _bson_append(d, data) = Fail(d)
    BY <1>3, Zenon DEF _bson_append
  <2>2. Since(Fail(d), x, old)
    BY FailKeeps, SameSince, Zenon DEF Sound
  <2> QED
    BY <2>1, <2>2, Zenon
<1>4. CASE ~(Len(data) > MaxSize - Top(d).len)
  <2>1. _bson_append(d, data) = _bson_append_va(c, data)
    BY <1>4, Zenon DEF _bson_append
  <2> HIDE DEF c
  <2>2. Since(_bson_append_va(c, data), x, old)
    BY <1>1, <1>2, VaSince, Zenon
  <2> QED
    BY <2>1, <2>2, Zenon
<1> QED
  BY <1>3, <1>4

LEMMA AddsSince ==
    ASSUME NEW d, Sound(d), Whole(d), NEW e, Adds(d, e), NEW x \in Nat, NEW old, Since(d, x, old)
    PROVE  Since(e, x, old)
<1>1. CASE e = Fail(d)
  BY <1>1, FailKeeps, SameSince, Zenon DEF Sound
<1>2. CASE e = [d EXCEPT !.ok = TRUE]
  BY <1>2, OkKeeps, SameSince, Zenon DEF Sound
<1>3. ASSUME NEW data, IsString(data), e = _bson_append(d, data) PROVE Since(e, x, old)
  BY <1>3, AppendSince, Zenon
<1> QED
  BY <1>1, <1>2, <1>3, Zenon DEF Adds

LEMMA OpenedSince ==
    ASSUME NEW d, Sound(d), Whole(d), NEW key \in Data, NEW type,
           NEW x \in Nat, NEW old, Since(d, x, old)
    PROVE  Since(_bson_append_bson_begin(d, key, type), x, old)
<1> DEFINE o == OutOfLine(d)
           f == Field(type, key)
           data == f \o EmptyDocument
           a == _bson_append(o, data)
           e == Opened(a)
<1>1. Sound(o) /\ o.frames = d.frames /\ o.buf = d.buf
  BY OutOfLineSound, OutOfLineKeeps, Zenon DEF Sound
<1>2. Whole(o) /\ Since(o, x, old)
  BY <1>1, SameWhole, SameSince, Zenon
<1>3. IsString(f) /\ Len(f) \in Nat
  BY FieldString
<1> HIDE DEF f
<1>4. IsString(data) /\ Len(data) = Len(f) + 5
  BY <1>3, EmptyString, Concatenated, Zenon
<1>5. _bson_append_bson_begin(d, key, type) = e
  BY Zenon DEF _bson_append_bson_begin, f
<1> HIDE DEF o
<1>6. Appended(o, a, Len(data))
  BY <1>1, <1>4, AppendAppended, StringLength, Zenon
<1> HIDE DEF data
<1>7. Since(a, x, old)
  BY <1>1, <1>2, <1>4, AppendSince, Zenon
<1>8. CASE ~a.ok
  <2>1. e = a
    BY <1>8, Zenon DEF Opened
  <2> QED
    BY <1>5, <1>7, <2>1, Zenon
<1>9. CASE a.ok
  <2> DEFINE fs == a.frames
             n == Len(fs)
             g == Frame(fs[n].offset + fs[n].len - 1 - 5, fs[n].depth + 1)
             gs == Append(fs, g)
  <2>1. e = [a EXCEPT !.frames = gs]
    BY <1>9, Zenon DEF Opened, Top
  <2>2. Shaped(a) /\ Chained(fs)
    BY <1>6, Zenon DEF Appended
  <2>3. e.frames = gs /\ e.buf = a.buf
    <3> HIDE DEF gs, e, a
    <3> DEFINE h == [a EXCEPT !.frames = gs]
    <3>1. h = Record(a.buf, a.cap, a.inline, a.realloc, gs, a.ok)
      BY <2>2, SetFrames, Zenon
    <3> HIDE DEF h
    <3>2. h.frames = gs /\ h.buf = a.buf
      BY ONLY <3>1, Parts
    <3> QED
      BY <2>1, <3>2, Zenon DEF h
  <2> HIDE DEF a, e
  <2>4. fs \in Seq(Frames) /\ n \in Nat /\ n >= 1 /\ n \in 1..n
    BY <2>2 DEF Chained
  <2>5. fs[n].offset >= x /\ fs[n].offset \in Nat
    <3>1. fs[n].offset >= x
      BY <1>7, <2>4, Zenon DEF Since, Behind
    <3>2. fs[n] \in Frames
      BY <2>4
    <3> QED
      BY <3>1, <3>2 DEF Frames
  <2>6. fs[n].len = Top(o).len + (Len(f) + 5) /\ Top(o).len \in Nat /\ Top(o).len >= 5
    <3>1. Top(a).len = Top(o).len + Len(data)
      BY <1>6, <1>9, Zenon DEF Appended
    <3>2. Top(o).len \in Nat /\ Top(o).len >= 5
      BY <1>1, TopFrame, Zenon
    <3>3. Top(a) = fs[n]
      BY Zenon DEF Top
    <3> QED
      BY <1>4, <3>1, <3>2, <3>3, Zenon
  <2>7. g.offset >= x
    <3>1. g.offset = fs[n].offset + fs[n].len - 1 - 5
      BY DEF Frame
    <3> DEFINE k == Len(f)
               p == fs[n].offset
               l == fs[n].len
               m == Top(o).len
    <3>2. p >= x /\ p \in Nat /\ l = m + (k + 5) /\ m \in Nat /\ m >= 5 /\ k \in Nat
      BY <1>3, <2>5, <2>6
    <3> HIDE DEF g, k, p, l, m
    <3>3. p + l - 1 - 5 >= x
      BY ONLY <3>2, x \in Nat, SMT
    <3> QED
      BY <3>1, <3>3, Zenon DEF p, l
  <2> HIDE DEF g
  <2>8. Behind(gs, x)
    <3>1. fs[1].offset = x /\ \A i \in 1..n : fs[i].offset >= x
      BY <1>7, Zenon DEF Since, Behind
    <3> HIDE DEF fs
    <3>2. Len(gs) = n + 1 /\ gs[n + 1] = g /\ \A i \in 1..n : gs[i] = fs[i]
      BY <2>4
    <3> HIDE DEF gs, n
    <3>3. 1 \in 1..n /\ \A i \in 1..(n + 1) : i \in 1..n \/ i = n + 1
      BY <2>4
    <3>4. gs[1].offset = x
      BY <3>1, <3>2, <3>3, Zenon
    <3>5. \A i \in 1..(n + 1) : gs[i].offset >= x
      BY <2>7, <3>1, <3>2, <3>3, Zenon
    <3> QED
      BY <3>2, <3>4, <3>5, Zenon DEF Behind
  <2>9. Since(e, x, old)
    BY <1>7, <2>3, <2>8, Zenon DEF Since
  <2> QED
    BY <1>5, <2>9, Zenon
<1> QED
  BY <1>8, <1>9

LEMMA ClosedOffsets ==
    ASSUME NEW fs, Chained(fs), Len(fs) > 1, NEW x, Behind(fs, x)
    PROVE  Behind(ClosedFrames(fs), x)
<1> DEFINE n == Len(fs) - 1
           es == SubSeq(fs, 1, n)
           k == fs[n + 1].len - 5
           gs == Longer(es, n, k)
<1>1. fs \in Seq(Frames) /\ n \in Nat /\ n >= 1 /\ Len(fs) = n + 1 /\ n + 1 \in 1..Len(fs)
  BY DEF Chained
<1>2. k \in Nat
  <2>1. fs[n + 1] \in Frames /\ fs[n + 1].len >= 5
    BY <1>1 DEF Chained
  <2> QED
    BY <2>1 DEF Frames
<1>3. ClosedFrames(fs) = gs
  BY <1>1, Zenon DEF ClosedFrames
<1>4. es \in Seq(Frames) /\ Len(es) = n /\ \A i \in 1..n : es[i] = fs[i]
  BY <1>1
<1> HIDE DEF es, n, k
<1>5. Len(gs) = n /\ \A i \in 1..n : gs[i].offset = es[i].offset
  <2>1. n \in 1..Len(es)
    BY <1>1, <1>4
  <2>2. Len(gs) = Len(es) /\ \A i \in 1..Len(es) : gs[i].offset = es[i].offset
    BY <1>2, <1>4, <2>1, LongerOffsets, Zenon
  <2> QED
    BY <1>4, <2>2, Zenon
<1> HIDE DEF gs
<1>6. \A i \in 1..Len(gs) : gs[i].offset = fs[i].offset
  BY <1>4, <1>5, Zenon
<1>7. Len(fs) \in Nat /\ Len(gs) \in Nat /\ Len(gs) >= 1 /\ Len(gs) <= Len(fs)
  BY <1>1, <1>5
<1> QED
  BY <1>3, <1>6, <1>7, BehindKept, Zenon

LEMMA ClosedSince ==
    ASSUME NEW d, Sound(d), Len(d.frames) > 1, Whole(d), NEW s \in Nat, NEW old, Since(d, s, old)
    PROVE  Since(_bson_append_bson_end(d), s, old)
<1> DEFINE n == Len(d.frames) - 1
           fs == ClosedFrames(d.frames)
           t == Taken(d, n)
           u == Ended(t)
           e == Lengthened(u)
           x == fs[n].offset
           y == fs[n].len
<1>1. Chained(fs) /\ Len(fs) = n /\ Behind(fs, s)
  <2>1. Chained(d.frames) /\ Behind(d.frames, s)
    BY Zenon DEF Sound, Since
  <2> QED
    BY <2>1, ClosedChain, ClosedOffsets, Zenon
<1>3. t = [d EXCEPT !.frames = fs, !.ok = TRUE]
  BY Zenon DEF Taken, ClosedFrames, FirstLonger, Longer, Top
<1>4. _bson_append_bson_end(d) = e
  BY Zenon DEF _bson_append_bson_end
<1> HIDE DEF fs, n, t
<1>5. Shaped(t) /\ t.frames = fs /\ t.buf = d.buf
  <2> DEFINE yes == TRUE
             h == [d EXCEPT !.frames = fs, !.ok = yes]
  <2> HIDE DEF yes
  <2>1. h = Record(d.buf, d.cap, d.inline, d.realloc, fs, yes)
    BY SetFramesOk, Zenon DEF Sound
  <2> HIDE DEF h
  <2>2. Shaped(h) /\ h.frames = fs /\ h.buf = d.buf
    BY ONLY <2>1, Parts
  <2>3. t = h
    BY <1>3 DEF h, yes
  <2> QED
    BY <2>2, <2>3, Zenon
<1>6. Top(t) = fs[n]
  BY <1>1, <1>5, Zenon DEF Top
<1> DEFINE end == <<0>>
<1>7. Shaped(u) /\ u.frames = fs /\ u.buf = Overwrite(d.buf, x + y - 1, end)
  <2> DEFINE buf == Overwrite(t.buf, Top(t).offset + Top(t).len - 1, end)
             h == [t EXCEPT !.buf = buf]
  <2>1. u = h
    BY Zenon DEF Ended
  <2>2. buf = Overwrite(d.buf, x + y - 1, end)
    BY <1>5, <1>6, Zenon
  <2> HIDE DEF buf
  <2>3. h = Record(buf, t.cap, t.inline, t.realloc, t.frames, t.ok)
    BY <1>5, SetBuf
  <2> HIDE DEF h, u
  <2>4. Shaped(h) /\ h.frames = t.frames /\ h.buf = buf
    BY ONLY <2>3, Parts
  <2> QED
    BY <1>5, <2>1, <2>2, <2>4, Zenon
<1>8. IsString(end)
  BY OneByte
<1> HIDE DEF u, end
<1>9. Top(u) = fs[n]
  BY <1>1, <1>7, Zenon DEF Top
<1>10. e.frames = fs /\ e.buf = Overwrite(u.buf, x, LE(y, 4))
  BY <1>7, <1>9, LengthenedKeeps, LengthenedBuf, Zenon
<1>11. x \in Nat /\ s <= x /\ x + y - 1 \in Nat /\ s <= x + y - 1
  <2>1. fs \in Seq(Frames) /\ n \in 1..Len(fs) /\ n \in Nat
    BY <1>1 DEF Chained
  <2>2. fs[n] \in Frames /\ fs[n].len >= 5 /\ fs[n].offset >= s
    BY <1>1, <2>1 DEF Chained, Behind
  <2>3. x \in Nat /\ y \in Nat
    BY <2>2 DEF Frames
  <2>4. y >= 5 /\ x >= s
    BY <2>2
  <2> HIDE DEF x, y
  <2> QED
    BY ONLY <2>3, <2>4, s \in Nat, SMT
<1>12. IsString(d.buf) /\ SameUpTo(d.buf, old, s)
  BY WholeString, Zenon DEF Since
<1> DEFINE p == x + y - 1
           q == Overwrite(d.buf, p, end)
           r == Overwrite(q, x, LE(y, 4))
<1>13. e.buf = r
  BY <1>7, <1>10, Zenon
<1>14. p \in Nat /\ s <= p
  BY <1>11
<1> HIDE DEF p, x, y, e
<1>15. SameUpTo(q, old, s) /\ IsString(q)
  BY <1>8, <1>12, <1>14, WrittenBehind, Zenon
<1> HIDE DEF q
<1>16. SameUpTo(r, old, s)
  BY <1>11, <1>15, Number4, WrittenBehind, Zenon
<1>17. Since(e, s, old)
  BY <1>1, <1>10, <1>13, <1>16, Zenon DEF Since
<1> QED
  BY <1>4, <1>17, Zenon

LEMMA OneFrameBehind == ASSUME NEW f, NEW x \in Nat, f.offset = x PROVE Behind(<<f>>, x)
<1> DEFINE fs == <<f>>
<1>1. Len(fs) = 1 /\ fs[1] = f /\ \A i \in 1..1 : i = 1
  OBVIOUS
<1> HIDE DEF fs
<1>2. x >= x
  OBVIOUS
<1>3. Behind(fs, x)
  BY <1>1, <1>2, Zenon DEF Behind
<1> QED
  BY <1>3 DEF fs

LEMMA AgainSince ==
    ASSUME NEW d, Sound(d), Whole(d), NEW x \in Nat, NEW old, Since(d, x, old)
    PROVE  Since(bson_reinit(d), x, old)
<1> DEFINE g == d.frames[1]
           f == Frame(g.offset, 0)
           buf == Overwrite(d.buf, g.offset, EmptyDocument)
           fs == <<f>>
           e == [d EXCEPT !.buf = buf, !.frames = fs]
<1>1. g.offset = x /\ x <= x
  BY DEF Since, Behind
<1>2. bson_reinit(d) = e
  BY Zenon DEF bson_reinit
<1>3. f.offset = x
  BY <1>1, Zenon DEF Frame
<1>4. Behind(fs, x)
  BY <1>3, OneFrameBehind, Zenon
<1>5. SameUpTo(buf, old, x)
  <2>1. IsString(d.buf) /\ SameUpTo(d.buf, old, x)
    BY WholeString, Zenon DEF Since
  <2>2. SameUpTo(Overwrite(d.buf, x, EmptyDocument), old, x)
    BY <1>1, <2>1, EmptyString, WrittenBehind, Zenon
  <2> QED
    BY <1>1, <2>2, Zenon
<1> HIDE DEF g, f, buf, fs
<1>6. e = Record(buf, d.cap, d.inline, d.realloc, fs, d.ok)
  <2> DEFINE c == [d EXCEPT !.buf = buf]
  <2>1. c = Record(buf, d.cap, d.inline, d.realloc, d.frames, d.ok)
    BY SetBuf DEF Sound
  <2> HIDE DEF c
  <2>2. [c EXCEPT !.frames = fs] = Record(buf, d.cap, d.inline, d.realloc, fs, d.ok)
    BY <2>1, Parts, SetFrames
  <2> QED
    BY <2>2, Zenon DEF c
<1> HIDE DEF e
<1>7. e.buf = buf /\ e.frames = fs
  BY ONLY <1>6, Parts
<1>8. Since(e, x, old)
  BY <1>4, <1>5, <1>7, Zenon DEF Since
<1> QED
  BY <1>2, <1>8, Zenon

LEMMA BegunSince ==
    ASSUME NEW v, WriterSound(v), IsString(v.buf)
    PROVE  LET e == bson_writer_begin(v)
           IN  e.offset = v.offset /\ e.buf = v.buf /\ Since(e.b, v.offset, v.buf)
<1> DEFINE need == v.offset + 5
           cap == CHOOSE c \in Doubled(v.buflen) :
                      c >= need /\ \A d \in Doubled(v.buflen) : d >= need => c <= d
           five == <<5>>
           zeros == <<0, 0, 0, 0, 0>>
           x == v.offset
           first == Overwrite(v.buf, x, five)
           zeroed == Overwrite(first, x + 1, zeros)
           f == Frame(x, 0)
           fs == <<f>>
           no == FALSE
           yes == TRUE
           d == Record(zeroed, cap, no, yes, fs, yes)
           e == [v EXCEPT !.ready = no, !.b = d]
<1>1. x \in Nat /\ x <= x /\ x + 1 \in Nat /\ x <= x + 1
  BY DEF WriterSound
<1>2. bson_writer_begin(v) = e
  BY Zenon DEF bson_writer_begin, Record
<1>3. IsString(five) /\ IsString(zeros)
  <2>1. five \in Seq(Int) /\ zeros \in Seq(Int)
    OBVIOUS
  <2> QED
    BY <2>1, Zenon DEF IsString
<1>4. f.offset = x
  BY <1>1, FrameType, Zenon
<1> HIDE DEF five, zeros, cap, f
<1>5. SameUpTo(v.buf, v.buf, x)
  BY Zenon DEF SameUpTo
<1>6. SameUpTo(first, v.buf, x) /\ IsString(first)
  BY <1>1, <1>3, <1>5, WrittenBehind, Zenon
<1> HIDE DEF first
<1>7. SameUpTo(zeroed, v.buf, x)
  BY <1>1, <1>3, <1>6, WrittenBehind, Zenon
<1>8. Behind(fs, x)
  BY <1>1, <1>4, OneFrameBehind, Zenon
<1> HIDE DEF zeroed, fs, no, yes
<1>9. d.buf = zeroed /\ d.frames = fs
  BY Zenon DEF Record
<1>10. Since(d, x, v.buf)
  BY <1>7, <1>8, <1>9, Zenon DEF Since
<1> HIDE DEF d
<1>11. e = Writer(v.buf, v.buflen, v.offset, no, d)
  <2>1. v = Writer(v.buf, v.buflen, v.offset, v.ready, v.b)
    BY Zenon DEF WriterSound
  <2> DEFINE h == [v EXCEPT !.ready = no]
  <2>2. h = Writer(v.buf, v.buflen, v.offset, no, v.b)
    BY <2>1 DEF Writer
  <2> HIDE DEF h
  <2>3. [h EXCEPT !.b = d] = Writer(v.buf, v.buflen, v.offset, no, d)
    BY <2>2 DEF Writer
  <2> QED
    BY <2>3, Zenon DEF h
<1> HIDE DEF e
<1>12. e.buf = v.buf /\ e.offset = v.offset /\ e.b = d
  BY <1>11, Zenon DEF Writer
<1> QED
  BY <1>2, <1>10, <1>12, Zenon DEF x

(* The invariant of a writer's documents: what lies in front of the one    *)
(* being built is what the writer held when it was begun.                  *)
WriterInv == building /\ mode = "writer" => Since(b, w.offset, w.buf)

LEMMA NextWriterInv ==
    ASSUME WholeInv, WriterInv, [BuilderNext]_builderVars
    PROVE  WriterInv'
<1>1. IsString(w.buf) /\ WriterSound(w) /\ w.offset \in Nat
  BY Zenon DEF WholeInv, BuilderInv, WriterSound
<1>2. ASSUME building PROVE Sound(b) /\ Whole(b) /\ Len(b.frames) \in Nat
  BY <1>2, TopFrame, Zenon DEF WholeInv, BuilderInv
<1>3. ASSUME mode' = mode, w' = w, building' = building,
             building => Since(b', w.offset, w.buf) \/ mode # "writer"
      PROVE  WriterInv'
  BY <1>3, Zenon DEF WriterInv
<1>4. ASSUME building PROVE Since(b, w.offset, w.buf) \/ mode # "writer"
  BY <1>4, Zenon DEF WriterInv
<1>5. CASE StartInWriter
  BY <1>1, <1>5, BegunSince, Zenon DEF StartInWriter, WriterInv
<1>6. CASE StartNew
  BY <1>6, Zenon DEF StartNew, WriterInv
<1>7. ASSUME NEW doc \in Documents, StartCopy(doc) PROVE WriterInv'
  BY <1>7, Zenon DEF StartCopy, WriterInv
<1>8. ASSUME NEW key \in Data, NEW v \in Values, PutField(key, v) PROVE WriterInv'
  <2>1. building /\ Adds(b, b')
    BY <1>8, PutAdds, Zenon DEF PutField
  <2>2. Since(b', w.offset, w.buf) \/ mode # "writer"
    BY <1>1, <1>2, <1>4, <2>1, AddsSince, Zenon
  <2> QED
    BY <1>3, <1>8, <2>2, Zenon DEF PutField
<1>9. ASSUME NEW key \in Data, NEW type, OpenChild(key, type) PROVE WriterInv'
  <2>1. b' = _bson_append_bson_begin(b, key, BSON_TYPE_ARRAY) \/ b' = _bson_append_bson_begin(b, key, BSON_TYPE_DOCUMENT)
    BY <1>9, Zenon DEF OpenChild, bson_append_array_begin, bson_append_document_begin
  <2>2. Since(b', w.offset, w.buf) \/ mode # "writer"
    BY <1>1, <1>2, <1>4, <1>9, <2>1, OpenedSince, Zenon DEF OpenChild
  <2> QED
    BY <1>3, <1>9, <2>2, Zenon DEF OpenChild
<1>10. CASE CloseChild
  <2>1. building /\ Len(b.frames) > 1
    BY <1>2, <1>10 DEF CloseChild, Depth
  <2>2. Since(b', w.offset, w.buf) \/ mode # "writer"
    BY <1>1, <1>2, <1>4, <1>10, <2>1, ClosedSince, Zenon DEF CloseChild, bson_append_document_end
  <2> QED
    BY <1>3, <1>10, <2>2, Zenon DEF CloseChild
<1>11. ASSUME NEW src \in Documents, ConcatDocument(src) PROVE WriterInv'
  <2>1. building /\ Adds(b, b')
    BY <1>11, ConcatAdds, Zenon DEF ConcatDocument
  <2>2. Since(b', w.offset, w.buf) \/ mode # "writer"
    BY <1>1, <1>2, <1>4, <2>1, AddsSince, Zenon
  <2> QED
    BY <1>3, <1>11, <2>2, Zenon DEF ConcatDocument
<1>12. CASE StartAgain
  <2>1. Since(b', w.offset, w.buf) \/ mode # "writer"
    BY <1>1, <1>2, <1>4, <1>12, AgainSince, Zenon DEF StartAgain
  <2> QED
    BY <1>3, <1>12, <2>1, Zenon DEF StartAgain
<1>13. CASE HandOver
  BY <1>13, Zenon DEF HandOver, WriterInv
<1>14. CASE RollBack
  BY <1>14, Zenon DEF RollBack, WriterInv
<1>15. CASE UNCHANGED builderVars
  BY <1>15, Zenon DEF builderVars, WriterInv
<1> QED
  BY <1>5, <1>6, <1>7, <1>8, <1>9, <1>10, <1>11, <1>12, <1>13, <1>14, <1>15, Zenon DEF BuilderNext

(* A writer's documents stay: whatever is written, failed, started again   *)
(* or taken back behind them, the bytes in front of the document being     *)
(* built are the ones the writer held when it was begun (bson-writer.c).   *)
THEOREM EarlierDocumentsStay == BuilderSpec => []EarlierStay
<1>1. BuilderInit => WriterInv
  BY Zenon DEF BuilderInit, WriterInv
<1>2. WholeInv /\ [BuilderNext]_builderVars => WholeInv'
  BY NextWholeInv
<1>3. WholeInv /\ WriterInv /\ [BuilderNext]_builderVars => WriterInv'
  BY NextWriterInv
<1>4. WriterInv => EarlierStay
  BY Zenon DEF WriterInv, EarlierStay, Since, Behind, SameUpTo
<1> QED
  BY InitWholeInv, <1>1, <1>2, <1>3, <1>4, PTL DEF BuilderSpec

(* So no call ever changes the documents a writer holds: what is in front  *)
(* of its offset is there after every step (bson-writer.c).                *)
THEOREM WriterNeverRewrites ==
    BuilderSpec => [][\A i \in 1..w.offset : w'.buf[i] = w.buf[i]]_builderVars
<1> DEFINE Kept == \A i \in 1..w.offset : w'.buf[i] = w.buf[i]
<1>1. BuilderInit => WriterInv
  BY Zenon DEF BuilderInit, WriterInv
<1>2. WholeInv /\ [BuilderNext]_builderVars => WholeInv'
  BY NextWholeInv
<1>3. WholeInv /\ WriterInv /\ [BuilderNext]_builderVars => WriterInv'
  BY NextWriterInv
<1>4. ASSUME WholeInv, WriterInv, [BuilderNext]_builderVars PROVE Kept
  <2>1. WriterSound(w) /\ IsString(w.buf) /\ (building => Sound(b))
    BY <1>4, Zenon DEF WholeInv, BuilderInv
  <2>2. ASSUME w'.buf = w.buf PROVE Kept
    BY <2>2, Zenon
  <2>3. ASSUME building, mode = "writer", w'.buf = b.buf PROVE Kept
    BY <1>4, <2>3, Zenon DEF WriterInv, Since, SameUpTo
  <2>4. CASE StartInWriter
    BY <2>1, <2>2, <2>4, BegunSince, Zenon DEF StartInWriter
  <2>5. CASE HandOver
    <3>1. CASE mode = "writer"
      BY <2>1, <2>3, <2>5, <3>1, ReturnedBuf, Zenon DEF HandOver
    <3>2. CASE mode # "writer"
      BY <2>2, <2>5, <3>2, Zenon DEF HandOver
    <3> QED
      BY <3>1, <3>2
  <2>6. CASE RollBack
    BY <2>1, <2>3, <2>6, ReturnedBuf, Zenon DEF RollBack
  <2>7. CASE ~StartInWriter /\ ~HandOver /\ ~RollBack
    <3>1. w' = w
      BY <1>4, <2>7, Zenon DEF BuilderNext, builderVars, StartNew, StartCopy, PutField, OpenChild,
                               CloseChild, ConcatDocument, StartAgain
    <3> QED
      BY <2>2, <3>1, Zenon
  <2> QED
    BY <2>4, <2>5, <2>6, <2>7
<1> HIDE DEF Kept
<1>5. WholeInv /\ WriterInv /\ [BuilderNext]_builderVars => [Kept]_builderVars
  BY <1>4
<1>6. BuilderSpec => [][Kept]_builderVars
  BY InitWholeInv, <1>1, <1>2, <1>3, <1>5, PTL DEF BuilderSpec
<1> QED
  BY <1>6 DEF Kept

-----------------------------------------------------------------------------
(* Where the writes end *)

(* The writes end where the buffer does, or, as long as nothing is in the  *)
(* document that bson_writer_begin began, one byte behind.                 *)
AtEdge(d) ==
    /\ Len(d.buf) = d.cap + 1
    /\ Len(d.frames) = 1 /\ Top(d).len = 5 /\ Top(d).offset + 5 = d.cap

Contained(d, m) ==
    /\ d.inline => d.cap = InlineSize
    /\ Len(d.buf) <= d.cap \/ (m = "writer" /\ ~d.inline /\ AtEdge(d))

LEMMA WrittenLength ==
    ASSUME NEW buf, IsString(buf), NEW o \in Nat, NEW data, IsString(data),
           NEW c \in Nat, Len(buf) <= c, o + Len(data) <= c
    PROVE  IsString(Overwrite(buf, o, data)) /\ Len(Overwrite(buf, o, data)) <= c
<1> DEFINE r == Overwrite(buf, o, data)
<1>1. IsString(r) /\ (Len(r) = Len(buf) \/ Len(r) = o + Len(data))
  BY Overwritten, Zenon
<1> HIDE DEF r
<1>2. Len(r) <= c
  BY <1>1
<1> QED
  BY <1>1, <1>2 DEF r

LEMMA WrittenAsLong ==
    ASSUME NEW buf, IsString(buf), NEW o \in Nat, NEW data, IsString(data), o + Len(data) <= Len(buf)
    PROVE  Len(Overwrite(buf, o, data)) = Len(buf)
<1> DEFINE r == Overwrite(buf, o, data)
<1>1. Len(r) \in Nat /\ Len(r) >= Len(buf) /\ (Len(r) = Len(buf) \/ Len(r) = o + Len(data))
  BY Overwritten, Zenon
<1>2. Len(buf) \in Nat /\ Len(data) \in Nat
  BY StringLength
<1> HIDE DEF r
<1>3. Len(r) = Len(buf)
  BY <1>1, <1>2
<1> QED
  BY <1>3 DEF r

LEMMA SameContained ==
    ASSUME NEW d, NEW m, Contained(d, m), NEW e,
           e.buf = d.buf, e.frames = d.frames, e.cap = d.cap, e.inline = d.inline
    PROVE  Contained(e, m)
BY Zenon DEF Contained, AtEdge, Top

LEMMA OkSame ==
    ASSUME NEW d, Shaped(d), NEW ok
    PROVE  LET e == [d EXCEPT !.ok = ok]
           IN  e.buf = d.buf /\ e.frames = d.frames /\ e.cap = d.cap /\ e.inline = d.inline
<1> DEFINE e == [d EXCEPT !.ok = ok]
<1>1. e = Record(d.buf, d.cap, d.inline, d.realloc, d.frames, ok)
  BY SetOk
<1> HIDE DEF e
<1>2. e.buf = d.buf /\ e.frames = d.frames /\ e.cap = d.cap /\ e.inline = d.inline
  BY ONLY <1>1, Parts
<1> QED
  BY <1>2, Zenon DEF e

LEMMA OkContained ==
    ASSUME NEW d, Shaped(d), NEW m, Contained(d, m)
    PROVE  Contained(Fail(d), m) /\ Contained([d EXCEPT !.ok = TRUE], m)
<1>1. ASSUME NEW ok PROVE Contained([d EXCEPT !.ok = ok], m)
  <2> DEFINE e == [d EXCEPT !.ok = ok]
  <2>1. e.buf = d.buf /\ e.frames = d.frames /\ e.cap = d.cap /\ e.inline = d.inline
    BY OkSame, Zenon
  <2> HIDE DEF e
  <2>2. Contained(e, m)
    BY <2>1, SameContained, Zenon
  <2> QED
    BY <2>2 DEF e
<1>2. Contained([d EXCEPT !.ok = TRUE], m)
  BY <1>1
<1>3. Contained([d EXCEPT !.ok = FALSE], m)
  BY <1>1
<1> QED
  BY <1>2, <1>3, Zenon DEF Fail

(* A buffer that grows has more room than it had. *)
Grew(d, e) == ~e.inline /\ e.buf = d.buf /\ e.frames = d.frames /\ e.cap \in Nat /\ e.cap >= d.cap + 1

LEMMA GrownMore ==
    ASSUME NEW d, Sound(d), d.ok, d.inline => d.cap = InlineSize, NEW size \in Nat,
           _bson_grow(d, size).ok => Reach(Top(d)) + size <= Biggest
    PROVE  LET e == _bson_grow(d, size)
           IN  e = d \/ (~e.ok /\ e = Fail(d)) \/ (e.ok /\ Grew(d, e))
<1> DEFINE e == _bson_grow(d, size)
<1>1. Shaped(d) /\ d.cap \in Nat
  BY Zenon DEF Sound, Fits
<1>2. CASE d.inline
  <2> DEFINE need == Top(d).len + size
             c == bson_next_power_of_two(need)
             no == FALSE
             h == [d EXCEPT !.inline = no, !.cap = c]
  <2>1. e = IF need <= InlineSize THEN d ELSE h
    BY <1>2, Zenon DEF _bson_grow, _bson_impl_inline_grow
  <2>2. need \in Nat /\ need >= 1
    BY TopFrame
  <2>3. need <= Reach(Top(d)) + size
    BY TopFrame
  <2>4. InlineSize \in Nat /\ Reach(Top(d)) \in Nat /\ Biggest \in Nat
    <3>1. InlineSize \in 5..(Biggest - 8)
      BY BsonAssumption, Zenon
    <3>2. Biggest \in Nat
      BY SMT DEF Biggest
    <3>3. InlineSize \in Nat
      BY ONLY <3>1, <3>2, SMT
    <3> QED
      BY <3>2, <3>3, TopFrame
  <2> HIDE DEF c, no, h
  <2>5. /\ h.buf = d.buf /\ h.frames = d.frames /\ h.cap = c /\ h.inline = no /\ h.ok = d.ok
    <3>1. h = Record(d.buf, c, no, d.realloc, d.frames, d.ok)
      BY <1>1, SetInlineCap, Zenon DEF h
    <3> QED
      BY ONLY <3>1, Parts
  <2> HIDE DEF need, e
  <2>6. CASE ~(need <= InlineSize)
    <3>1. e = h /\ e.ok
      BY <2>1, <2>5, <2>6
    <3>2. need <= Biggest
      BY <2>2, <2>3, <2>4, <3>1 DEF e
    <3>3. c \in Nat /\ c >= need
      BY <2>2, <3>2, NextPower DEF c
    <3>4. c >= d.cap + 1
      BY <1>2, <2>2, <2>4, <2>6, <3>3
    <3>5. Grew(d, e)
      BY <2>5, <3>1, <3>3, <3>4, Zenon DEF Grew, no
    <3> QED
      BY <3>1, <3>5, Zenon DEF e
  <2> QED
    BY <2>1, <2>6, Zenon DEF e
<1>3. CASE ~d.inline
  <2> DEFINE req == Top(d).offset + Top(d).len + size + Top(d).depth
             c == bson_next_power_of_two(req)
             h == [d EXCEPT !.cap = c]
  <2>1. e = IF req <= d.cap THEN d ELSE IF d.realloc THEN h ELSE Fail(d)
    BY <1>3, Zenon DEF _bson_grow, _bson_impl_alloc_grow
  <2> HIDE DEF c, h
  <2>2. req \in Nat /\ req >= 1 /\ req = Reach(Top(d)) + size
    <3> DEFINE o == Top(d).offset
               l == Top(d).len
               p == Top(d).depth
    <3>1. o \in Nat /\ l \in Nat /\ l >= 5 /\ p \in Nat /\ Reach(Top(d)) = o + l + p
      BY TopFrame, Zenon
    <3> HIDE DEF o, l, p
    <3>2. o + l + size + p \in Nat /\ o + l + size + p >= 1 /\ o + l + size + p = (o + l + p) + size
      BY ONLY <3>1, size \in Nat, SMT
    <3> QED
      BY <3>1, <3>2, Zenon DEF o, l, p
  <2>3. h.buf = d.buf /\ h.frames = d.frames /\ h.cap = c /\ h.inline = d.inline /\ h.ok = d.ok
    <3>1. h = Record(d.buf, c, d.inline, d.realloc, d.frames, d.ok)
      BY <1>1, SetCap, Zenon DEF h
    <3> QED
      BY ONLY <3>1, Parts
  <2> HIDE DEF req, e
  <2>4. CASE e = h /\ ~(req <= d.cap)
    <3>1. e.ok
      BY <2>3, <2>4, Zenon
    <3>2. req <= Biggest
      BY <2>2, <3>1, Zenon DEF e
    <3>3. c \in Nat /\ c >= req
      BY <2>2, <3>2, NextPower DEF c
    <3>4. c >= d.cap + 1
      BY <1>1, <2>2, <2>4, <3>3
    <3>5. Grew(d, e)
      BY <1>3, <2>3, <2>4, <3>3, <3>4, Zenon DEF Grew
    <3> QED
      BY <3>1, <3>5, Zenon DEF e
  <2>5. CASE e = Fail(d)
    <3>1. Fail(d).ok = FALSE
      BY FailSound, Zenon
    <3> QED
      BY <2>5, <3>1, Zenon DEF e
  <2> QED
    BY <2>1, <2>4, <2>5, Zenon DEF e
<1> QED
  BY <1>2, <1>3

LEMMA GrewContained ==
    ASSUME NEW d, Sound(d), NEW m, Contained(d, m), Whole(d), NEW e, Grew(d, e)
    PROVE  Contained(e, m) /\ Len(e.buf) <= e.cap
<1> DEFINE l == Len(d.buf)
           c == d.cap
           x == e.cap
<1>1. l \in Nat /\ c \in Nat
  BY WholeString, StringLength, Zenon DEF Sound, Fits
<1>2. l <= c \/ l = c + 1
  BY Zenon DEF Contained, AtEdge
<1>3. ~e.inline /\ e.buf = d.buf /\ x \in Nat /\ x >= c + 1
  BY Zenon DEF Grew
<1> HIDE DEF l, c, x
<1>4. l <= x
  BY ONLY <1>1, <1>2, <1>3, SMT
<1> QED
  BY <1>3, <1>4, Zenon DEF Contained, l, x

LEMMA FourBytes == ASSUME NEW v PROVE Len(LE(v, 4)) = 4
BY DEF LE

(* What an append writes ends with its data and their end byte. *)
LEMMA ExtendedLength ==
    ASSUME NEW buf, IsString(buf), NEW o \in Nat, NEW n \in Nat, n >= 5, NEW data, IsString(data),
           NEW c \in Nat, Len(buf) <= c, o + n + Len(data) <= c
    PROVE  Len(ExtendedBuffer(buf, o, n, data)) <= c
<1> DEFINE k == Len(data)
           p == o + n - 1
           nul == <<0>>
           t == data \o nul
           r == Overwrite(buf, p, t)
           l == LE(n + k, 4)
<1>1. k \in Nat /\ IsString(t) /\ Len(t) = k + 1
  <2>1. IsString(nul) /\ Len(nul) = 1
    BY OneByte
  <2> HIDE DEF nul
  <2> QED
    BY <2>1, Concatenated, StringLength, Zenon
<1>2. p \in Nat /\ o + n + k <= c
  OBVIOUS
<1>3. IsString(l) /\ Len(l) = 4
  BY Number4, FourBytes, Zenon
<1> HIDE DEF l, t
<1>4. p + Len(t) <= c /\ o + Len(l) <= c
  BY <1>1, <1>2, <1>3
<1> HIDE DEF p
<1>5. IsString(r) /\ Len(r) <= c
  BY <1>1, <1>2, <1>4, WrittenLength, Zenon
<1> HIDE DEF r
<1>6. Len(Overwrite(r, o, l)) <= c
  BY <1>3, <1>4, <1>5, WrittenLength, Zenon
<1> QED
  BY <1>6, Zenon DEF ExtendedBuffer, r, l, t, p, nul, k

(* Inside the bytes already written, it leaves as many. *)
LEMMA ExtendedAsLong ==
    ASSUME NEW buf, IsString(buf), NEW o \in Nat, NEW n \in Nat, n >= 5, NEW data, IsString(data),
           o + n + Len(data) <= Len(buf)
    PROVE  Len(ExtendedBuffer(buf, o, n, data)) = Len(buf)
<1> DEFINE k == Len(data)
           p == o + n - 1
           nul == <<0>>
           t == data \o nul
           r == Overwrite(buf, p, t)
           l == LE(n + k, 4)
           c == Len(buf)
<1>1. k \in Nat /\ IsString(t) /\ Len(t) = k + 1 /\ c \in Nat
  <2>1. IsString(nul) /\ Len(nul) = 1
    BY OneByte
  <2> HIDE DEF nul
  <2> QED
    BY <2>1, Concatenated, StringLength, Zenon
<1>2. p \in Nat /\ o + n + k <= c
  OBVIOUS
<1>3. IsString(l) /\ Len(l) = 4
  BY Number4, FourBytes, Zenon
<1> HIDE DEF l, t, c
<1>4. p + Len(t) <= c /\ o + Len(l) <= c
  BY <1>1, <1>2, <1>3
<1> HIDE DEF p
<1>5. IsString(r) /\ Len(r) = c
  <2>1. IsString(r)
    BY <1>1, <1>2, Overwritten, Zenon
  <2> QED
    BY <1>1, <1>2, <1>4, <2>1, WrittenAsLong, Zenon DEF c
<1> HIDE DEF r
<1>6. Len(Overwrite(r, o, l)) = c
  BY <1>3, <1>4, <1>5, WrittenAsLong, Zenon
<1> QED
  BY <1>6, Zenon DEF ExtendedBuffer, r, l, t, p, nul, k, c

LEMMA VaContained ==
    ASSUME NEW d, Sound(d), d.ok, Whole(d), NEW m, Contained(d, m), NEW data, IsString(data),
           InReach(_bson_append_va(d, data))
    PROVE  LET e == _bson_append_va(d, data)
           IN  Contained(e, m) /\ (e.ok /\ Len(data) # 0 => Len(e.buf) <= e.cap)
<1> DEFINE k == Len(data)
           g == _bson_grow(d, k)
           e == Extended(g, data)
           o == Top(d).offset
           n == Top(d).len
<1>1. k \in Nat /\ Shaped(d) /\ IsString(d.buf) /\ Chained(d.frames)
  BY StringLength, WholeString, Zenon DEF Sound
<1>2. _bson_append_va(d, data) = e
  BY Zenon DEF _bson_append_va
<1>3. Appended(d, e, k)
  BY <1>1, <1>2, VaAppended, Zenon
<1>4. Shaped(g) /\ g.ok \in BOOLEAN /\ g.frames = d.frames /\ g.buf = d.buf
  BY <1>1, GrownAnyhow, GrownKeeps, Zenon
<1>5. Top(g) = Top(d)
  BY <1>4, Zenon DEF Top
<1>6. e.ok = g.ok /\ e.inline = g.inline /\ e.cap = g.cap
  <2> HIDE DEF g
  <2> QED
    BY ONLY <1>4, ExtendedFrames, Zenon
<1>7. /\ o \in Nat /\ n \in Nat /\ n >= 5 /\ Reach(Top(d)) \in Nat
      /\ Reach(Top(d)) = o + n + Top(d).depth /\ Top(d).depth \in Nat
  BY TopFrame, Zenon
<1>8. ASSUME g.ok PROVE Reach(Top(d)) + k <= Biggest
  <2>1. Reach(Top(e)) = Reach(Top(d)) + k /\ Reach(Top(e)) <= Biggest
    BY <1>2, <1>3, <1>6, <1>8, Zenon DEF Appended, InReach, Reach
  <2> QED
    BY <2>1, Zenon
<1>9. g = d \/ (~g.ok /\ g = Fail(d)) \/ (g.ok /\ Grew(d, g))
  <2>1. d.inline => d.cap = InlineSize
    BY Zenon DEF Contained
  <2> QED
    BY <1>1, <1>8, <2>1, GrownMore, Zenon
<1> HIDE DEF e, o, n
<1>10. CASE ~g.ok
  <2>1. e = g /\ g = Fail(d)
    BY <1>9, <1>10, Zenon DEF Extended, e
  <2>2. Contained(Fail(d), m)
    BY <1>1, OkContained, Zenon
  <2> QED
    BY <1>2, <1>6, <1>10, <2>1, <2>2, Zenon
<1>11. CASE g.ok
  <2>1. Sound(g) /\ RoomFor(g, k)
    BY <1>1, <1>8, <1>11, Grown, Zenon
  <2> HIDE DEF g
  <2>2. /\ e.buf = ExtendedBuffer(d.buf, o, n, data)
        /\ Top(e).offset = o /\ Top(e).len = n + k
    <3>1. /\ e.buf = ExtendedBuffer(g.buf, Top(g).offset, Top(g).len, data)
          /\ Top(e).offset = Top(g).offset /\ Top(e).len = Top(g).len + Len(data)
      BY <1>1, <1>4, <1>11, ExtendedBuf, Zenon DEF e
    <3> QED
      BY <1>4, <1>5, <3>1, Zenon DEF o, n
  <2>3. g.inline => g.cap = InlineSize
    BY <1>9, <1>11, Zenon DEF Contained, Grew
  <2>4. g.cap \in Nat /\ g.inline \in BOOLEAN
    BY <2>1, Zenon DEF Sound, Fits
  <2>5. o + n + k <= g.cap
    <3>1. CASE g.inline
      <4>1. o = 0 /\ n + k <= InlineSize
        BY <1>5, <2>1, <3>1, Zenon DEF RoomFor, Sound, Fits, Top, o, n
      <4> QED
        BY <1>1, <1>7, <2>3, <3>1, <4>1
    <3>2. CASE ~g.inline
      <4>1. Reach(Top(d)) + k <= g.cap
        BY <1>5, <2>1, <3>2, Zenon DEF RoomFor
      <4>2. Reach(Top(d)) = o + n + Top(d).depth
        BY <1>7
      <4> DEFINE p == Top(d).depth
                 x == Reach(Top(d))
                 c == g.cap
      <4>3. x + k <= c /\ x = o + n + p /\ p \in Nat /\ x \in Nat /\ c \in Nat
        BY <1>7, <2>4, <4>1
      <4> HIDE DEF p, x, c, k
      <4>4. o + n + k <= c
        BY ONLY <1>1, <1>7, <4>3, SMT
      <4> QED
        BY <4>4 DEF c, k
    <3> QED
      BY <3>1, <3>2
  <2>6. ASSUME Len(d.buf) <= g.cap PROVE Contained(e, m) /\ Len(e.buf) <= e.cap
    <3> DEFINE buf == d.buf
               c == g.cap
    <3>1. IsString(buf) /\ c \in Nat /\ Len(buf) <= c /\ o + n + Len(data) <= c
      BY <1>1, <2>4, <2>5, <2>6
    <3> HIDE DEF buf, c
    <3>2. Len(ExtendedBuffer(buf, o, n, data)) <= c
      BY ONLY <1>7, <3>1, IsString(data), ExtendedLength, Zenon
    <3>3. Len(e.buf) <= e.cap
      BY <1>6, <2>2, <3>2, Zenon DEF buf, c
    <3> QED
      BY <1>6, <2>3, <3>3, Zenon DEF Contained
  <2>7. CASE Grew(d, g)
    <3>1. Len(g.buf) <= g.cap
      BY <2>7, GrewContained, Zenon
    <3> QED
      BY <1>2, <1>4, <2>6, <3>1, Zenon
  <2>8. CASE g = d
    <3>1. CASE Len(d.buf) <= d.cap
      BY <1>2, <2>6, <2>8, <3>1, Zenon
    <3>2. CASE ~(Len(d.buf) <= d.cap)
      <4>1. m = "writer" /\ ~d.inline /\ AtEdge(d)
        BY <3>2, Zenon DEF Contained
      <4>2. Len(d.buf) = d.cap + 1 /\ Len(d.frames) = 1 /\ n = 5 /\ o + 5 = d.cap
        BY <4>1, Zenon DEF AtEdge, o, n
      <4>3. k = 0
        <5> DEFINE c == d.cap
        <5>1. c \in Nat /\ o + n + k <= c /\ n = 5 /\ o + 5 = c
          BY <2>4, <2>5, <2>8, <4>2
        <5> HIDE DEF c, k
        <5> QED
          BY ONLY <1>1, <1>7, <5>1, SMT
      <4>4. Len(e.buf) = Len(d.buf)
        <5> DEFINE buf == d.buf
                   l == Len(buf)
                   c == d.cap
        <5>1. l = c + 1 /\ c \in Nat /\ o + n + k <= c
          BY <2>4, <2>5, <2>8, <4>2
        <5> HIDE DEF l, c
        <5>2. o + n + k <= l
          BY ONLY <1>1, <1>7, <5>1, SMT
        <5>3. IsString(buf) /\ o + n + Len(data) <= Len(buf)
          BY <1>1, <5>2, Zenon DEF l, k
        <5> HIDE DEF buf
        <5>4. Len(ExtendedBuffer(buf, o, n, data)) = Len(buf)
          BY ONLY <1>7, <5>3, IsString(data), ExtendedAsLong
        <5> QED
          BY <2>2, <5>4, Zenon DEF buf
      <4>5. Top(e).len = 5
        BY <2>2, <4>2, <4>3
      <4>6. Len(e.frames) = 1
        BY <1>3, <4>2, Zenon DEF Appended
      <4>7. AtEdge(e)
        BY <1>6, <2>2, <2>8, <4>2, <4>4, <4>5, <4>6, Zenon DEF AtEdge
      <4>8. Contained(e, m)
        BY <1>6, <2>8, <4>1, <4>7, Zenon DEF Contained
      <4> QED
        BY <1>2, <4>3, <4>8, Zenon
    <3> QED
      BY <3>1, <3>2
  <2>9. g = d \/ Grew(d, g)
    BY <1>9, <1>11, Zenon
  <2> QED
    BY <2>7, <2>8, <2>9
<1> QED
  BY <1>4, <1>10, <1>11

LEMMA AppendContained ==
    ASSUME NEW d, Sound(d), Whole(d), NEW m, Contained(d, m), NEW data, IsString(data),
           InReach(_bson_append(d, data))
    PROVE  LET e == _bson_append(d, data)
           IN  Contained(e, m) /\ (e.ok /\ Len(data) # 0 => Len(e.buf) <= e.cap)
<1> DEFINE c == [d EXCEPT !.ok = TRUE]
<1>1. Sound(c) /\ c.ok /\ Whole(c) /\ Contained(c, m)
  <2>1. Sound(c) /\ c.ok /\ c.frames = d.frames /\ c.buf = d.buf
    BY OkSet, OkKeeps, Zenon DEF Sound
  <2>2. Contained(c, m)
    BY OkContained, Zenon DEF Sound
  <2> QED
    BY <2>1, <2>2, SameWhole, Zenon
<1>2. CASE Len(data) > MaxSize - Top(d).len
  <2>1. _bson_append(d, data) = Fail(d)
    BY <1>2, Zenon DEF _bson_append
  <2>2. Contained(Fail(d), m) /\ Fail(d).ok = FALSE
    BY OkContained, FailSound, Zenon DEF Sound
  <2> QED
    BY <2>1, <2>2, Zenon
<1>3. CASE ~(Len(data) > MaxSize - Top(d).len)
  <2>1. _bson_append(d, data) = _bson_append_va(c, data)
    BY <1>3, Zenon DEF _bson_append
  <2> HIDE DEF c
  <2> QED
    BY <1>1, <2>1, VaContained, Zenon
<1> QED
  BY <1>2, <1>3

LEMMA AddsContained ==
    ASSUME NEW d, Sound(d), Whole(d), NEW m, Contained(d, m), NEW e, Adds(d, e), InReach(e)
    PROVE  Contained(e, m)
<1>1. CASE e = Fail(d)
  BY <1>1, OkContained, Zenon DEF Sound
<1>2. CASE e = [d EXCEPT !.ok = TRUE]
  BY <1>2, OkContained, Zenon DEF Sound
<1>3. ASSUME NEW data, IsString(data), e = _bson_append(d, data) PROVE Contained(e, m)
  BY <1>3, AppendContained, Zenon
<1> QED
  BY <1>1, <1>2, <1>3, Zenon DEF Adds

LEMMA OutOfLineContained ==
    ASSUME NEW d, Sound(d), Whole(d), NEW m, Contained(d, m)
    PROVE  Contained(OutOfLine(d), m)
<1>1. CASE ~d.inline
  BY <1>1, Zenon DEF OutOfLine
<1>2. CASE d.inline
  <2> DEFINE size == InlineSize + 8 - Top(d).len
             e == _bson_impl_inline_grow(d, size)
             l == Top(d).len
             p == Reach(Top(d))
             c == e.cap
  <2>1. l <= InlineSize /\ InlineSize \in Nat /\ InlineSize <= Biggest - 8
    <3>1. InlineSize \in Nat /\ InlineSize <= Biggest - 8
      <4>1. InlineSize \in 5..(Biggest - 8)
        BY BsonAssumption, Zenon
      <4>2. Biggest \in Nat
        BY SMT DEF Biggest
      <4> QED
        BY ONLY <4>1, <4>2, SMT
    <3>2. Top(d).len <= InlineSize
      BY <1>2, Zenon DEF Sound, Fits, Top
    <3> QED
      BY <3>1, <3>2
  <2>2. l \in Nat /\ p \in Nat /\ p >= l
    BY TopFrame
  <2>3. OutOfLine(d) = e
    BY <1>2, Zenon DEF OutOfLine, _bson_grow
  <2>4. size \in Nat /\ l + size <= Biggest /\ l + size > InlineSize /\ l + size = InlineSize + 8
    <3> HIDE DEF l
    <3>1. InlineSize + 8 - l \in Nat /\ l + (InlineSize + 8 - l) = InlineSize + 8
      BY <2>1, <2>2
    <3>2. size = InlineSize + 8 - l
      BY Zenon DEF l
    <3> HIDE DEF size
    <3> QED
      BY ONLY <2>1, <2>2, <3>1, <3>2, SMT DEF Biggest
  <2> HIDE DEF size, e
  <2>5. Sound(e) /\ e.frames = d.frames /\ RoomFor(e, size) /\ ~e.inline
    BY <1>2, <2>4, InlineGrown, Zenon DEF e
  <2>6. e.buf = d.buf
    BY <2>3, OutOfLineKeeps, Zenon DEF Sound
  <2>7. p + size <= c /\ c \in Nat
    <3>1. Top(e) = Top(d)
      BY <2>5, Zenon DEF Top
    <3> QED
      BY <2>5, <3>1, Zenon DEF RoomFor, Sound, Fits
  <2>8. d.cap = InlineSize
    BY <1>2, Zenon DEF Contained
  <2>9. c >= d.cap + 1
    <3> HIDE DEF l, p, c
    <3> QED
      BY <2>1, <2>2, <2>4, <2>7, <2>8
  <2>10. Grew(d, e)
    BY <2>5, <2>6, <2>7, <2>9, Zenon DEF Grew
  <2> QED
    BY <2>3, <2>10, GrewContained, Zenon
<1> QED
  BY <1>1, <1>2

(* What a child that was opened leaves of its parents *)
LEMMA OpenedParts ==
    ASSUME NEW d, Sound(d), NEW key \in Data, NEW type,
           NEW a, a = _bson_append(OutOfLine(d), Field(type, key) \o EmptyDocument), a.ok
    PROVE  LET e == _bson_append_bson_begin(d, key, type)
           IN  e.buf = a.buf /\ e.cap = a.cap /\ e.inline = a.inline /\ (InReach(e) => InReach(a))
<1> DEFINE o == OutOfLine(d)
           f == Field(type, key)
           data == f \o EmptyDocument
           e == Opened(a)
           fs == a.frames
           n == Len(fs)
           g == Frame(fs[n].offset + fs[n].len - 1 - 5, fs[n].depth + 1)
           gs == Append(fs, g)
<1>1. Sound(o)
  BY OutOfLineSound, Zenon
<1>2. IsString(f) /\ Len(f) \in Nat
  BY FieldString
<1> HIDE DEF f
<1>3. IsString(data) /\ Len(data) = Len(f) + 5
  <2>1. IsString(EmptyDocument) /\ Len(EmptyDocument) = 5
    BY EmptyString, Zenon
  <2>2. IsString(data) /\ Len(data) = Len(f) + Len(EmptyDocument)
    BY <1>2, <2>1, Concatenated, Zenon
  <2> QED
    BY <2>1, <2>2, Zenon
<1>4. _bson_append_bson_begin(d, key, type) = e
  BY Zenon DEF _bson_append_bson_begin, f
<1> HIDE DEF o
<1>5. Appended(o, a, Len(data))
  BY <1>1, <1>3, AppendAppended, StringLength, Zenon DEF f, o
<1>6. e = [a EXCEPT !.frames = gs]
  BY Zenon DEF Opened, Top
<1>7. Shaped(a) /\ Chained(fs)
  BY <1>5, Zenon DEF Appended
<1>8. e.frames = gs /\ e.buf = a.buf /\ e.cap = a.cap /\ e.inline = a.inline
  <2> HIDE DEF gs, e
  <2> DEFINE h == [a EXCEPT !.frames = gs]
  <2>1. h = Record(a.buf, a.cap, a.inline, a.realloc, gs, a.ok)
    BY <1>7, SetFrames, Zenon
  <2> HIDE DEF h
  <2>2. h.frames = gs /\ h.buf = a.buf /\ h.cap = a.cap /\ h.inline = a.inline
    BY ONLY <2>1, Parts
  <2> QED
    BY <1>6, <2>2, Zenon DEF h
<1>9. Top(a) = fs[n]
  BY Zenon DEF Top
<1>10. fs[n].len >= 6
  <2>1. Top(a).len = Top(o).len + Len(data)
    BY <1>5, Zenon DEF Appended
  <2> DEFINE k == Len(f)
             y == Top(o).len
             z == fs[n].len
  <2>2. k \in Nat /\ y \in Nat /\ y >= 5 /\ z = y + (k + 5)
    <3>1. y \in Nat /\ y >= 5
      BY <1>1, TopFrame, Zenon
    <3>2. z = y + (k + 5)
      BY <1>3, <1>9, <2>1, Zenon
    <3> QED
      BY <1>2, <3>1, <3>2, Zenon
  <2> HIDE DEF k, y, z
  <2>3. z >= 6
    BY ONLY <2>2, SMT
  <2> QED
    BY <2>3 DEF z
<1>11. Chained(gs) /\ Len(gs) = n + 1 /\ gs[Len(gs)] = g /\ Reach(g) = Reach(fs[n])
  BY <1>7, <1>10, OpenedChain, Zenon
<1> HIDE DEF gs, g, e
<1>12. Top(e) = g
  BY <1>8, <1>11, Zenon DEF Top
<1>13. InReach(e) => InReach(a)
  BY <1>9, <1>11, <1>12, Zenon DEF InReach, Reach
<1> QED
  BY <1>4, <1>8, <1>13, Zenon

LEMMA OpenedContained ==
    ASSUME NEW d, Sound(d), Whole(d), NEW m, Contained(d, m), NEW key \in Data, NEW type,
           InReach(_bson_append_bson_begin(d, key, type))
    PROVE  Contained(_bson_append_bson_begin(d, key, type), m)
<1> DEFINE o == OutOfLine(d)
           f == Field(type, key)
           data == f \o EmptyDocument
           a == _bson_append(o, data)
           e == _bson_append_bson_begin(d, key, type)
<1>1. Sound(o) /\ o.frames = d.frames /\ o.buf = d.buf
  BY OutOfLineSound, OutOfLineKeeps, Zenon DEF Sound
<1>2. Whole(o) /\ Contained(o, m)
  BY <1>1, SameWhole, OutOfLineContained, Zenon
<1>3. IsString(f) /\ Len(f) \in Nat
  BY FieldString
<1> HIDE DEF f
<1>4. IsString(data) /\ Len(data) # 0
  <2>1. IsString(data) /\ Len(data) = Len(f) + 5
    BY <1>3, EmptyString, Concatenated, Zenon
  <2>2. Len(f) + 5 # 0
    BY <1>3
  <2> QED
    BY <2>1, <2>2, Zenon
<1>5. e = Opened(a)
  BY Zenon DEF _bson_append_bson_begin, f
<1> HIDE DEF o, data
<1>6. CASE ~a.ok
  <2>1. e = a
    BY <1>5, <1>6, Zenon DEF Opened
  <2> HIDE DEF e, a
  <2>2. InReach(a)
    BY <2>1, Zenon DEF e
  <2>3. Contained(a, m)
    BY <1>1, <1>2, <1>4, <2>2, AppendContained, Zenon DEF a
  <2> QED
    BY <2>1, <2>3, Zenon DEF e
<1>7. CASE a.ok
  <2> HIDE DEF a
  <2>1. e.buf = a.buf /\ e.cap = a.cap /\ e.inline = a.inline /\ InReach(a)
    <3>1. a = _bson_append(OutOfLine(d), Field(type, key) \o EmptyDocument)
      BY Zenon DEF a, o, data, f
    <3> QED
      BY <1>7, <3>1, OpenedParts, Zenon
  <2>2. Contained(a, m) /\ Len(a.buf) <= a.cap
    BY <1>1, <1>2, <1>4, <1>7, <2>1, AppendContained, Zenon DEF a
  <2> HIDE DEF e
  <2> QED
    BY <2>1, <2>2, Zenon DEF Contained, e
<1> QED
  BY <1>6, <1>7

LEMMA ClosedContained ==
    ASSUME NEW d, Sound(d), Len(d.frames) > 1, Whole(d), NEW m, Contained(d, m)
    PROVE  Contained(_bson_append_bson_end(d), m)
<1> DEFINE n == Len(d.frames) - 1
           fs == ClosedFrames(d.frames)
           t == Taken(d, n)
           u == Ended(t)
           e == Lengthened(u)
           x == fs[n].offset
           y == fs[n].len
           c == d.cap
<1>1. /\ Chained(fs) /\ Len(fs) = n
      /\ Reach(fs[n]) = Reach(d.frames[n + 1])
  <2>1. Chained(d.frames) /\ Len(d.frames) \in Nat
    BY TopFrame, Zenon DEF Sound
  <2>2. n + 1 = Len(d.frames)
    BY <2>1
  <2> QED
    BY <2>1, <2>2, ClosedChain, Zenon
<1>2. n + 1 = Len(d.frames) /\ Top(d) = d.frames[n + 1]
  BY TopFrame, TopIsLast
<1>3. ~d.inline /\ Shaped(d) /\ Reach(Top(d)) <= c /\ c \in Nat
  <2>1. d.inline => Len(d.frames) = 1
    BY Zenon DEF Sound, Fits
  <2>2. ~d.inline
    BY <2>1, TopFrame
  <2> QED
    BY <2>2, Zenon DEF Sound, Fits, Top
<1>4. Len(d.buf) <= c
  <2>1. ~(Len(d.frames) = 1)
    BY TopFrame
  <2> QED
    BY <2>1, Zenon DEF Contained, AtEdge
<1>5. t = [d EXCEPT !.frames = fs, !.ok = TRUE]
  BY Zenon DEF Taken, ClosedFrames, FirstLonger, Longer, Top
<1>6. _bson_append_bson_end(d) = e
  BY Zenon DEF _bson_append_bson_end
<1> HIDE DEF fs, n, t
<1>7. Shaped(t) /\ t.frames = fs /\ t.buf = d.buf /\ t.inline = d.inline /\ t.cap = c
  <2> DEFINE yes == TRUE
             h == [d EXCEPT !.frames = fs, !.ok = yes]
  <2> HIDE DEF yes
  <2>1. h = Record(d.buf, d.cap, d.inline, d.realloc, fs, yes)
    BY SetFramesOk, Zenon DEF Sound
  <2> HIDE DEF h
  <2>2. Shaped(h) /\ h.frames = fs /\ h.buf = d.buf /\ h.inline = d.inline /\ h.cap = d.cap
    BY ONLY <2>1, Parts
  <2>3. t = h
    BY <1>5 DEF h, yes
  <2> QED
    BY <2>2, <2>3, Zenon
<1>8. Top(t) = fs[n]
  BY <1>1, <1>7, Zenon DEF Top
<1>9. /\ Shaped(u) /\ u.frames = fs /\ u.buf = Overwrite(d.buf, x + y - 1, <<0>>)
      /\ u.inline = d.inline /\ u.cap = c
  <2> DEFINE buf == Overwrite(t.buf, Top(t).offset + Top(t).len - 1, <<0>>)
             h == [t EXCEPT !.buf = buf]
  <2>1. u = h
    BY Zenon DEF Ended
  <2>2. buf = Overwrite(d.buf, x + y - 1, <<0>>)
    BY <1>7, <1>8, Zenon
  <2> HIDE DEF buf
  <2>3. h = Record(buf, t.cap, t.inline, t.realloc, t.frames, t.ok)
    BY <1>7, SetBuf
  <2> HIDE DEF h, u
  <2>4. Shaped(h) /\ h.frames = t.frames /\ h.buf = buf /\ h.inline = t.inline /\ h.cap = t.cap
    BY ONLY <2>3, Parts
  <2> QED
    BY <1>7, <2>1, <2>2, <2>4, Zenon
<1> HIDE DEF u
<1>10. Top(u) = fs[n]
  BY <1>1, <1>9, Zenon DEF Top
<1>11. e.buf = Overwrite(u.buf, x, LE(y, 4)) /\ e.inline = d.inline /\ e.cap = c
  BY <1>9, <1>10, LengthenedKeeps, LengthenedBuf, Zenon
<1>12. x \in Nat /\ y \in Nat /\ y >= 5 /\ x + y <= c
  <2>1. fs \in Seq(Frames) /\ Len(fs) >= 1 /\ \A i \in 1..Len(fs) : fs[i].len >= 5
    BY <1>1 DEF Chained
  <2>2. fs[n] \in Frames /\ fs[n].len >= 5
    BY <1>1, <2>1
  <2> DEFINE f == fs[n]
  <2>3. Reach(f) <= c
    BY <1>1, <1>2, <1>3, Zenon
  <2> HIDE DEF f, c
  <2>4. f \in Frames /\ f.len >= 5
    BY <2>2 DEF f
  <2>5. f.offset \in Nat /\ f.len \in Nat /\ f.len >= 5 /\ f.offset + f.len <= c
    BY ONLY <1>3, <2>3, <2>4 DEF Frames, Reach
  <2> QED
    BY <2>5 DEF f
<1> HIDE DEF x, y, e
<1> DEFINE p == x + y - 1
           nul == <<0>>
           l == LE(y, 4)
           buf == d.buf
<1>13. p \in Nat /\ p + 1 <= c /\ x + 4 <= c
  <2> HIDE DEF c
  <2> QED
    BY ONLY <1>3, <1>12, SMT
<1>14. IsString(nul) /\ Len(nul) = 1 /\ IsString(l) /\ Len(l) = 4 /\ IsString(buf) /\ Len(buf) <= c
  BY <1>4, OneByte, Number4, FourBytes, WholeString
<1>15. u.buf = Overwrite(buf, p, nul) /\ e.buf = Overwrite(u.buf, x, l)
  BY <1>9, <1>11, Zenon
<1> HIDE DEF p, nul, l, buf, c
<1>16. IsString(u.buf) /\ Len(u.buf) <= c
  <2>1. p + Len(nul) <= c
    BY <1>13, <1>14, Zenon
  <2>2. c \in Nat
    BY <1>3, Zenon
  <2> QED
    BY <1>13, <1>14, <1>15, <2>1, <2>2, WrittenLength, Zenon
<1>17. Len(e.buf) <= c
  <2>1. x + Len(l) <= c
    BY <1>13, <1>14, Zenon
  <2>2. c \in Nat /\ x \in Nat
    BY <1>3, <1>12, Zenon
  <2> QED
    BY <1>14, <1>15, <1>16, <2>1, <2>2, WrittenLength, Zenon
<1>18. Contained(e, m)
  BY <1>3, <1>11, <1>17, Zenon DEF Contained
<1> QED
  BY <1>6, <1>18, Zenon DEF e

LEMMA AgainContained ==
    ASSUME NEW d, Sound(d), Len(d.frames) = 1, Whole(d), NEW m, Contained(d, m)
    PROVE  Contained(bson_reinit(d), m)
<1> DEFINE g == d.frames[1]
           o == g.offset
           f == Frame(o, 0)
           old == d.buf
           buf == Overwrite(old, o, EmptyDocument)
           fs == <<f>>
           e == [d EXCEPT !.buf = buf, !.frames = fs]
           c == d.cap
<1>1. /\ g = Top(d) /\ o \in Nat /\ g.len \in Nat /\ g.len >= 5 /\ Reach(Top(d)) = o + g.len
      /\ InlineSize \in Nat /\ c \in Nat
  <2>1. g = Top(d)
    BY Zenon DEF Top
  <2>2. c \in Nat /\ InlineSize \in Nat
    BY BsonAssumption DEF Sound, Fits
  <2> HIDE DEF c
  <2> QED
    BY <2>1, <2>2, TopFrame
<1>2. f.offset = o /\ f.len = 5 /\ Len(fs) = 1 /\ fs[1] = f
  BY DEF Frame
<1>3. bson_reinit(d) = e
  BY Zenon DEF bson_reinit
<1>4. o + 5 <= c
  <2>1. CASE d.inline
    <3>1. o = 0 /\ g.len <= InlineSize /\ c = InlineSize
      BY <2>1, Zenon DEF Sound, Fits, Contained
    <3> HIDE DEF o, g, c
    <3> QED
      BY <1>1, <3>1
  <2>2. CASE ~d.inline
    <3>1. Reach(Top(d)) <= c
      BY <2>2, Zenon DEF Sound, Fits, Top
    <3> HIDE DEF o, g, c
    <3> QED
      BY <1>1, <3>1
  <2> QED
    BY <2>1, <2>2
<1>5. IsString(old)
  BY WholeString, Zenon
<1> HIDE DEF f, fs
<1>6. e = Record(buf, d.cap, d.inline, d.realloc, fs, d.ok)
  <2> DEFINE h == [d EXCEPT !.buf = buf]
  <2> HIDE DEF buf
  <2>1. h = Record(buf, d.cap, d.inline, d.realloc, d.frames, d.ok)
    BY SetBuf DEF Sound
  <2> HIDE DEF h
  <2>2. [h EXCEPT !.frames = fs] = Record(buf, d.cap, d.inline, d.realloc, fs, d.ok)
    BY <2>1, Parts, SetFrames
  <2> QED
    BY <2>2, Zenon DEF h
<1>7. e.buf = buf /\ e.cap = c /\ e.inline = d.inline /\ e.frames = fs
  <2> HIDE DEF e, buf
  <2> QED
    BY ONLY <1>6, Parts DEF c
<1> HIDE DEF e
<1>8. CASE Len(old) <= c
  <2>1. Len(buf) <= c
    <3>1. o + Len(EmptyDocument) <= c
      BY <1>4, EmptyString, Zenon
    <3>2. IsString(EmptyDocument) /\ o \in Nat /\ c \in Nat
      BY <1>1, EmptyString, Zenon
    <3> HIDE DEF old, o, c
    <3> QED
      BY <1>5, <1>8, <3>1, <3>2, WrittenLength, Zenon DEF buf
  <2>2. Len(e.buf) <= e.cap
    BY <1>7, <2>1, Zenon
  <2>3. Contained(e, m)
    BY <1>7, <2>2, Zenon DEF Contained, c
  <2> QED
    BY <1>3, <2>3, Zenon
<1>9. CASE ~(Len(old) <= c)
  <2>1. m = "writer" /\ ~d.inline /\ Len(old) = c + 1 /\ o + 5 = c
    BY <1>1, <1>9, Zenon DEF Contained, AtEdge
  <2>2. Len(buf) = c + 1
    <3> HIDE DEF o, c, old
    <3>1. o + Len(EmptyDocument) <= Len(old)
      BY <1>1, <2>1, EmptyString
    <3>2. Len(buf) = Len(old)
      BY <1>1, <1>5, <3>1, EmptyString, WrittenAsLong, Zenon DEF buf
    <3> QED
      BY <2>1, <3>2, Zenon
  <2>3. Top(e) = f /\ Len(e.frames) = 1
    BY <1>2, <1>7, Zenon DEF Top
  <2>4. Contained(e, m)
    <3>1. Len(e.buf) = e.cap + 1 /\ Len(e.frames) = 1 /\ Top(e).len = 5 /\ Top(e).offset + 5 = e.cap
      BY <1>2, <1>7, <2>1, <2>2, <2>3, Zenon
    <3> QED
      BY <1>7, <2>1, <3>1, Zenon DEF Contained, AtEdge
  <2> QED
    BY <1>3, <2>4, Zenon
<1> QED
  BY <1>8, <1>9

(* A writer's buffer, too, is as long as what is written into it, or the   *)
(* byte short that bson_writer_begin clears behind an empty document.      *)
WriterContained(v) ==
    \/ Len(v.buf) <= v.buflen
    \/ Len(v.buf) = v.buflen + 1 /\ v.offset + 5 >= v.buflen

(* The loop of bson_writer_begin finds no length below the one it begins with. *)
LEMMA DoubledMore ==
    ASSUME NEW n \in Nat, NEW c \in Doubled(n)
    PROVE  c \in Nat /\ c >= n
<1> DEFINE m == NotNone(n)
<1>1. m \in Nat /\ m >= 1 /\ m >= n
  BY DEF NotNone
<1>2. \A p \in Powers : p \in Nat /\ p >= 1
  BY SMT DEF Powers, Biggest
<1>3. c = n \/ \E p \in Powers : c = m * p
  BY Zenon DEF Doubled
<1> HIDE DEF m, Powers
<1>4. ASSUME NEW p \in Powers, c = m * p PROVE c \in Nat /\ c >= n
  <2>1. p \in Nat /\ p >= 1
    BY <1>2
  <2>2. m * p \in Nat /\ m * p >= m
    BY ONLY <1>1, <2>1, SMT
  <2> QED
    BY <1>1, <1>4, <2>2
<1> QED
  BY <1>3, <1>4

LEMMA OverwrittenLength ==
    ASSUME NEW buf, IsString(buf), NEW o \in Nat, NEW data, IsString(data),
           NEW r, r = Overwrite(buf, o, data)
    PROVE  /\ IsString(r) /\ Len(r) \in Nat /\ Len(r) >= o + Len(data)
           /\ Len(r) = Len(buf) \/ Len(r) = o + Len(data)
BY Overwritten

LEMMA BegunContained ==
    ASSUME NEW v, WriterSound(v), IsString(v.buf), v.offset + 5 <= Biggest \div 2, WriterContained(v)
    PROVE  LET e == bson_writer_begin(v)
           IN  Contained(e.b, "writer") /\ e.buf = v.buf /\ e.buflen = v.buflen /\ e.offset = v.offset
<1> DEFINE need == v.offset + 5
           cap == CHOOSE c \in Doubled(v.buflen) :
                      c >= need /\ \A d \in Doubled(v.buflen) : d >= need => c <= d
           five == <<5>>
           zeros == <<0, 0, 0, 0, 0>>
           x == v.offset
           n == v.buflen
           old == v.buf
           first == Overwrite(old, x, five)
           zeroed == Overwrite(first, x + 1, zeros)
           f == Frame(x, 0)
           fs == <<f>>
           no == FALSE
           yes == TRUE
           d == Record(zeroed, cap, no, yes, fs, yes)
           e == [v EXCEPT !.ready = no, !.b = d]
<1>1. n \in Nat /\ x \in Nat /\ need \in Nat /\ need >= 1 /\ need = x + 5
  BY DEF WriterSound
<1>2. cap \in Nat /\ cap >= need /\ cap >= n
  <2> HIDE DEF need, n
  <2>1. /\ Doubled(n) \subseteq Nat
        /\ \E c \in Doubled(n) : c >= need /\ \A y \in Doubled(n) : y >= need => c <= y
    <3>1. need <= Biggest \div 2
      BY DEF need
    <3> QED
      BY <1>1, <3>1, EnoughDoubled, Zenon
  <2>2. cap \in Doubled(n) /\ cap >= need
    BY <2>1, Zenon DEF n
  <2> HIDE DEF cap
  <2> QED
    BY <1>1, <2>2, DoubledMore, Zenon
<1>3. bson_writer_begin(v) = e
  BY Zenon DEF bson_writer_begin, Record
<1>4. IsString(five) /\ IsString(zeros) /\ Len(five) = 1 /\ Len(zeros) = 5
  <2>1. five \in Seq(Int) /\ zeros \in Seq(Int) /\ Len(five) = 1 /\ Len(zeros) = 5
    OBVIOUS
  <2> QED
    BY <2>1, Zenon DEF IsString
<1>5. f.offset = x /\ f.len = 5 /\ Len(fs) = 1 /\ fs[1] = f
  BY DEF Frame
<1> HIDE DEF five, zeros, cap, f, fs, need
<1>6. IsString(old) /\ (Len(old) <= n \/ (Len(old) = n + 1 /\ x + 5 >= n))
  BY Zenon DEF WriterContained
<1> HIDE DEF old, n, x
<1>7. IsString(first) /\ (Len(first) = Len(old) \/ Len(first) = x + 1)
  <2>1. IsString(first) /\ (Len(first) = Len(old) \/ Len(first) = x + Len(five))
    <3>1. first = Overwrite(old, x, five) /\ IsString(old) /\ x \in Nat /\ IsString(five)
      BY <1>1, <1>4, <1>6, Zenon
    <3> HIDE DEF first
    <3> QED
      BY ONLY <3>1, OverwrittenLength
  <2> QED
    BY <1>4, <2>1, Zenon
<1> HIDE DEF first
<1>8. /\ Len(zeroed) \in Nat /\ Len(zeroed) >= x + 6
      /\ Len(zeroed) = Len(first) \/ Len(zeroed) = x + 6
  <2> DEFINE y == x + 1
  <2>1. y \in Nat /\ y + 5 = x + 6
    BY <1>1
  <2> HIDE DEF y
  <2>2. zeroed = Overwrite(first, y, zeros) /\ IsString(first) /\ IsString(zeros)
    BY <1>4, <1>7, Zenon DEF y
  <2> HIDE DEF zeroed
  <2>3. /\ Len(zeroed) \in Nat /\ Len(zeroed) >= y + Len(zeros)
        /\ Len(zeroed) = Len(first) \/ Len(zeroed) = y + Len(zeros)
    BY ONLY <2>1, <2>2, OverwrittenLength
  <2>4. y + Len(zeros) = x + 6
    BY <1>4, <2>1, Zenon
  <2> QED
    BY <2>3, <2>4, Zenon
<1> HIDE DEF zeroed
<1>9. Len(zeroed) <= cap \/ (Len(zeroed) = cap + 1 /\ x + 5 = cap)
  <2> DEFINE l == Len(zeroed)
             k == Len(old)
  <2>1. k \in Nat
    BY <1>6, StringLength
  <2>2. l \in Nat /\ l >= x + 6 /\ (l = k \/ l = x + 1 \/ l = x + 6) /\ (k <= n \/ (k = n + 1 /\ x + 5 >= n))
    BY <1>6, <1>7, <1>8, Zenon
  <2>3. x + 5 <= cap
    BY <1>1, <1>2, Zenon
  <2> HIDE DEF l, k
  <2>4. l <= cap \/ (l = cap + 1 /\ x + 5 = cap)
    BY ONLY <1>1, <1>2, <2>1, <2>2, <2>3, SMT
  <2> QED
    BY <2>4 DEF l
<1> HIDE DEF no, yes
<1>10. d.buf = zeroed /\ d.frames = fs /\ d.cap = cap /\ d.inline = no
  BY Zenon DEF Record
<1> HIDE DEF d
<1>11. Contained(d, "writer")
  <2>1. Top(d) = f
    BY <1>5, <1>10, Zenon DEF Top
  <2> QED
    BY <1>5, <1>9, <1>10, <2>1, Zenon DEF Contained, AtEdge, no
<1>12. e = Writer(v.buf, v.buflen, v.offset, no, d)
  <2>1. v = Writer(v.buf, v.buflen, v.offset, v.ready, v.b)
    BY Zenon DEF WriterSound
  <2> DEFINE h == [v EXCEPT !.ready = no]
  <2>2. h = Writer(v.buf, v.buflen, v.offset, no, v.b)
    BY <2>1 DEF Writer
  <2> HIDE DEF h
  <2>3. [h EXCEPT !.b = d] = Writer(v.buf, v.buflen, v.offset, no, d)
    BY <2>2 DEF Writer
  <2> QED
    BY <2>3, Zenon DEF h
<1> HIDE DEF e
<1>13. e.buf = v.buf /\ e.buflen = v.buflen /\ e.offset = v.offset /\ e.b = d
  BY <1>12, Zenon DEF Writer
<1> QED
  BY <1>3, <1>11, <1>13, Zenon

LEMMA ReturnedContained ==
    ASSUME NEW v, WriterSound(v), NEW d, Sound(d), Contained(d, "writer"), d.frames[1].offset = v.offset
    PROVE  /\ WriterContained(bson_writer_end([v EXCEPT !.b = d]))
           /\ WriterContained(bson_writer_rollback([v EXCEPT !.b = d]))
<1> DEFINE x == [v EXCEPT !.b = d]
           u == Shared(x)
           l == d.frames[1].len
           offset == u.offset + x.b.frames[1].len
<1>1. u = Writer(d.buf, d.cap, v.offset, v.ready, d) /\ x.b = d
  <2>1. x = Writer(v.buf, v.buflen, v.offset, v.ready, d)
    BY WithBson
  <2>2. x.b = d
    BY <2>1, Zenon DEF Writer
  <2> HIDE DEF x
  <2> DEFINE y == [x EXCEPT !.buf = x.b.buf]
  <2>3. y = Writer(d.buf, v.buflen, v.offset, v.ready, d)
    BY <2>1, <2>2 DEF Writer
  <2> HIDE DEF y
  <2>4. [y EXCEPT !.buflen = x.b.cap] = Writer(d.buf, d.cap, v.offset, v.ready, d)
    BY <2>2, <2>3 DEF Writer
  <2>5. u = [y EXCEPT !.buflen = x.b.cap]
    BY Zenon DEF Shared, y
  <2> QED
    BY <2>2, <2>4, <2>5, Zenon
<1>2. bson_writer_end(x) = [u EXCEPT !.offset = offset, !.ready = TRUE, !.b.frames = <<>>]
  BY Zenon DEF bson_writer_end
<1>3. bson_writer_rollback(x) = [u EXCEPT !.ready = TRUE, !.b.frames = <<>>]
  BY Zenon DEF bson_writer_rollback
<1>4. v.offset \in Nat /\ l \in Nat /\ d.cap \in Nat
  <2>1. d.frames \in Seq(Frames) /\ Len(d.frames) >= 1
    BY TopFrame
  <2>2. d.frames[1] \in Frames
    BY <2>1
  <2>3. l \in Nat
    BY <2>2 DEF Frames
  <2> HIDE DEF l
  <2> QED
    BY <2>3, Zenon DEF WriterSound, Sound, Fits
<1> HIDE DEF x, u
<1>5. u.offset = v.offset /\ u.buf = d.buf /\ u.buflen = d.cap /\ offset = v.offset + l
  BY <1>1, Zenon DEF Writer
<1> HIDE DEF offset
<1>6. /\ [u EXCEPT !.offset = offset, !.ready = TRUE, !.b.frames = <<>>].buf = d.buf
      /\ [u EXCEPT !.offset = offset, !.ready = TRUE, !.b.frames = <<>>].buflen = d.cap
      /\ [u EXCEPT !.offset = offset, !.ready = TRUE, !.b.frames = <<>>].offset = offset
      /\ [u EXCEPT !.ready = TRUE, !.b.frames = <<>>].buf = d.buf
      /\ [u EXCEPT !.ready = TRUE, !.b.frames = <<>>].buflen = d.cap
      /\ [u EXCEPT !.ready = TRUE, !.b.frames = <<>>].offset = v.offset
  BY <1>1, Zenon DEF Writer
<1>7. Len(d.buf) <= d.cap \/ (Len(d.buf) = d.cap + 1 /\ l = 5 /\ v.offset + 5 = d.cap)
  <2>1. ASSUME AtEdge(d) PROVE Len(d.buf) = d.cap + 1 /\ l = 5 /\ v.offset + 5 = d.cap
    BY <2>1, Zenon DEF AtEdge, Top
  <2> QED
    BY <2>1, Zenon DEF Contained
<1>8. Len(d.buf) <= d.cap \/ (Len(d.buf) = d.cap + 1 /\ v.offset + 5 >= d.cap /\ offset + 5 >= d.cap)
  <2> DEFINE o == v.offset
             c == d.cap
             k == Len(d.buf)
  <2>1. o \in Nat /\ l \in Nat /\ c \in Nat /\ offset = o + l /\ (k <= c \/ (k = c + 1 /\ l = 5 /\ o + 5 = c))
    BY <1>4, <1>5, <1>7, Zenon
  <2> HIDE DEF o, l, c, k
  <2>2. k <= c \/ (k = c + 1 /\ o + 5 >= c /\ offset + 5 >= c)
    BY ONLY <2>1, SMT
  <2> QED
    BY <2>2 DEF o, c, k
<1>9. WriterContained(bson_writer_end(x)) /\ WriterContained(bson_writer_rollback(x))
  BY <1>2, <1>3, <1>6, <1>8, Zenon DEF WriterContained
<1> QED
  BY <1>9, Zenon DEF x

LEMMA InitContained == ASSUME NEW m PROVE Contained(bson_init, m)
<1>1. 5 <= InlineSize
  <2>1. InlineSize \in 5..(Biggest - 8)
    BY BsonAssumption, Zenon
  <2>2. Biggest \in Nat
    BY SMT DEF Biggest
  <2> QED
    BY ONLY <2>1, <2>2, SMT
<1>2. bson_init.buf = EmptyDocument /\ bson_init.cap = InlineSize
  BY Zenon DEF bson_init
<1>3. Len(bson_init.buf) <= bson_init.cap
  BY <1>1, <1>2, EmptyString, Zenon
<1> QED
  BY <1>2, <1>3, Zenon DEF Contained

LEMMA CopyContained == ASSUME NEW doc \in Documents, NEW m PROVE Contained(bson_copy(doc), m)
<1> DEFINE n == Len(doc)
           e == bson_copy(doc)
<1>1. n \in Nat
  BY DEF Documents, Data
<1> HIDE DEF n
<1>2. ASSUME NEW s, Shaped(s), s.frames = <<Frame(0, 0)>>, s.inline => s.cap = InlineSize, n <= s.cap
      PROVE  Contained([s EXCEPT !.buf = doc, !.frames[1].len = n], m)
  <2> DEFINE x == [s EXCEPT !.buf = doc, !.frames[1].len = n]
             fs == <<[offset |-> 0, len |-> n, depth |-> 0]>>
  <2> HIDE DEF fs
  <2>1. x = Record(doc, s.cap, s.inline, s.realloc, fs, s.ok)
    BY <1>2, CopiedRecord, Zenon DEF fs
  <2> HIDE DEF x
  <2>2. x.buf = doc /\ x.cap = s.cap /\ x.inline = s.inline
    BY ONLY <2>1, Parts
  <2>3. Contained(x, m)
    BY <1>2, <2>2, Zenon DEF Contained, n
  <2> QED
    BY <2>3 DEF x
<1>3. CASE n <= InlineSize
  <2>1. e = [bson_init EXCEPT !.buf = doc, !.frames[1].len = n]
    BY <1>3, Zenon DEF bson_copy, bson_sized_new, n
  <2>2. Shaped(bson_init) /\ bson_init.frames = <<Frame(0, 0)>> /\ bson_init.cap = InlineSize
    BY Zenon DEF bson_init, Shaped, Record
  <2> QED
    BY <1>2, <1>3, <2>1, <2>2, Zenon
<1>4. CASE ~(n <= InlineSize)
  <2>1. e = [[bson_init EXCEPT !.inline = FALSE, !.cap = n] EXCEPT !.buf = doc, !.frames[1].len = n]
    BY <1>4, Zenon DEF bson_copy, bson_sized_new, n
  <2>2. SUFFICES ASSUME NEW s, s = [bson_init EXCEPT !.inline = FALSE, !.cap = n]
                 PROVE  Contained([s EXCEPT !.buf = doc, !.frames[1].len = n], m)
    BY <2>1, Zenon
  <2>3. s = Record(EmptyDocument, n, FALSE, TRUE, <<Frame(0, 0)>>, TRUE)
    BY <2>2, Zenon DEF bson_init, Record
  <2>4. Shaped(s) /\ s.frames = <<Frame(0, 0)>> /\ s.cap = n /\ s.inline = FALSE
    BY <2>3, Zenon DEF Shaped, Record
  <2>5. n <= s.cap
    BY <1>1, <2>4
  <2> QED
    BY <1>2, <2>4, <2>5, Zenon
<1> QED
  BY <1>3, <1>4

(* The invariant of the buffers: what is written ends in them, but for the *)
(* byte that bson_writer_begin clears behind an empty document.            *)
ContainedInv ==
    /\ building => Contained(b, mode)
    /\ mode = "writer" => WriterContained(w)

LEMMA InitContainedInv == BuilderInit => ContainedInv
<1> SUFFICES ASSUME BuilderInit PROVE ContainedInv
  OBVIOUS
<1>1. PICK buf \in Data, n \in Nat, offset \in Nat : Len(buf) <= n /\ w = bson_writer_new(buf, n, offset)
  BY Zenon DEF BuilderInit
<1>2. w.buf = buf /\ w.buflen = n
  BY <1>1, Zenon DEF bson_writer_new
<1> QED
  BY <1>1, <1>2, Zenon DEF BuilderInit, ContainedInv, WriterContained

LEMMA NextContainedInv ==
    ASSUME WholeInv, WriterInv, ContainedInv, [BuilderNext]_builderVars
    PROVE  ContainedInv'
<1>1. IsString(w.buf) /\ WriterSound(w) /\ (mode = "writer" => WriterContained(w))
  BY Zenon DEF WholeInv, BuilderInv, ContainedInv
<1>2. ASSUME building PROVE Sound(b) /\ Whole(b) /\ Contained(b, mode) /\ Len(b.frames) \in Nat
  BY <1>2, TopFrame, Zenon DEF WholeInv, BuilderInv, ContainedInv
<1>3. ASSUME mode' = mode, w' = w, building' => Contained(b', mode)
      PROVE  ContainedInv'
  BY <1>1, <1>3, Zenon DEF ContainedInv
<1>4. ASSUME building, mode = "writer" PROVE b.frames[1].offset = w.offset
  BY <1>4, Zenon DEF WriterInv, Since, Behind
<1>5. CASE StartInWriter
  <2>1. /\ mode' = mode /\ mode = "writer" /\ w' = bson_writer_begin(w) /\ b' = bson_writer_begin(w).b
        /\ w.offset + 5 <= Biggest \div 2
    BY <1>5, Zenon DEF StartInWriter
  <2>2. Contained(b', "writer") /\ w'.buf = w.buf /\ w'.buflen = w.buflen /\ w'.offset = w.offset
    BY <1>1, <2>1, BegunContained, Zenon
  <2>3. WriterContained(w')
    BY <1>1, <2>1, <2>2, Zenon DEF WriterContained
  <2> QED
    BY <2>1, <2>2, <2>3, Zenon DEF ContainedInv
<1>6. CASE StartNew
  BY <1>3, <1>6, InitContained, Zenon DEF StartNew
<1>7. ASSUME NEW doc \in Documents, StartCopy(doc) PROVE ContainedInv'
  BY <1>3, <1>7, CopyContained, Zenon DEF StartCopy
<1>8. ASSUME NEW key \in Data, NEW v \in Values, PutField(key, v) PROVE ContainedInv'
  <2>1. building /\ Adds(b, b') /\ InReach(b')
    BY <1>8, PutAdds, Zenon DEF PutField
  <2>2. Contained(b', mode)
    BY <1>2, <2>1, AddsContained, Zenon
  <2> QED
    BY <1>3, <1>8, <2>2, Zenon DEF PutField
<1>9. ASSUME NEW key \in Data, NEW type, OpenChild(key, type) PROVE ContainedInv'
  <2>1. b' = _bson_append_bson_begin(b, key, BSON_TYPE_ARRAY) \/ b' = _bson_append_bson_begin(b, key, BSON_TYPE_DOCUMENT)
    BY <1>9, Zenon DEF OpenChild, bson_append_array_begin, bson_append_document_begin
  <2>2. Contained(b', mode)
    BY <1>2, <1>9, <2>1, OpenedContained, Zenon DEF OpenChild
  <2> QED
    BY <1>3, <1>9, <2>2, Zenon DEF OpenChild
<1>10. CASE CloseChild
  <2>1. building /\ Len(b.frames) > 1
    BY <1>2, <1>10 DEF CloseChild, Depth
  <2>2. Contained(b', mode)
    BY <1>2, <1>10, <2>1, ClosedContained, Zenon DEF CloseChild, bson_append_document_end
  <2> QED
    BY <1>3, <1>10, <2>2, Zenon DEF CloseChild
<1>11. ASSUME NEW src \in Documents, ConcatDocument(src) PROVE ContainedInv'
  <2>1. building /\ Adds(b, b') /\ InReach(b')
    BY <1>11, ConcatAdds, Zenon DEF ConcatDocument
  <2>2. Contained(b', mode)
    BY <1>2, <2>1, AddsContained, Zenon
  <2> QED
    BY <1>3, <1>11, <2>2, Zenon DEF ConcatDocument
<1>12. CASE StartAgain
  <2>1. building /\ Len(b.frames) = 1
    BY <1>2, <1>12 DEF StartAgain, Depth
  <2>2. Contained(b', mode)
    BY <1>2, <1>12, <2>1, AgainContained, Zenon DEF StartAgain
  <2> QED
    BY <1>3, <1>12, <2>2, Zenon DEF StartAgain
<1>13. CASE HandOver
  <2>1. building /\ ~building' /\ mode' = mode
    BY <1>13, Zenon DEF HandOver
  <2>2. ASSUME mode = "writer" PROVE WriterContained(w')
    <3>1. w' = bson_writer_end([w EXCEPT !.b = b])
      BY <1>13, <2>2, Zenon DEF HandOver
    <3>2. Contained(b, "writer")
      BY <1>2, <2>1, <2>2, Zenon
    <3> QED
      BY <1>1, <1>2, <1>4, <2>1, <2>2, <3>1, <3>2, ReturnedContained, Zenon
  <2> QED
    BY <2>1, <2>2, Zenon DEF ContainedInv
<1>14. CASE RollBack
  <2>1. building /\ ~building' /\ mode' = mode
    BY <1>14, Zenon DEF RollBack
  <2>2. ASSUME mode = "writer" PROVE WriterContained(w')
    <3>1. w' = bson_writer_rollback([w EXCEPT !.b = b])
      BY <1>14, <2>2, Zenon DEF RollBack
    <3>2. Contained(b, "writer")
      BY <1>2, <2>1, <2>2, Zenon
    <3> QED
      BY <1>1, <1>2, <1>4, <2>1, <2>2, <3>1, <3>2, ReturnedContained, Zenon
  <2> QED
    BY <2>1, <2>2, Zenon DEF ContainedInv
<1>15. CASE UNCHANGED builderVars
  BY <1>15, Zenon DEF builderVars, ContainedInv
<1> QED
  BY <1>5, <1>6, <1>7, <1>8, <1>9, <1>10, <1>11, <1>12, <1>13, <1>14, <1>15, Zenon DEF BuilderNext

(* Nothing is written past the end of a buffer, whatever is appended,      *)
(* opened, closed, started again or taken back, but the one byte behind an *)
(* empty document that bson_writer_begin clears without room for it; and   *)
(* the next append, which makes room first, ends that (bson.c,             *)
(* bson-writer.c).                                                         *)
THEOREM NothingBeyond == BuilderSpec => []WrittenInside
<1>1. BuilderInit => WriterInv
  BY Zenon DEF BuilderInit, WriterInv
<1>2. WholeInv /\ [BuilderNext]_builderVars => WholeInv'
  BY NextWholeInv
<1>3. WholeInv /\ WriterInv /\ [BuilderNext]_builderVars => WriterInv'
  BY NextWriterInv
<1>4. WholeInv /\ WriterInv /\ ContainedInv /\ [BuilderNext]_builderVars => ContainedInv'
  BY NextContainedInv
<1>5. WholeInv /\ ContainedInv => WrittenInside
  <2> SUFFICES ASSUME building, Sound(b), Contained(b, mode) PROVE WrittenInside
    BY Zenon DEF WrittenInside, WholeInv, BuilderInv, ContainedInv
  <2>1. Len(b.frames) = 1 => Depth = 0
    BY TopFrame DEF Depth
  <2> QED
    BY <2>1, Zenon DEF WrittenInside, Contained, AtEdge
<1> QED
  BY InitWholeInv, InitContainedInv, <1>1, <1>2, <1>3, <1>4, <1>5, PTL DEF BuilderSpec

(* So every document built is well built (bson.c, bson-writer.c). *)
THEOREM DocumentsWellBuilt == BuilderSpec => []WellBuilt
<1>1. RoomToClose /\ WrittenInside /\ WholeWhenClosed /\ EarlierStay => WellBuilt
  BY DEF WellBuilt
<1> QED
  BY <1>1, ClosingHasRoom, NothingBeyond, ClosedIsWhole, EarlierDocumentsStay, PTL

-----------------------------------------------------------------------------
(* The readers *)

LEMMA BytesAre ==
    ASSUME NEW s \in Seq(ByteValues), NEW o \in Nat, NEW n \in Nat, o + n <= Len(s)
    PROVE  /\ Bytes(s, o, n) \in Seq(ByteValues)
           /\ Len(Bytes(s, o, n)) = n
           /\ \A j \in 1..n : Bytes(s, o, n)[j] = s[o + j]
BY BytesIn

LEMMA SameBytes ==
    ASSUME NEW s \in Seq(ByteValues), NEW t \in Seq(ByteValues), Len(s) = Len(t),
           \A j \in 1..Len(s) : s[j] = t[j]
    PROVE  s = t
BY SeqEqual

(* Bytes of bytes *)
LEMMA BytesOfBytes ==
    ASSUME NEW s \in Seq(ByteValues), NEW o \in Nat, NEW n \in Nat, o + n <= Len(s),
           NEW p \in Nat, NEW m \in Nat, p + m <= n
    PROVE  Bytes(Bytes(s, o, n), p, m) = Bytes(s, o + p, m)
<1> DEFINE t == Bytes(s, o, n)
<1>1. t \in Seq(ByteValues) /\ Len(t) = n /\ \A j \in 1..n : t[j] = s[o + j]
    BY BytesAre
<1> HIDE DEF t
<1> DEFINE q == o + p
<1>q. q \in Nat /\ q + m <= Len(s) /\ \A j \in 1..m : p + j \in 1..n /\ o + (p + j) = q + j
    OBVIOUS
<1> HIDE DEF q
<1> DEFINE u == Bytes(t, p, m)
           v == Bytes(s, q, m)
<1>2. u \in Seq(ByteValues) /\ Len(u) = m /\ \A j \in 1..m : u[j] = t[p + j]
    BY <1>1, BytesAre
<1>3. v \in Seq(ByteValues) /\ Len(v) = m /\ \A j \in 1..m : v[j] = s[q + j]
    BY <1>q, BytesAre
<1> HIDE DEF u, v
<1>4. \A j \in 1..m : u[j] = v[j]
    BY <1>q, <1>1, <1>2, <1>3
<1>5. u = v
    BY ONLY <1>2, <1>3, <1>4, SameBytes
<1> QED BY <1>5 DEF t, u, v, q

(* Bytes and the ones behind them *)
LEMMA BytesJoined ==
    ASSUME NEW s \in Seq(ByteValues), NEW o \in Nat, NEW n \in Nat, NEW m \in Nat, o + n + m <= Len(s)
    PROVE  Bytes(s, o, n) \o Bytes(s, o + n, m) = Bytes(s, o, n + m)
<1> DEFINE t == Bytes(s, o, n)
           u == Bytes(s, o + n, m)
           v == Bytes(s, o, n + m)
<1>1. t \in Seq(ByteValues) /\ Len(t) = n /\ \A j \in 1..n : t[j] = s[o + j]
    BY BytesAre
<1>2. u \in Seq(ByteValues) /\ Len(u) = m /\ \A j \in 1..m : u[j] = s[(o + n) + j]
    BY BytesAre
<1>3. v \in Seq(ByteValues) /\ Len(v) = n + m /\ \A j \in 1..(n + m) : v[j] = s[o + j]
    <2> DEFINE k == n + m
    <2>1. k \in Nat /\ o + k <= Len(s)
        OBVIOUS
    <2> HIDE DEF k
    <2>2. Bytes(s, o, k) \in Seq(ByteValues) /\ Len(Bytes(s, o, k)) = k
           /\ \A j \in 1..k : Bytes(s, o, k)[j] = s[o + j]
        BY <2>1, BytesAre
    <2> QED BY <2>2 DEF k
<1> HIDE DEF t, u, v
<1>4. t \o u \in Seq(ByteValues) /\ Len(t \o u) = n + m
       /\ \A j \in 1..(n + m) : (t \o u)[j] = IF j <= n THEN t[j] ELSE u[j - n]
    BY ONLY <1>1, <1>2, ConcatProperties
<1>5. \A j \in 1..(n + m) : (t \o u)[j] = v[j]
    <2> TAKE j \in 1..(n + m)
    <2>1. CASE j <= n
        <3>1. j \in 1..n
            BY <2>1
        <3>2. (t \o u)[j] = t[j]
            BY <1>4, <2>1
        <3>3. t[j] = s[o + j]
            BY ONLY <1>1, <3>1
        <3>4. v[j] = s[o + j]
            BY ONLY <1>3, j \in 1..(n + m)
        <3> QED BY ONLY <3>2, <3>3, <3>4
    <2>2. CASE ~(j <= n)
        <3>1. j - n \in 1..m /\ (o + n) + (j - n) = o + j
            BY <2>2
        <3>2. (t \o u)[j] = u[j - n]
            BY <1>4, <2>2
        <3>3. u[j - n] = s[o + j]
            BY <1>2, <3>1
        <3>4. v[j] = s[o + j]
            BY ONLY <1>3, j \in 1..(n + m)
        <3> QED BY ONLY <3>2, <3>3, <3>4
    <2> QED BY <2>1, <2>2
<1>6. t \o u = v
    BY ONLY <1>3, <1>4, <1>5, SameBytes
<1> QED BY <1>6 DEF t, u, v

(* Bytes stay where they are when more follow. *)
LEMMA BytesStay ==
    ASSUME NEW s \in Seq(ByteValues), NEW t \in Seq(ByteValues),
           NEW o \in Nat, NEW n \in Nat, o + n <= Len(s)
    PROVE  Bytes(s \o t, o, n) = Bytes(s, o, n)
<1> DEFINE r == s \o t
           u == Bytes(s, o, n)
           v == Bytes(r, o, n)
<1>1. /\ r \in Seq(ByteValues) /\ Len(r) = Len(s) + Len(t)
      /\ \A j \in 1..(Len(s) + Len(t)) : r[j] = IF j <= Len(s) THEN s[j] ELSE t[j - Len(s)]
    BY ConcatProperties
<1>2. u \in Seq(ByteValues) /\ Len(u) = n /\ \A j \in 1..n : u[j] = s[o + j]
    BY BytesAre
<1> HIDE DEF r
<1>r. o + n <= Len(r)
    BY <1>1
<1>3. v \in Seq(ByteValues) /\ Len(v) = n /\ \A j \in 1..n : v[j] = r[o + j]
    BY ONLY <1>1, <1>r, o \in Nat, n \in Nat, BytesAre
<1> HIDE DEF u, v
<1>4. \A j \in 1..n : u[j] = v[j]
    <2> TAKE j \in 1..n
    <2>1. o + j \in 1..(Len(s) + Len(t)) /\ o + j <= Len(s)
        OBVIOUS
    <2> QED BY <1>1, <1>2, <1>3, <2>1
<1>5. u = v
    BY ONLY <1>2, <1>3, <1>4, SameBytes
<1> QED BY <1>5 DEF r, u, v

LEMMA LastBytes ==
    ASSUME NEW s \in Seq(ByteValues), NEW t \in Seq(ByteValues)
    PROVE  Bytes(s \o t, Len(s), Len(t)) = t
<1> DEFINE r == s \o t
           o == Len(s)
           n == Len(t)
           v == Bytes(r, o, n)
<1>1. /\ r \in Seq(ByteValues) /\ Len(r) = o + n /\ o \in Nat /\ n \in Nat
      /\ \A j \in 1..(o + n) : r[j] = IF j <= o THEN s[j] ELSE t[j - o]
    BY ConcatProperties
<1> HIDE DEF r, o, n
<1>r. o + n <= Len(r)
    BY <1>1
<1>2. v \in Seq(ByteValues) /\ Len(v) = n /\ \A j \in 1..n : v[j] = r[o + j]
    BY ONLY <1>1, <1>r, BytesAre
<1> HIDE DEF v
<1>3. \A j \in 1..n : v[j] = t[j]
    <2> TAKE j \in 1..n
    <2>1. o + j \in 1..(o + n) /\ ~(o + j <= o) /\ (o + j) - o = j
        BY <1>1
    <2>2. r[o + j] = t[(o + j) - o]
        BY <1>1, <2>1
    <2> QED BY <1>2, <2>1, <2>2
<1>4. Len(t) = n
    BY DEF n
<1>5. v = t
    BY ONLY <1>2, <1>3, <1>4, t \in Seq(ByteValues), SameBytes
<1> QED BY <1>5 DEF r, v, o, n

(* The number at the front of bytes *)
LEMMA NumberInBytes ==
    ASSUME NEW s \in Seq(ByteValues), NEW o \in Nat, NEW n \in Nat, o + n <= Len(s),
           NEW p \in Nat, p + 4 <= n
    PROVE  Int32At(Bytes(s, o, n), p) = Int32At(s, o + p)
<1> DEFINE t == Bytes(s, o, n)
<1>1. \A j \in 1..n : t[j] = s[o + j]
    BY BytesAre
<1> HIDE DEF t
<1>2. /\ t[p + 1] = s[o + (p + 1)] /\ t[p + 2] = s[o + (p + 2)]
      /\ t[p + 3] = s[o + (p + 3)] /\ t[p + 4] = s[o + (p + 4)]
    BY <1>1
<1> DEFINE q == o + p
<1>3. /\ t[p + 1] = s[q + 1] /\ t[p + 2] = s[q + 2]
      /\ t[p + 3] = s[q + 3] /\ t[p + 4] = s[q + 4]
    <2>1. o + (p + 1) = q + 1 /\ o + (p + 2) = q + 2 /\ o + (p + 3) = q + 3 /\ o + (p + 4) = q + 4
        OBVIOUS
    <2> HIDE DEF q
    <2> QED BY ONLY <1>2, <2>1
<1> HIDE DEF q
<1>4. Int32At(t, p) = Int32At(s, q)
    BY ONLY <1>3, SMT DEF Int32At
<1> QED BY <1>4 DEF t, q

-----------------------------------------------------------------------------
(* The invariant *)

(* The documents lie one behind the other in the stream. *)
LaidOut ==
    /\ written \in Seq(Readable)
    /\ stream \in Seq(ByteValues)
    /\ ends \in Seq(Nat) /\ Len(ends) = Len(written)
    /\ \A i \in 1..Len(written) :
          /\ ends[i] = EndOf(i - 1) + Len(written[i])
          /\ ends[i] <= Len(stream)
          /\ Bytes(stream, EndOf(i - 1), Len(written[i])) = written[i]
    /\ EndOf(Len(written)) = Len(stream)

(* The first ones have been returned. *)
InOrder ==
    /\ Len(got) \in Nat
    /\ Len(got) <= Len(written)
    /\ got = SubSeq(written, 1, Len(got))

AllReturned == Len(got) = Len(written)

DataReader(offset, result, eof) ==
    [kind |-> "data", offset |-> offset, result |-> result, eof |-> eof]

OfData(r) == r = DataReader(r.offset, r.result, r.eof)

DataInv ==
    /\ OfData(rd)
    /\ rd.offset = EndOf(Len(got))
    /\ rd.result = "end" => AllReturned

HandleReader(data, offset, len, bytes_read, done, failed, fill, opened, result, eof) ==
    [kind |-> "handle", data |-> data, offset |-> offset, len |-> len,
     bytes_read |-> bytes_read, done |-> done, failed |-> failed,
     fill |-> fill, opened |-> opened, result |-> result, eof |-> eof]

(* The buffer holds what was read last, and there is room in it when it is *)
(* to be filled, because the next document is not whole in it yet.         *)
Buffered(data, offset, len, bytes_read) ==
    /\ len \in Nat /\ len >= 4 /\ bytes_read \in Nat /\ bytes_read <= Len(stream)
    /\ Len(data) \in Nat /\ Len(data) <= bytes_read
    /\ data = Bytes(stream, bytes_read - Len(data), Len(data))
    /\ offset \in Nat /\ offset <= Len(data) /\ Len(data) - offset <= len
    /\ bytes_read - Len(data) + offset = EndOf(Len(got))

Wanting(data, offset, len) ==
    /\ Len(data) - offset < len
    /\ ~(Len(data) - offset >= 4 /\ Int32At(data, offset) <= Len(data) - offset)

OfHandle(r) ==
    r = HandleReader(r.data, r.offset, r.len, r.bytes_read, r.done, r.failed,
                     r.fill, r.opened, r.result, r.eof)

HandleInv ==
    /\ OfHandle(rd)
    /\ rd.opened \in BOOLEAN /\ rd.failed \in BOOLEAN
    /\ Buffered(rd.data, rd.offset, rd.len, rd.bytes_read)
    /\ ~rd.opened => rd.fill /\ rd.bytes_read = 0
    /\ rd.fill => ~rd.done /\ Wanting(rd.data, rd.offset, rd.len)
    /\ rd.done /\ ~rd.failed => AllReturned \/ EndOf(Len(got)) = 0
    /\ rd.result = "end" => rd.done /\ (rd.eof => ~rd.failed)

Positioned ==
    \/ rd = NoReader /\ got = <<>>
    \/ DataInv /\ written # <<>>
    \/ HandleInv /\ written # <<>>

ReaderInv == LaidOut /\ InOrder /\ Positioned

-----------------------------------------------------------------------------
(* What the invariant says of the next document *)

LEMMA WrittenAre ==
    ASSUME NEW doc \in Readable
    PROVE  /\ doc \in Seq(ByteValues) /\ Len(doc) \in Nat /\ Len(doc) >= 5
           /\ Int32At(doc, 0) = Len(doc)
BY DEF Readable, bson_init_static

LEMMA EndsAre ==
    ASSUME LaidOut, NEW n \in Nat, n <= Len(written)
    PROVE  EndOf(n) \in Nat /\ EndOf(n) <= Len(stream)
<1>1. CASE n = 0
    BY <1>1 DEF LaidOut, EndOf
<1>2. CASE n # 0
    BY <1>2 DEF LaidOut, EndOf
<1> QED BY <1>1, <1>2

LEMMA DocumentLies ==
    ASSUME LaidOut, NEW n \in Nat, n < Len(written), NEW doc, doc = written[n + 1]
    PROVE  /\ doc \in Readable
           /\ EndOf(n + 1) = EndOf(n) + Len(doc)
           /\ EndOf(n) \in Nat /\ EndOf(n) + Len(doc) <= Len(stream)
           /\ Bytes(stream, EndOf(n), Len(doc)) = doc
           /\ Int32At(stream, EndOf(n)) = Len(doc)
<1> DEFINE k == n + 1
           o == EndOf(n)
<1>1. k \in 1..Len(written) /\ k - 1 = n /\ k # 0
    BY DEF LaidOut
<1>2. o \in Nat
    BY EndsAre
<1>3. doc \in Readable
    BY <1>1 DEF LaidOut
<1>4. doc \in Seq(ByteValues) /\ Len(doc) \in Nat /\ Len(doc) >= 5 /\ Int32At(doc, 0) = Len(doc)
    BY <1>3, WrittenAre
<1>5. EndOf(k) = ends[k]
    BY <1>1 DEF EndOf
<1>6. /\ ends[k] = EndOf(k - 1) + Len(doc)
      /\ ends[k] <= Len(stream)
      /\ Bytes(stream, EndOf(k - 1), Len(doc)) = doc
    BY <1>1 DEF LaidOut
<1>7. ends[k] = o + Len(doc) /\ Bytes(stream, o, Len(doc)) = doc
    BY <1>1, <1>6
<1>8. o + Len(doc) <= Len(stream) /\ stream \in Seq(ByteValues)
    BY <1>6, <1>7 DEF LaidOut
<1> HIDE DEF o, k
<1>9. Int32At(Bytes(stream, o, Len(doc)), 0) = Int32At(stream, o + 0)
    BY <1>2, <1>4, <1>8, NumberInBytes
<1>10. Int32At(stream, o) = Len(doc)
    <2>1. o + 0 = o
        BY <1>2
    <2> QED BY ONLY <1>4, <1>7, <1>9, <2>1
<1> QED BY <1>2, <1>3, <1>5, <1>7, <1>8, <1>10 DEF o, k

(* As long as bytes are left there is a next document. *)
LEMMA MoreToReturn ==
    ASSUME LaidOut, InOrder
    PROVE  /\ EndOf(Len(got)) \in Nat /\ EndOf(Len(got)) <= Len(stream)
           /\ EndOf(Len(got)) < Len(stream) => ~AllReturned
           /\ ~AllReturned => Len(got) < Len(written)
<1>1. Len(got) \in Nat /\ Len(got) <= Len(written) /\ Len(written) \in Nat /\ Len(stream) \in Nat
    BY DEF InOrder, LaidOut
<1>2. EndOf(Len(got)) \in Nat /\ EndOf(Len(got)) <= Len(stream)
    BY <1>1, EndsAre
<1>3. AllReturned => EndOf(Len(got)) = Len(stream)
    BY DEF AllReturned, LaidOut
<1> QED BY <1>1, <1>2, <1>3 DEF AllReturned

LEMMA LaidOutKept ==
    ASSUME LaidOut, UNCHANGED <<stream, written, ends>>
    PROVE  LaidOut'
BY DEF LaidOut, EndOf

(* One more was returned. *)
LEMMA OneMore ==
    ASSUME LaidOut, InOrder, Len(got) < Len(written),
           got' = Append(got, written[Len(got) + 1]), UNCHANGED <<stream, written, ends>>
    PROVE  InOrder' /\ Len(got') = Len(got) + 1
<1> DEFINE n == Len(got)
<1>1. n \in Nat /\ n + 1 <= Len(written) /\ written \in Seq(Readable)
    BY DEF InOrder, LaidOut
<1>2. got = SubSeq(written, 1, n)
    BY DEF InOrder
<1> HIDE DEF n
<1>3. Append(SubSeq(written, 1, n), written[n + 1]) = SubSeq(written, 1, n + 1)
    BY <1>1
<1>4. Len(SubSeq(written, 1, n + 1)) = n + 1
    BY <1>1
<1>5. got' = SubSeq(written, 1, n + 1)
    BY <1>2, <1>3 DEF n
<1>6. Len(got') = n + 1
    BY <1>4, <1>5
<1> QED BY <1>1, <1>5, <1>6 DEF InOrder, n

-----------------------------------------------------------------------------
(* The steps *)

LEMMA WriteLaysOut ==
    ASSUME LaidOut, NEW doc \in Readable, Noted(doc), stream' = stream \o doc
    PROVE  LaidOut'
<1> DEFINE n == Len(written)
           L == Len(doc)
<1>1. /\ n \in Nat /\ written \in Seq(Readable) /\ ends \in Seq(Nat) /\ Len(ends) = n
      /\ stream \in Seq(ByteValues) /\ Len(stream) \in Nat /\ EndOf(n) = Len(stream)
    BY DEF LaidOut
<1>2. doc \in Seq(ByteValues) /\ L \in Nat
    BY WrittenAre
<1> DEFINE e == Len(stream) + L
<1>3. /\ written' = Append(written, doc) /\ ends' = Append(ends, e)
      /\ e \in Nat
    BY <1>1, <1>2 DEF Noted
<1>4. stream' \in Seq(ByteValues) /\ Len(stream') = e
    BY <1>1, <1>2, ConcatProperties
<1> HIDE DEF e
<1>5. /\ written' \in Seq(Readable) /\ Len(written') = n + 1 /\ written'[n + 1] = doc
      /\ \A i \in 1..n : written'[i] = written[i]
    BY <1>1, <1>3
<1>6. /\ ends' \in Seq(Nat) /\ Len(ends') = n + 1 /\ ends'[n + 1] = e
      /\ \A i \in 1..n : ends'[i] = ends[i]
    BY <1>1, <1>3
<1> HIDE DEF n
<1>7. \A i \in 0..n : EndOf(i)' = EndOf(i)
    BY <1>1, <1>6 DEF EndOf
<1>9. \A i \in 1..(n + 1) :
          /\ ends'[i] = EndOf(i - 1)' + Len(written'[i])
          /\ ends'[i] <= Len(stream')
          /\ Bytes(stream', EndOf(i - 1)', Len(written'[i])) = written'[i]
    <2> TAKE i \in 1..(n + 1)
    <2>1. CASE i = n + 1
        <3>1. i - 1 = n /\ n \in 0..n
            BY <1>1, <2>1
        <3>2. EndOf(i - 1)' = Len(stream)
            BY ONLY <1>1, <1>7, <3>1
        <3>3. Bytes(stream', Len(stream), L) = doc
            BY <1>1, <1>2, LastBytes
        <3> QED BY <1>4, <1>5, <1>6, <2>1, <3>2, <3>3 DEF e
    <2>2. CASE i # n + 1
        <3>1. i \in 1..n /\ i - 1 \in 0..n /\ i - 1 \in Nat /\ i - 1 < n /\ (i - 1) + 1 = i
            BY <1>1, <2>2
        <3>2. ends[i] = EndOf(i - 1) + Len(written[i]) /\ ends[i] <= Len(stream)
              /\ Bytes(stream, EndOf(i - 1), Len(written[i])) = written[i]
            BY <3>1 DEF LaidOut, n
        <3>3. EndOf(i - 1) \in Nat
            BY <3>1, EndsAre DEF n
        <3>4. Len(written[i]) \in Nat
            <4>1. written[i] \in Readable
                BY <1>1, <3>1 DEF n
            <4> QED BY <4>1, WrittenAre
        <3>5. EndOf(i - 1)' = EndOf(i - 1) /\ written'[i] = written[i] /\ ends'[i] = ends[i]
            BY <1>5, <1>6, <1>7, <3>1
        <3> DEFINE o == EndOf(i - 1)
                   k == Len(written[i])
        <3>6. o \in Nat /\ k \in Nat /\ o + k <= Len(stream)
            BY <3>2, <3>3, <3>4
        <3> HIDE DEF o, k
        <3>7. Bytes(stream \o doc, o, k) = Bytes(stream, o, k)
            BY <1>1, <1>2, <3>6, BytesStay
        <3>8. Bytes(stream', EndOf(i - 1)', Len(written'[i])) = written'[i]
            BY <3>2, <3>5, <3>7 DEF o, k
        <3>9. ends[i] \in Nat /\ ends[i] <= Len(stream')
            BY <1>1, <1>2, <1>4, <3>2, <3>3, <3>4 DEF e
        <3> QED BY <3>2, <3>5, <3>8, <3>9
    <2> QED BY <2>1, <2>2
<1> QED
    <2>1. EndOf(Len(written))' = Len(stream')
        <3>1. Len(written') \in Nat /\ Len(written') # 0
            BY <1>1, <1>5
        <3>2. EndOf(Len(written))' = ends'[Len(written')]
            BY <3>1 DEF EndOf
        <3> QED BY <1>4, <1>5, <1>6, <3>2
    <2> QED BY <1>4, <1>5, <1>6, <1>9, <2>1 DEF LaidOut

LEMMA WriteInv ==
    ASSUME ReaderInv, NEW doc \in Readable, Write(doc)
    PROVE  ReaderInv'
<1>1. rd = NoReader /\ Noted(doc) /\ stream' = stream \o doc /\ rd' = rd /\ got' = got
    BY DEF Write
<1>2. LaidOut'
    BY <1>1, WriteLaysOut DEF ReaderInv
<1>3. got = <<>>
    BY <1>1 DEF ReaderInv, Positioned, DataInv, OfData, HandleInv, OfHandle, NoReader, DataReader, HandleReader
<1>4. Len(written') \in Nat
    BY <1>2 DEF LaidOut
<1>5. SubSeq(written', 1, 0) = <<>>
    BY <1>2 DEF LaidOut
<1>6. InOrder'
    BY <1>1, <1>3, <1>4, <1>5 DEF InOrder
<1> QED BY <1>1, <1>2, <1>3, <1>6 DEF ReaderInv, Positioned

LEMMA OpenInv == ASSUME ReaderInv, OpenReader PROVE ReaderInv'
<1>1. /\ written # <<>> /\ rd = NoReader
      /\ UNCHANGED <<stream, written, ends, got>>
    BY DEF OpenReader
<1>2. LaidOut'
    BY <1>1, LaidOutKept DEF ReaderInv
<1>3. InOrder'
    BY <1>1 DEF ReaderInv, InOrder
<1>4. got = <<>>
    BY <1>1 DEF ReaderInv, Positioned, DataInv, OfData, HandleInv, OfHandle, NoReader, DataReader, HandleReader
<1>5. Len(got) = 0 /\ EndOf(Len(got))' = 0
    BY <1>1, <1>4 DEF EndOf
<1>6. CASE bson_reader_new_from_data
    <2>1. DataInv'
        BY <1>5, <1>6 DEF bson_reader_new_from_data, DataInv, OfData, DataReader
    <2> QED BY <1>1, <1>2, <1>3, <2>1 DEF ReaderInv, Positioned
<1>7. CASE bson_reader_new_from_handle
    <2>1. rd' = HandleReader(<<>>, 0, HandleBuffer, 0, FALSE, FALSE, TRUE, FALSE, "none", FALSE)
        BY <1>7 DEF bson_reader_new_from_handle, HandleReader
    <2>2. /\ rd'.data = <<>> /\ rd'.offset = 0 /\ rd'.len = HandleBuffer /\ rd'.bytes_read = 0
          /\ rd'.done = FALSE /\ rd'.failed = FALSE /\ rd'.fill = TRUE /\ rd'.opened = FALSE
          /\ rd'.result = "none"
        BY <2>1 DEF HandleReader
    <2>3. rd' = HandleReader(rd'.data, rd'.offset, rd'.len, rd'.bytes_read, rd'.done, rd'.failed,
                             rd'.fill, rd'.opened, rd'.result, rd'.eof)
        BY <2>1 DEF HandleReader
    <2>4. stream' \in Seq(ByteValues) /\ Len(stream') \in Nat
        BY <1>2 DEF LaidOut
    <2>5. Bytes(stream', 0, 0) = <<>>
        BY <2>4 DEF Bytes
    <2>6. Buffered(<<>>, 0, HandleBuffer, 0)'
        <3>1. Len(<<>>) = 0 /\ 0 - 0 = 0 /\ 0 - 0 + 0 = 0
            OBVIOUS
        <3>2. HandleBuffer \in Nat /\ HandleBuffer >= 4 /\ 0 <= Len(stream') /\ 0 <= HandleBuffer - 0 /\ 0 - 0 <= HandleBuffer
            BY <2>4, ReaderAssumption
        <3>3. EndOf(Len(got))' = 0 /\ <<>> = Bytes(stream', 0 - Len(<<>>), Len(<<>>))
            BY <1>5, <2>5, <3>1
        <3> DEFINE z == Len(<<>>)
                   e == EndOf(Len(got))
        <3>4. z = 0 /\ e' = 0 /\ <<>> = Bytes(stream', 0 - z, z)
            BY <3>1, <3>3
        <3> HIDE DEF z, e
        <3>5. z \in Nat /\ z <= 0 /\ 0 \in Nat /\ 0 <= z /\ z - 0 <= HandleBuffer /\ 0 - z + 0 = e'
            BY <3>2, <3>4
        <3> QED BY <3>2, <3>4, <3>5, Zenon DEF Buffered, z, e
    <2>7. Wanting(<<>>, 0, HandleBuffer)
        BY ReaderAssumption DEF Wanting
    <2>8. Buffered(rd.data, rd.offset, rd.len, rd.bytes_read)'
        BY <2>2, <2>6, Zenon
    <2>9. Wanting(rd.data, rd.offset, rd.len)'
        BY <2>2, <2>7, Zenon
    <2>10. HandleInv'
        BY <2>2, <2>3, <2>8, <2>9, Zenon DEF HandleInv, OfHandle
    <2> QED BY <1>1, <1>2, <1>3, <2>10 DEF ReaderInv, Positioned
<1> QED BY <1>6, <1>7 DEF OpenReader

(* One field of a reader of data changed, two, three *)

LEMMA DataParts ==
    ASSUME NEW a, NEW r, NEW f, NEW d, d = DataReader(a, r, f)
    PROVE  OfData(d) /\ d.offset = a /\ d.result = r /\ d.eof = f
BY DEF DataReader, OfData

LEMMA SetDataResult ==
    ASSUME NEW d, OfData(d), NEW y
    PROVE  [d EXCEPT !.result = y] = DataReader(d.offset, y, d.eof)
BY DEF DataReader, OfData

LEMMA SetDataEof ==
    ASSUME NEW d, OfData(d), NEW z
    PROVE  [d EXCEPT !.eof = z] = DataReader(d.offset, d.result, z)
BY DEF DataReader, OfData

LEMMA SetDataOffset ==
    ASSUME NEW d, OfData(d), NEW x
    PROVE  [d EXCEPT !.offset = x] = DataReader(x, d.result, d.eof)
BY DEF DataReader, OfData

LEMMA SetDataEnd ==
    ASSUME NEW d, OfData(d), NEW y, NEW z
    PROVE  [d EXCEPT !.result = y, !.eof = z] = DataReader(d.offset, y, z)
<1> DEFINE e == [d EXCEPT !.result = y]
<1>1. e = DataReader(d.offset, y, d.eof)
    BY SetDataResult
<1> HIDE DEF e
<1>2. [e EXCEPT !.eof = z] = DataReader(d.offset, y, z)
    BY <1>1, SetDataEof, DataParts
<1> QED BY <1>2, Zenon DEF e

LEMMA DataInvPositions == ASSUME rd.kind = "data", ReaderInv PROVE DataInv /\ written # <<>>
BY DEF ReaderInv, Positioned, HandleInv, OfHandle, HandleReader, NoReader

LEMMA DataReadInv == ASSUME ReaderInv, _bson_reader_data_read PROVE ReaderInv'
<1> DEFINE o == rd.offset
           left == Len(stream) - o
           blen == Int32At(stream, o)
<1>1. /\ rd.kind = "data"
      /\ UNCHANGED <<stream, written, ends>>
      /\ \/ /\ left > 4 /\ blen <= left /\ got' = Append(got, Bytes(stream, o, blen))
            /\ rd' = [rd EXCEPT !.offset = @ + blen, !.result = "doc",
                                !.eof = rd.offset + blen = Len(stream)]
         \/ /\ ~(left > 4 /\ blen <= left)
            /\ rd' = [rd EXCEPT !.result = "end", !.eof = rd.offset = Len(stream)]
            /\ got' = got
    BY DEF _bson_reader_data_read
<1>2. LaidOut /\ InOrder /\ DataInv /\ written # <<>>
    BY <1>1, DataInvPositions DEF ReaderInv
<1>3. LaidOut'
    BY <1>1, <1>2, LaidOutKept
<1> DEFINE n == Len(got)
           doc == written[n + 1]
<1>4. o = EndOf(n)
    BY <1>2 DEF DataInv
<1>5. o \in Nat /\ Len(stream) \in Nat /\ o <= Len(stream)
      /\ (o < Len(stream) => ~AllReturned) /\ (~AllReturned => n < Len(written))
    BY <1>2, <1>4, MoreToReturn DEF LaidOut
<1>6. n \in Nat /\ Len(written) \in Nat
    BY <1>2 DEF InOrder, LaidOut
<1>7. ASSUME ~AllReturned
      PROVE  /\ n < Len(written) /\ EndOf(n + 1) = o + Len(doc) /\ Len(doc) \in Nat /\ Len(doc) >= 5
             /\ o + Len(doc) <= Len(stream) /\ Bytes(stream, o, Len(doc)) = doc /\ blen = Len(doc)
    <2>1. n < Len(written)
        BY <1>5, <1>7
    <2> HIDE DEF n, o
    <2>2. /\ doc \in Readable
          /\ EndOf(n + 1) = EndOf(n) + Len(doc)
          /\ EndOf(n) \in Nat /\ EndOf(n) + Len(doc) <= Len(stream)
          /\ Bytes(stream, EndOf(n), Len(doc)) = doc
          /\ Int32At(stream, EndOf(n)) = Len(doc)
        BY <1>2, <1>6, <2>1, DocumentLies
    <2>3. Len(doc) \in Nat /\ Len(doc) >= 5
        BY <2>2, WrittenAre
    <2> QED BY <1>4, <2>1, <2>2, <2>3
<1>8. CASE left > 4 /\ blen <= left /\ got' = Append(got, Bytes(stream, o, blen))
           /\ rd' = [rd EXCEPT !.offset = @ + blen, !.result = "doc",
                               !.eof = rd.offset + blen = Len(stream)]
    <2>1. ~AllReturned
        BY <1>5, <1>8
    <2>2. got' = Append(got, doc) /\ n < Len(written) /\ blen = Len(doc) /\ EndOf(n + 1) = o + Len(doc)
        BY <1>7, <1>8, <2>1
    <2>3. InOrder' /\ Len(got') = n + 1
        BY <1>1, <1>2, <2>2, OneMore
    <2>4. EndOf(Len(got))' = EndOf(n + 1)
        BY <1>1, <2>3 DEF EndOf
    <2> DEFINE eof == o + blen = Len(stream)
               next == o + blen
    <2>5. rd' = DataReader(next, "doc", eof)
        <3>1. rd' = [rd EXCEPT !.offset = next, !.result = "doc", !.eof = eof]
            BY <1>8
        <3>2. OfData(rd)
            BY <1>2 DEF DataInv
        <3> HIDE DEF eof, next
        <3>3. [rd EXCEPT !.offset = next, !.result = "doc", !.eof = eof] = DataReader(next, "doc", eof)
            <4> DEFINE found == "doc"
                       e == [rd EXCEPT !.offset = next]
            <4>1. [rd EXCEPT !.offset = next, !.result = found, !.eof = eof] = DataReader(next, found, eof)
                <5> HIDE DEF found
                <5>1. e = DataReader(next, rd.result, rd.eof)
                    BY <3>2, SetDataOffset
                <5> HIDE DEF e
                <5>2. OfData(e) /\ e.offset = next
                    BY <5>1, DataParts
                <5>3. [e EXCEPT !.result = found, !.eof = eof] = DataReader(e.offset, found, eof)
                    BY ONLY <5>2, SetDataEnd, Zenon
                <5>4. [e EXCEPT !.result = found, !.eof = eof] = DataReader(next, found, eof)
                    BY ONLY <5>2, <5>3, Zenon
                <5> QED BY <5>4, Zenon DEF e
            <4> QED BY <4>1
        <3> QED BY ONLY <3>1, <3>3, Zenon
    <2> HIDE DEF eof
    <2>6. DataInv'
        BY <2>2, <2>4, <2>5 DEF DataInv, OfData, DataReader
    <2> QED BY <1>1, <1>2, <1>3, <2>3, <2>6 DEF ReaderInv, Positioned
<1>9. CASE ~(left > 4 /\ blen <= left) /\ got' = got
           /\ rd' = [rd EXCEPT !.result = "end", !.eof = rd.offset = Len(stream)]
    <2>1. AllReturned
        BY <1>5, <1>7, <1>9
    <2>2. AllReturned' /\ InOrder' /\ EndOf(Len(got))' = EndOf(Len(got))
        BY <1>1, <1>2, <1>9, <2>1 DEF AllReturned, InOrder, EndOf
    <2> DEFINE eof == o = Len(stream)
    <2>3. rd' = DataReader(o, "end", eof)
        <3>1. rd' = [rd EXCEPT !.result = "end", !.eof = eof]
            BY <1>9
        <3> HIDE DEF eof, o
        <3>2. OfData(rd)
            BY <1>2 DEF DataInv
        <3>3. [rd EXCEPT !.result = "end", !.eof = eof] = DataReader(rd.offset, "end", eof)
            <4> DEFINE end == "end"
            <4>1. [rd EXCEPT !.result = end, !.eof = eof] = DataReader(rd.offset, end, eof)
                <5> HIDE DEF end
                <5> QED BY ONLY <3>2, SetDataEnd, Zenon
            <4> QED BY <4>1
        <3> QED BY <3>1, <3>3 DEF o
    <2> HIDE DEF eof
    <2>4. DataInv'
        BY <1>4, <2>2, <2>3 DEF DataInv, OfData, DataReader
    <2> QED BY <1>1, <1>2, <1>3, <2>2, <2>4 DEF ReaderInv, Positioned
<1> QED BY <1>1, <1>8, <1>9

-----------------------------------------------------------------------------
(* Fields of a handle's reader changed *)

LEMMA HandleParts ==
    ASSUME NEW data, NEW offset, NEW len, NEW n, NEW done, NEW failed, NEW fill, NEW opened,
           NEW result, NEW eof,
           NEW d, d = HandleReader(data, offset, len, n, done, failed, fill, opened, result, eof)
    PROVE  /\ OfHandle(d)
           /\ d.data = data /\ d.offset = offset /\ d.len = len /\ d.bytes_read = n
           /\ d.done = done /\ d.failed = failed /\ d.fill = fill /\ d.opened = opened
           /\ d.result = result /\ d.eof = eof
BY DEF HandleReader, OfHandle

LEMMA Handle_data ==
    ASSUME NEW d, OfHandle(d), NEW x
    PROVE  [d EXCEPT !.data = x] =
        HandleReader(x, d.offset, d.len, d.bytes_read, d.done,
                 d.failed, d.fill, d.opened, d.result, d.eof)
BY DEF HandleReader, OfHandle

LEMMA Handle_offset ==
    ASSUME NEW d, OfHandle(d), NEW x
    PROVE  [d EXCEPT !.offset = x] =
        HandleReader(d.data, x, d.len, d.bytes_read, d.done,
                 d.failed, d.fill, d.opened, d.result, d.eof)
BY DEF HandleReader, OfHandle

LEMMA Handle_len ==
    ASSUME NEW d, OfHandle(d), NEW x
    PROVE  [d EXCEPT !.len = x] =
        HandleReader(d.data, d.offset, x, d.bytes_read, d.done,
                 d.failed, d.fill, d.opened, d.result, d.eof)
BY DEF HandleReader, OfHandle

LEMMA Handle_bytes_read ==
    ASSUME NEW d, OfHandle(d), NEW x
    PROVE  [d EXCEPT !.bytes_read = x] =
        HandleReader(d.data, d.offset, d.len, x, d.done,
                 d.failed, d.fill, d.opened, d.result, d.eof)
BY DEF HandleReader, OfHandle

LEMMA Handle_done ==
    ASSUME NEW d, OfHandle(d), NEW x
    PROVE  [d EXCEPT !.done = x] =
        HandleReader(d.data, d.offset, d.len, d.bytes_read, x,
                 d.failed, d.fill, d.opened, d.result, d.eof)
BY DEF HandleReader, OfHandle

LEMMA Handle_failed ==
    ASSUME NEW d, OfHandle(d), NEW x
    PROVE  [d EXCEPT !.failed = x] =
        HandleReader(d.data, d.offset, d.len, d.bytes_read, d.done,
                 x, d.fill, d.opened, d.result, d.eof)
BY DEF HandleReader, OfHandle

LEMMA Handle_fill ==
    ASSUME NEW d, OfHandle(d), NEW x
    PROVE  [d EXCEPT !.fill = x] =
        HandleReader(d.data, d.offset, d.len, d.bytes_read, d.done,
                 d.failed, x, d.opened, d.result, d.eof)
BY DEF HandleReader, OfHandle

LEMMA Handle_opened ==
    ASSUME NEW d, OfHandle(d), NEW x
    PROVE  [d EXCEPT !.opened = x] =
        HandleReader(d.data, d.offset, d.len, d.bytes_read, d.done,
                 d.failed, d.fill, x, d.result, d.eof)
BY DEF HandleReader, OfHandle

LEMMA Handle_result ==
    ASSUME NEW d, OfHandle(d), NEW x
    PROVE  [d EXCEPT !.result = x] =
        HandleReader(d.data, d.offset, d.len, d.bytes_read, d.done,
                 d.failed, d.fill, d.opened, x, d.eof)
BY DEF HandleReader, OfHandle

LEMMA Handle_eof ==
    ASSUME NEW d, OfHandle(d), NEW x
    PROVE  [d EXCEPT !.eof = x] =
        HandleReader(d.data, d.offset, d.len, d.bytes_read, d.done,
                 d.failed, d.fill, d.opened, d.result, x)
BY DEF HandleReader, OfHandle

LEMMA HandleDone ==
    ASSUME NEW d, OfHandle(d), NEW x1, NEW x2
    PROVE  [d EXCEPT !.done = x1, !.failed = x2] =
        HandleReader(d.data, d.offset, d.len, d.bytes_read, x1,
                 x2, d.fill, d.opened, d.result, d.eof)
<1> DEFINE e1 == [d EXCEPT !.done = x1]
<1>1. e1 = HandleReader(d.data, d.offset, d.len, d.bytes_read, x1,
                 d.failed, d.fill, d.opened, d.result, d.eof)
    BY Handle_done
<1> HIDE DEF e1
<1>2. [e1 EXCEPT !.failed = x2] = HandleReader(d.data, d.offset, d.len, d.bytes_read, x1,
                 x2, d.fill, d.opened, d.result, d.eof)
    BY Handle_failed, <1>1, HandleParts
<1> QED BY <1>2, Zenon DEF e1

LEMMA HandleEnded ==
    ASSUME NEW d, OfHandle(d), NEW x1, NEW x2
    PROVE  [d EXCEPT !.result = x1, !.eof = x2] =
        HandleReader(d.data, d.offset, d.len, d.bytes_read, d.done,
                 d.failed, d.fill, d.opened, x1, x2)
<1> DEFINE e1 == [d EXCEPT !.result = x1]
<1>1. e1 = HandleReader(d.data, d.offset, d.len, d.bytes_read, d.done,
                 d.failed, d.fill, d.opened, x1, d.eof)
    BY Handle_result
<1> HIDE DEF e1
<1>2. [e1 EXCEPT !.eof = x2] = HandleReader(d.data, d.offset, d.len, d.bytes_read, d.done,
                 d.failed, d.fill, d.opened, x1, x2)
    BY Handle_eof, <1>1, HandleParts
<1> QED BY <1>2, Zenon DEF e1

LEMMA HandleFound ==
    ASSUME NEW d, OfHandle(d), NEW x1, NEW x2
    PROVE  [d EXCEPT !.offset = x1, !.result = x2] =
        HandleReader(d.data, x1, d.len, d.bytes_read, d.done,
                 d.failed, d.fill, d.opened, x2, d.eof)
<1> DEFINE e1 == [d EXCEPT !.offset = x1]
<1>1. e1 = HandleReader(d.data, x1, d.len, d.bytes_read, d.done,
                 d.failed, d.fill, d.opened, d.result, d.eof)
    BY Handle_offset
<1> HIDE DEF e1
<1>2. [e1 EXCEPT !.result = x2] = HandleReader(d.data, x1, d.len, d.bytes_read, d.done,
                 d.failed, d.fill, d.opened, x2, d.eof)
    BY Handle_result, <1>1, HandleParts
<1> QED BY <1>2, Zenon DEF e1

LEMMA HandleGrown ==
    ASSUME NEW d, OfHandle(d), NEW x1, NEW x2
    PROVE  [d EXCEPT !.len = x1, !.fill = x2] =
        HandleReader(d.data, d.offset, x1, d.bytes_read, d.done,
                 d.failed, x2, d.opened, d.result, d.eof)
<1> DEFINE e1 == [d EXCEPT !.len = x1]
<1>1. e1 = HandleReader(d.data, d.offset, x1, d.bytes_read, d.done,
                 d.failed, d.fill, d.opened, d.result, d.eof)
    BY Handle_len
<1> HIDE DEF e1
<1>2. [e1 EXCEPT !.fill = x2] = HandleReader(d.data, d.offset, x1, d.bytes_read, d.done,
                 d.failed, x2, d.opened, d.result, d.eof)
    BY Handle_fill, <1>1, HandleParts
<1> QED BY <1>2, Zenon DEF e1

-----------------------------------------------------------------------------
(* The steps of a reader with a buffer *)

LEMMA BufferedStream ==
    ASSUME LaidOut, NEW data, NEW offset, NEW len, NEW n, Buffered(data, offset, len, n)
    PROVE  /\ stream \in Seq(ByteValues) /\ Len(stream) \in Nat
           /\ len \in Nat /\ len >= 4 /\ n \in Nat /\ n <= Len(stream)
           /\ Len(data) \in Nat /\ Len(data) <= n /\ offset \in Nat /\ offset <= Len(data)
           /\ n - Len(data) \in Nat /\ Len(data) - offset \in Nat /\ Len(data) - offset <= len
           /\ data = Bytes(stream, n - Len(data), Len(data)) /\ data \in Seq(ByteValues)
           /\ (n - Len(data)) + offset = EndOf(Len(got))
           /\ EndOf(Len(got)) + (Len(data) - offset) = n
<1> DEFINE k == Len(data)
<1>1. stream \in Seq(ByteValues) /\ Len(stream) \in Nat
    BY DEF LaidOut
<1>2. /\ len \in Nat /\ len >= 4 /\ n \in Nat /\ n <= Len(stream)
      /\ k \in Nat /\ k <= n /\ offset \in Nat /\ offset <= k
      /\ k - offset <= len
      /\ data = Bytes(stream, n - k, k)
      /\ n - k + offset = EndOf(Len(got))
    BY DEF Buffered
<1> HIDE DEF k
<1> DEFINE o == n - k
<1>3. o \in Nat /\ o + k <= Len(stream) /\ k - offset \in Nat /\ (n - k + offset) + (k - offset) = n
    BY <1>1, <1>2
<1> HIDE DEF o
<1>4. Bytes(stream, o, k) \in Seq(ByteValues)
    BY ONLY <1>1, <1>2, <1>3, BytesAre
<1> QED BY <1>1, <1>2, <1>3, <1>4 DEF k, o

(* What was left in the buffer and what was read now lie one behind the    *)
(* other in the stream.                                                    *)
LEMMA FilledBuffer ==
    ASSUME LaidOut, NEW data, NEW offset, NEW len, NEW n, Buffered(data, offset, len, n),
           NEW m \in Nat, m <= len - (Len(data) - offset), m <= Len(stream) - n,
           NEW more, more = SubSeq(data, offset + 1, Len(data)) \o Bytes(stream, n, m)
    PROVE  Buffered(more, 0, len, n + m)
<1> DEFINE k == Len(data)
           have == k - offset
           o == EndOf(Len(got))
           p == n - k
<1>1. /\ stream \in Seq(ByteValues) /\ Len(stream) \in Nat
      /\ len \in Nat /\ len >= 4 /\ n \in Nat /\ n <= Len(stream)
      /\ k \in Nat /\ k <= n /\ offset \in Nat /\ offset <= k
      /\ p \in Nat /\ have \in Nat /\ have <= len
      /\ data = Bytes(stream, p, k) /\ data \in Seq(ByteValues)
      /\ p + offset = o /\ o + have = n
    BY BufferedStream
<1> HIDE DEF k, have, o, p
<1>2. o \in Nat /\ have + m <= len /\ o + have + m <= Len(stream) /\ p + k <= Len(stream)
      /\ offset + have = k
    <2>1. have = k - offset
        BY DEF have, k
    <2>2. m <= len - have
        BY DEF have, k
    <2> QED BY ONLY <1>1, <2>1, <2>2, m \in Nat, m <= Len(stream) - n
<1>3. SubSeq(data, offset + 1, k) = Bytes(data, offset, have)
    BY <1>2 DEF Bytes
<1> HIDE DEF k, have, o, p
<1>4. Bytes(data, offset, have) = Bytes(stream, o, have)
    <2>1. Bytes(Bytes(stream, p, k), offset, have) = Bytes(stream, p + offset, have)
        <3>1. offset + have <= k
            BY <1>1, <1>2
        <3> QED BY ONLY <1>1, <1>2, <3>1, BytesOfBytes
    <2> QED BY ONLY <1>1, <2>1, Zenon
<1>5. Bytes(stream, o, have) \o Bytes(stream, o + have, m) = Bytes(stream, o, have + m)
    <2>1. stream \in Seq(ByteValues) /\ o \in Nat /\ have \in Nat /\ m \in Nat /\ o + have + m <= Len(stream)
        BY <1>1, <1>2
    <2> QED BY ONLY <2>1, BytesJoined
<1>6. more = Bytes(stream, o, have + m)
    BY ONLY more = SubSeq(data, offset + 1, k) \o Bytes(stream, n, m), <1>1, <1>3, <1>4, <1>5, Zenon DEF k
<1> DEFINE t == have + m
<1>7. t \in Nat /\ o + t <= Len(stream) /\ (n + m) - t = o /\ n + m \in Nat /\ t <= n + m /\ n + m <= Len(stream)
    BY <1>1, <1>2
<1>8. t <= len
    BY <1>2
<1> HIDE DEF t
<1>9. Len(Bytes(stream, o, t)) = t
    BY ONLY <1>1, <1>2, <1>7, BytesAre
<1>10. more = Bytes(stream, o, t) /\ Len(more) = t
    BY <1>6, <1>9 DEF t
<1> DEFINE l == n + m
<1> HIDE DEF l
<1>11. /\ l \in Nat /\ l <= Len(stream) /\ Len(more) \in Nat /\ Len(more) <= l
       /\ more = Bytes(stream, l - Len(more), Len(more))
       /\ 0 \in Nat /\ 0 <= Len(more) /\ Len(more) - 0 <= len /\ l - Len(more) + 0 = o
    <2> DEFINE c == Len(more)
    <2>1. l \in Nat /\ l <= Len(stream) /\ c = t /\ l - t = o /\ t <= l
        BY <1>7, <1>10 DEF l
    <2>2. more = Bytes(stream, l - c, c)
        BY ONLY <1>10, <2>1, Zenon
    <2> HIDE DEF c
    <2>3. c \in Nat /\ c <= l /\ 0 \in Nat /\ 0 <= c /\ c - 0 <= len /\ l - c + 0 = o
        BY ONLY <1>1, <1>2, <1>7, <1>8, <2>1
    <2> QED BY ONLY <2>1, <2>2, <2>3, Zenon DEF c
<1> QED BY <1>1, <1>11 DEF Buffered, l, o

(* With the length of a document in the buffer, it is the next one's. *)
LEMMA NextInBuffer ==
    ASSUME LaidOut, InOrder, NEW data, NEW offset, NEW len, NEW n, Buffered(data, offset, len, n),
           Len(data) - offset >= 4, NEW doc, doc = written[Len(got) + 1]
    PROVE  /\ ~AllReturned
           /\ Len(doc) \in Nat /\ Len(doc) >= 5 /\ Int32At(data, offset) = Len(doc)
           /\ Len(doc) <= Len(data) - offset => Bytes(data, offset, Len(doc)) = doc
<1> DEFINE k == Len(data)
           o == EndOf(Len(got))
           p == n - k
           g == Len(got)
<1>1. /\ stream \in Seq(ByteValues) /\ Len(stream) \in Nat
      /\ n \in Nat /\ n <= Len(stream)
      /\ k \in Nat /\ offset \in Nat /\ offset <= k
      /\ p \in Nat
      /\ data = Bytes(stream, p, k)
      /\ p + offset = o /\ o + (k - offset) = n
    BY BufferedStream
<1>2. o < Len(stream) /\ o \in Nat
    BY <1>1
<1>3. ~AllReturned /\ g < Len(written) /\ g \in Nat
    BY <1>2, MoreToReturn DEF InOrder
<1>4. p + k <= Len(stream) /\ offset + 4 <= k
    BY <1>1
<1> HIDE DEF k, p, g
<1>5. /\ doc \in Readable
      /\ Bytes(stream, EndOf(g), Len(doc)) = doc /\ Int32At(stream, EndOf(g)) = Len(doc)
    <2>1. doc = written[g + 1]
        BY DEF g
    <2> QED BY ONLY LaidOut, <1>3, <2>1, DocumentLies
<1>6. Len(doc) \in Nat /\ Len(doc) >= 5
    BY <1>5, WrittenAre
<1>7. Int32At(Bytes(stream, p, k), offset) = Int32At(stream, p + offset)
    BY ONLY <1>1, <1>4, NumberInBytes
<1>8. o = EndOf(g)
    BY DEF g
<1> HIDE DEF o
<1>9. Int32At(data, offset) = Len(doc)
    BY ONLY <1>1, <1>5, <1>7, <1>8, Zenon
<1>10. ASSUME Len(doc) <= k - offset PROVE Bytes(data, offset, Len(doc)) = doc
    <2> DEFINE m == Len(doc)
    <2>1. m \in Nat /\ offset + m <= k
        BY <1>1, <1>6, <1>10
    <2>2. Bytes(stream, p + offset, m) = doc
        BY ONLY <1>1, <1>5, <1>8, Zenon
    <2> HIDE DEF m
    <2>3. Bytes(Bytes(stream, p, k), offset, m) = Bytes(stream, p + offset, m)
        BY ONLY <1>1, <1>4, <2>1, BytesOfBytes
    <2> QED BY ONLY <1>1, <2>2, <2>3, Zenon DEF m
<1> QED BY <1>3, <1>6, <1>9, <1>10 DEF k

(* When all is read and the next document is not whole in the buffer,      *)
(* there is none.                                                          *)
LEMMA NothingWanting ==
    ASSUME LaidOut, InOrder, NEW data, NEW offset, NEW len, Buffered(data, offset, len, Len(stream)),
           Wanting(data, offset, len)
    PROVE  AllReturned
<1> SUFFICES ASSUME ~AllReturned PROVE FALSE
    OBVIOUS
<1> DEFINE g == Len(got)
           doc == written[Len(got) + 1]
           have == Len(data) - offset
<1>1. g \in Nat /\ g < Len(written)
    BY MoreToReturn DEF InOrder
<1>2. doc = written[g + 1]
    OBVIOUS
<1> HIDE DEF g, doc
<1>3. doc \in Readable /\ EndOf(g) + Len(doc) <= Len(stream) /\ EndOf(g) \in Nat
    BY ONLY LaidOut, <1>1, <1>2, DocumentLies
<1>4. Len(doc) \in Nat /\ Len(doc) >= 5
    BY <1>3, WrittenAre
<1>5. EndOf(g) + have = Len(stream) /\ have \in Nat
    BY BufferedStream DEF g
<1>6. Len(doc) <= have /\ have >= 4
    BY <1>3, <1>4, <1>5
<1>7. Int32At(data, offset) = Len(doc)
    BY <1>6, NextInBuffer DEF doc
<1> QED BY <1>6, <1>7 DEF Wanting

LEMMA BufferedKept ==
    ASSUME NEW data, NEW offset, NEW len, NEW n, Buffered(data, offset, len, n),
           UNCHANGED <<stream, ends, got>>
    PROVE  Buffered(data, offset, len, n)'
BY Zenon DEF Buffered, EndOf

LEMMA HandleMade ==
    ASSUME NEW data, NEW offset, NEW len, NEW n, NEW done, NEW failed, NEW fill, NEW opened,
           NEW result, NEW eof,
           rd' = HandleReader(data, offset, len, n, done, failed, fill, opened, result, eof),
           UNCHANGED <<stream, written, ends, got>>,
           opened \in BOOLEAN, failed \in BOOLEAN,
           Buffered(data, offset, len, n),
           ~opened => fill /\ n = 0,
           fill => ~done /\ Wanting(data, offset, len),
           done /\ ~failed => AllReturned \/ EndOf(Len(got)) = 0,
           result = "end" => done /\ (eof => ~failed)
    PROVE  HandleInv'
<1>1. /\ OfHandle(rd')
      /\ rd'.data = data /\ rd'.offset = offset /\ rd'.len = len /\ rd'.bytes_read = n
      /\ rd'.done = done /\ rd'.failed = failed /\ rd'.fill = fill /\ rd'.opened = opened
      /\ rd'.result = result /\ rd'.eof = eof
    BY HandleParts
<1>2. Buffered(data, offset, len, n)'
    BY BufferedKept
<1>3. Buffered(rd.data, rd.offset, rd.len, rd.bytes_read)'
    BY <1>1, <1>2, Zenon
<1>4. rd'.fill => Wanting(rd'.data, rd'.offset, rd'.len)
    BY <1>1, Zenon
<1>5. done /\ ~failed => AllReturned' \/ EndOf(Len(got))' = 0
    BY Zenon DEF AllReturned, EndOf
<1>6. /\ rd'.opened \in BOOLEAN /\ rd'.failed \in BOOLEAN
      /\ ~rd'.opened => rd'.fill /\ rd'.bytes_read = 0
      /\ rd'.fill => ~rd'.done
      /\ rd'.done /\ ~rd'.failed => AllReturned' \/ EndOf(Len(got))' = 0
      /\ rd'.result = "end" => rd'.done /\ (rd'.eof => ~rd'.failed)
    BY <1>1, <1>5, Zenon
<1> QED BY <1>1, <1>3, <1>4, <1>6, Zenon DEF HandleInv, OfHandle

LEMMA HandleInvPositions == ASSUME rd.kind = "handle", ReaderInv PROVE HandleInv /\ written # <<>>
BY DEF ReaderInv, Positioned, DataInv, OfData, DataReader, NoReader

(* What a read returns *)
LEMMA ReadReturns ==
    ASSUME NEW left \in Nat, NEW room \in Nat, room # 0,
           NEW ret \in _bson_reader_handle_fd_read(left, room)
    PROVE  /\ ret.n \in Nat /\ ret.n <= left /\ ret.n <= room
           /\ ret.error \in BOOLEAN
           /\ ret.n = 0 /\ ~ret.error => left = 0
<1>1. CASE \E m \in 0..left : /\ m <= room /\ \E c \in Chunks : m <= c /\ m \in {c, room, left}
                              /\ ret = [n |-> m, error |-> FALSE]
    BY <1>1, ReaderAssumption
<1>2. CASE ret = [n |-> 0, error |-> TRUE]
    BY <1>2
<1> QED BY <1>1, <1>2 DEF _bson_reader_handle_fd_read

LEMMA FilledReader ==
    ASSUME NEW d, OfHandle(d), NEW new
    PROVE  Filled(d, new) = HandleReader(SubSeq(d.data, d.offset + 1, Len(d.data)) \o new, 0, d.len,
                                         d.bytes_read + Len(new), d.done, d.failed,
                                         FALSE, TRUE, d.result, d.eof)
<1> DEFINE no == FALSE
           yes == TRUE
           all == SubSeq(d.data, d.offset + 1, Len(d.data)) \o new
           n == d.bytes_read + Len(new)
           o == 0
<1>1. Filled(d, new) = [d EXCEPT !.data = all, !.offset = o, !.bytes_read = n, !.fill = no, !.opened = yes]
    BY Zenon DEF Filled
<1> HIDE DEF no, yes, all, n, o
<1> DEFINE e1 == [d EXCEPT !.data = all]
<1>2. e1 = HandleReader(all, d.offset, d.len, d.bytes_read, d.done,
                        d.failed, d.fill, d.opened, d.result, d.eof)
    BY Handle_data
<1> HIDE DEF e1
<1> DEFINE e2 == [e1 EXCEPT !.offset = o]
<1>3. e2 = HandleReader(all, o, d.len, d.bytes_read, d.done,
                        d.failed, d.fill, d.opened, d.result, d.eof)
    BY Handle_offset, <1>2, HandleParts
<1> HIDE DEF e2
<1> DEFINE e3 == [e2 EXCEPT !.bytes_read = n]
<1>4. e3 = HandleReader(all, o, d.len, n, d.done,
                        d.failed, d.fill, d.opened, d.result, d.eof)
    BY Handle_bytes_read, <1>3, HandleParts
<1> HIDE DEF e3
<1> DEFINE e4 == [e3 EXCEPT !.fill = no]
<1>5. e4 = HandleReader(all, o, d.len, n, d.done,
                        d.failed, no, d.opened, d.result, d.eof)
    BY Handle_fill, <1>4, HandleParts
<1> HIDE DEF e4
<1>6. [e4 EXCEPT !.opened = yes] = HandleReader(all, o, d.len, n, d.done,
                        d.failed, no, yes, d.result, d.eof)
    BY Handle_opened, <1>5, HandleParts
<1>7. [d EXCEPT !.data = all, !.offset = o, !.bytes_read = n, !.fill = no, !.opened = yes] =
      HandleReader(all, o, d.len, n, d.done,
                        d.failed, no, yes, d.result, d.eof)
    BY <1>6, Zenon DEF e1, e2, e3, e4
<1> QED BY <1>1, <1>7, Zenon DEF no, yes, all, n, o

LEMMA FillInv == ASSUME ReaderInv, _bson_reader_handle_fill_buffer PROVE ReaderInv'
<1> DEFINE have == Len(rd.data) - rd.offset
           room == rd.len - have
           left == Len(stream) - rd.bytes_read
<1>1. PICK ret \in _bson_reader_handle_fd_read(left, room) :
          LET r == Filled(rd, Bytes(stream, rd.bytes_read, ret.n))
          IN  rd' = IF ret.n > 0 THEN r
                    ELSE [r EXCEPT !.done = TRUE, !.failed = ret.error /\ rd.opened]
    BY DEF _bson_reader_handle_fill_buffer
<1>2. /\ rd.kind = "handle" /\ rd.fill
      /\ UNCHANGED <<stream, written, ends, got>>
    BY DEF _bson_reader_handle_fill_buffer
<1>3. LaidOut /\ InOrder /\ HandleInv /\ written # <<>>
    BY <1>2, HandleInvPositions DEF ReaderInv
<1>4. LaidOut' /\ InOrder'
    BY <1>2, <1>3, LaidOutKept DEF InOrder
<1>5. /\ OfHandle(rd) /\ rd.opened \in BOOLEAN /\ rd.failed \in BOOLEAN
      /\ Buffered(rd.data, rd.offset, rd.len, rd.bytes_read)
      /\ ~rd.opened => rd.bytes_read = 0
      /\ ~rd.done /\ Wanting(rd.data, rd.offset, rd.len)
      /\ rd.result # "end"
    BY <1>2, <1>3 DEF HandleInv
<1> DEFINE data == rd.data
           offset == rd.offset
           len == rd.len
           n == rd.bytes_read
           m == ret.n
           new == Bytes(stream, n, m)
           all == SubSeq(data, offset + 1, Len(data)) \o new
           r == Filled(rd, new)
<1>6. /\ stream \in Seq(ByteValues) /\ Len(stream) \in Nat
      /\ len \in Nat /\ n \in Nat /\ n <= Len(stream) /\ have \in Nat /\ have <= len
      /\ EndOf(Len(got)) + have = n
    <2> HIDE DEF data, offset, len, n
    <2>1. Buffered(data, offset, len, n)
        BY <1>5 DEF data, offset, len, n
    <2>2. have = Len(data) - offset
        BY DEF data, offset
    <2> QED BY ONLY <1>3, <2>1, <2>2, BufferedStream
<1>7. have < len
    BY <1>5 DEF Wanting
<1>8. left \in Nat /\ room \in Nat /\ room # 0
    BY <1>6, <1>7
<1>9. /\ m \in Nat /\ m <= left /\ m <= room
      /\ ret.error \in BOOLEAN
      /\ m = 0 /\ ~ret.error => left = 0
    <2> HIDE DEF left, room
    <2> QED BY <1>8, ReadReturns
<1>10. Buffered(all, 0, len, n + m)
    BY <1>3, <1>5, <1>9, FilledBuffer
<1>11. n + m <= Len(stream)
    BY <1>6, <1>9
<1>12. Len(new) = m
    BY ONLY <1>6, <1>9, <1>11, BytesAre
<1> DEFINE no == FALSE
           yes == TRUE
           t == n + m
           result == rd.result
           eof == rd.eof
<1>13. r = HandleReader(all, 0, len, n + Len(new), rd.done, rd.failed, FALSE, TRUE, result, eof)
    BY <1>5, FilledReader, Zenon
<1>14. r = HandleReader(all, 0, len, t, rd.done, rd.failed, no, yes, result, eof)
    BY ONLY <1>12, <1>13, Zenon
<1> DEFINE e == EndOf(Len(got))
<1>18. yes \in BOOLEAN /\ yes /\ ~no
    OBVIOUS
<1> HIDE DEF no, yes, r
<1>19. CASE m > 0
    <2>1. rd' = r
        BY <1>1, <1>19 DEF r
    <2> HIDE DEF all, t, result, eof
    <2>2. HandleInv'
        <3> SUFFICES ASSUME NEW a, a = all, NEW l, l = len, NEW k, k = t, NEW z, z = 0,
                            NEW done, done = rd.done, NEW failed, failed = rd.failed
                     PROVE  HandleInv'
            OBVIOUS
        <3>1. rd' = HandleReader(a, z, l, k, done, failed, no, yes, result, eof)
            BY ONLY <1>14, <2>1, a = all, l = len, k = t, z = 0, done = rd.done, failed = rd.failed, Zenon
        <3>2. Buffered(a, z, l, k)
            BY ONLY <1>10, a = all, l = len, k = t, z = 0, Zenon DEF t
        <3>4. failed \in BOOLEAN /\ ~done /\ result # "end"
            BY ONLY <1>5, done = rd.done, failed = rd.failed, Zenon DEF result
        <3>5. /\ ~yes => no /\ k = 0
              /\ no => ~done /\ Wanting(a, z, l)
              /\ done /\ ~failed => AllReturned \/ EndOf(Len(got)) = 0
              /\ result = "end" => done /\ (eof => ~failed)
              /\ yes \in BOOLEAN /\ failed \in BOOLEAN
            BY ONLY <3>4, <1>18, Zenon
        <3> QED BY ONLY <1>2, <3>1, <3>2, <3>5, HandleMade
    <2> QED BY <1>2, <1>3, <1>4, <2>2 DEF ReaderInv, Positioned
<1>20. CASE ~(m > 0)
    <2>1. m = 0 /\ t = n
        BY <1>6, <1>9, <1>20
    <2> DEFINE f == ret.error /\ rd.opened
    <2>2. rd' = [r EXCEPT !.done = yes, !.failed = f]
        BY <1>1, <1>20 DEF r, yes
    <2>3. f \in BOOLEAN
        BY <1>5, <1>9
    <2>4. ~f => AllReturned \/ e = 0
        <3>1. CASE ~ret.error
            <4>1. n = Len(stream)
                BY <1>6, <1>9, <2>1, <3>1
            <4>2. Buffered(data, offset, len, Len(stream))
                BY ONLY <1>5, <4>1, Zenon
            <4> QED BY <1>3, <1>5, <4>2, NothingWanting
        <3>2. CASE ~rd.opened
            <4>1. e \in Nat
                BY <1>3, MoreToReturn
            <4> QED BY <1>5, <1>6, <3>2, <4>1
        <3> QED BY <1>5, <1>9, <3>1, <3>2
    <2> HIDE DEF f
    <2>5. [r EXCEPT !.done = yes, !.failed = f] =
          HandleReader(all, 0, len, t, yes, f, no, yes, result, eof)
        <3> SUFFICES ASSUME NEW d, d = r
                     PROVE  [d EXCEPT !.done = yes, !.failed = f] =
                            HandleReader(all, 0, len, t, yes, f, no, yes, result, eof)
            OBVIOUS
        <3>1. /\ OfHandle(d)
              /\ d.data = all /\ d.offset = 0 /\ d.len = len /\ d.bytes_read = t
              /\ d.fill = no /\ d.opened = yes /\ d.result = result /\ d.eof = eof
            <4> HIDE DEF all, len, t, result, eof
            <4>1. d = HandleReader(all, 0, len, t, rd.done, rd.failed, no, yes, result, eof)
                BY ONLY <1>14, d = r, Zenon
            <4> QED BY ONLY <4>1, HandleParts
        <3>2. [d EXCEPT !.done = yes, !.failed = f] =
              HandleReader(d.data, d.offset, d.len, d.bytes_read, yes, f, d.fill, d.opened, d.result, d.eof)
            BY ONLY <3>1, HandleDone, Zenon
        <3> QED BY ONLY <3>1, <3>2, Zenon
    <2> HIDE DEF all, t, result, eof
    <2>6. HandleInv'
        <3> SUFFICES ASSUME NEW a, a = all, NEW l, l = len, NEW k, k = t, NEW z, z = 0, NEW g, g = f
                     PROVE  HandleInv'
            OBVIOUS
        <3>1. rd' = HandleReader(a, z, l, k, yes, g, no, yes, result, eof)
            BY ONLY <2>2, <2>5, a = all, l = len, k = t, z = 0, g = f, Zenon
        <3>2. Buffered(a, z, l, k)
            BY ONLY <1>10, a = all, l = len, k = t, z = 0, Zenon DEF t
        <3>4. g \in BOOLEAN /\ result # "end" /\ (~g => AllReturned \/ EndOf(Len(got)) = 0)
            BY ONLY <1>5, <2>3, <2>4, g = f, Zenon DEF result, e
        <3>5. /\ ~yes => no /\ k = 0
              /\ no => ~yes /\ Wanting(a, z, l)
              /\ yes /\ ~g => AllReturned \/ EndOf(Len(got)) = 0
              /\ result = "end" => yes /\ (eof => ~g)
              /\ yes \in BOOLEAN /\ g \in BOOLEAN
            BY ONLY <3>4, <1>18, Zenon
        <3> QED BY ONLY <1>2, <3>1, <3>2, <3>5, HandleMade
    <2> QED BY <1>2, <1>3, <1>4, <2>6 DEF ReaderInv, Positioned
<1> QED BY <1>19, <1>20

LEMMA HandleReadInv == ASSUME ReaderInv, _bson_reader_handle_read PROVE ReaderInv'
<1> DEFINE data == rd.data
           offset == rd.offset
           len == rd.len
           n == rd.bytes_read
           have == Len(data) - offset
           blen == Int32At(data, offset)
           yes == TRUE
           end == "end"
           found == "doc"
           result == rd.result
           eof == rd.eof
           done == rd.done
           failed == rd.failed
           fill == rd.fill
           opened == rd.opened
<1>1. /\ rd.kind = "handle" /\ ~fill /\ result # "end"
      /\ UNCHANGED <<stream, written, ends>>
      /\ \/ done /\ rd' = [rd EXCEPT !.result = end, !.eof = ~failed] /\ got' = got
         \/ ~done /\ have < 4 /\ rd' = [rd EXCEPT !.fill = yes] /\ got' = got
         \/ /\ ~done /\ have >= 4 /\ blen > have /\ got' = got
            /\ rd' = [IF blen > len THEN [rd EXCEPT !.len = len * 2] ELSE rd EXCEPT !.fill = yes]
         \/ /\ ~done /\ have >= 4 /\ blen <= have /\ got' = Append(got, Bytes(data, offset, blen))
            /\ rd' = [rd EXCEPT !.offset = offset + blen, !.result = found]
    BY DEF _bson_reader_handle_read, _bson_reader_handle_grow_buffer
<1>2. LaidOut /\ InOrder /\ HandleInv /\ written # <<>>
    BY <1>1, HandleInvPositions DEF ReaderInv
<1>3. LaidOut'
    BY <1>1, <1>2, LaidOutKept
<1>4. /\ OfHandle(rd) /\ opened \in BOOLEAN /\ opened /\ failed \in BOOLEAN
      /\ Buffered(data, offset, len, n)
      /\ done /\ ~failed => AllReturned \/ EndOf(Len(got)) = 0
    BY <1>1, <1>2 DEF HandleInv
<1>5. yes \in BOOLEAN /\ yes /\ end = "end" /\ found # "end"
    OBVIOUS
<1>6. /\ len \in Nat /\ len >= 4 /\ n \in Nat /\ Len(data) \in Nat /\ offset \in Nat
      /\ have \in Nat /\ have <= len
      /\ n - Len(data) + offset = EndOf(Len(got))
    <2> HIDE DEF data, offset, len, n
    <2>1. have = Len(data) - offset
        OBVIOUS
    <2> HIDE DEF have
    <2> QED BY ONLY <1>2, <1>4, <2>1, BufferedStream
<1> HIDE DEF data, offset, len, n, have, blen, yes, end, found, result, eof, done, failed, fill, opened
<1>7. /\ rd = HandleReader(data, offset, len, n, done, failed, fill, opened, result, eof)
    BY ONLY <1>4, Zenon DEF OfHandle, data, offset, len, n, done, failed, fill, opened, result, eof
<1>8. /\ rd.data = data /\ rd.offset = offset /\ rd.len = len /\ rd.bytes_read = n
      /\ rd.done = done /\ rd.failed = failed /\ rd.fill = fill /\ rd.opened = opened
      /\ rd.result = result /\ rd.eof = eof
    BY DEF data, offset, len, n, done, failed, fill, opened, result, eof
<1> DEFINE g == Len(got)
           doc == written[Len(got) + 1]
<1>9. ASSUME have >= 4
      PROVE  /\ ~AllReturned /\ Len(doc) \in Nat /\ Len(doc) >= 5 /\ blen = Len(doc)
             /\ Len(doc) <= have => Bytes(data, offset, Len(doc)) = doc
    <2> HIDE DEF doc
    <2>1. Len(data) - offset >= 4 /\ doc = written[Len(got) + 1]
        BY <1>9 DEF have, doc
    <2> QED BY ONLY <1>2, <1>4, <2>1, NextInBuffer DEF have, blen
<1>10. ASSUME got' = got, HandleInv'
       PROVE  ReaderInv'
    BY <1>1, <1>2, <1>3, <1>10 DEF ReaderInv, Positioned, InOrder
<1>11. CASE done /\ rd' = [rd EXCEPT !.result = end, !.eof = ~failed] /\ got' = got
    <2> SUFFICES ASSUME NEW f, f = ~failed PROVE ReaderInv'
        OBVIOUS
    <2>1. [rd EXCEPT !.result = end, !.eof = f] =
          HandleReader(rd.data, rd.offset, rd.len, rd.bytes_read, rd.done, rd.failed, rd.fill, rd.opened, end, f)
        BY ONLY <1>4, HandleEnded, Zenon
    <2>2. rd' = HandleReader(data, offset, len, n, done, failed, fill, opened, end, f)
        BY ONLY <1>8, <1>11, <2>1, f = ~failed, Zenon
    <2>3. /\ ~opened => fill /\ n = 0
          /\ fill => ~done /\ Wanting(data, offset, len)
          /\ end = "end" => done /\ (f => ~failed)
          /\ UNCHANGED <<stream, written, ends, got>>
          /\ done /\ ~failed => AllReturned \/ EndOf(Len(got)) = 0
          /\ opened \in BOOLEAN /\ failed \in BOOLEAN /\ Buffered(data, offset, len, n)
        BY <1>1, <1>4, <1>11
    <2>4. HandleInv'
        BY ONLY <2>2, <2>3, HandleMade
    <2> QED BY <1>10, <1>11, <2>4
<1>12. ASSUME ~done, Wanting(data, offset, len), got' = got, rd' = [rd EXCEPT !.fill = yes]
       PROVE  ReaderInv'
    <2>1. [rd EXCEPT !.fill = yes] =
          HandleReader(rd.data, rd.offset, rd.len, rd.bytes_read, rd.done, rd.failed, yes, rd.opened, rd.result, rd.eof)
        BY ONLY <1>4, Handle_fill
    <2>2. rd' = HandleReader(data, offset, len, n, done, failed, yes, opened, result, eof)
        BY ONLY <1>8, <1>12, <2>1, Zenon
    <2>3. /\ ~opened => yes /\ n = 0
          /\ yes => ~done /\ Wanting(data, offset, len)
          /\ result = "end" => done /\ (eof => ~failed)
          /\ UNCHANGED <<stream, written, ends, got>>
          /\ done /\ ~failed => AllReturned \/ EndOf(Len(got)) = 0
          /\ opened \in BOOLEAN /\ failed \in BOOLEAN /\ Buffered(data, offset, len, n)
        BY <1>1, <1>4, <1>12
    <2>4. HandleInv'
        BY ONLY <2>2, <2>3, HandleMade
    <2> QED BY <1>10, <1>12, <2>4
<1>13. CASE ~done /\ have < 4 /\ rd' = [rd EXCEPT !.fill = yes] /\ got' = got
    <2>1. Wanting(data, offset, len)
        BY <1>6, <1>13 DEF Wanting, have
    <2> QED BY <1>12, <1>13, <2>1
<1>14. CASE /\ ~done /\ have >= 4 /\ blen > have /\ got' = got
            /\ rd' = [IF blen > len THEN [rd EXCEPT !.len = len * 2] ELSE rd EXCEPT !.fill = yes]
    <2>1. blen \in Nat
        BY <1>9, <1>14
    <2>2. ~(have >= 4 /\ blen <= have)
        BY <1>6, <1>14, <2>1
    <2>3. CASE ~(blen > len)
        <3>1. Wanting(data, offset, len)
            BY <1>6, <1>14, <2>1, <2>2, <2>3 DEF Wanting, have, blen
        <3>2. rd' = [rd EXCEPT !.fill = yes]
            BY ONLY <1>14, <2>3, Zenon
        <3> QED BY <1>12, <1>14, <3>1, <3>2
    <2>4. CASE blen > len
        <3> DEFINE twice == len * 2
                   e == [rd EXCEPT !.len = twice]
        <3>1. twice \in Nat /\ twice >= 4 /\ have < twice /\ have <= twice
            BY <1>6
        <3>2. rd' = [e EXCEPT !.fill = yes]
            BY ONLY <1>14, <2>4, Zenon
        <3> HIDE DEF twice
        <3>3. e = HandleReader(rd.data, rd.offset, twice, rd.bytes_read, rd.done, rd.failed, rd.fill,
                               rd.opened, rd.result, rd.eof)
            BY ONLY <1>4, Handle_len
        <3>4. e = HandleReader(data, offset, twice, n, done, failed, fill, opened, result, eof)
            BY ONLY <1>8, <3>3, Zenon
        <3> HIDE DEF e
        <3>5. /\ OfHandle(e)
              /\ e.data = data /\ e.offset = offset /\ e.len = twice /\ e.bytes_read = n
              /\ e.done = done /\ e.failed = failed /\ e.opened = opened
              /\ e.result = result /\ e.eof = eof
            BY ONLY <3>4, HandleParts
        <3>6. [e EXCEPT !.fill = yes] =
              HandleReader(e.data, e.offset, e.len, e.bytes_read, e.done, e.failed, yes, e.opened, e.result, e.eof)
            BY ONLY <3>5, Handle_fill
        <3>7. rd' = HandleReader(data, offset, twice, n, done, failed, yes, opened, result, eof)
            BY ONLY <3>2, <3>5, <3>6, Zenon
        <3>8. Wanting(data, offset, twice)
            BY <2>2, <3>1 DEF Wanting, have, blen
        <3>9. Buffered(data, offset, twice, n)
            BY <1>4, <3>1 DEF Buffered, have
        <3>10. /\ ~opened => yes /\ n = 0
               /\ yes => ~done /\ Wanting(data, offset, twice)
               /\ done /\ ~failed => AllReturned \/ EndOf(Len(got)) = 0
               /\ result = "end" => done /\ (eof => ~failed)
               /\ UNCHANGED <<stream, written, ends, got>>
               /\ opened \in BOOLEAN /\ failed \in BOOLEAN
            BY <1>1, <1>4, <1>14, <3>8
        <3>11. HandleInv'
            BY ONLY <3>7, <3>9, <3>10, HandleMade
        <3> QED BY <1>10, <1>14, <3>11
    <2> QED BY <2>3, <2>4
<1>15. CASE /\ ~done /\ have >= 4 /\ blen <= have /\ got' = Append(got, Bytes(data, offset, blen))
            /\ rd' = [rd EXCEPT !.offset = offset + blen, !.result = found]
    <2> DEFINE o == offset + blen
    <2>1. got' = Append(got, doc) /\ blen \in Nat /\ ~AllReturned /\ blen = Len(doc)
        BY <1>6, <1>9, <1>15
    <2>2. g < Len(written) /\ g \in Nat
        BY <1>2, <2>1, MoreToReturn DEF InOrder
    <2>3. InOrder' /\ Len(got') = g + 1
        BY <1>1, <1>2, <2>1, <2>2, OneMore
    <2>4. EndOf(g + 1) = EndOf(g) + blen
        <3> HIDE DEF doc, g
        <3>1. doc = written[g + 1]
            BY DEF doc, g
        <3> QED BY ONLY <1>2, <2>1, <2>2, <3>1, DocumentLies
    <2>5. EndOf(Len(got))' = EndOf(g) + blen
        <3>1. EndOf(Len(got))' = EndOf(g + 1)
            BY <1>1, <2>3 DEF EndOf
        <3> QED BY ONLY <2>4, <3>1
    <2> HIDE DEF g, doc
    <2>6. rd' = HandleReader(data, o, len, n, done, failed, fill, opened, found, eof)
        <3> HIDE DEF o
        <3>1. [rd EXCEPT !.offset = o, !.result = found] =
              HandleReader(rd.data, o, rd.len, rd.bytes_read, rd.done, rd.failed, rd.fill, rd.opened, found, rd.eof)
            BY ONLY <1>4, HandleFound, Zenon
        <3> QED BY ONLY <1>8, <1>15, <3>1, Zenon DEF o
    <2>7. /\ OfHandle(rd') /\ rd'.data = data /\ rd'.offset = o /\ rd'.len = len /\ rd'.bytes_read = n
          /\ rd'.done = done /\ rd'.failed = failed /\ rd'.fill = fill /\ rd'.opened = opened
          /\ rd'.result = found
        <3> HIDE DEF o
        <3> QED BY ONLY <2>6, HandleParts
    <2>8. o \in Nat /\ o <= Len(data) /\ Len(data) - o <= len
        BY <1>6, <1>15, <2>1 DEF have
    <2>9. n - Len(data) + o = EndOf(Len(got))'
        BY <1>6, <2>1, <2>5 DEF g
    <2> DEFINE s == stream
               e == EndOf(Len(got))
    <2>10. /\ rd'.len \in Nat /\ rd'.len >= 4 /\ rd'.bytes_read \in Nat /\ rd'.bytes_read <= Len(s')
           /\ Len(rd'.data) \in Nat /\ Len(rd'.data) <= rd'.bytes_read
           /\ rd'.data = Bytes(s', rd'.bytes_read - Len(rd'.data), Len(rd'.data))
           /\ rd'.offset \in Nat /\ rd'.offset <= Len(rd'.data) /\ Len(rd'.data) - rd'.offset <= rd'.len
           /\ rd'.bytes_read - Len(rd'.data) + rd'.offset = e'
        <3>1. /\ len \in Nat /\ len >= 4 /\ n \in Nat /\ n <= Len(s)
              /\ Len(data) \in Nat /\ Len(data) <= n
              /\ data = Bytes(s, n - Len(data), Len(data))
            BY <1>4 DEF Buffered
        <3>2. s' = s
            BY <1>1
        <3> HIDE DEF o, s, e
        <3>3. n - Len(data) + o = e'
            BY <2>9 DEF e
        <3> QED BY ONLY <2>7, <2>8, <3>1, <3>2, <3>3, Zenon
    <2>11. Buffered(rd.data, rd.offset, rd.len, rd.bytes_read)'
        BY ONLY <2>10, Zenon DEF Buffered, s, e
    <2>12. /\ ~rd'.done /\ ~rd'.fill /\ rd'.opened \in BOOLEAN /\ rd'.opened /\ rd'.failed \in BOOLEAN
           /\ rd'.result # "end"
        BY ONLY <1>1, <1>4, <1>5, <1>15, <2>7, Zenon
    <2>13. HandleInv'
        BY ONLY <2>7, <2>11, <2>12, Zenon DEF HandleInv
    <2> QED BY <1>1, <1>2, <1>3, <2>3, <2>13 DEF ReaderInv, Positioned
<1> QED BY <1>1, <1>11, <1>13, <1>14, <1>15

-----------------------------------------------------------------------------
LEMMA InitReaderInv == ReaderInit => ReaderInv
<1> SUFFICES ASSUME ReaderInit PROVE ReaderInv
    OBVIOUS
<1>1. stream = <<>> /\ written = <<>> /\ ends = <<>> /\ rd = NoReader /\ got = <<>>
    BY DEF ReaderInit
<1>2. LaidOut
    BY <1>1 DEF LaidOut, EndOf
<1>3. InOrder
    BY <1>1 DEF InOrder
<1> QED BY <1>1, <1>2, <1>3 DEF ReaderInv, Positioned

LEMMA NextReaderInv == ASSUME ReaderInv, [ReaderNext]_readerVars PROVE ReaderInv'
<1>1. CASE \E doc \in Readable : Write(doc)
    BY <1>1, WriteInv
<1>2. CASE OpenReader
    BY <1>2, OpenInv
<1>3. CASE _bson_reader_data_read
    BY <1>3, DataReadInv
<1>4. CASE _bson_reader_handle_fill_buffer
    BY <1>4, FillInv
<1>5. CASE _bson_reader_handle_read
    BY <1>5, HandleReadInv
<1>6. CASE UNCHANGED readerVars
    <2>1. /\ stream' = stream /\ written' = written /\ ends' = ends /\ rd' = rd /\ got' = got
        BY <1>6 DEF readerVars
    <2> QED BY <2>1, Zenon DEF ReaderInv, LaidOut, InOrder, Positioned, DataInv, OfData, HandleInv, OfHandle,
                               Buffered, Wanting, AllReturned, EndOf
<1> QED BY <1>1, <1>2, <1>3, <1>4, <1>5, <1>6 DEF ReaderNext

LEMMA InvReadsBack == ReaderInv => ReadsBack
<1> SUFFICES ASSUME ReaderInv, rd.kind # "none"
             PROVE  /\ got = SubSeq(written, 1, Len(got))
                    /\ bson_reader_tell = EndOf(Len(got))
                    /\ rd.result = "end" /\ rd.eof => Len(got) = Len(written) \/ bson_reader_tell = 0
    BY DEF ReadsBack
<1>1. LaidOut /\ InOrder /\ got = SubSeq(written, 1, Len(got))
    BY DEF ReaderInv, InOrder
<1>2. CASE DataInv
    <2>1. rd.kind = "data"
        BY <1>2 DEF DataInv, OfData, DataReader
    <2>2. bson_reader_tell = EndOf(Len(got))
        BY <1>2, <2>1 DEF bson_reader_tell, _bson_reader_data_tell, DataInv
    <2> QED BY <1>1, <1>2, <2>2 DEF DataInv, AllReturned
<1>3. CASE HandleInv
    <2>1. rd.kind = "handle"
        BY <1>3 DEF HandleInv, OfHandle, HandleReader
    <2>2. bson_reader_tell = EndOf(Len(got))
        BY <1>3, <2>1 DEF bson_reader_tell, _bson_reader_handle_tell, HandleInv, Buffered
    <2>3. rd.result = "end" /\ rd.eof => AllReturned \/ EndOf(Len(got)) = 0
        BY <1>3, Zenon DEF HandleInv
    <2> QED BY <1>1, <2>2, <2>3 DEF AllReturned
<1> QED BY <1>2, <1>3 DEF ReaderInv, Positioned, NoReader

(* The reader returns the documents whole, once and in order, however the  *)
(* bytes arrive; its position is behind the last one it returned; and it   *)
(* reports the end only behind the last, unless its first read failed.     *)
THEOREM DocumentsReadBack == ReaderSpec => []ReadsBack
<1>1. ReaderSpec => []ReaderInv
    BY InitReaderInv, NextReaderInv, PTL DEF ReaderSpec
<1> QED BY <1>1, InvReadsBack, PTL
=============================================================================
