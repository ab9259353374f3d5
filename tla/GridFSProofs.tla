---------------------------- MODULE GridFSProofs ----------------------------
(***************************************************************************)
(* Proofs about GridFS, for any clients, contents, size of chunks and      *)
(* bounds: a file that can be found is whole, and print writes the range   *)
(* it was asked for.                                                       *)
(***************************************************************************)
EXTENDS GridFS, SequenceTheorems, WellFoundedInduction, TLAPS

-----------------------------------------------------------------------------
(* The inductive invariant *)

Piecelike == [n : Nat, data : Seq(Nat)]
Pcs == {"done", "died", "read", "md5", "index", "cleanup", "file", "chunks", "files", "drop", "ensure",
        "query", "print"}
CallType ==
    [op : {"insert", "remove", "drop", "print", "none"},
     pc : Pcs, of : Nat, ids : SUBSET Ids, ack : {"safe", "acked", "none"}, data : Seq(Nat), n : Nat,
     todo : SUBSET Ids, retry : {0, 1},
     found : SUBSET Piecelike, left : SUBSET Piecelike,
     p : [out : Seq(Nat), written : Nat, pos : Nat], range : [length : Nat, offset : Nat]]

TypeOK ==
    /\ files \subseteq [_id : Ids, of : Nat, data : Seq(Nat), ack : {"safe", "acked", "none"}]
    /\ chunks \subseteq [files_id : Ids, n : Nat, data : Seq(Nat), of : Nat]
    /\ indexed \in BOOLEAN
    /\ call \in [Clients -> CallType]
    /\ calls \in Nat /\ faults \in Nat
    /\ taken \subseteq Nat /\ weak \subseteq Nat
    /\ given \subseteq [id : Ids, of : Nat]

(* A call is where its operation can be; an insert and a print are of one  *)
(* _id; only an insert with the option compares digests.                   *)
Placed(x) ==
    /\ x.pc \in {"read", "md5", "index", "cleanup", "file"} => x.op = "insert"
    /\ x.pc = "chunks" => x.op = "remove"
    /\ x.pc \in {"files", "drop", "ensure"} => x.op = "drop"
    /\ x.pc \in {"query", "print"} => x.op = "print"
    /\ x.op \in {"insert", "print"} => \E id \in Ids : x.ids = {id}
    /\ x.pc \in {"md5", "index", "cleanup"} => x.ack = "safe"
PlaceInv == \A c \in Clients : Placed(call[c])

Inserts(c) == call[c].op = "insert"

(* A number is of one insert, its _id and its client; once the insert has  *)
(* put its document it is over.                                            *)
NumbersInv ==
    /\ \A g \in given : g.of <= calls
    /\ \A g, h \in given : g.of = h.of => g = h
    /\ \A ch \in chunks : [id |-> ch.files_id, of |-> ch.of] \in given
    /\ \A f \in files : [id |-> f._id, of |-> f.of] \in given
    /\ \A c \in Clients : Inserts(c) => [id |-> The(c), of |-> call[c].of] \in given
    /\ \A c, d \in Clients : Inserts(c) /\ Inserts(d) /\ call[c].of = call[d].of => c = d
    /\ \A f \in files, c \in Clients :
          Inserts(c) /\ call[c].of = f.of => call[c].pc \in {"done", "died"}

(* A chunk is the piece of its number of what its insert has read.         *)
PiecesInv ==
    /\ \A ch \in chunks : ch.data # <<>>
    /\ \A ch \in chunks, c \in Clients :
          Inserts(c) /\ ch.of = call[c].of => ch.data = Piece(call[c].data, ch.n)
    /\ \A ch \in chunks, f \in files : ch.of = f.of => ch.data = Piece(f.data, ch.n)

(* Of two inserts that have chunks under one _id one is weak.              *)
WeakInv ==
    /\ \A c \in Clients : Inserts(c) /\ call[c].data = <<>> => call[c].of \in weak
    /\ \A f \in files : f.data = <<>> => f.of \in weak
    /\ \A x, y \in chunks : x.files_id = y.files_id /\ x.of # y.of => x.of \in weak \/ y.of \in weak

(* The bytes before the piece of a number *)
Before(m) == m * chunk_size

Shared(k) == k \in weak /\ \E g, h \in given : g.of = k /\ h.of # k /\ h.id = g.id
Has(k, id, data, m) == [files_id |-> id, n |-> m, data |-> Piece(data, m), of |-> k] \in chunks
HasAll(k, id, data) == \A m \in Nat : Before(m) < Len(data) => Has(k, id, data, m)

(* The chunks are there: those an acknowledged insert has written, all of  *)
(* them once their number or the digest has been looked at, and of a file. *)
KeepsInv ==
    /\ \A c \in Clients :
          call[c].pc = "read" /\ call[c].ack = "acked" /\ call[c].of \notin taken
          => \A m \in 0..(call[c].n - 1) : Has(call[c].of, The(c), call[c].data, m)
    /\ \A c \in Clients :
          call[c].pc = "file" /\ call[c].ack # "none" /\ call[c].of \notin taken /\ ~Shared(call[c].of)
          => HasAll(call[c].of, The(c), call[c].data)
    /\ \A f \in files :
          f.ack # "none" /\ f.of \notin taken /\ ~Shared(f.of) => HasAll(f.of, f._id, f.data)

(* What print has written when it has gone through the first k chunks, of  *)
(* which so many bytes are Reached.                                        *)
Reached(k, data) == IF Before(k) < Len(data) THEN Before(k) ELSE Len(data)
End(r, reached) == IF r.length # 0 /\ r.offset + r.length < reached THEN r.offset + r.length ELSE reached
Full(p, r) == r.length # 0 /\ p.written >= r.length
Progress(p, r, data, reached) ==
    /\ p.out = SubSeq(data, r.offset + 1, End(r, reached))
    /\ p.written = Len(p.out)
    /\ reached <= r.offset => p.pos = reached
    /\ reached > r.offset /\ r.offset % chunk_size = 0 /\ ~Full(p, r) => p.pos = reached
    /\ reached > r.offset /\ r.offset % chunk_size # 0 => Full(p, r) \/ reached = Len(data)
Printing(x) ==
    /\ x.pc = "query" => x.p = Printed
    /\ x.op = "print" /\ x.pc \in {"print", "done"} /\ Whole(x.found, x.data) /\ Straight(x.range, x.data)
       => \E k \in Nat :
             /\ x.left = {ch \in Pieces(x.data) : ch.n >= k}
             /\ Progress(x.p, x.range, x.data, Reached(k, x.data))
             /\ x.pc = "done" => x.left = {} \/ Full(x.p, x.range)
PrintInv == \A c \in Clients : Printing(call[c])

-----------------------------------------------------------------------------
(* The pieces of a content, and ranges of bytes *)

LEMMA NoBytes ==
  ASSUME NEW s \in Seq(Nat)
  PROVE  Len(s) \in Nat /\ (s = <<>> <=> Len(s) = 0)
BY EmptySeq

LEMMA Part ==
  ASSUME NEW data \in Seq(Nat), NEW a \in Nat, NEW b \in Nat, b <= Len(data)
  PROVE  /\ SubSeq(data, a + 1, b) \in Seq(Nat)
         /\ Len(SubSeq(data, a + 1, b)) = IF a < b THEN b - a ELSE 0
         /\ \A i \in 1..(b - a) : SubSeq(data, a + 1, b)[i] = data[a + i]
<1>1. \A i \in (a + 1)..b : data[i] \in Nat
  OBVIOUS
<1>2. /\ SubSeq(data, a + 1, b) \in Seq(Nat)
      /\ Len(SubSeq(data, a + 1, b)) = IF a + 1 <= b THEN b - (a + 1) + 1 ELSE 0
      /\ \A i \in 1..(b - (a + 1) + 1) : SubSeq(data, a + 1, b)[i] = data[(a + 1) + i - 1]
  BY <1>1, SubSeqProperties
<1>3. b - (a + 1) + 1 = b - a
  OBVIOUS
<1>4. \A i \in 1..(b - a) : (a + 1) + i - 1 = a + i
  OBVIOUS
<1> QED
  BY <1>2, <1>3, <1>4

(* BeforeIs with the size of a chunk, without which the provers do better *)
LEMMA BeforeIs ==
  ASSUME NEW k \in Nat
  PROVE  /\ Before(k) \in Nat
         /\ Before(k + 1) = Before(k) + chunk_size
         /\ \A n \in Nat : n <= k => Before(n) <= Before(k)
         /\ k <= Before(k)
         /\ Before(0) = 0
         /\ chunk_size \in Nat /\ chunk_size > 0
<1>1. chunk_size \in Nat /\ chunk_size > 0
  BY GridFSAssumption
<1>2. \A c \in Nat : c > 0 => k * c \in Nat /\ (k + 1) * c = k * c + c /\ k <= k * c /\ 0 * c = 0
  OBVIOUS
<1>3. ASSUME NEW c \in Nat, NEW n \in Nat, n <= k PROVE n * c <= k * c
  <2>1. PICK d \in Nat : k = n + d
    <3>1. k - n \in Nat /\ k = n + (k - n)
      BY <1>3
    <3> QED
      BY <3>1
  <2>2. k * c = n * c + d * c /\ d * c \in Nat /\ n * c \in Nat
    BY <2>1
  <2> QED
    BY <2>2
<1> QED
  BY <1>1, <1>2, <1>3 DEF Before

LEMMA PieceIs ==
  ASSUME NEW data \in Seq(Nat), NEW k \in Nat
  PROVE  /\ Piece(data, k) \in Seq(Nat)
         /\ Before(k) < Len(data) =>
               /\ Reached(k, data) = Before(k)
               /\ Piece(data, k) = SubSeq(data, Reached(k, data) + 1, Reached(k + 1, data))
               /\ Len(Piece(data, k)) = Reached(k + 1, data) - Reached(k, data)
               /\ Reached(k, data) < Reached(k + 1, data)
               /\ Piece(data, k) # <<>>
         /\ Before(k) >= Len(data) => Piece(data, k) = <<>>
         /\ Reached(k, data) \in 0..Len(data)
         /\ Reached(k + 1, data) \in Reached(k, data)..Len(data)
<1>1. /\ Before(k) \in Nat /\ Before(k + 1) = Before(k) + chunk_size
      /\ chunk_size \in Nat /\ chunk_size > 0
  BY BeforeIs
<1> DEFINE a == Before(k)
           b == IF a + chunk_size < Len(data) THEN a + chunk_size ELSE Len(data)
<1>2. Piece(data, k) = SubSeq(data, a + 1, b)
  BY DEF Piece, substr, Before
<1>3. /\ Reached(k, data) = IF a < Len(data) THEN a ELSE Len(data)
      /\ Reached(k + 1, data) = b
  BY <1>1 DEF Reached
<1>4. a \in Nat /\ b \in Nat /\ b <= Len(data) /\ Len(data) \in Nat
  BY <1>1
<1>5. (a < Len(data) => a < b) /\ (a >= Len(data) => b = Len(data))
  BY <1>1, <1>4
<1>6. /\ SubSeq(data, a + 1, b) \in Seq(Nat)
      /\ Len(SubSeq(data, a + 1, b)) = IF a < b THEN b - a ELSE 0
  BY <1>4, Part
<1>7. Before(k) = a
  OBVIOUS
<1> HIDE DEF a, b
<1>8. CASE a < Len(data)
  <2>1. Reached(k, data) = a /\ a < b /\ Len(SubSeq(data, a + 1, b)) = b - a
    BY ONLY <1>3, <1>4, <1>5, <1>6, <1>8
  <2>2. SubSeq(data, a + 1, b) # <<>>
    <3>1. b - a > 0
      BY ONLY <1>4, <2>1
    <3>2. \A t \in Seq(Nat) : t = <<>> => Len(t) = 0
      BY NoBytes
    <3>3. SubSeq(data, a + 1, b) = <<>> => Len(SubSeq(data, a + 1, b)) = 0
      BY ONLY <1>6, <3>2
    <3> QED
      BY ONLY <2>1, <3>1, <3>3, <1>4
  <2>3. Piece(data, k) \in Seq(Nat) /\ Piece(data, k) # <<>>
    BY <1>2, <1>6, <2>2
  <2>4. Piece(data, k) = SubSeq(data, Reached(k, data) + 1, Reached(k + 1, data))
    BY <1>2, <1>3, <2>1
  <2>5. Len(Piece(data, k)) = Reached(k + 1, data) - Reached(k, data)
    BY <1>2, <1>3, <2>1
  <2>6. /\ Reached(k, data) < Reached(k + 1, data)
        /\ Reached(k, data) \in 0..Len(data)
        /\ Reached(k + 1, data) \in Reached(k, data)..Len(data)
    BY ONLY <1>3, <1>4, <2>1
  <2> QED
    <3>1. Before(k) < Len(data) /\ Before(k) = a /\ ~(Before(k) >= Len(data))
      BY ONLY <1>4, <1>7, <1>8
    <3>2. Reached(k, data) = Before(k)
      BY ONLY <1>7, <2>1
    <3> QED
      BY ONLY <2>3, <2>4, <2>5, <2>6, <3>1, <3>2
<1>9. CASE a >= Len(data)
  <2>1. b = Len(data) /\ Reached(k, data) = Len(data)
    BY ONLY <1>3, <1>4, <1>5, <1>9
  <2>2. b \in Int /\ a + 1 \in Int /\ b < a + 1
    BY ONLY <1>4, <1>9, <2>1
  <2>3. SubSeq(data, a + 1, b) = <<>>
    BY <2>2, SubSeqEmpty
  <2>4. Piece(data, k) = <<>> /\ Piece(data, k) \in Seq(Nat)
    BY <1>2, <1>6, <2>3
  <2>5. /\ Reached(k, data) \in 0..Len(data)
        /\ Reached(k + 1, data) \in Reached(k, data)..Len(data)
    BY ONLY <1>3, <1>4, <2>1
  <2> QED
    BY ONLY <1>4, <1>7, <1>9, <2>4, <2>5
<1> QED
  BY <1>4, <1>8, <1>9

LEMMA PiecesAre ==
  ASSUME NEW data \in Seq(Nat)
  PROVE  Pieces(data) = {[n |-> n, data |-> Piece(data, n)] : n \in {m \in Nat : Before(m) < Len(data)}}
<1>1. ASSUME NEW n
      PROVE  n \in {k \in 0..Len(data) : k * chunk_size < Len(data)} <=> n \in Nat /\ Before(n) < Len(data)
  <2>1. n \in Nat => Before(n) \in Nat /\ n <= Before(n)
    BY BeforeIs
  <2>2. Len(data) \in Nat
    OBVIOUS
  <2> QED
    BY <2>1, <2>2 DEF Before
<1> QED
  BY <1>1 DEF Pieces

(* Induction on the natural numbers, for sets *)
LEMMA AllNumbers ==
  ASSUME NEW S, 0 \in S, \A n \in Nat : n \in S => n + 1 \in S
  PROVE  \A n \in Nat : n \in S
<1>1. SUFFICES ASSUME Nat \ S # {} PROVE FALSE
  BY <1>1
<1>2. PICK x \in Nat \ S : \A y \in Nat \ S : ~(<<y, x>> \in OpToRel(<, Nat))
  BY <1>1, NatLessThanWellFounded, WFMin
<1>3. x # 0 /\ x \in Nat
  OBVIOUS
<1>4. x - 1 \in Nat /\ x - 1 < x /\ (x - 1) + 1 = x
  BY <1>3
<1>5. x - 1 \in Nat \ S
  BY <1>4
<1>6. <<x - 1, x>> \in OpToRel(<, Nat)
  BY <1>3, <1>4 DEF OpToRel
<1> QED
  BY <1>2, <1>5, <1>6

(* Chunks that are pieces, one after the other, cut from the whole content *)
(* are all its pieces.                                                     *)
LEMMA CutsAreAll ==
  ASSUME NEW data \in Seq(Nat), NEW m \in 0..Len(data), NEW cs,
         Follow(cs, m), CutFrom(cs, m, data),
         \A ch \in cs : ch.data = Piece(data, ch.n) /\ ch.data # <<>>,
         NEW n \in Nat, Before(n) < Len(data)
  PROVE  \E ch \in cs : ch.n = n
<1>1. PICK cut \in [0..m -> 0..Len(data)] :
        /\ cut[0] = 0 /\ cut[m] = Len(data)
        /\ \A ch \in cs : /\ cut[ch.n] <= cut[ch.n + 1]
                          /\ ch.data = SubSeq(data, cut[ch.n] + 1, cut[ch.n + 1])
  BY DEF CutFrom
<1>2. ASSUME NEW i \in Nat, i < m, cut[i] = Reached(i, data)
      PROVE  cut[i + 1] = Reached(i + 1, data)
  <2>1. i \in 0..(m - 1)
    BY <1>2
  <2>2. PICK ch \in cs : ch.n = i
    BY <2>1 DEF Follow
  <2>3. Piece(data, i) = SubSeq(data, cut[i] + 1, cut[i + 1]) /\ Piece(data, i) # <<>> /\ cut[i] <= cut[i + 1]
    BY <1>1, <2>2
  <2>4. /\ Len(Piece(data, i)) = Reached(i + 1, data) - Reached(i, data)
        /\ Reached(i + 1, data) > Reached(i, data)
        /\ Reached(i, data) \in Nat /\ Reached(i + 1, data) \in Nat
    <3>1. Before(i) \in Nat
      BY BeforeIs
    <3>2. Before(i) >= Len(data) => Piece(data, i) = <<>>
      BY PieceIs
    <3>3. Before(i) < Len(data)
      <4>1. Len(data) \in Nat
        OBVIOUS
      <4> QED
        BY ONLY <2>3, <3>1, <3>2, <4>1
    <3> QED
      BY <3>3, PieceIs
  <2>5. cut[i] \in Nat /\ cut[i + 1] \in Nat /\ cut[i + 1] <= Len(data)
    <3>1. i \in 0..m /\ i + 1 \in 0..m
      BY <2>1
    <3>2. cut[i] \in 0..Len(data) /\ cut[i + 1] \in 0..Len(data)
      BY <3>1
    <3> QED
      BY <3>2
  <2>6. Len(Piece(data, i)) = IF cut[i] < cut[i + 1] THEN cut[i + 1] - cut[i] ELSE 0
    <3> DEFINE x == cut[i]
               y == cut[i + 1]
    <3>1. x \in Nat /\ y \in Nat /\ y <= Len(data) /\ Piece(data, i) = SubSeq(data, x + 1, y)
      BY <2>3, <2>5
    <3>2. Len(Piece(data, i)) = IF x < y THEN y - x ELSE 0
      <4> HIDE DEF x, y
      <4>1. Len(SubSeq(data, x + 1, y)) = IF x < y THEN y - x ELSE 0
        BY ONLY <3>1, data \in Seq(Nat), Part
      <4> QED
        BY ONLY <3>1, <4>1
    <3> QED
      BY <3>2
  <2> DEFINE x == cut[i]
             y == cut[i + 1]
             l == Len(Piece(data, i))
             q == Reached(i, data)
             t == Reached(i + 1, data)
  <2>7. /\ x \in Nat /\ y \in Nat /\ q \in Nat /\ t \in Nat
        /\ l = t - q /\ t > q /\ x = q /\ l = IF x < y THEN y - x ELSE 0
    BY <2>4, <2>5, <2>6, <1>2
  <2>8. y = t
    <3> HIDE DEF x, y, l, q, t
    <3>1. x < y
      BY ONLY <2>7
    <3> QED
      BY ONLY <2>7, <3>1
  <2> QED
    BY <2>8
<1> DEFINE S == {i \in Nat : i <= m => cut[i] = Reached(i, data)}
<1>3. 0 \in S
  <2>1. Before(0) = 0
    BY BeforeIs
  <2> QED
    BY <1>1, <2>1 DEF Reached
<1>4. \A i \in Nat : i \in S => i + 1 \in S
  BY <1>2
<1>5. \A i \in Nat : i \in S
  <2> HIDE DEF S
  <2> QED
    BY <1>3, <1>4, AllNumbers
<1>6. Reached(m, data) = Len(data)
  BY <1>1, <1>5
<1>7. Len(data) <= Before(m)
  <2>1. Before(m) \in Nat
    BY BeforeIs
  <2> QED
    BY <1>6, <2>1 DEF Reached
<1>8. n < m
  <2>1. SUFFICES ASSUME m <= n PROVE FALSE
    BY <2>1
  <2>2. Before(m) <= Before(n) /\ Before(m) \in Nat /\ Before(n) \in Nat
    BY <2>1, BeforeIs
  <2> QED
    BY <1>7, <2>2
<1>9. n \in 0..(m - 1)
  BY <1>8
<1> QED
  BY <1>9 DEF Follow

-----------------------------------------------------------------------------
(* The effects of steps.  In all of them call[c] becomes x.                *)

Moves(c, x) == \A d \in Clients : call'[d] = IF d = c THEN x ELSE call[d]
SameInsert(c, x) ==
    /\ x.op = "insert" /\ call[c].op = "insert"
    /\ x.of = call[c].of /\ x.ids = call[c].ids /\ x.ack = call[c].ack /\ x.data = call[c].data
    /\ call[c].pc \notin {"done", "died"}

FileInv == NumbersInv /\ PiecesInv /\ WeakInv /\ KeepsInv

LEMMA CheckingInserts ==
  ASSUME PlaceInv, NEW c \in Clients, call[c].pc \in {"read", "md5", "index", "cleanup", "file"}
  PROVE  Inserts(c)
BY DEF PlaceInv, Placed, Inserts

(* An insert that has still to compare its digest is the only one of its   *)
(* number: no other call and no file loses its chunks unmarked.            *)
LEMMA LosesMarked ==
  ASSUME PlaceInv, NumbersInv, NEW k, StillChecks(k)
  PROVE  /\ \A d \in Clients : Inserts(d) /\ call[d].of = k
                               => call[d].ack = "safe" /\ call[d].pc \in {"read", "md5", "index"}
         /\ \A f \in files : f.of # k
<1>1. PICK c \in Clients : call[c].of = k /\ call[c].ack = "safe" /\ call[c].pc \in {"read", "md5", "index"}
  BY DEF StillChecks
<1>2. Inserts(c)
  BY <1>1, CheckingInserts
<1>3. \A d \in Clients : Inserts(d) /\ call[d].of = k => d = c
  BY <1>1, <1>2 DEF NumbersInv
<1>4. \A f \in files : f.of # k
  BY <1>1, <1>2 DEF NumbersInv
<1> QED
  BY <1>1, <1>3, <1>4

(* Chunks and files only go, and the call does not write.                  *)
LEMMA GoneKeeps ==
  ASSUME PlaceInv, FileInv, NEW c \in Clients, NEW x, Moves(c, x),
         x.op # "insert" \/ SameInsert(c, x), x.pc \notin {"read", "file"},
         PlaceInv',
         files' \subseteq files, chunks' \subseteq chunks, taken \subseteq taken',
         \A ch \in chunks : ch \in chunks' \/ ch.of \in taken' \/ StillChecks(ch.of),
         given' = given, weak' = weak, calls \in Nat, calls' \in {calls, calls + 1},
         \A g \in given : g.of \in Nat
  PROVE  FileInv'
<1>. USE DEF FileInv
<1>1. \A d \in Clients : Inserts(d)' => /\ Inserts(d) /\ call'[d].of = call[d].of /\ call'[d].ack = call[d].ack
                                       /\ call'[d].data = call[d].data /\ The(d)' = The(d)
  BY DEF Moves, SameInsert, Inserts, The
<1>2. \A d \in Clients : Inserts(d)' /\ call[d].pc \in {"done", "died"} => call'[d].pc \in {"done", "died"}
  BY DEF Moves, SameInsert, Inserts
<1>3. \A d \in Clients : call'[d].pc \in {"read", "file"} => Inserts(d)' /\ call'[d] = call[d] /\ The(d)' = The(d)
  BY DEF Moves, PlaceInv, Placed, Inserts, The
<1>4. NumbersInv'
  <2>1. \A g \in given' : g.of <= calls'
    BY DEF NumbersInv
  <2>2. \A d \in Clients : Inserts(d)' => [id |-> The(d)', of |-> call'[d].of] \in given'
    BY <1>1 DEF NumbersInv
  <2>3. \A d, e \in Clients : Inserts(d)' /\ Inserts(e)' /\ call'[d].of = call'[e].of => d = e
    BY <1>1 DEF NumbersInv
  <2>4. \A f \in files', d \in Clients : Inserts(d)' /\ call'[d].of = f.of => call'[d].pc \in {"done", "died"}
    BY <1>1, <1>2 DEF NumbersInv
  <2>5. \A g, h \in given' : g.of = h.of => g = h
    BY DEF NumbersInv
  <2>6. /\ \A ch \in chunks' : [id |-> ch.files_id, of |-> ch.of] \in given'
        /\ \A f \in files' : [id |-> f._id, of |-> f.of] \in given'
    BY DEF NumbersInv
  <2> QED
    BY <2>1, <2>2, <2>3, <2>4, <2>5, <2>6 DEF NumbersInv
<1>5. PiecesInv'
  <2>1. \A ch \in chunks', d \in Clients : Inserts(d)' /\ ch.of = call'[d].of => ch.data = Piece(call'[d].data, ch.n)
    BY <1>1 DEF PiecesInv
  <2>2. /\ \A ch \in chunks' : ch.data # <<>>
        /\ \A ch \in chunks', f \in files' : ch.of = f.of => ch.data = Piece(f.data, ch.n)
    BY DEF PiecesInv
  <2> QED
    BY <2>1, <2>2 DEF PiecesInv
<1>6. WeakInv'
  BY <1>1 DEF WeakInv
<1>7. \A k, id, data, m : Has(k, id, data, m) /\ k \notin taken' /\ ~StillChecks(k) => Has(k, id, data, m)'
  BY DEF Has
<1>8. \A k : Shared(k)' <=> Shared(k)
  BY DEF Shared
<1>9. ASSUME NEW d \in Clients, call'[d].pc = "read", call'[d].ack = "acked", call'[d].of \notin taken'
      PROVE  \A m \in 0..(call'[d].n - 1) : Has(call[d].of, The(d), call[d].data, m)'
  <2>1. Inserts(d) /\ call'[d] = call[d] /\ The(d)' = The(d)
    BY <1>9, <1>3, <1>1
  <2>2. \A m \in 0..(call[d].n - 1) : Has(call[d].of, The(d), call[d].data, m)
    BY <1>9, <2>1 DEF KeepsInv
  <2>3. ~StillChecks(call[d].of)
    BY <1>9, <2>1, LosesMarked
  <2> QED
    BY <1>7, <1>9, <2>1, <2>2, <2>3
<1>10. ASSUME NEW d \in Clients, call'[d].pc = "file", call'[d].ack # "none", call'[d].of \notin taken',
              ~Shared(call[d].of)'
       PROVE  HasAll(call[d].of, The(d), call[d].data)'
  <2>1. Inserts(d) /\ call'[d] = call[d] /\ The(d)' = The(d)
    BY <1>10, <1>3, <1>1
  <2>2. HasAll(call[d].of, The(d), call[d].data)
    BY <1>8, <1>10, <2>1 DEF KeepsInv
  <2>3. ~StillChecks(call[d].of)
    BY <1>10, <2>1, LosesMarked
  <2> QED
    BY <1>7, <1>10, <2>1, <2>2, <2>3 DEF HasAll
<1>11. ASSUME NEW f \in files', f.ack # "none", f.of \notin taken', ~Shared(f.of)'
       PROVE  HasAll(f.of, f._id, f.data)'
  <2>1. HasAll(f.of, f._id, f.data)
    BY <1>8, <1>11 DEF KeepsInv
  <2>2. ~StillChecks(f.of)
    BY <1>11, LosesMarked
  <2> QED
    BY <1>7, <1>11, <2>1, <2>2 DEF HasAll
<1>12. KeepsInv'
  BY <1>9, <1>10, <1>11 DEF KeepsInv
<1> QED
  BY <1>4, <1>5, <1>6, <1>12

(* An insert begins, with a number that nothing has. *)
LEMMA StartedKeeps ==
  ASSUME PlaceInv, FileInv, NEW c \in Clients, NEW x, Moves(c, x), NEW id,
         x.op = "insert", x.pc = "read", x.of = calls + 1, x.ids = {id}, x.n = 0,
         PlaceInv',
         UNCHANGED <<files, chunks, taken>>,
         calls \in Nat, calls' = calls + 1, \A g \in given : g.of \in Nat,
         given' = given \cup {[id |-> id, of |-> calls + 1]},
         weak' \in {weak, weak \cup {calls + 1}}, x.data = <<>> => calls + 1 \in weak'
  PROVE  FileInv'
<1>. USE DEF FileInv
<1>1. \A d \in Clients : d # c => /\ call'[d] = call[d] /\ The(d)' = The(d) /\ (Inserts(d)' <=> Inserts(d))
  BY DEF Moves, The, Inserts
<1>2. call'[c] = x /\ Inserts(c)'
  BY DEF Moves, Inserts
<1>3. The(c)' = id
  BY <1>2 DEF The
<1>4. \A g \in given : g.of # calls + 1
  BY DEF NumbersInv
<1>5. /\ \A ch \in chunks : ch.of # calls + 1
      /\ \A f \in files : f.of # calls + 1
      /\ \A d \in Clients : Inserts(d) => call[d].of # calls + 1
  BY <1>4 DEF NumbersInv
<1>6. NumbersInv'
  <2>1. \A g \in given' : g.of <= calls'
    BY DEF NumbersInv
  <2>2. \A g, h \in given' : g.of = h.of => g = h
    BY <1>4 DEF NumbersInv
  <2>3. /\ \A ch \in chunks' : [id |-> ch.files_id, of |-> ch.of] \in given'
        /\ \A f \in files' : [id |-> f._id, of |-> f.of] \in given'
    BY DEF NumbersInv
  <2>4. \A d \in Clients : Inserts(d)' => [id |-> The(d)', of |-> call'[d].of] \in given'
    BY <1>1, <1>2, <1>3 DEF NumbersInv
  <2>5. \A d, e \in Clients : Inserts(d)' /\ Inserts(e)' /\ call'[d].of = call'[e].of => d = e
    BY <1>1, <1>2, <1>5 DEF NumbersInv
  <2>6. \A f \in files', d \in Clients : Inserts(d)' /\ call'[d].of = f.of => call'[d].pc \in {"done", "died"}
    BY <1>1, <1>2, <1>5 DEF NumbersInv
  <2> QED
    BY <2>1, <2>2, <2>3, <2>4, <2>5, <2>6 DEF NumbersInv
<1>7. PiecesInv'
  <2>1. \A ch \in chunks', d \in Clients : Inserts(d)' /\ ch.of = call'[d].of => ch.data = Piece(call'[d].data, ch.n)
    BY <1>1, <1>2, <1>5 DEF PiecesInv
  <2> QED
    BY <2>1 DEF PiecesInv
<1>8. WeakInv'
  BY <1>1, <1>2 DEF WeakInv
<1>9. \A k : k # calls + 1 /\ ~Shared(k)' => ~Shared(k)
  BY DEF Shared
<1>10. \A k, i, data, m : Has(k, i, data, m)' <=> Has(k, i, data, m)
  BY DEF Has
<1>11. ASSUME NEW d \in Clients, call'[d].pc = "read", call'[d].ack = "acked", call'[d].of \notin taken'
       PROVE  \A m \in 0..(call'[d].n - 1) : Has(call[d].of, The(d), call[d].data, m)'
  <2>1. CASE d = c
    BY <1>2, <2>1
  <2>2. CASE d # c
    <3>1. \A m \in 0..(call[d].n - 1) : Has(call[d].of, The(d), call[d].data, m)
      BY <1>1, <1>11, <2>2 DEF KeepsInv
    <3> QED
      BY <1>1, <1>10, <2>2, <3>1
  <2> QED
    BY <2>1, <2>2
<1>12. ASSUME NEW d \in Clients, call'[d].pc = "file", call'[d].ack # "none", call'[d].of \notin taken',
              ~Shared(call[d].of)'
       PROVE  HasAll(call[d].of, The(d), call[d].data)'
  <2>1. d # c /\ Inserts(d)
    <3>1. d # c
      BY <1>2, <1>12
    <3> QED
      BY <1>1, <1>12, <3>1, CheckingInserts
  <2>2. HasAll(call[d].of, The(d), call[d].data)
    BY <1>1, <1>5, <1>9, <1>12, <2>1 DEF KeepsInv
  <2> QED
    BY <1>1, <1>10, <2>1, <2>2 DEF HasAll
<1>13. ASSUME NEW f \in files', f.ack # "none", f.of \notin taken', ~Shared(f.of)'
       PROVE  HasAll(f.of, f._id, f.data)'
  BY <1>5, <1>9, <1>10, <1>13 DEF KeepsInv, HasAll
<1>14. KeepsInv'
  BY <1>11, <1>12, <1>13 DEF KeepsInv
<1> QED
  BY <1>6, <1>7, <1>8, <1>14

(* A chunk is written, or, of writes that are not acknowledged, is not.    *)
LEMMA WrittenKeeps ==
  ASSUME PlaceInv, FileInv, NEW c \in Clients, NEW x, Moves(c, x), SameInsert(c, x),
         call[c].pc = "read", call[c].n \in Nat,
         x.pc \in {"read", "died"}, x.pc = "read" => x.n = call[c].n + 1,
         PlaceInv',
         UNCHANGED <<files, taken, given, calls>>,
         NEW data, data = Piece(call[c].data, call[c].n), data # <<>>,
         \/ /\ chunks' = chunks \cup {[files_id |-> The(c), n |-> call[c].n, data |-> data, of |-> call[c].of]}
            /\ Weakens(c)
         \/ chunks' = chunks /\ weak' = weak /\ call[c].ack = "none"
  PROVE  FileInv'
<1>. USE DEF FileInv
<1>1. \A d \in Clients : /\ call'[d].of = call[d].of /\ call'[d].ack = call[d].ack
                         /\ call'[d].data = call[d].data /\ The(d)' = The(d) /\ (Inserts(d)' <=> Inserts(d))
  BY DEF Moves, SameInsert, Inserts, The
<1>2. \A d \in Clients : d # c => call'[d] = call[d]
  BY DEF Moves
<1>3. call'[c] = x /\ Inserts(c)
  BY DEF Moves, SameInsert, Inserts
<1>4. \A f \in files : f.of # call[c].of
  BY <1>3 DEF NumbersInv
<1>5. chunks \subseteq chunks' /\ weak \subseteq weak'
  BY DEF Weakens
<1>6. \A ch \in chunks' \ chunks : /\ ch.files_id = The(c) /\ ch.n = call[c].n /\ ch.data = data /\ ch.of = call[c].of
                                   /\ Weakens(c)
  OBVIOUS
<1>7. NumbersInv'
  <2>1. \A ch \in chunks' : [id |-> ch.files_id, of |-> ch.of] \in given'
    BY <1>3, <1>6 DEF NumbersInv
  <2>2. \A f \in files', d \in Clients : Inserts(d)' /\ call'[d].of = f.of => call'[d].pc \in {"done", "died"}
    BY <1>1, <1>2, <1>4 DEF NumbersInv
  <2>3. /\ \A g \in given' : g.of <= calls'
        /\ \A g, h \in given' : g.of = h.of => g = h
        /\ \A f \in files' : [id |-> f._id, of |-> f.of] \in given'
    BY DEF NumbersInv
  <2>4. /\ \A d \in Clients : Inserts(d)' => [id |-> The(d)', of |-> call'[d].of] \in given'
        /\ \A d, e \in Clients : Inserts(d)' /\ Inserts(e)' /\ call'[d].of = call'[e].of => d = e
    BY <1>1 DEF NumbersInv
  <2> QED
    BY <2>1, <2>2, <2>3, <2>4 DEF NumbersInv
<1>8. PiecesInv'
  <2>1. \A ch \in chunks' : ch.data # <<>>
    BY <1>6 DEF PiecesInv
  <2>2. ASSUME NEW ch \in chunks', NEW d \in Clients, Inserts(d)', ch.of = call'[d].of
        PROVE  ch.data = Piece(call'[d].data, ch.n)
    <3>1. CASE ch \in chunks
      BY <1>1, <2>2, <3>1 DEF PiecesInv
    <3>2. CASE ch \notin chunks
      <4>1. d = c
        BY <1>1, <1>3, <1>6, <2>2, <3>2 DEF NumbersInv
      <4> QED
        BY <1>1, <1>6, <3>2, <4>1
    <3> QED
      BY <3>1, <3>2
  <2>3. \A ch \in chunks', f \in files' : ch.of = f.of => ch.data = Piece(f.data, ch.n)
    BY <1>4, <1>6 DEF PiecesInv
  <2> QED
    BY <2>1, <2>2, <2>3 DEF PiecesInv
<1>9. WeakInv'
  <2>1. ASSUME NEW y \in chunks, y.files_id = The(c), y.of # call[c].of, Weakens(c)
        PROVE  call[c].of \in weak'
    BY <2>1 DEF Weakens, Mixes, Of
  <2>2. ASSUME NEW y \in chunks', NEW z \in chunks', y.files_id = z.files_id, y.of # z.of
        PROVE  y.of \in weak' \/ z.of \in weak'
    BY <1>5, <1>6, <2>1, <2>2 DEF WeakInv
  <2>3. /\ \A d \in Clients : Inserts(d)' /\ call'[d].data = <<>> => call'[d].of \in weak'
        /\ \A f \in files' : f.data = <<>> => f.of \in weak'
    BY <1>1, <1>5 DEF WeakInv
  <2> QED
    BY <2>2, <2>3 DEF WeakInv
<1>10. \A k : ~Shared(k)' => ~Shared(k)
  BY <1>5 DEF Shared
<1>11. \A k, i, s, m : Has(k, i, s, m) => Has(k, i, s, m)'
  BY <1>5 DEF Has
<1>12. ASSUME NEW d \in Clients, call'[d].pc = "read", call'[d].ack = "acked", call'[d].of \notin taken'
       PROVE  \A m \in 0..(call'[d].n - 1) : Has(call[d].of, The(d), call[d].data, m)'
  <2>1. call[d].pc = "read"
    BY <1>2, <1>12
  <2>2. \A m \in 0..(call[d].n - 1) : Has(call[d].of, The(d), call[d].data, m)
    BY <1>1, <1>12, <2>1 DEF KeepsInv
  <2>3. CASE d # c
    BY <1>1, <1>2, <1>11, <2>2, <2>3
  <2>4. CASE d = c
    <3>1. call'[c].n = call[c].n + 1 /\ call[c].ack # "none"
      BY <1>1, <1>3, <1>12, <2>4
    <3>2. PICK n \in Nat : n = call[c].n
      OBVIOUS
    <3>3. Has(call[c].of, The(c), call[c].data, n)'
      BY <1>1, <3>1, <3>2 DEF Has
    <3>4. \A m \in 0..(call'[c].n - 1) : m \in 0..(n - 1) \/ m = n
      BY <3>1, <3>2
    <3>5. \A m \in 0..(n - 1) : Has(call[c].of, The(c), call[c].data, m)'
      BY <1>1, <1>11, <2>2, <2>4, <3>2
    <3> QED
      BY <2>4, <3>3, <3>4, <3>5
  <2> QED
    BY <2>3, <2>4
<1>13. ASSUME NEW d \in Clients, call'[d].pc = "file", call'[d].ack # "none", call'[d].of \notin taken',
              ~Shared(call[d].of)'
       PROVE  HasAll(call[d].of, The(d), call[d].data)'
  <2>1. call[d].pc = "file"
    BY <1>2, <1>3, <1>13
  <2>2. HasAll(call[d].of, The(d), call[d].data)
    BY <1>1, <1>10, <1>13, <2>1 DEF KeepsInv
  <2> QED
    BY <1>1, <1>11, <2>2 DEF HasAll
<1>14. ASSUME NEW f \in files', f.ack # "none", f.of \notin taken', ~Shared(f.of)'
       PROVE  HasAll(f.of, f._id, f.data)'
  BY <1>10, <1>11, <1>14 DEF KeepsInv, HasAll
<1>15. KeepsInv'
  BY <1>12, <1>13, <1>14 DEF KeepsInv
<1> QED
  BY <1>7, <1>8, <1>9, <1>15

(* The insert has its chunks, as far as it can tell.                       *)
LEMMA ReadyKeeps ==
  ASSUME PlaceInv, FileInv, NEW c \in Clients, NEW x, Moves(c, x), SameInsert(c, x), x.pc = "file",
         UNCHANGED <<files, chunks, taken, given, calls>>, weak \subseteq weak',
         call[c].ack # "none" /\ call[c].of \notin taken /\ ~Shared(call[c].of)'
         => HasAll(call[c].of, The(c), call[c].data)
  PROVE  FileInv'
<1>. USE DEF FileInv
<1>1. \A d \in Clients : /\ call'[d].of = call[d].of /\ call'[d].ack = call[d].ack
                         /\ call'[d].data = call[d].data /\ The(d)' = The(d) /\ (Inserts(d)' <=> Inserts(d))
  BY DEF Moves, SameInsert, Inserts, The
<1>2. \A d \in Clients : d # c => call'[d] = call[d]
  BY DEF Moves
<1>3. call'[c] = x /\ Inserts(c) /\ call[c].pc \notin {"done", "died"}
  BY DEF Moves, SameInsert, Inserts
<1>4. \A f \in files : f.of # call[c].of
  BY <1>3 DEF NumbersInv
<1>5. NumbersInv'
  <2>1. \A f \in files', d \in Clients : Inserts(d)' /\ call'[d].of = f.of => call'[d].pc \in {"done", "died"}
    BY <1>1, <1>2, <1>4 DEF NumbersInv
  <2>2. /\ \A g \in given' : g.of <= calls'
        /\ \A g, h \in given' : g.of = h.of => g = h
        /\ \A ch \in chunks' : [id |-> ch.files_id, of |-> ch.of] \in given'
        /\ \A f \in files' : [id |-> f._id, of |-> f.of] \in given'
    BY DEF NumbersInv
  <2>3. /\ \A d \in Clients : Inserts(d)' => [id |-> The(d)', of |-> call'[d].of] \in given'
        /\ \A d, e \in Clients : Inserts(d)' /\ Inserts(e)' /\ call'[d].of = call'[e].of => d = e
    BY <1>1 DEF NumbersInv
  <2> QED
    BY <2>1, <2>2, <2>3 DEF NumbersInv
<1>6. PiecesInv'
  BY <1>1 DEF PiecesInv
<1>7. WeakInv'
  BY <1>1 DEF WeakInv
<1>8. \A k : ~Shared(k)' => ~Shared(k)
  BY DEF Shared
<1>9. \A k, i, s, m : Has(k, i, s, m)' <=> Has(k, i, s, m)
  BY DEF Has
<1>10. \A k, i, s : HasAll(k, i, s)' <=> HasAll(k, i, s)
  BY <1>9 DEF HasAll
<1>11. ASSUME NEW d \in Clients, call'[d].pc = "read", call'[d].ack = "acked", call'[d].of \notin taken'
       PROVE  \A m \in 0..(call'[d].n - 1) : Has(call[d].of, The(d), call[d].data, m)'
  <2>1. call'[d] = call[d]
    BY <1>2, <1>3, <1>11
  <2>2. \A m \in 0..(call[d].n - 1) : Has(call[d].of, The(d), call[d].data, m)
    BY <1>11, <2>1 DEF KeepsInv
  <2> QED
    BY <1>1, <1>9, <2>1, <2>2
<1>12. ASSUME NEW d \in Clients, call'[d].pc = "file", call'[d].ack # "none", call'[d].of \notin taken',
              ~Shared(call[d].of)'
       PROVE  HasAll(call[d].of, The(d), call[d].data)'
  <2>1. CASE d = c
    BY <1>1, <1>10, <1>12, <2>1
  <2>2. CASE d # c
    <3>1. HasAll(call[d].of, The(d), call[d].data)
      BY <1>1, <1>2, <1>8, <1>12, <2>2 DEF KeepsInv
    <3> QED
      BY <1>1, <1>10, <3>1
  <2> QED
    BY <2>1, <2>2
<1>13. ASSUME NEW f \in files', f.ack # "none", f.of \notin taken', ~Shared(f.of)'
       PROVE  HasAll(f.of, f._id, f.data)'
  BY <1>8, <1>10, <1>13 DEF KeepsInv
<1>14. KeepsInv'
  BY <1>11, <1>12, <1>13 DEF KeepsInv
<1> QED
  BY <1>5, <1>6, <1>7, <1>14

(* The document of the file is put, and the insert is over.                *)
LEMMA PutKeeps ==
  ASSUME PlaceInv, FileInv, NEW c \in Clients, NEW x, Moves(c, x), SameInsert(c, x), call[c].pc = "file",
         x.pc \in {"done", "died"},
         files' = files \cup {[_id |-> The(c), of |-> call[c].of, data |-> call[c].data, ack |-> call[c].ack]},
         UNCHANGED <<chunks, taken, given, weak, calls>>
  PROVE  FileInv'
<1>. USE DEF FileInv
<1>1. \A d \in Clients : /\ call'[d].of = call[d].of /\ call'[d].ack = call[d].ack
                         /\ call'[d].data = call[d].data /\ The(d)' = The(d) /\ (Inserts(d)' <=> Inserts(d))
  BY DEF Moves, SameInsert, Inserts, The
<1>2. \A d \in Clients : d # c => call'[d] = call[d]
  BY DEF Moves
<1>3. call'[c] = x /\ Inserts(c)
  BY DEF Moves, SameInsert, Inserts
<1>4. \A f \in files' \ files : f._id = The(c) /\ f.of = call[c].of /\ f.data = call[c].data /\ f.ack = call[c].ack
  OBVIOUS
<1>5. NumbersInv'
  <2>1. ASSUME NEW f \in files', NEW d \in Clients, Inserts(d)', call'[d].of = f.of
        PROVE  call'[d].pc \in {"done", "died"}
    <3>1. CASE d = c
      BY <1>3, <3>1
    <3>2. CASE d # c
      <4>1. f \in files
        BY <1>1, <1>3, <1>4, <2>1, <3>2 DEF NumbersInv
      <4> QED
        BY <1>1, <1>2, <2>1, <3>2, <4>1 DEF NumbersInv
    <3> QED
      BY <3>1, <3>2
  <2>2. \A f \in files' : [id |-> f._id, of |-> f.of] \in given'
    BY <1>3, <1>4 DEF NumbersInv
  <2>3. /\ \A g \in given' : g.of <= calls'
        /\ \A g, h \in given' : g.of = h.of => g = h
        /\ \A ch \in chunks' : [id |-> ch.files_id, of |-> ch.of] \in given'
    BY DEF NumbersInv
  <2>4. /\ \A d \in Clients : Inserts(d)' => [id |-> The(d)', of |-> call'[d].of] \in given'
        /\ \A d, e \in Clients : Inserts(d)' /\ Inserts(e)' /\ call'[d].of = call'[e].of => d = e
    BY <1>1 DEF NumbersInv
  <2> QED
    BY <2>1, <2>2, <2>3, <2>4 DEF NumbersInv
<1>6. PiecesInv'
  <2>1. \A ch \in chunks', f \in files' : ch.of = f.of => ch.data = Piece(f.data, ch.n)
    BY <1>3, <1>4 DEF PiecesInv
  <2>2. \A ch \in chunks', d \in Clients : Inserts(d)' /\ ch.of = call'[d].of => ch.data = Piece(call'[d].data, ch.n)
    BY <1>1 DEF PiecesInv
  <2>3. \A ch \in chunks' : ch.data # <<>>
    BY DEF PiecesInv
  <2> QED
    BY <2>1, <2>2, <2>3 DEF PiecesInv
<1>7. WeakInv'
  BY <1>1, <1>3, <1>4 DEF WeakInv
<1>8. \A k : Shared(k)' <=> Shared(k)
  BY DEF Shared
<1>9. \A k, i, s, m : Has(k, i, s, m)' <=> Has(k, i, s, m)
  BY DEF Has
<1>10. \A k, i, s : HasAll(k, i, s)' <=> HasAll(k, i, s)
  BY <1>9 DEF HasAll
<1>11. ASSUME NEW d \in Clients, call'[d].pc = "read", call'[d].ack = "acked", call'[d].of \notin taken'
       PROVE  \A m \in 0..(call'[d].n - 1) : Has(call[d].of, The(d), call[d].data, m)'
  <2>1. call'[d] = call[d]
    BY <1>2, <1>3, <1>11
  <2>2. \A m \in 0..(call[d].n - 1) : Has(call[d].of, The(d), call[d].data, m)
    BY <1>11, <2>1 DEF KeepsInv
  <2> QED
    BY <1>1, <1>9, <2>1, <2>2
<1>12. ASSUME NEW d \in Clients, call'[d].pc = "file", call'[d].ack # "none", call'[d].of \notin taken',
              ~Shared(call[d].of)'
       PROVE  HasAll(call[d].of, The(d), call[d].data)'
  <2>1. d # c
    BY <1>3, <1>12
  <2>2. HasAll(call[d].of, The(d), call[d].data)
    BY <1>1, <1>2, <1>8, <1>12, <2>1 DEF KeepsInv
  <2> QED
    BY <1>1, <1>10, <2>2
<1>13. ASSUME NEW f \in files', f.ack # "none", f.of \notin taken', ~Shared(f.of)'
       PROVE  HasAll(f.of, f._id, f.data)'
  <2>1. CASE f \in files
    BY <1>8, <1>10, <1>13, <2>1 DEF KeepsInv
  <2>2. CASE f \notin files
    BY <1>4, <1>8, <1>10, <1>13, <2>2 DEF KeepsInv
  <2> QED
    BY <2>1, <2>2
<1>14. KeepsInv'
  BY <1>11, <1>12, <1>13 DEF KeepsInv
<1> QED
  BY <1>5, <1>6, <1>7, <1>14

-----------------------------------------------------------------------------
(* The steps of insert, remove, drop and get *)

Safe == TypeOK /\ PlaceInv /\ FileInv
Over == {"done", "died"}

LEMMA TheIs ==
  ASSUME PlaceInv, NEW c \in Clients, call[c].op \in {"insert", "print"}
  PROVE  The(c) \in Ids /\ call[c].ids = {The(c)}
<1>1. PICK id \in Ids : call[c].ids = {id}
  BY DEF PlaceInv, Placed
<1>2. The(c) = id
  BY <1>1 DEF The
<1> QED
  BY <1>1, <1>2

LEMMA MoveIs ==
  ASSUME TypeOK, NEW c \in Clients, NEW x \in CallType, call' = [call EXCEPT ![c] = x]
  PROVE  call' \in [Clients -> CallType] /\ Moves(c, x)
BY DEF TypeOK, Moves

LEMMA MovePlaced ==
  ASSUME PlaceInv, NEW c \in Clients, NEW x, Moves(c, x), Placed(x)
  PROVE  PlaceInv'
<1>1. \A d \in Clients : Placed(call'[d])
  BY DEF PlaceInv, Moves
<1> QED
  BY <1>1 DEF PlaceInv, Placed

(* A call that goes on to pc: what there is of it but for pc stays.        *)
LEMMA ToIs ==
  ASSUME TypeOK, NEW c \in Clients, NEW pc, To(c, pc), [call[c] EXCEPT !.pc = pc] \in CallType
  PROVE  /\ call' \in [Clients -> CallType] /\ Moves(c, [call[c] EXCEPT !.pc = pc])
         /\ [call[c] EXCEPT !.pc = pc].pc = pc /\ [call[c] EXCEPT !.pc = pc].op = call[c].op
         /\ call[c].op = "insert" /\ call[c].pc \notin Over => SameInsert(c, [call[c] EXCEPT !.pc = pc])
<1>1. call[c] \in CallType
  BY DEF TypeOK
<1>2. call' = [call EXCEPT ![c] = [call[c] EXCEPT !.pc = pc]]
  BY DEF To
<1>3. call' \in [Clients -> CallType] /\ Moves(c, [call[c] EXCEPT !.pc = pc])
  BY <1>2, MoveIs
<1>4. /\ [call[c] EXCEPT !.pc = pc].pc = pc /\ [call[c] EXCEPT !.pc = pc].op = call[c].op
      /\ call[c].op = "insert" /\ call[c].pc \notin Over => SameInsert(c, [call[c] EXCEPT !.pc = pc])
  BY <1>1 DEF CallType, SameInsert, Over
<1> QED
  BY <1>3, <1>4

(* A call becomes x, which does not write; chunks and files only go.       *)
LEMMA MovesOn ==
  ASSUME Safe, NEW c \in Clients, NEW x \in CallType, call' = [call EXCEPT ![c] = x],
         x.op # "insert" \/ SameInsert(c, x), x.pc \notin {"read", "file"}, Placed(x),
         files' \subseteq files, chunks' \subseteq chunks, indexed' \in BOOLEAN,
         taken \subseteq taken', taken' \subseteq Nat,
         \A ch \in chunks : ch \in chunks' \/ ch.of \in taken' \/ StillChecks(ch.of),
         calls' \in {calls, calls + 1}, faults' \in Nat,
         UNCHANGED <<given, weak>>
  PROVE  Safe'
<1>. USE DEF Safe
<1>1. call' \in [Clients -> CallType] /\ Moves(c, x)
  BY MoveIs
<1>2. PlaceInv'
  BY <1>1, MovePlaced
<1>3. TypeOK'
  BY <1>1 DEF TypeOK
<1>4. calls \in Nat /\ \A g \in given : g.of \in Nat
  BY DEF TypeOK
<1>5. FileInv'
  BY <1>1, <1>2, <1>4, GoneKeeps
<1> QED
  BY <1>2, <1>3, <1>5

(* A call goes on to die, to end, or to another place of its operation     *)
(* that is not after the writes.                                           *)
LEMMA GoesOn ==
  ASSUME Safe, NEW c \in Clients, NEW pc, To(c, pc), call[c].pc \notin Over,
         \/ pc \in Over
         \/ pc \in {"md5", "index", "cleanup"} /\ call[c].op = "insert" /\ call[c].ack = "safe"
         \/ pc \in {"drop", "ensure"} /\ call[c].op = "drop",
         files' \subseteq files, chunks' \subseteq chunks, indexed' \in BOOLEAN,
         taken \subseteq taken', taken' \subseteq Nat,
         \A ch \in chunks : ch \in chunks' \/ ch.of \in taken' \/ StillChecks(ch.of),
         faults' \in Nat,
         UNCHANGED <<calls, given, weak>>
  PROVE  Safe'
<1> DEFINE x == [call[c] EXCEPT !.pc = pc]
<1>1. x \in CallType
  <2>1. call[c] \in CallType /\ pc \in Pcs
    BY DEF Safe, TypeOK, Pcs, Over
  <2> QED
    BY <2>1 DEF CallType
<1>2. /\ x.pc = pc /\ x.op = call[c].op
      /\ call[c].op = "insert" => SameInsert(c, x)
  BY <1>1, ToIs DEF Safe
<1>3. x.ids = call[c].ids /\ x.ack = call[c].ack
  BY DEF Safe, TypeOK, CallType
<1>4. Placed(x)
  BY <1>2, <1>3 DEF Safe, PlaceInv, Placed, Over
<1>5. call' = [call EXCEPT ![c] = x]
  BY DEF To
<1>6. x.pc \notin {"read", "file"}
  BY <1>2 DEF Over
<1> HIDE DEF x
<1> QED
  BY <1>1, <1>2, <1>4, <1>5, <1>6, MovesOn

LEMMA NothingGone ==
  ASSUME Safe, chunks' = chunks, taken' = taken
  PROVE  /\ chunks' \subseteq chunks /\ taken \subseteq taken' /\ taken' \subseteq Nat
         /\ \A ch \in chunks : ch \in chunks' \/ ch.of \in taken' \/ StillChecks(ch.of)
BY DEF Safe, TypeOK

LEMMA ChunksGone ==
  ASSUME Safe, NEW gone, gone \subseteq chunks, TakeChunks(gone)
  PROVE  /\ chunks' \subseteq chunks /\ taken \subseteq taken' /\ taken' \subseteq Nat
         /\ \A ch \in chunks : ch \in chunks' \/ ch.of \in taken' \/ StillChecks(ch.of)
<1>1. \A k \in {ch.of : ch \in gone} : k \in Nat
  BY DEF Safe, TypeOK
<1> QED
  BY <1>1 DEF Safe, TypeOK, TakeChunks

LEMMA FailsIs ==
  ASSUME Safe, NEW c \in Clients, Fails(c)
  PROVE  To(c, "died") /\ faults' \in Nat
BY DEF Fails, Dies, Safe, TypeOK

LEMMA StartInsertStep ==
  ASSUME Safe, NEW c \in Clients, StartInsert(c)
  PROVE  Safe'
<1>. USE DEF Safe
<1>1. PICK id \in Ids, data \in Contents, ack \in Acks :
        /\ call' = [call EXCEPT ![c] = Call("insert", "read", calls + 1, {id}, ack, data)]
        /\ given' = given \cup {[id |-> id, of |-> calls + 1]}
        /\ weak' = IF data = <<>> \/ ack = "none" THEN weak \cup {calls + 1} ELSE weak
  BY DEF StartInsert
<1>2. calls' = calls + 1 /\ UNCHANGED <<files, chunks, indexed, faults, taken>>
  BY DEF StartInsert, Unused, db
<1> DEFINE x == Call("insert", "read", calls + 1, {id}, ack, data)
<1>3. /\ x \in CallType
      /\ x.op = "insert" /\ x.pc = "read" /\ x.of = calls + 1 /\ x.ids = {id} /\ x.n = 0 /\ x.data = data
  <2>1. data \in Seq(Nat) /\ ack \in {"safe", "acked", "none"} /\ calls + 1 \in Nat
    BY GridFSAssumption DEF TypeOK
  <2>2. [out |-> <<>>, written |-> 0, pos |-> 0] \in [out : Seq(Nat), written : Nat, pos : Nat]
    BY EmptySeq
  <2> QED
    BY <2>1, <2>2 DEF Call, CallType, Pcs, Printed
<1>4. Placed(x)
  BY <1>3 DEF Placed
<1> HIDE DEF x
<1>5. call' \in [Clients -> CallType] /\ Moves(c, x)
  BY <1>1, <1>3, MoveIs DEF x
<1>6. PlaceInv'
  BY <1>4, <1>5, MovePlaced
<1>7. TypeOK'
  BY <1>1, <1>2, <1>5 DEF TypeOK
<1>8. FileInv'
  <2>1. weak' \in {weak, weak \cup {calls + 1}} /\ (x.data = <<>> => calls + 1 \in weak')
    BY <1>1, <1>3
  <2>2. calls \in Nat /\ \A g \in given : g.of \in Nat
    BY DEF TypeOK
  <2> QED
    BY <1>1, <1>2, <1>3, <1>5, <1>6, <2>1, <2>2, StartedKeeps
<1> QED
  BY <1>6, <1>7, <1>8

LEMMA RetryStep ==
  ASSUME Safe, NEW c \in Clients, Retry(c)
  PROVE  Safe'
<1>1. call[c].pc = "index" /\ UNCHANGED <<files, chunks, calls, history>>
  BY DEF Retry
<1>2. UNCHANGED <<given, weak, taken>>
  BY <1>1 DEF history
<1>3. call[c].op = "insert" /\ call[c].ack = "safe" /\ call[c].pc \notin Over
  BY <1>1 DEF Safe, PlaceInv, Placed, Over
<1>4. CASE CanIndex /\ indexed' = TRUE /\ UNCHANGED faults
           /\ call' = [call EXCEPT ![c].pc = "md5", ![c].retry = 0]
  <2> DEFINE x == [call[c] EXCEPT !.pc = "md5", !.retry = 0]
  <2>1. call' = [call EXCEPT ![c] = x]
    BY <1>4
  <2>2. call[c] \in CallType
    BY DEF Safe, TypeOK
  <2>3. x \in CallType /\ SameInsert(c, x) /\ x.pc = "md5"
    BY <1>3, <2>2 DEF CallType, SameInsert, Pcs, Over
  <2>4. Placed(x)
    BY <1>3, <2>2 DEF Placed, CallType, Safe, PlaceInv
  <2> HIDE DEF x
  <2>5. indexed' \in BOOLEAN /\ faults' \in Nat
    BY <1>4 DEF Safe, TypeOK
  <2> QED
    BY <1>1, <1>2, <2>1, <2>3, <2>4, <2>5, NothingGone, MovesOn
<1>5. CASE To(c, "died") /\ indexed' = indexed /\ faults' \in Nat
  <2>1. indexed' \in BOOLEAN
    BY <1>5 DEF Safe, TypeOK
  <2> QED
    BY <1>1, <1>2, <1>3, <1>5, <2>1, NothingGone, GoesOn DEF Over
<1>6. \/ CanIndex /\ indexed' = TRUE /\ UNCHANGED faults /\ call' = [call EXCEPT ![c].pc = "md5", ![c].retry = 0]
      \/ To(c, "died") /\ indexed' = indexed /\ faults' \in Nat
  BY FailsIs DEF Retry, Dies, Safe, TypeOK
<1> QED
  BY <1>4, <1>5, <1>6

LEMMA CleanUpStep ==
  ASSUME Safe, NEW c \in Clients, CleanUp(c)
  PROVE  Safe'
<1>1. call[c].pc = "cleanup" /\ UNCHANGED <<files, indexed, calls, given, weak>>
  BY DEF CleanUp
<1>2. call[c].pc \notin Over /\ indexed' \in BOOLEAN
  BY <1>1 DEF Safe, TypeOK, Over
<1>3. To(c, "died") /\ faults' \in Nat
  BY FailsIs DEF CleanUp, Dies, Safe, TypeOK
<1>4. /\ chunks' \subseteq chunks /\ taken \subseteq taken' /\ taken' \subseteq Nat
      /\ \A ch \in chunks : ch \in chunks' \/ ch.of \in taken' \/ StillChecks(ch.of)
  <2>1. Of(The(c)) \subseteq chunks
    BY DEF Of
  <2>2. TakeChunks(Of(The(c))) \/ UNCHANGED <<chunks, taken>>
    BY DEF CleanUp
  <2> QED
    BY <2>1, <2>2, ChunksGone, NothingGone
<1> QED
  BY <1>1, <1>2, <1>3, <1>4, GoesOn DEF Over

(* The chunk is written, and the insert goes on or dies.                   *)
LEMMA WritesStep ==
  ASSUME Safe, NEW c \in Clients, call[c].pc = "read", Piece(call[c].data, call[c].n) # <<>>,
         NEW x \in CallType, call' = [call EXCEPT ![c] = x], SameInsert(c, x),
         x.pc \in {"read", "died"}, x.pc = "read" => x.n = call[c].n + 1,
         UNCHANGED <<files, indexed, calls, taken, given>>, faults' \in Nat,
         \/ /\ chunks' = chunks \cup {[files_id |-> The(c), n |-> call[c].n, data |-> Piece(call[c].data, call[c].n),
                                       of |-> call[c].of]}
            /\ Weakens(c)
         \/ chunks' = chunks /\ weak' = weak /\ call[c].ack = "none"
  PROVE  Safe'
<1>. USE DEF Safe
<1>1. call' \in [Clients -> CallType] /\ Moves(c, x)
  BY MoveIs
<1>2. call[c] \in CallType /\ call[c].op = "insert"
  BY DEF TypeOK, PlaceInv, Placed
<1>3. call[c].n \in Nat /\ call[c].data \in Seq(Nat) /\ call[c].of \in Nat
  BY <1>2 DEF CallType
<1>4. Placed(x)
  BY <1>2 DEF SameInsert, Placed, PlaceInv
<1>5. PlaceInv'
  BY <1>1, <1>4, MovePlaced
<1>6. TypeOK'
  <2>1. The(c) \in Ids
    BY <1>2, TheIs
  <2>2. Piece(call[c].data, call[c].n) \in Seq(Nat)
    BY <1>3, PieceIs
  <2>3. chunks' \subseteq [files_id : Ids, n : Nat, data : Seq(Nat), of : Nat]
    BY <1>3, <2>1, <2>2 DEF TypeOK
  <2>4. weak' \subseteq Nat
    BY <1>3 DEF TypeOK, Weakens
  <2> QED
    BY <1>1, <2>3, <2>4 DEF TypeOK
<1>7. FileInv'
  BY <1>1, <1>3, <1>5, WrittenKeeps
<1> QED
  BY <1>5, <1>6, <1>7

LEMMA InsertChunkStep ==
  ASSUME Safe, NEW c \in Clients, InsertChunk(c)
  PROVE  Safe'
<1>1. /\ call[c].pc = "read" /\ Piece(call[c].data, call[c].n) # <<>>
      /\ UNCHANGED <<files, indexed, calls, taken, given>>
  BY DEF InsertChunk
<1>2. call[c] \in CallType /\ call[c].op = "insert" /\ call[c].pc \notin Over /\ call[c].n \in Nat
  BY <1>1 DEF Safe, TypeOK, PlaceInv, Placed, Over, CallType
<1> DEFINE next == call' = [call EXCEPT ![c].n = call[c].n + 1]
           new == [files_id |-> The(c), n |-> call[c].n, data |-> Piece(call[c].data, call[c].n), of |-> call[c].of]
           x == [call[c] EXCEPT !.n = call[c].n + 1]
           z == [call[c] EXCEPT !.pc = "died"]
<1>3. next => call' = [call EXCEPT ![c] = x]
  OBVIOUS
<1>4. x \in CallType /\ SameInsert(c, x) /\ x.pc = "read" /\ x.n = call[c].n + 1
  <2>1. call[c].n + 1 \in Nat
    BY <1>2
  <2> DEFINE k == call[c].n + 1
  <2>2. k \in Nat /\ x = [call[c] EXCEPT !.n = k]
    BY <2>1
  <2>3. x \in CallType /\ x.pc = call[c].pc /\ x.n = k
    <3> HIDE DEF k, x
    <3> QED
      BY <1>2, <2>2 DEF CallType
  <2>4. SameInsert(c, x)
    BY <1>1, <1>2 DEF CallType, SameInsert, Over
  <2> QED
    BY <1>1, <2>3, <2>4
<1>5. To(c, "died") => call' = [call EXCEPT ![c] = z]
  BY DEF To
<1>6. z \in CallType /\ SameInsert(c, z) /\ z.pc = "died"
  BY <1>1, <1>2 DEF CallType, SameInsert, Over, Pcs
<1>7. /\ faults' \in Nat
      /\ \/ next /\ UNCHANGED <<chunks, weak>> /\ call[c].ack = "none"
         \/ To(c, "died") /\ UNCHANGED <<chunks, weak>>
         \/ (next \/ To(c, "died")) /\ chunks' = chunks \cup {new} /\ Weakens(c)
  BY FailsIs DEF InsertChunk, Dies, Lost, Safe, TypeOK
<1> HIDE DEF next, new, x, z
<1>8. CASE To(c, "died") /\ UNCHANGED <<chunks, weak>>
  <2>1. indexed' \in BOOLEAN
    BY <1>1 DEF Safe, TypeOK
  <2> QED
    BY <1>1, <1>2, <1>7, <1>8, <2>1, NothingGone, GoesOn DEF Over
<1>9. CASE next /\ UNCHANGED <<chunks, weak>> /\ call[c].ack = "none"
  BY <1>1, <1>3, <1>4, <1>7, <1>9, WritesStep
<1>10. CASE (next \/ To(c, "died")) /\ chunks' = chunks \cup {new} /\ Weakens(c)
  <2>1. CASE next
    BY <1>1, <1>3, <1>4, <1>7, <1>10, <2>1, WritesStep DEF new
  <2>2. CASE To(c, "died")
    BY <1>1, <1>5, <1>6, <1>7, <1>10, <2>2, WritesStep DEF new
  <2> QED
    BY <1>10, <2>1, <2>2
<1> QED
  BY <1>7, <1>8, <1>9, <1>10

(* The insert goes on to its document.                                     *)
LEMMA ReadyStep ==
  ASSUME Safe, NEW c \in Clients, To(c, "file"), call[c].pc \in {"read", "md5"},
         UNCHANGED <<db, calls, faults, taken, given>>, weak \subseteq weak', weak' \subseteq Nat,
         call[c].ack # "none" /\ call[c].of \notin taken /\ ~Shared(call[c].of)'
         => HasAll(call[c].of, The(c), call[c].data)
  PROVE  Safe'
<1>. USE DEF Safe
<1>1. call[c] \in CallType /\ call[c].op = "insert" /\ call[c].pc \notin Over
  BY DEF TypeOK, PlaceInv, Placed, Over
<1> DEFINE x == [call[c] EXCEPT !.pc = "file"]
<1>2. x \in CallType
  BY <1>1 DEF CallType, Pcs
<1>3. call' \in [Clients -> CallType] /\ Moves(c, x) /\ x.pc = "file" /\ SameInsert(c, x)
  BY <1>1, <1>2, ToIs
<1>4. Placed(x)
  BY <1>1, <1>3 DEF SameInsert, Placed, PlaceInv
<1> HIDE DEF x
<1>5. PlaceInv'
  BY <1>3, <1>4, MovePlaced
<1>6. TypeOK'
  BY <1>3 DEF TypeOK, db
<1>7. FileInv'
  BY <1>3, ReadyKeeps DEF db
<1> QED
  BY <1>5, <1>6, <1>7

LEMMA ReadAllStep ==
  ASSUME Safe, NEW c \in Clients, ReadAll(c)
  PROVE  Safe'
<1>1. /\ call[c].pc = "read" /\ call[c].op = "insert" /\ Piece(call[c].data, call[c].n) = <<>>
      /\ UNCHANGED <<files, chunks, indexed, calls, faults, taken, given, weak>>
  BY DEF ReadAll, db, history
<1>2. call[c] \in CallType
  BY DEF Safe, TypeOK
<1>3. CASE call[c].ack = "safe"
  <2>1. To(c, "md5")
    BY <1>3 DEF ReadAll
  <2>2. indexed' \in BOOLEAN /\ faults' \in Nat
    BY <1>1 DEF Safe, TypeOK
  <2>3. call[c].pc \notin Over
    BY <1>1 DEF Over
  <2> QED
    BY <1>1, <1>3, <2>1, <2>2, <2>3, NothingGone, GoesOn
<1>4. CASE call[c].ack # "safe"
  <2>1. To(c, "file")
    BY <1>4 DEF ReadAll
  <2>2. ASSUME call[c].ack # "none", call[c].of \notin taken
        PROVE  HasAll(call[c].of, The(c), call[c].data)
    <3>1. call[c].ack = "acked" /\ call[c].n \in Nat /\ call[c].data \in Seq(Nat)
      BY <1>2, <1>4, <2>2 DEF CallType
    <3>2. \A m \in 0..(call[c].n - 1) : Has(call[c].of, The(c), call[c].data, m)
      BY <1>1, <2>2, <3>1 DEF Safe, FileInv, KeepsInv
    <3>3. ASSUME NEW m \in Nat, Before(m) < Len(call[c].data) PROVE m \in 0..(call[c].n - 1)
      <4>1. ~(Before(call[c].n) < Len(call[c].data))
        BY <1>1, <3>1, PieceIs
      <4>2. call[c].n <= m => Before(call[c].n) <= Before(m)
        BY <3>1, BeforeIs
      <4>3. Before(m) \in Nat /\ Before(call[c].n) \in Nat /\ Len(call[c].data) \in Nat
        <5>1. Before(call[c].n) \in Nat
          BY <3>1, BeforeIs
        <5>2. Before(m) \in Nat
          BY BeforeIs
        <5>3. Len(call[c].data) \in Nat
          BY <3>1
        <5> QED
          BY <5>1, <5>2, <5>3
      <4>4. ~(call[c].n <= m)
        BY ONLY <3>3, <4>1, <4>2, <4>3
      <4> QED
        BY <3>1, <4>4
    <3> QED
      BY <3>2, <3>3 DEF HasAll
  <2>3. weak' \subseteq Nat
    BY <1>1 DEF Safe, TypeOK
  <2> QED
    BY <1>1, <2>1, <2>2, <2>3, ReadyStep DEF db
<1> QED
  BY <1>3, <1>4

(* The digest is that of the insert's own chunks, or it is marked as weak. *)
LEMMA DigestTells ==
  ASSUME Safe, NEW c \in Clients, call[c].pc = "md5", SameDigest(c), Weakens(c), given' = given,
         call'[c].of = call[c].of, ~Shared(call[c].of)'
  PROVE  HasAll(call[c].of, The(c), call[c].data)
<1>. USE DEF Safe, FileInv
<1>1. call[c] \in CallType /\ Inserts(c)
  BY CheckingInserts DEF TypeOK
<1>2. PICK data, k, id : data \in Seq(Nat) /\ data = call[c].data /\ k = call[c].of /\ id = The(c)
  BY <1>1 DEF CallType
<1>. data \in Seq(Nat)
  BY <1>2
<1>3. [id |-> id, of |-> k] \in given
  BY <1>1, <1>2 DEF NumbersInv
<1>4. ASSUME NEW ch \in Of(id), ch.of # k PROVE FALSE
  <2>1. k \in weak'
    BY <1>2, <1>4 DEF Weakens, Mixes
  <2>2. [id |-> ch.files_id, of |-> ch.of] \in given /\ ch.files_id = id
    BY <1>4 DEF NumbersInv, Of
  <2>3. \E g, h \in given : g.of = k /\ h.of # k /\ h.id = g.id
    BY <1>3, <1>4, <2>2
  <2> QED
    BY <1>2, <2>1, <2>3 DEF Shared
<1>5. \A ch \in Of(id) : ch.data = Piece(data, ch.n) /\ ch.data # <<>>
  BY <1>1, <1>2, <1>4 DEF PiecesInv, Of
<1>6. PICK m \in 0..Len(data) : Follow(Of(id), m) /\ CutFrom(Of(id), m, data)
  BY <1>2 DEF SameDigest
<1>7. \A n \in Nat : Before(n) < Len(data) => \E ch \in Of(id) : ch.n = n
  BY <1>5, <1>6, CutsAreAll
<1>8. ASSUME NEW n \in Nat, Before(n) < Len(data) PROVE Has(k, id, data, n)
  <2>1. PICK ch \in Of(id) : ch.n = n
    BY <1>7, <1>8
  <2>2. ch \in chunks /\ ch.files_id = id /\ ch.of = k /\ ch.data = Piece(data, n)
    BY <1>4, <1>5, <2>1 DEF Of
  <2>3. ch = [files_id |-> id, n |-> n, data |-> Piece(data, n), of |-> k]
    BY <2>1, <2>2 DEF TypeOK
  <2> QED
    BY <2>2, <2>3 DEF Has
<1> QED
  BY <1>2, <1>8 DEF HasAll

LEMMA CalcMd5Step ==
  ASSUME Safe, NEW c \in Clients, CalcMd5(c)
  PROVE  Safe'
<1>1. call[c].pc = "md5" /\ UNCHANGED <<files, chunks, indexed, calls, taken, given>>
  BY DEF CalcMd5, db
<1>2. call[c].op = "insert" /\ call[c].ack = "safe" /\ call[c].pc \notin Over
  BY <1>1 DEF Safe, PlaceInv, Placed, Over
<1>3. \/ \E pc \in {"index", "cleanup", "died"} : To(c, pc) /\ weak' = weak /\ faults' \in Nat
      \/ SameDigest(c) /\ To(c, "file") /\ Weakens(c) /\ UNCHANGED faults
  BY FailsIs DEF CalcMd5, Safe, TypeOK
<1>4. ASSUME NEW pc \in {"index", "cleanup", "died"}, To(c, pc), weak' = weak, faults' \in Nat
      PROVE  Safe'
  <2>1. indexed' \in BOOLEAN
    BY <1>1 DEF Safe, TypeOK
  <2> QED
    BY <1>1, <1>2, <1>4, <2>1, NothingGone, GoesOn DEF Over
<1>5. CASE SameDigest(c) /\ To(c, "file") /\ Weakens(c) /\ UNCHANGED faults
  <2>1. ~Shared(call[c].of)' => HasAll(call[c].of, The(c), call[c].data)
    <3>1. call'[c].of = call[c].of
      BY <1>5 DEF To, Safe, TypeOK, CallType
    <3> QED
      BY <1>1, <1>5, <3>1, DigestTells
  <2>2. weak \subseteq weak' /\ weak' \subseteq Nat
    <3>1. call[c].of \in Nat /\ weak \subseteq Nat
      BY DEF Safe, TypeOK, CallType
    <3>2. weak' = weak \/ weak' = weak \cup {call[c].of}
      BY <1>5 DEF Weakens
    <3> QED
      BY <3>1, <3>2
  <2> QED
    BY <1>1, <1>5, <2>1, <2>2, ReadyStep DEF db
<1> QED
  BY <1>3, <1>4, <1>5

LEMMA InsertFileStep ==
  ASSUME Safe, NEW c \in Clients, InsertFile(c)
  PROVE  Safe'
<1>1. call[c].pc = "file" /\ UNCHANGED <<chunks, indexed, calls, taken, given, weak>>
  BY DEF InsertFile, history
<1>2. call[c] \in CallType /\ call[c].op = "insert" /\ call[c].pc \notin Over
  BY <1>1 DEF Safe, TypeOK, PlaceInv, Placed, Over
<1> DEFINE doc == [_id |-> The(c), of |-> call[c].of, data |-> call[c].data, ack |-> call[c].ack]
<1>3. PICK pc \in Over : To(c, pc) /\ faults' \in Nat /\ (files' = files \/ files' = files \cup {doc})
  <2>1. "done" \in Over /\ "died" \in Over
    BY DEF Over
  <2> QED
    BY <2>1, FailsIs DEF InsertFile, Lost, Safe, TypeOK
<1>4. CASE files' = files
  <2>1. indexed' \in BOOLEAN
    BY <1>1 DEF Safe, TypeOK
  <2> QED
    BY <1>1, <1>2, <1>3, <1>4, <2>1, NothingGone, GoesOn
<1>5. CASE files' = files \cup {doc}
  <2> DEFINE x == [call[c] EXCEPT !.pc = pc]
  <2>1. x \in CallType
    <3>1. pc \in Pcs
      BY DEF Over, Pcs
    <3> QED
      BY <1>2, <3>1 DEF CallType
  <2>2. call' \in [Clients -> CallType] /\ Moves(c, x) /\ x.pc = pc /\ SameInsert(c, x)
    BY <1>2, <1>3, <2>1, ToIs DEF Safe
  <2>3. Placed(x)
    BY <1>2, <2>2 DEF SameInsert, Placed, Safe, PlaceInv, Over
  <2> HIDE DEF x
  <2>4. PlaceInv'
    BY <2>2, <2>3, MovePlaced DEF Safe
  <2>5. TypeOK'
    <3>1. The(c) \in Ids
      BY <1>2, TheIs DEF Safe
    <3>2. doc \in [_id : Ids, of : Nat, data : Seq(Nat), ack : {"safe", "acked", "none"}]
      BY <1>2, <3>1 DEF CallType
    <3> HIDE DEF doc
    <3> QED
      BY <1>1, <1>3, <1>5, <2>2, <3>2 DEF Safe, TypeOK
  <2>6. FileInv'
    BY <1>1, <1>5, <2>2, PutKeeps DEF Safe, Over
  <2> QED
    BY <2>4, <2>5, <2>6 DEF Safe
<1> QED
  BY <1>3, <1>4, <1>5

LEMMA UnusedIs ==
  ASSUME Safe, NEW c \in Clients, Unused(c)
  PROVE  calls' = calls + 1 /\ calls + 1 \in Nat
BY DEF Unused, Safe, TypeOK

(* The calls that are not inserts *)
LEMMA StartRemoveStep ==
  ASSUME Safe, NEW c \in Clients, StartRemove(c)
  PROVE  Safe'
<1>1. PICK ids \in SUBSET Ids, ack \in {"safe", "none"} :
        call' = [call EXCEPT ![c] = [Call("remove", "chunks", calls + 1, ids, ack, <<>>) EXCEPT
                                        !.todo = {f._id : f \in {g \in files : g._id \in ids}}]]
  BY DEF StartRemove
<1>2. calls' = calls + 1 /\ calls + 1 \in Nat /\ UNCHANGED <<files, chunks, indexed, faults, taken, given, weak>>
  BY UnusedIs DEF StartRemove, db, history
<1> DEFINE x == [Call("remove", "chunks", calls + 1, ids, ack, <<>>) EXCEPT
                    !.todo = {f._id : f \in {g \in files : g._id \in ids}}]
<1>3. x \in CallType /\ x.op = "remove" /\ x.pc = "chunks"
  <2>1. {f._id : f \in {g \in files : g._id \in ids}} \in SUBSET Ids
    OBVIOUS
  <2>2. <<>> \in Seq(Nat)
    BY EmptySeq
  <2> QED
    BY <1>2, <2>1, <2>2 DEF Call, CallType, Pcs, Printed
<1>4. Placed(x)
  BY <1>3 DEF Placed
<1>5. indexed' \in BOOLEAN /\ faults' \in Nat
  BY <1>2 DEF Safe, TypeOK
<1>6. call' = [call EXCEPT ![c] = x]
  BY <1>1
<1> HIDE DEF x
<1> QED
  BY <1>2, <1>3, <1>4, <1>5, <1>6, NothingGone, MovesOn

LEMMA RemoveChunksStep ==
  ASSUME Safe, NEW c \in Clients, RemoveChunks(c)
  PROVE  Safe'
<1>1. /\ call[c].pc = "chunks" /\ call[c].op = "remove" /\ UNCHANGED <<files, indexed, calls, given, weak>>
  BY DEF RemoveChunks
<1>2. call[c] \in CallType /\ call[c].pc \notin Over /\ indexed' \in BOOLEAN
  BY <1>1 DEF Safe, TypeOK, Over
<1>3. PICK id \in call[c].todo :
        /\ TakeChunks(Of(id)) \/ UNCHANGED <<chunks, taken>>
        /\ call' = [call EXCEPT ![c].todo = @ \ {id}] \/ To(c, "died")
        /\ faults' \in Nat
  BY FailsIs DEF RemoveChunks, Lost, Safe, TypeOK
<1>4. /\ chunks' \subseteq chunks /\ taken \subseteq taken' /\ taken' \subseteq Nat
      /\ \A ch \in chunks : ch \in chunks' \/ ch.of \in taken' \/ StillChecks(ch.of)
  <2>1. Of(id) \subseteq chunks
    BY DEF Of
  <2> QED
    BY <1>3, <2>1, ChunksGone, NothingGone
<1>5. CASE To(c, "died")
  BY <1>1, <1>2, <1>3, <1>4, <1>5, GoesOn DEF Over
<1>6. CASE call' = [call EXCEPT ![c].todo = @ \ {id}]
  <2> DEFINE left == call[c].todo \ {id}
             x == [call[c] EXCEPT !.todo = left]
  <2>1. left \in SUBSET Ids
    BY <1>2 DEF CallType
  <2>2. x \in CallType /\ x.op = "remove" /\ x.pc = "chunks"
    <3> HIDE DEF left
    <3> QED
      BY <1>1, <1>2, <2>1 DEF CallType
  <2>3. Placed(x)
    BY <2>2 DEF Placed
  <2>4. call' = [call EXCEPT ![c] = x]
    BY <1>6
  <2> HIDE DEF x
  <2> QED
    BY <1>1, <1>2, <1>3, <1>4, <2>2, <2>3, <2>4, MovesOn
<1> QED
  BY <1>3, <1>5, <1>6

LEMMA RemoveFilesStep ==
  ASSUME Safe, NEW c \in Clients, RemoveFiles(c)
  PROVE  Safe'
<1>1. /\ call[c].pc = "chunks" /\ UNCHANGED <<chunks, indexed, calls, taken, given, weak>>
  BY DEF RemoveFiles, history
<1>2. call[c].pc \notin Over /\ indexed' \in BOOLEAN
  BY <1>1 DEF Safe, TypeOK, Over
<1>3. PICK pc \in Over : To(c, pc) /\ faults' \in Nat /\ files' \subseteq files
  <2>1. "done" \in Over /\ "died" \in Over
    BY DEF Over
  <2> QED
    BY <2>1, FailsIs DEF RemoveFiles, Lost, Safe, TypeOK
<1> QED
  BY <1>1, <1>2, <1>3, NothingGone, GoesOn

LEMMA StartDropStep ==
  ASSUME Safe, NEW c \in Clients, StartDrop(c)
  PROVE  Safe'
<1>1. call' = [call EXCEPT ![c] = Call("drop", "files", calls + 1, Ids, "safe", <<>>)]
  BY DEF StartDrop
<1>2. calls' = calls + 1 /\ calls + 1 \in Nat /\ UNCHANGED <<files, chunks, indexed, faults, taken, given, weak>>
  BY UnusedIs DEF StartDrop, db, history
<1> DEFINE x == Call("drop", "files", calls + 1, Ids, "safe", <<>>)
<1>3. x \in CallType /\ x.op = "drop" /\ x.pc = "files"
  <2>1. <<>> \in Seq(Nat)
    BY EmptySeq
  <2> QED
    BY <1>2, <2>1 DEF Call, CallType, Pcs, Printed
<1>4. Placed(x)
  BY <1>3 DEF Placed
<1>5. indexed' \in BOOLEAN /\ faults' \in Nat
  BY <1>2 DEF Safe, TypeOK
<1> HIDE DEF x
<1> QED
  BY <1>1, <1>2, <1>3, <1>4, <1>5, NothingGone, MovesOn DEF x

LEMMA DropFilesStep ==
  ASSUME Safe, NEW c \in Clients, DropFiles(c)
  PROVE  Safe'
<1>1. call[c].pc = "files" /\ UNCHANGED <<chunks, indexed, calls, taken, given, weak>>
  BY DEF DropFiles, history
<1>2. call[c].pc \notin Over /\ call[c].op = "drop" /\ indexed' \in BOOLEAN
  BY <1>1 DEF Safe, TypeOK, PlaceInv, Placed, Over
<1>3. PICK pc \in {"drop", "died"} : To(c, pc) /\ faults' \in Nat /\ files' \subseteq files
  BY FailsIs DEF DropFiles, Safe, TypeOK
<1> QED
  BY <1>1, <1>2, <1>3, NothingGone, GoesOn DEF Over

LEMMA DropChunksStep ==
  ASSUME Safe, NEW c \in Clients, DropChunks(c)
  PROVE  Safe'
<1>1. call[c].pc = "drop" /\ UNCHANGED <<files, calls, given, weak>>
  BY DEF DropChunks
<1>2. call[c].pc \notin Over /\ call[c].op = "drop"
  BY <1>1 DEF Safe, PlaceInv, Placed, Over
<1>3. PICK pc \in {"ensure", "died"} : To(c, pc) /\ faults' \in Nat
  BY FailsIs DEF DropChunks, Safe, TypeOK
<1>4. /\ chunks' \subseteq chunks /\ taken \subseteq taken' /\ taken' \subseteq Nat
      /\ \A ch \in chunks : ch \in chunks' \/ ch.of \in taken' \/ StillChecks(ch.of)
  <2>1. TakeChunks(chunks) \/ UNCHANGED <<chunks, taken>>
    BY DEF DropChunks
  <2> QED
    BY <2>1, ChunksGone, NothingGone
<1>5. indexed' \in BOOLEAN
  BY DEF DropChunks, Safe, TypeOK
<1> QED
  BY <1>1, <1>2, <1>3, <1>4, <1>5, GoesOn DEF Over

LEMMA EnsureIndexesStep ==
  ASSUME Safe, NEW c \in Clients, EnsureIndexes(c)
  PROVE  Safe'
<1>1. call[c].pc = "ensure" /\ UNCHANGED <<files, chunks, calls, taken, given, weak>>
  BY DEF EnsureIndexes, history
<1>2. call[c].pc \notin Over
  BY <1>1 DEF Over
<1>3. PICK pc \in Over : To(c, pc) /\ faults' \in Nat
  <2>1. "done" \in Over /\ "died" \in Over
    BY DEF Over
  <2> QED
    BY <2>1, FailsIs DEF EnsureIndexes, Dies, Safe, TypeOK
<1>4. indexed' \in BOOLEAN
  BY DEF EnsureIndexes, Safe, TypeOK
<1> QED
  BY <1>1, <1>2, <1>3, <1>4, NothingGone, GoesOn

LEMMA GetStep ==
  ASSUME Safe, NEW c \in Clients, Get(c)
  PROVE  Safe'
<1>1. PICK f \in files : call' = [call EXCEPT ![c] = Call("print", "query", f.of, {f._id}, "safe", f.data)]
  BY DEF Get
<1>2. calls' = calls + 1 /\ UNCHANGED <<files, chunks, indexed, faults, taken, given, weak>>
  BY UnusedIs DEF Get, db, history
<1>3. f._id \in Ids /\ f.of \in Nat /\ f.data \in Seq(Nat)
  BY DEF Safe, TypeOK
<1> DEFINE x == Call("print", "query", f.of, {f._id}, "safe", f.data)
<1>4. x \in CallType /\ x.op = "print" /\ x.pc = "query" /\ x.ids = {f._id}
  <2>1. <<>> \in Seq(Nat)
    BY EmptySeq
  <2> QED
    BY <1>3, <2>1 DEF Call, CallType, Pcs, Printed
<1>5. Placed(x)
  BY <1>3, <1>4 DEF Placed
<1>6. indexed' \in BOOLEAN /\ faults' \in Nat
  BY <1>2 DEF Safe, TypeOK
<1> HIDE DEF x
<1> QED
  BY <1>1, <1>2, <1>4, <1>5, <1>6, NothingGone, MovesOn DEF x

P == [out : Seq(Nat), written : Nat, pos : Nat]

LEMMA SubstrIs ==
  ASSUME NEW data \in Seq(Nat), NEW offset \in Nat, NEW length \in Nat
  PROVE  substr(data, offset, length) \in Seq(Nat)
<1>1. Len(data) \in Nat
  OBVIOUS
<1>2. PICK b \in Nat : /\ b = IF offset + length < Len(data) THEN offset + length ELSE Len(data)
                       /\ b <= Len(data)
  BY <1>1
<1>3. substr(data, offset, length) = SubSeq(data, offset + 1, b)
  BY <1>2 DEF substr
<1> QED
  BY <1>2, <1>3, Part

LEMMA PrintChunkIs ==
  ASSUME NEW p \in P, NEW data \in Seq(Nat), NEW length \in Nat, NEW offset \in Nat,
         ~(length # 0 /\ p.written >= length)
  PROVE  PrintChunk(p, data, length, offset) \in P
<1>1. p.out \in Seq(Nat) /\ p.written \in Nat /\ p.pos \in Nat /\ Len(data) \in Nat
  BY DEF P
<1>2. \A s \in Seq(Nat) : p.out \o s \in Seq(Nat)
  BY <1>1, ConcatProperties
<1>3. \A o \in Seq(Nat), w \in Nat, q \in Nat : [out |-> o, written |-> w, pos |-> q] \in P
  BY DEF P
<1>4. CASE offset = 0 \/ p.pos >= offset
  <2>1. CASE length = 0 \/ p.written + Len(data) < length
    <3>1. PrintChunk(p, data, length, offset) =
             [out |-> p.out \o data, written |-> p.written + Len(data), pos |-> p.pos + Len(data)]
      BY <1>4, <2>1 DEF PrintChunk
    <3>2. p.written + Len(data) \in Nat /\ p.pos + Len(data) \in Nat
      BY <1>1
    <3> QED
      BY <1>2, <1>3, <3>1, <3>2
  <2>2. CASE ~(length = 0 \/ p.written + Len(data) < length)
    <3>1. PrintChunk(p, data, length, offset) =
             [out |-> p.out \o substr(data, 0, length - p.written), written |-> length, pos |-> p.pos]
      BY <1>4, <2>2 DEF PrintChunk
    <3>2. length - p.written \in Nat
      BY <1>1, <2>2
    <3>3. substr(data, 0, length - p.written) \in Seq(Nat)
      BY <3>2, SubstrIs
    <3> QED
      BY <1>1, <1>2, <1>3, <3>1, <3>3
  <2> QED
    BY <2>1, <2>2
<1>5. CASE ~(offset = 0 \/ p.pos >= offset) /\ p.pos + Len(data) > offset
  <2>1. offset - p.pos \in Nat /\ Len(data) - (offset - p.pos) \in Nat
    BY <1>1, <1>5
  <2>2. CASE length = 0 \/ Len(data) <= length - p.written
    <3>1. PrintChunk(p, data, length, offset) =
             [out |-> p.out \o substr(data, offset - p.pos, Len(data) - (offset - p.pos)),
              written |-> p.written + Len(data) - (offset - p.pos), pos |-> p.pos + Len(data) - (offset - p.pos)]
      BY <1>5, <2>2 DEF PrintChunk
    <3>2. /\ p.written + Len(data) - (offset - p.pos) \in Nat
          /\ p.pos + Len(data) - (offset - p.pos) \in Nat
      <4>1. \A w, l, k \in Nat : l - k \in Nat => w + l - k \in Nat
        OBVIOUS
      <4> QED
        BY <1>1, <2>1, <4>1
    <3>3. substr(data, offset - p.pos, Len(data) - (offset - p.pos)) \in Seq(Nat)
      BY <2>1, SubstrIs
    <3> QED
      BY <1>2, <1>3, <3>1, <3>2, <3>3
  <2>3. CASE ~(length = 0 \/ Len(data) <= length - p.written)
    <3>1. PrintChunk(p, data, length, offset) =
             [out |-> p.out \o substr(data, offset - p.pos, length),
              written |-> p.written + length, pos |-> p.pos + length]
      BY <1>5, <2>3 DEF PrintChunk
    <3>2. p.written + length \in Nat /\ p.pos + length \in Nat
      BY <1>1
    <3>3. substr(data, offset - p.pos, length) \in Seq(Nat)
      BY <2>1, SubstrIs
    <3> QED
      BY <1>2, <1>3, <3>1, <3>2, <3>3
  <2> QED
    BY <2>2, <2>3
<1>6. CASE ~(offset = 0 \/ p.pos >= offset) /\ ~(p.pos + Len(data) > offset)
  <2>1. PrintChunk(p, data, length, offset) = [p EXCEPT !.pos = p.pos + Len(data)]
    BY <1>6 DEF PrintChunk
  <2>2. p.pos + Len(data) \in Nat
    BY <1>1
  <2> DEFINE q == p.pos + Len(data)
  <2> HIDE DEF q
  <2>3. [p EXCEPT !.pos = q] \in P
    BY <2>2 DEF P, q
  <2> QED
    BY <2>1, <2>3 DEF q
<1> QED
  BY <1>4, <1>5, <1>6

LEMMA printStep ==
  ASSUME Safe, NEW c \in Clients, NEW r \in Ranges, print(c, r)
  PROVE  Safe'
<1>1. call[c].pc = "query" /\ UNCHANGED <<files, chunks, calls, taken, given, weak>>
  BY DEF print, history
<1>2. call[c] \in CallType /\ call[c].op = "print" /\ call[c].pc \notin Over
  BY <1>1 DEF Safe, TypeOK, PlaceInv, Placed, Over
<1> DEFINE cs == {[n |-> ch.n, data |-> ch.data] : ch \in Of(The(c))}
           x == [call[c] EXCEPT !.pc = "print", !.range = r, !.found = cs, !.left = cs]
<1>3. cs \in SUBSET Piecelike
  BY DEF Of, Safe, TypeOK, Piecelike
<1>4. /\ indexed' \in BOOLEAN /\ faults' \in Nat
      /\ call' = [call EXCEPT ![c] = x] \/ To(c, "died")
  BY FailsIs DEF print, Dies, Safe, TypeOK
<1>5. CASE To(c, "died")
  BY <1>1, <1>2, <1>4, <1>5, NothingGone, GoesOn DEF Over
<1>6. CASE call' = [call EXCEPT ![c] = x]
  <2>1. r \in [length : Nat, offset : Nat]
    BY GridFSAssumption
  <2>2. x \in CallType /\ x.op = "print" /\ x.pc = "print" /\ x.ids = call[c].ids
    <3> HIDE DEF cs
    <3> QED
      BY <1>2, <1>3, <2>1 DEF CallType, Pcs
  <2>3. Placed(x)
    BY <1>2, <2>2 DEF Placed, Safe, PlaceInv
  <2> HIDE DEF x
  <2> QED
    BY <1>1, <1>4, <1>6, <2>2, <2>3, NothingGone, MovesOn
<1> QED
  BY <1>4, <1>5, <1>6

LEMMA WriteChunkStep ==
  ASSUME Safe, NEW c \in Clients, WriteChunk(c)
  PROVE  Safe'
<1> DEFINE r == call[c].range
<1>1. /\ call[c].pc = "print" /\ ~(r.length # 0 /\ call[c].p.written >= r.length)
      /\ UNCHANGED <<files, chunks, indexed, calls, faults, taken, given, weak>>
  BY DEF WriteChunk, db, history
<1>2. call[c] \in CallType /\ call[c].op = "print"
  BY <1>1 DEF Safe, TypeOK, PlaceInv, Placed
<1>3. PICK ch \in call[c].left : call' = [call EXCEPT ![c].left = @ \ {ch},
                                                     ![c].p = PrintChunk(@, ch.data, r.length, r.offset)]
  BY DEF WriteChunk
<1> DEFINE left == call[c].left \ {ch}
           p == PrintChunk(call[c].p, ch.data, r.length, r.offset)
           x == [call[c] EXCEPT !.left = left, !.p = p]
<1>4. left \in SUBSET Piecelike /\ ch \in Piecelike /\ call[c].p \in P /\ r \in [length : Nat, offset : Nat]
  BY <1>2 DEF CallType, P
<1>5. p \in P
  BY <1>1, <1>4, PrintChunkIs DEF Piecelike
<1>6. call' = [call EXCEPT ![c] = x]
  BY <1>3
<1>7. x \in CallType /\ x.op = "print" /\ x.pc = "print" /\ x.ids = call[c].ids
  <2> HIDE DEF left, p
  <2> QED
    BY <1>1, <1>2, <1>4, <1>5 DEF CallType, P
<1>8. Placed(x)
  BY <1>2, <1>7 DEF Placed, Safe, PlaceInv
<1>9. indexed' \in BOOLEAN /\ faults' \in Nat
  BY <1>1 DEF Safe, TypeOK
<1> HIDE DEF x, r, left, p
<1> QED
  BY <1>1, <1>6, <1>7, <1>8, <1>9, NothingGone, MovesOn

LEMMA WroteAllStep ==
  ASSUME Safe, NEW c \in Clients, WroteAll(c)
  PROVE  Safe'
<1>1. /\ call[c].pc = "print" /\ To(c, "done")
      /\ UNCHANGED <<files, chunks, indexed, calls, faults, taken, given, weak>>
  BY DEF WroteAll, db, history
<1>2. call[c].pc \notin Over /\ indexed' \in BOOLEAN /\ faults' \in Nat
  BY <1>1 DEF Safe, TypeOK, Over
<1> QED
  BY <1>1, <1>2, NothingGone, GoesOn DEF Over

-----------------------------------------------------------------------------
(* Files are whole *)

LEMMA SafeInit == Init => Safe
<1>1. SUFFICES ASSUME Init PROVE Safe
  BY <1>1
<1>2. files = {} /\ chunks = {} /\ given = {} /\ \A c \in Clients : call[c] = Idle
  BY <1>1 DEF Init
<1>3. Idle.op = "none" /\ Idle.pc = "done" /\ Idle \in CallType
  <2>1. <<>> \in Seq(Nat)
    BY EmptySeq
  <2> QED
    BY <2>1 DEF Idle, Call, CallType, Pcs, Printed
<1>4. TypeOK
  BY <1>1, <1>3 DEF Init, TypeOK
<1>5. PlaceInv
  BY <1>2, <1>3 DEF PlaceInv, Placed
<1>6. FileInv
  BY <1>2, <1>3 DEF FileInv, NumbersInv, PiecesInv, WeakInv, KeepsInv, Inserts
<1> QED
  BY <1>4, <1>5, <1>6 DEF Safe

LEMMA SafeNext == Safe /\ [Next]_vars => Safe'
<1>1. SUFFICES ASSUME Safe, [Next]_vars PROVE Safe'
  BY <1>1
<1>2. CASE UNCHANGED vars
  <2>1. UNCHANGED <<files, chunks, indexed, call, calls, faults, taken, given, weak>>
    BY <1>2 DEF vars, db, history
  <2>2. TypeOK' /\ PlaceInv'
    BY <1>1, <2>1 DEF Safe, TypeOK, PlaceInv, Placed
  <2>3. NumbersInv' /\ PiecesInv' /\ WeakInv'
    BY <1>1, <2>1 DEF Safe, FileInv, NumbersInv, PiecesInv, WeakInv, Inserts, The
  <2>4. KeepsInv'
    BY <1>1, <2>1 DEF Safe, FileInv, KeepsInv, HasAll, Has, Shared, The
  <2> QED
    BY <2>2, <2>3, <2>4 DEF Safe, FileInv
<1>3. CASE Next
  BY <1>1, <1>3, StartInsertStep, InsertChunkStep, ReadAllStep, CalcMd5Step, RetryStep, CleanUpStep,
     InsertFileStep, StartRemoveStep, RemoveChunksStep, RemoveFilesStep, StartDropStep, DropFilesStep,
     DropChunksStep, EnsureIndexesStep, GetStep, printStep, WriteChunkStep, WroteAllStep DEF Next
<1> QED
  BY <1>1, <1>2, <1>3

(* The documents, the chunks and the calls have their types.               *)
THEOREM TypeCorrect == Spec => []TypeOK
<1>1. Safe => TypeOK
  BY DEF Safe
<1> QED
  BY <1>1, SafeInit, SafeNext, PTL DEF Spec

(* The chunks of a file with its _id are its own, and all its pieces are   *)
(* among them.                                                             *)
LEMMA WholeFile ==
  ASSUME Safe, NEW f \in files, f.ack # "none", f.of \notin taken, ~Mixed(f)
  PROVE  Whole(Of(f._id), f.data)
<1>. USE DEF Safe, FileInv
<1>1. PICK data, k, id : data \in Seq(Nat) /\ data = f.data /\ k = f.of /\ id = f._id
  BY DEF TypeOK
<1>. data \in Seq(Nat)
  BY <1>1
<1>2. [id |-> id, of |-> k] \in given
  BY <1>1 DEF NumbersInv
<1>3. ASSUME k \in weak, NEW h \in given, h.of # k, h.id = id PROVE FALSE
  BY <1>1, <1>2, <1>3 DEF Mixed
<1>4. ASSUME NEW h \in given, h.of \in weak, h.of # k, h.id = id PROVE FALSE
  BY <1>1, <1>2, <1>4 DEF Mixed
<1>5. ~Shared(k)
  BY <1>2, <1>3 DEF Shared, NumbersInv
<1>6. HasAll(k, id, data)
  BY <1>1, <1>5 DEF KeepsInv
<1>7. ASSUME NEW ch \in Of(id) PROVE ch.of = k
  <2>1. SUFFICES ASSUME ch.of # k PROVE FALSE
    BY <2>1
  <2>2. ch \in chunks /\ ch.files_id = id /\ [id |-> id, of |-> ch.of] \in given
    BY DEF Of, NumbersInv
  <2>3. data # <<>>
    BY <1>1, <1>3, <2>1, <2>2 DEF WeakInv
  <2>4. 0 < Len(data) /\ Before(0) = 0
    <3>1. 0 \in Nat /\ Before(0) = 0
      BY BeforeIs
    <3> QED
      BY <2>3, <3>1, NoBytes
  <2>5. [files_id |-> id, n |-> 0, data |-> Piece(data, 0), of |-> k] \in chunks
    BY <1>6, <2>4 DEF HasAll, Has
  <2>6. k \in weak \/ ch.of \in weak
    BY <2>1, <2>2, <2>5 DEF WeakInv
  <2> QED
    BY <1>3, <1>4, <2>1, <2>2, <2>6
<1>8. \A ch \in Of(id) : ch.data = Piece(data, ch.n) /\ ch.data # <<>> /\ ch.n \in Nat
  BY <1>1, <1>7 DEF PiecesInv, Of, TypeOK
<1>9. ASSUME NEW n \in Nat, Before(n) < Len(data) PROVE \E ch \in Of(id) : ch.n = n /\ ch.data = Piece(data, n)
  <2> DEFINE ch == [files_id |-> id, n |-> n, data |-> Piece(data, n), of |-> k]
  <2>1. ch \in chunks
    BY <1>6, <1>9 DEF HasAll, Has
  <2>2. ch \in Of(id) /\ ch.n = n /\ ch.data = Piece(data, n)
    BY <2>1 DEF Of
  <2> QED
    BY <2>2
<1>10. \A n \in Nat : Piece(data, n) # <<>> => Before(n) < Len(data)
  <2>1. \A n \in Nat : Before(n) \in Nat /\ (Before(n) >= Len(data) => Piece(data, n) = <<>>)
    BY BeforeIs, PieceIs
  <2>2. Len(data) \in Nat
    OBVIOUS
  <2> QED
    BY <2>1, <2>2
<1>11. Pieces(data) = {[n |-> n, data |-> Piece(data, n)] : n \in {m \in Nat : Before(m) < Len(data)}}
  BY PiecesAre
<1> QED
  BY <1>1, <1>8, <1>9, <1>10, <1>11 DEF Whole

(* A file that can be found has its chunks, whatever else is going on,     *)
(* with the exceptions that FilesWhole names.                              *)
THEOREM FilesAreWhole == Spec => []FilesWhole
<1>1. Safe => FilesWhole
  BY WholeFile DEF FilesWhole
<1> QED
  BY <1>1, SafeInit, SafeNext, PTL DEF Spec

-----------------------------------------------------------------------------
(* What print writes *)

LEMMA Joined ==
  \A data \in Seq(Nat) : \A a, b, e \in Nat :
     a <= b /\ b <= e /\ e <= Len(data) => SubSeq(data, a + 1, b) \o SubSeq(data, b + 1, e) = SubSeq(data, a + 1, e)
<1> SUFFICES ASSUME NEW data \in Seq(Nat), NEW a \in Nat, NEW b \in Nat, NEW e \in Nat,
                    a <= b, b <= e, e <= Len(data)
             PROVE  SubSeq(data, a + 1, b) \o SubSeq(data, b + 1, e) = SubSeq(data, a + 1, e)
  OBVIOUS
<1>1. /\ a + 1 \in 1..(Len(data) + 1)
      /\ b \in (a + 1 - 1)..Len(data) /\ e \in b..Len(data)
  OBVIOUS
<1> QED
  BY <1>1, ConcatAdjacentSubSeq

LEMMA PartOfPart ==
  ASSUME NEW data \in Seq(Nat), NEW a \in Nat, NEW b \in Nat, a <= b, b <= Len(data),
         NEW i \in Nat, NEW j \in Nat, i <= j, j <= b - a
  PROVE  SubSeq(SubSeq(data, a + 1, b), i + 1, j) = SubSeq(data, a + i + 1, a + j)
<1>1. CASE i = j
  <2>1. j < i + 1 /\ i + 1 \in Int /\ j \in Int
    BY <1>1
  <2>2. a + j < a + i + 1 /\ a + i + 1 \in Int /\ a + j \in Int
    BY <1>1
  <2> QED
    BY <2>1, <2>2, SubSeqEmpty
<1>2. CASE i < j
  <2>1. /\ a + 1 \in 1..Len(data) /\ b \in 1..Len(data)
        /\ i + 1 \in 1..(b - (a + 1) + 1) /\ j \in 1..(b - (a + 1) + 1)
    BY <1>2
  <2>2. SubSeq(SubSeq(data, a + 1, b), i + 1, j) = SubSeq(data, (a + 1) + (i + 1) - 1, (a + 1) + j - 1)
    BY <2>1, SubSeqOfSubSeq
  <2>3. (a + 1) + (i + 1) - 1 = a + i + 1 /\ (a + 1) + j - 1 = a + j
    OBVIOUS
  <2> QED
    BY <2>2, <2>3
<1> QED
  BY <1>1, <1>2

LEMMA InsideIs ==
  ASSUME NEW k \in Nat, NEW o \in Nat, Before(k) <= o, o < Before(k + 1)
  PROVE  o % chunk_size = o - Before(k)
<1>1. /\ Before(k) \in Nat /\ Before(k + 1) = Before(k) + chunk_size
      /\ chunk_size \in Nat /\ chunk_size > 0
  BY BeforeIs
<1>2. o - Before(k) \in 0..(chunk_size - 1) /\ o = k * chunk_size + (o - Before(k))
  BY <1>1 DEF Before
<1>3. \A c \in Nat \ {0} : \A d \in 0..(c - 1) : (k * c + d) % c = d
  OBVIOUS
<1> QED
  BY <1>1, <1>2, <1>3

(* What is known of the range in the chunk of bytes a + 1 to b in which it *)
(* starts                                                                  *)
LEMMA StartsIn ==
  ASSUME NEW data \in Seq(Nat), NEW r \in [length : Nat, offset : Nat], NEW k \in Nat, Before(k) < Len(data),
         NEW a, a = Reached(k, data), NEW b, b = Reached(k + 1, data)
  PROVE  /\ a = r.offset => r.offset % chunk_size = 0
         /\ a < r.offset /\ r.offset < b => r.offset % chunk_size # 0
         /\ a < r.offset /\ r.offset < b /\ Straight(r, data) =>
               \/ r.length > 0 /\ r.offset + r.length <= b
               \/ b = Len(data) /\ (r.length = 0 \/ r.length >= b - a)
<1> DEFINE o == r.offset
           L == r.length
           inside == o % chunk_size
<1>1. /\ a = Before(k)
      /\ b = IF a + chunk_size < Len(data) THEN a + chunk_size ELSE Len(data)
      /\ Before(k) \in Nat /\ Before(k + 1) = a + chunk_size
      /\ chunk_size \in Nat /\ chunk_size > 0
  BY BeforeIs DEF Reached
<1>2. o \in Nat /\ L \in Nat /\ Len(data) \in Nat
  OBVIOUS
<1>3. a <= o /\ o < b => inside = o - a
  <2>1. a <= o /\ o < b => Before(k) <= o /\ o < Before(k + 1)
    <3> HIDE DEF o
    <3> QED
      BY ONLY <1>1, <1>2
  <2> QED
    BY <1>1, <1>2, <2>1, InsideIs
<1>4. a < b
  BY <1>1, <1>2
<1>5. Straight(r, data) =>
        \/ inside = 0 \/ o >= Len(data)
        \/ L > 0 /\ inside + L <= chunk_size /\ inside + L <= Len(data) - (o - inside)
        \/ Len(data) - (o - inside) <= chunk_size /\ (L = 0 \/ L >= Len(data) - (o - inside))
  BY DEF Straight
<1> HIDE DEF inside, o, L
<1>6. a = o => inside = 0
  BY ONLY <1>1, <1>2, <1>3, <1>4
<1>7. a < o /\ o < b => inside # 0
  BY ONLY <1>1, <1>2, <1>3
<1>8. ASSUME a < o, o < b, Straight(r, data)
      PROVE  \/ L > 0 /\ o + L <= b
             \/ b = Len(data) /\ (L = 0 \/ L >= b - a)
  <2>0. a \in Nat /\ b \in Nat /\ b <= Len(data)
    BY ONLY <1>1, <1>2
  <2>1. inside = o - a /\ o - inside = a /\ o < Len(data) /\ inside # 0 /\ inside \in Nat
    BY ONLY <1>2, <1>3, <1>8, <2>0
  <2>2. \/ L > 0 /\ (o - a) + L <= chunk_size /\ (o - a) + L <= Len(data) - a
        \/ Len(data) - a <= chunk_size /\ (L = 0 \/ L >= Len(data) - a)
    <3>1. \/ L > 0 /\ inside + L <= chunk_size /\ inside + L <= Len(data) - a
          \/ Len(data) - a <= chunk_size /\ (L = 0 \/ L >= Len(data) - a)
      <4>1. ~(o >= Len(data))
        BY ONLY <1>2, <2>1
      <4> QED
        BY ONLY <1>5, <1>8, <2>1, <4>1
    <3>2. chunk_size \in Nat /\ Len(data) \in Nat /\ L \in Nat
      BY ONLY <1>1, <1>2
    <3> QED
      BY ONLY <2>1, <3>1, <3>2
  <2> QED
    <3>1. /\ chunk_size \in Nat /\ Len(data) \in Nat /\ L \in Nat /\ o \in Nat
          /\ b = IF a + chunk_size < Len(data) THEN a + chunk_size ELSE Len(data)
      BY ONLY <1>1, <1>2
    <3> QED
      BY ONLY <2>0, <2>2, <3>1
<1> QED
  BY <1>6, <1>7, <1>8 DEF inside, o, L

(* One chunk, of the bytes a + 1 to b, and what has been written before it *)
(* and after it                                                            *)
NextChunk(p, d, r, data, a, b) ==
    /\ a < b /\ b <= Len(data) /\ d = SubSeq(data, a + 1, b) /\ Len(d) = b - a
    /\ p.out = SubSeq(data, r.offset + 1, End(r, a)) /\ p.written = Len(p.out) /\ p.pos = a /\ ~Full(p, r)
    /\ a < r.offset /\ r.offset < b =>
          \/ r.length > 0 /\ r.offset + r.length <= b
          \/ b = Len(data) /\ (r.length = 0 \/ r.length >= b - a)
Advanced(y, r, data, a, b) ==
    /\ y.out = SubSeq(data, r.offset + 1, End(r, b)) /\ y.written = Len(y.out)
    /\ b <= r.offset => y.pos = b
    /\ r.offset <= a => Full(y, r) \/ y.pos = b
    /\ a < r.offset /\ r.offset < b => Full(y, r) \/ b = Len(data)

LEMMA Writes ==
  ASSUME NEW data \in Seq(Nat), NEW r \in [length : Nat, offset : Nat], NEW a \in Nat, NEW b \in Nat,
         NEW d \in Seq(Nat), NEW p \in P, NextChunk(p, d, r, data, a, b)
  PROVE  Advanced(PrintChunk(p, d, r.length, r.offset), r, data, a, b)
<1> USE DEF NextChunk
<1> DEFINE N == Len(data)
           l == Len(d)
           L == r.length
           o == r.offset
           ea == End(r, a)
           eb == End(r, b)
           out == p.out
           written == p.written
           pos == p.pos
           y == PrintChunk(p, d, L, o)
<1>0. p.out \in Seq(Nat) /\ p.written \in Nat /\ p.pos \in Nat
  BY DEF P
<1>1. /\ a \in Nat /\ b \in Nat /\ N \in Nat /\ L \in Nat /\ o \in Nat /\ l \in Nat
      /\ a < b /\ b <= N /\ l = b - a /\ pos = a /\ written \in Nat /\ (L = 0 \/ written < L)
  <2>1. L = 0 \/ ~(written >= L)
    BY DEF Full
  <2> QED
    BY <1>0, <2>1
<1>2. /\ ea = IF L # 0 /\ o + L < a THEN o + L ELSE a
      /\ eb = IF L # 0 /\ o + L < b THEN o + L ELSE b
      /\ ea \in Nat /\ eb \in Nat
  <2>1. /\ ea = IF L # 0 /\ o + L < a THEN o + L ELSE a
        /\ eb = IF L # 0 /\ o + L < b THEN o + L ELSE b
    BY DEF End
  <2> HIDE DEF L, o, ea, eb
  <2> QED
    BY ONLY <1>1, <2>1
<1>3. a < o /\ o < b => (L > 0 /\ o + L <= b) \/ (b = N /\ (L = 0 \/ L >= b - a))
  OBVIOUS
<1>4. data \in Seq(Nat) /\ out = SubSeq(data, o + 1, ea) /\ written = Len(out) /\ d = SubSeq(data, a + 1, b) /\ d \in Seq(Nat)
  OBVIOUS
<1>11. /\ p.out = out /\ p.written = written /\ p.pos = pos
       /\ y = PrintChunk(p, d, L, o) /\ Len(d) = l /\ N = Len(data)
  OBVIOUS
<1>17. ASSUME NEW x PROVE LET e == [p EXCEPT !.pos = x] IN e.out = out /\ e.written = written /\ e.pos = x
  BY ONLY p \in P DEF P
<1> SUFFICES /\ y.out = SubSeq(data, o + 1, eb)
             /\ y.written = Len(y.out)
             /\ b <= o => y.pos = b
             /\ o <= a => (L # 0 /\ y.written >= L) \/ y.pos = b
             /\ a < o /\ o < b => (L # 0 /\ y.written >= L) \/ b = N
  BY DEF Full, Advanced
<1> HIDE DEF N, l, L, o, ea, eb, out, written, pos, y, NextChunk
<1>5. ASSUME NEW e \in Nat, e <= o PROVE SubSeq(data, o + 1, e) = <<>>
  <2>1. e \in Int /\ o + 1 \in Int /\ e < o + 1
    BY ONLY <1>1, <1>5
  <2> QED
    BY <2>1, SubSeqEmpty
<1>6. ASSUME NEW u \in Nat, NEW v \in Nat, u < v, v <= N
      PROVE  Len(SubSeq(data, u + 1, v)) = v - u /\ SubSeq(data, u + 1, v) \in Seq(Nat)
  <2>1. v <= Len(data)
    BY ONLY <1>6, <1>11
  <2> QED
    BY ONLY <1>4, <1>6, <2>1, Part
<1>7. <<>> \in Seq(Nat) /\ Len(<<>>) = 0 /\ \A s \in Seq(Nat) : <<>> \o s = s
  BY EmptySeq, ConcatEmptySeq
<1>8. ASSUME NEW i \in Nat, NEW j \in Nat, i <= j, j <= l
      PROVE  SubSeq(d, i + 1, j) = SubSeq(data, a + i + 1, a + j)
  <2>1. a <= b /\ b <= Len(data) /\ j <= b - a
    BY ONLY <1>1, <1>8, <1>11
  <2> QED
    BY ONLY <1>1, <1>4, <1>8, <2>1, PartOfPart
<1>9. ASSUME NEW i \in Nat, NEW m \in Nat
      PROVE  substr(d, i, m) = SubSeq(d, i + 1, IF i + m < l THEN i + m ELSE l)
  BY <1>11 DEF substr
<1>18. ASSUME NEW u \in Nat, NEW v \in Nat, NEW t \in Nat, u <= v, v <= t, t <= N
       PROVE  SubSeq(data, u + 1, v) \o SubSeq(data, v + 1, t) = SubSeq(data, u + 1, t)
  <2>1. data \in Seq(Nat) /\ u <= v /\ v <= t /\ t <= Len(data) /\ u \in Nat /\ v \in Nat /\ t \in Nat
    BY ONLY <1>4, <1>11, <1>18
  <2> QED
    BY ONLY <2>1, Joined
<1>12. ASSUME b > o, eb = b, y.out = SubSeq(data, o + 1, b), y.written = b - o, o <= a => y.pos = b,
              a < o => b = N
       PROVE  /\ y.out = SubSeq(data, o + 1, eb)
              /\ y.written = Len(y.out)
              /\ b <= o => y.pos = b
              /\ o <= a => (L # 0 /\ y.written >= L) \/ y.pos = b
              /\ a < o /\ o < b => (L # 0 /\ y.written >= L) \/ b = N
  <2>1. Len(SubSeq(data, o + 1, b)) = b - o
    BY <1>1, <1>6, <1>12
  <2>2. ~(b <= o)
    BY ONLY <1>1, <1>12
  <2> QED
    BY ONLY <1>12, <2>1, <2>2
<1>13. ASSUME L # 0, o + L <= b, y.out = SubSeq(data, o + 1, o + L), y.written = L
       PROVE  /\ y.out = SubSeq(data, o + 1, eb)
              /\ y.written = Len(y.out)
              /\ b <= o => y.pos = b
              /\ o <= a => (L # 0 /\ y.written >= L) \/ y.pos = b
              /\ a < o /\ o < b => (L # 0 /\ y.written >= L) \/ b = N
  <2>1. /\ eb = o + L /\ o + L \in Nat /\ o < o + L /\ o + L <= N /\ (o + L) - o = L
        /\ ~(b <= o) /\ L >= L
    BY ONLY <1>1, <1>2, <1>13
  <2>2. Len(SubSeq(data, o + 1, o + L)) = L
    BY ONLY <1>1, <1>6, <2>1
  <2> QED
    BY ONLY <1>13, <2>1, <2>2
<1>14. CASE a <= o
  <2>1. out = <<>> /\ written = 0
    <3>1. ea = a
      BY ONLY <1>1, <1>2, <1>14
    <3> QED
      BY ONLY <1>1, <1>4, <1>5, <1>7, <1>14, <3>1
  <2>2. CASE a = o
    <3>1. o = 0 \/ pos >= o
      BY ONLY <1>1, <2>2
    <3>2. CASE L = 0 \/ written + l < L
      <4>1. y = [out |-> out \o d, written |-> written + l, pos |-> pos + l]
        BY ONLY <1>11, <3>1, <3>2 DEF PrintChunk
      <4>2. written + l = b - o /\ pos + l = b /\ b > o /\ ~(a < o)
        BY ONLY <1>1, <2>1, <2>2
      <4>3. eb = b
        BY ONLY <1>1, <1>2, <2>1, <2>2, <3>2
      <4>4. y.out = SubSeq(data, o + 1, b)
        BY ONLY <1>4, <1>7, <2>1, <2>2, <4>1
      <4>5. y.written = b - o /\ y.pos = b
        BY ONLY <4>1, <4>2
      <4> QED
        BY ONLY <1>12, <4>2, <4>3, <4>4, <4>5
    <3>3. CASE ~(L = 0 \/ written + l < L)
      <4>1. y = [out |-> out \o substr(d, 0, L - written), written |-> L, pos |-> pos]
        BY ONLY <1>11, <3>1, <3>3 DEF PrintChunk
      <4>2. /\ L - written = L /\ L # 0 /\ L <= l /\ o + L <= b /\ 0 <= L /\ 0 \in Nat
            /\ (IF 0 + L < l THEN 0 + L ELSE l) = L /\ a + 0 + 1 = o + 1
        BY ONLY <1>1, <2>1, <2>2, <3>3
      <4>3. substr(d, 0, L) = SubSeq(d, 0 + 1, L)
        BY ONLY <1>1, <1>9, <4>2
      <4>4. SubSeq(d, 0 + 1, L) = SubSeq(data, a + 0 + 1, a + L)
        BY <1>1, <1>8, <4>2
      <4>5. substr(d, 0, L) = SubSeq(data, o + 1, o + L)
        BY ONLY <2>2, <4>2, <4>3, <4>4
      <4>6. SubSeq(data, o + 1, o + L) \in Seq(Nat)
        <5>1. o + L \in Nat /\ o + L <= N /\ o < o + L
          BY ONLY <1>1, <4>2
        <5> QED
          BY ONLY <1>1, <1>6, <5>1
      <4>7. y.out = SubSeq(data, o + 1, o + L) /\ y.written = L
        BY ONLY <1>7, <2>1, <4>1, <4>2, <4>5, <4>6
      <4> QED
        BY ONLY <1>13, <4>2, <4>7
    <3> QED
      BY <3>2, <3>3
  <2>3. CASE a < o /\ o < b
    <3>1. PICK skip \in Nat :
            /\ skip = o - pos /\ skip <= l /\ o = a + skip /\ skip > 0
            /\ ~(o = 0 \/ pos >= o) /\ pos + l > o
      <4>1. /\ o - pos \in Nat /\ o - pos <= l /\ o = a + (o - pos) /\ o - pos > 0
            /\ ~(o = 0 \/ pos >= o) /\ pos + l > o
        BY ONLY <1>1, <2>3
      <4> QED
        BY ONLY <4>1
    <3>2. CASE L = 0 \/ l <= L - written
      <4>1. y = [out |-> out \o substr(d, skip, l - skip),
                 written |-> written + l - skip, pos |-> pos + l - skip]
        BY ONLY <1>11, <3>1, <3>2 DEF PrintChunk
      <4>2. /\ l - skip \in Nat /\ (IF skip + (l - skip) < l THEN skip + (l - skip) ELSE l) = l
            /\ a + skip + 1 = o + 1 /\ a + l = b /\ skip <= l /\ l <= l /\ written + l - skip = b - o /\ b > o
        BY ONLY <1>1, <2>1, <3>1
      <4>3. substr(d, skip, l - skip) = SubSeq(d, skip + 1, l)
        BY ONLY <1>1, <1>9, <4>2
      <4>4. SubSeq(d, skip + 1, l) = SubSeq(data, a + skip + 1, a + l)
        BY <1>1, <1>8, <4>2
      <4>5. substr(d, skip, l - skip) = SubSeq(data, o + 1, b)
        BY ONLY <4>2, <4>3, <4>4
      <4>6. SubSeq(data, o + 1, b) \in Seq(Nat)
        BY <1>1, <1>6, <4>2
      <4>7. y.out = SubSeq(data, o + 1, b) /\ y.written = b - o
        BY ONLY <1>7, <2>1, <4>1, <4>2, <4>5, <4>6
      <4>8. eb = b /\ b = N /\ ~(o <= a)
        BY ONLY <1>1, <1>2, <1>3, <2>1, <2>3, <3>2
      <4> QED
        BY ONLY <1>12, <4>2, <4>7, <4>8
    <3>3. CASE ~(L = 0 \/ l <= L - written)
      <4>1. y = [out |-> out \o substr(d, skip, L), written |-> written + L, pos |-> pos + L]
        BY ONLY <1>11, <3>1, <3>3 DEF PrintChunk
      <4>2. o + L <= b /\ L # 0
        BY ONLY <1>1, <1>3, <2>1, <2>3, <3>3
      <4>3. /\ (IF skip + L < l THEN skip + L ELSE l) = skip + L /\ skip + L \in Nat /\ skip <= skip + L
            /\ skip + L <= l /\ a + skip + 1 = o + 1 /\ a + (skip + L) = o + L /\ written + L = L
            /\ o + L \in Nat /\ o + L <= N /\ o < o + L
        BY ONLY <1>1, <2>1, <3>1, <4>2
      <4>4. substr(d, skip, L) = SubSeq(d, skip + 1, skip + L)
        BY ONLY <1>1, <1>9, <4>3
      <4>5. SubSeq(d, skip + 1, skip + L) = SubSeq(data, a + skip + 1, a + (skip + L))
        BY ONLY <1>1, <1>8, <4>3
      <4>6. substr(d, skip, L) = SubSeq(data, o + 1, o + L)
        BY ONLY <4>3, <4>4, <4>5
      <4>7. SubSeq(data, o + 1, o + L) \in Seq(Nat)
        BY ONLY <1>1, <1>6, <4>3
      <4>8. y.out = SubSeq(data, o + 1, o + L) /\ y.written = L
        BY ONLY <1>7, <2>1, <4>1, <4>3, <4>6, <4>7
      <4> QED
        BY ONLY <1>13, <4>2, <4>8
    <3> QED
      BY <3>2, <3>3
  <2>4. CASE b <= o
    <3>1. /\ ~(o = 0 \/ pos >= o) /\ ~(pos + l > o) /\ eb = b /\ pos + l = b
          /\ ~(o <= a) /\ ~(o < b)
      BY ONLY <1>1, <1>2, <2>4
    <3>2. y = [p EXCEPT !.pos = p.pos + Len(d)]
      BY ONLY <1>11, <3>1 DEF PrintChunk
    <3>3. y.out = out /\ y.written = written /\ y.pos = pos + l
      BY ONLY <1>11, <1>17, <3>2
    <3>4. SubSeq(data, o + 1, b) = <<>>
      BY <1>5, <2>4
    <3> QED
      BY ONLY <1>7, <2>1, <3>1, <3>3, <3>4
  <2>5. a = o \/ (a < o /\ o < b) \/ b <= o
    BY ONLY <1>1, <1>14
  <2> QED
    BY <2>2, <2>3, <2>4, <2>5
<1>15. CASE a > o
  <2>1. (o = 0 \/ pos >= o) /\ a <= N /\ ~(a < o)
    BY ONLY <1>1, <1>15
  <2>2. ea = a /\ written = a - o
    <3>1. CASE L # 0 /\ o + L < a
      <4>1. ea = o + L /\ o + L \in Nat /\ o + L <= N /\ o < o + L /\ (o + L) - o = L
        BY ONLY <1>1, <1>2, <3>1
      <4>2. Len(SubSeq(data, o + 1, o + L)) = L
        BY ONLY <1>1, <1>6, <4>1
      <4>3. written = L
        BY ONLY <1>4, <4>1, <4>2
      <4> QED
        BY ONLY <1>1, <3>1, <4>3
    <3>2. CASE ~(L # 0 /\ o + L < a)
      <4>1. ea = a
        BY ONLY <1>2, <3>2
      <4>2. Len(SubSeq(data, o + 1, a)) = a - o
        BY ONLY <1>1, <1>6, <1>15, <2>1
      <4> QED
        BY ONLY <1>4, <4>1, <4>2
    <3> QED
      BY <3>1, <3>2
  <2>3. out = SubSeq(data, o + 1, a)
    BY ONLY <1>4, <2>2
  <2>4. CASE L = 0 \/ written + l < L
    <3>1. y = [out |-> out \o d, written |-> written + l, pos |-> pos + l]
      BY ONLY <1>11, <2>1, <2>4 DEF PrintChunk
    <3>2. SubSeq(data, o + 1, a) \o SubSeq(data, a + 1, b) = SubSeq(data, o + 1, b)
      <4>1. o <= a /\ a <= b /\ b <= N
        BY ONLY <1>1, <1>15
      <4> QED
        BY ONLY <1>1, <1>18, <4>1
    <3>3. written + l = b - o /\ pos + l = b /\ b > o /\ eb = b
      BY ONLY <1>1, <1>2, <1>15, <2>2, <2>4
    <3>4. y.out = SubSeq(data, o + 1, b) /\ y.written = b - o /\ y.pos = b
      BY ONLY <1>4, <2>3, <3>1, <3>2, <3>3
    <3> QED
      BY ONLY <1>12, <2>1, <3>3, <3>4
  <2>5. CASE ~(L = 0 \/ written + l < L)
    <3>1. PICK w \in Nat : w = L - written
      <4>1. L - written \in Nat
        BY ONLY <1>1, <2>5
      <4> QED
        BY ONLY <4>1
    <3>2. /\ w <= l /\ a + w = o + L /\ o + L <= b /\ L # 0 /\ 0 <= w /\ 0 \in Nat /\ o <= a
          /\ a + w \in Nat /\ a <= a + w /\ a + w <= N /\ o + L \in Nat
          /\ (IF 0 + w < l THEN 0 + w ELSE l) = w /\ a + 0 + 1 = a + 1
      BY ONLY <1>1, <1>15, <2>2, <2>5, <3>1
    <3>3. y = [out |-> out \o substr(d, 0, w), written |-> L, pos |-> pos]
      BY ONLY <1>11, <2>1, <2>5, <3>1 DEF PrintChunk
    <3>4. substr(d, 0, w) = SubSeq(d, 0 + 1, w)
      BY ONLY <1>1, <1>9, <3>2
    <3>5. SubSeq(d, 0 + 1, w) = SubSeq(data, a + 0 + 1, a + w)
      BY ONLY <1>1, <1>8, <3>2
    <3>6. SubSeq(data, o + 1, a) \o SubSeq(data, a + 1, a + w) = SubSeq(data, o + 1, a + w)
      BY ONLY <1>1, <1>18, <3>2
    <3>7. y.out = SubSeq(data, o + 1, o + L) /\ y.written = L
      BY ONLY <2>3, <3>2, <3>3, <3>4, <3>5, <3>6
    <3> QED
      BY ONLY <1>13, <3>2, <3>7
  <2> QED
    BY <2>4, <2>5
<1>16. a <= o \/ a > o
  BY ONLY <1>1
<1> QED
  BY <1>14, <1>15, <1>16

(* One chunk more is written, as it should be. *)
LEMMA ChunkWritten ==
  ASSUME NEW data \in Seq(Nat), NEW r \in [length : Nat, offset : Nat], Straight(r, data),
         NEW k \in Nat, Before(k) < Len(data),
         NEW p \in P, Progress(p, r, data, Reached(k, data)), ~Full(p, r)
  PROVE  Progress(PrintChunk(p, Piece(data, k), r.length, r.offset), r, data, Reached(k + 1, data))
<1> DEFINE a == Reached(k, data)
           b == Reached(k + 1, data)
           d == Piece(data, k)
           L == r.length
           o == r.offset
           N == Len(data)
           y == PrintChunk(p, d, L, o)
           z == o % chunk_size
<1>1. /\ N \in Nat /\ L \in Nat /\ o \in Nat /\ d \in Seq(Nat) /\ Len(d) \in Nat
      /\ p.out \in Seq(Nat) /\ p.written \in Nat /\ p.pos \in Nat
  <2>1. d \in Seq(Nat)
    BY PieceIs
  <2>2. d \in Seq(Nat) => Len(d) \in Nat
    <3> HIDE DEF d
    <3> QED
      OBVIOUS
  <2>3. N \in Nat /\ L \in Nat /\ o \in Nat
    OBVIOUS
  <2>4. p.out \in Seq(Nat) /\ p.written \in Nat /\ p.pos \in Nat
    BY DEF P
  <2> QED
    BY ONLY <2>1, <2>2, <2>3, <2>4
<1>2. /\ a \in 0..N /\ b \in a..N /\ a < b /\ d = SubSeq(data, a + 1, b) /\ Len(d) = b - a
  BY PieceIs
<1>3. /\ a = o => z = 0
      /\ a < o /\ o < b => z # 0
      /\ a < o /\ o < b => (L > 0 /\ o + L <= b) \/ (b = N /\ (L = 0 \/ L >= b - a))
  BY StartsIn
<1>4. /\ p.out = SubSeq(data, o + 1, End(r, a)) /\ p.written = Len(p.out)
      /\ a <= o => p.pos = a
      /\ a > o /\ z = 0 => p.pos = a
      /\ a > o /\ z # 0 => a = N
  BY DEF Progress
<1>5. /\ a \in Nat /\ b \in Nat /\ a < b /\ b <= N /\ p.pos = a
      /\ b > o /\ z = 0 => o <= a
      /\ b > o /\ z # 0 => a < o /\ o < b
  <2> HIDE DEF a, b, d, L, o, z, N
  <2> QED
    BY ONLY <1>1, <1>2, <1>3, <1>4
<1>6. Advanced(y, r, data, a, b)
  <2>1. a < o /\ o < b => (L > 0 /\ o + L <= b) \/ (b = Len(data) /\ (L = 0 \/ L >= b - a))
    BY <1>3
  <2>2. NextChunk(p, d, r, data, a, b)
    BY <1>2, <1>4, <1>5, <2>1 DEF NextChunk
  <2> HIDE DEF a, b, d
  <2> QED
    BY <1>1, <1>5, <2>2, Writes
<1> QED
  <2> HIDE DEF a, b, y, z, N, o
  <2>1. /\ y.out = SubSeq(data, o + 1, End(r, b)) /\ y.written = Len(y.out)
        /\ b <= o => y.pos = b
        /\ o <= a => Full(y, r) \/ y.pos = b
        /\ a < o /\ o < b => Full(y, r) \/ b = N
    BY <1>6 DEF Advanced, o, N
  <2>2. /\ b > o /\ z = 0 /\ ~Full(y, r) => y.pos = b
        /\ b > o /\ z # 0 => Full(y, r) \/ b = N
    BY ONLY <1>5, <2>1
  <2> QED
    BY <2>1, <2>2 DEF Progress, o, N, a, b, z, y

(* The steps that do not print *)
Elsewhere(c) ==
    \E x : /\ call' = [call EXCEPT ![c] = x]
           /\ x.pc = "died" \/ (x.op # "print" /\ x.pc # "query")

LEMMA MovesPrinting ==
  ASSUME Safe, PrintInv, NEW c \in Clients, NEW x, call' = [call EXCEPT ![c] = x], Printing(x)
  PROVE  PrintInv'
<1>1. \A d \in Clients : call'[d] = x \/ call'[d] = call[d]
  BY DEF Safe, TypeOK
<1>2. \A d \in Clients : Printing(call'[d])
  BY <1>1 DEF PrintInv
<1> QED
  BY <1>2 DEF PrintInv, Printing

LEMMA ElsewherePrints ==
  ASSUME Safe, PrintInv, NEW c \in Clients, Elsewhere(c)
  PROVE  PrintInv'
<1>1. PICK x : /\ call' = [call EXCEPT ![c] = x]
               /\ x.pc = "died" \/ (x.op # "print" /\ x.pc # "query")
  BY DEF Elsewhere
<1>2. Printing(x)
  BY <1>1 DEF Printing
<1> QED
  BY <1>1, <1>2, MovesPrinting

LEMMA ToElsewhere ==
  ASSUME Safe, NEW c \in Clients, NEW pc, To(c, pc), pc = "died" \/ (call[c].op # "print" /\ pc # "query")
  PROVE  Elsewhere(c)
<1>1. call[c] \in CallType
  BY DEF Safe, TypeOK
<1> DEFINE x == [call[c] EXCEPT !.pc = pc]
<1>2. x.pc = pc /\ x.op = call[c].op
  BY <1>1 DEF CallType
<1>3. call' = [call EXCEPT ![c] = x]
  BY DEF To
<1> HIDE DEF x
<1> QED
  BY <1>2, <1>3 DEF Elsewhere

LEMMA NotPrint ==
  ASSUME Safe, NEW c \in Clients,
         call[c].pc \in {"read", "md5", "index", "cleanup", "file", "chunks", "files", "drop", "ensure"}
  PROVE  call[c].op # "print"
BY DEF Safe, PlaceInv, Placed

LEMMA OtherStep ==
  ASSUME Safe, NEW c \in Clients,
         \/ StartInsert(c) \/ InsertChunk(c) \/ ReadAll(c) \/ CalcMd5(c) \/ Retry(c) \/ CleanUp(c) \/ InsertFile(c)
         \/ StartRemove(c) \/ RemoveChunks(c) \/ RemoveFiles(c)
         \/ StartDrop(c) \/ DropFiles(c) \/ DropChunks(c) \/ EnsureIndexes(c)
  PROVE  Elsewhere(c)
<1>1. CASE StartInsert(c)
  <2>1. PICK id \in Ids, data \in Contents, ack \in Acks :
          call' = [call EXCEPT ![c] = Call("insert", "read", calls + 1, {id}, ack, data)]
    BY <1>1 DEF StartInsert
  <2>2. Call("insert", "read", calls + 1, {id}, ack, data).op = "insert"
        /\ Call("insert", "read", calls + 1, {id}, ack, data).pc = "read"
    BY DEF Call
  <2> QED
    BY <2>1, <2>2 DEF Elsewhere
<1>2. CASE StartRemove(c)
  <2>1. PICK ids, ack :
          call' = [call EXCEPT ![c] = [Call("remove", "chunks", calls + 1, ids, ack, <<>>) EXCEPT
                                          !.todo = {f._id : f \in {g \in files : g._id \in ids}}]]
    BY <1>2 DEF StartRemove
  <2> DEFINE x == [Call("remove", "chunks", calls + 1, ids, ack, <<>>) EXCEPT
                      !.todo = {f._id : f \in {g \in files : g._id \in ids}}]
  <2>2. x.op = "remove" /\ x.pc = "chunks"
    BY DEF Call
  <2> QED
    BY <2>1, <2>2 DEF Elsewhere
<1>3. CASE StartDrop(c)
  <2>1. call' = [call EXCEPT ![c] = Call("drop", "files", calls + 1, Ids, "safe", <<>>)]
    BY <1>3 DEF StartDrop
  <2>2. /\ Call("drop", "files", calls + 1, Ids, "safe", <<>>).op = "drop"
        /\ Call("drop", "files", calls + 1, Ids, "safe", <<>>).pc = "files"
    BY DEF Call
  <2> QED
    BY <2>1, <2>2 DEF Elsewhere
<1>4. call[c] \in CallType
  BY DEF Safe, TypeOK
<1>5. CASE InsertChunk(c)
  <2>1. call[c].pc = "read"
    BY <1>5 DEF InsertChunk
  <2>2. call' = [call EXCEPT ![c].n = call[c].n + 1] \/ To(c, "died")
    BY <1>5 DEF InsertChunk, Dies, Fails
  <2> DEFINE x == [call[c] EXCEPT !.n = call[c].n + 1]
  <2>3. x.pc = call[c].pc /\ x.op = call[c].op
    BY <1>4 DEF CallType
  <2>4. CASE call' = [call EXCEPT ![c].n = call[c].n + 1]
    <3>1. call' = [call EXCEPT ![c] = x]
      BY <2>4
    <3> HIDE DEF x
    <3> QED
      BY <2>1, <2>3, <3>1, NotPrint DEF Elsewhere
  <2> QED
    BY <2>2, <2>4, ToElsewhere
<1>6. CASE Retry(c)
  <2>1. call[c].pc = "index"
    BY <1>6 DEF Retry
  <2>2. call' = [call EXCEPT ![c].pc = "md5", ![c].retry = 0] \/ To(c, "died")
    BY <1>6 DEF Retry, Dies, Fails
  <2> DEFINE x == [call[c] EXCEPT !.pc = "md5", !.retry = 0]
  <2>3. x.pc = "md5" /\ x.op = call[c].op
    BY <1>4 DEF CallType
  <2>4. CASE call' = [call EXCEPT ![c].pc = "md5", ![c].retry = 0]
    <3>1. call' = [call EXCEPT ![c] = x]
      BY <2>4
    <3> HIDE DEF x
    <3> QED
      BY <2>1, <2>3, <3>1, NotPrint DEF Elsewhere
  <2> QED
    BY <2>2, <2>4, ToElsewhere
<1>7. CASE RemoveChunks(c)
  <2>1. call[c].pc = "chunks"
    BY <1>7 DEF RemoveChunks
  <2>2. PICK id \in call[c].todo : call' = [call EXCEPT ![c].todo = @ \ {id}] \/ To(c, "died")
    BY <1>7 DEF RemoveChunks, Dies, Fails
  <2> DEFINE x == [call[c] EXCEPT !.todo = @ \ {id}]
  <2>3. x.pc = call[c].pc /\ x.op = call[c].op
    BY <1>4 DEF CallType
  <2>4. CASE call' = [call EXCEPT ![c].todo = @ \ {id}]
    <3>1. call' = [call EXCEPT ![c] = x]
      BY <2>4
    <3> HIDE DEF x
    <3> QED
      BY <2>1, <2>3, <3>1, NotPrint DEF Elsewhere
  <2> QED
    BY <2>2, <2>4, ToElsewhere
<1>8. CASE ReadAll(c)
  BY <1>8, NotPrint, ToElsewhere DEF ReadAll
<1>9. CASE CalcMd5(c)
  BY <1>9, NotPrint, ToElsewhere DEF CalcMd5, Fails, Dies
<1>10. CASE CleanUp(c)
  BY <1>10, ToElsewhere DEF CleanUp, Fails, Dies
<1>11. CASE InsertFile(c)
  BY <1>11, NotPrint, ToElsewhere DEF InsertFile, Fails, Dies, Lost
<1>12. CASE RemoveFiles(c)
  BY <1>12, NotPrint, ToElsewhere DEF RemoveFiles, Fails, Dies, Lost
<1>13. CASE DropFiles(c)
  BY <1>13, NotPrint, ToElsewhere DEF DropFiles, Fails, Dies
<1>14. CASE DropChunks(c)
  BY <1>14, NotPrint, ToElsewhere DEF DropChunks, Fails, Dies
<1>15. CASE EnsureIndexes(c)
  BY <1>15, NotPrint, ToElsewhere DEF EnsureIndexes, Fails, Dies
<1> QED
  BY <1>1, <1>2, <1>3, <1>5, <1>6, <1>7, <1>8, <1>9, <1>10, <1>11, <1>12, <1>13, <1>14, <1>15

LEMMA GetPrints ==
  ASSUME Safe, PrintInv, NEW c \in Clients, Get(c)
  PROVE  PrintInv'
<1>1. PICK f \in files : call' = [call EXCEPT ![c] = Call("print", "query", f.of, {f._id}, "safe", f.data)]
  BY DEF Get
<1>2. Printing(Call("print", "query", f.of, {f._id}, "safe", f.data))
  BY DEF Printing, Call
<1> QED
  BY <1>1, <1>2, MovesPrinting

LEMMA printPrints ==
  ASSUME Safe, PrintInv, NEW c \in Clients, NEW r \in Ranges, print(c, r)
  PROVE  PrintInv'
<1>1. call[c].pc = "query" /\ call[c] \in CallType /\ call[c].p = Printed
  BY DEF print, Safe, TypeOK, PrintInv, Printing
<1> DEFINE cs == {[n |-> ch.n, data |-> ch.data] : ch \in Of(The(c))}
           x == [call[c] EXCEPT !.pc = "print", !.range = r, !.found = cs, !.left = cs]
<1>2. call' = [call EXCEPT ![c] = x] \/ To(c, "died")
  BY DEF print, Dies, Fails
<1>3. CASE To(c, "died")
  BY <1>3, ToElsewhere, ElsewherePrints
<1>4. CASE call' = [call EXCEPT ![c] = x]
  <2>1. /\ x.pc = "print" /\ x.range = r /\ x.found = cs /\ x.left = cs /\ x.data = call[c].data /\ x.p = Printed
        /\ r \in [length : Nat, offset : Nat] /\ x.data \in Seq(Nat)
    <3>1. x.pc = "print" /\ x.range = r /\ x.found = cs /\ x.left = cs /\ x.data = call[c].data /\ x.p = Printed
      <4> HIDE DEF cs
      <4> QED
        BY <1>1 DEF CallType
    <3>2. r \in [length : Nat, offset : Nat] /\ call[c].data \in Seq(Nat)
      BY <1>1, GridFSAssumption DEF CallType
    <3> QED
      BY <3>1, <3>2
  <2>2. {[n |-> ch.n, data |-> ch.data] : ch \in cs} = cs
    OBVIOUS
  <2> HIDE DEF cs, x
  <2>3. ASSUME Whole(x.found, x.data)
        PROVE  x.left = {ch \in Pieces(x.data) : ch.n >= 0}
    <3>1. x.left = Pieces(x.data)
      BY <2>1, <2>2, <2>3 DEF Whole
    <3>2. \A ch \in Pieces(x.data) : ch.n >= 0
      BY <2>1, PiecesAre
    <3> QED
      BY <3>1, <3>2
  <2>4. Reached(0, x.data) = 0
    <3>1. Before(0) = 0
      BY BeforeIs
    <3>2. Len(x.data) \in Nat
      BY <2>1
    <3> QED
      BY ONLY <3>1, <3>2 DEF Reached
  <2>5. Progress(Printed, r, x.data, 0)
    <3>1. End(r, 0) = 0
      BY <2>1 DEF End
    <3>2. r.offset \in Nat
      BY <2>1
    <3>3. SubSeq(x.data, r.offset + 1, 0) = <<>>
      BY <3>2, SubSeqEmpty
    <3>4. Printed.out = <<>> /\ Printed.written = 0 /\ Printed.pos = 0 /\ Len(<<>>) = 0
      BY EmptySeq DEF Printed
    <3> QED
      BY <3>1, <3>2, <3>3, <3>4 DEF Progress
  <2>6. Printing(x)
    BY <2>1, <2>3, <2>4, <2>5 DEF Printing
  <2> QED
    BY <1>4, <2>6, MovesPrinting
<1> QED
  BY <1>2, <1>3, <1>4

LEMMA WriteChunkPrints ==
  ASSUME Safe, PrintInv, NEW c \in Clients, WriteChunk(c)
  PROVE  PrintInv'
<1>1. /\ call[c].pc = "print" /\ call[c].op = "print" /\ call[c] \in CallType
      /\ ~Full(call[c].p, call[c].range)
  BY DEF WriteChunk, Safe, TypeOK, PlaceInv, Placed, Full
<1> DEFINE r == call[c].range
           data == call[c].data
           old == call[c].left
           p == call[c].p
<1>2. PICK ch \in old :
        /\ \A other \in old : ch.n <= other.n
        /\ call' = [call EXCEPT ![c].left = @ \ {ch}, ![c].p = PrintChunk(@, ch.data, r.length, r.offset)]
  BY DEF WriteChunk
<1> DEFINE left == old \ {ch}
           q == PrintChunk(p, ch.data, r.length, r.offset)
           x == [call[c] EXCEPT !.left = left, !.p = q]
<1>3. call' = [call EXCEPT ![c] = x]
  BY <1>2
<1>4. /\ x.pc = "print" /\ x.range = r /\ x.found = call[c].found /\ x.left = left /\ x.data = data /\ x.p = q
      /\ x.op = "print"
      /\ r \in [length : Nat, offset : Nat] /\ data \in Seq(Nat) /\ p \in P
  <2>1. r \in [length : Nat, offset : Nat] /\ data \in Seq(Nat) /\ p \in P
    BY <1>1 DEF CallType, P
  <2>2. /\ x.pc = "print" /\ x.range = r /\ x.found = call[c].found /\ x.left = left /\ x.data = data /\ x.p = q
        /\ x.op = "print"
    <3> HIDE DEF left, q
    <3> QED
      BY <1>1 DEF CallType
  <2> QED
    BY <2>1, <2>2
<1>5. ASSUME Whole(x.found, x.data), Straight(x.range, x.data)
      PROVE  \E k \in Nat : /\ x.left = {b \in Pieces(x.data) : b.n >= k}
                            /\ Progress(x.p, x.range, x.data, Reached(k, x.data))
  <2>1. Whole(call[c].found, data) /\ Straight(r, data)
    BY <1>4, <1>5
  <2>2. PICK k \in Nat : old = {b \in Pieces(data) : b.n >= k} /\ Progress(p, r, data, Reached(k, data))
    BY <1>1, <2>1 DEF PrintInv, Printing
  <2> HIDE DEF r, data, old, p, left, q, x
  <2>3. PICK m \in Nat : Before(m) < Len(data) /\ m >= k /\ ch = [n |-> m, data |-> Piece(data, m)]
    BY <1>2, <1>4, <2>2, PiecesAre
  <2>4. Before(k) < Len(data)
    <3>1. Before(k) <= Before(m) /\ Before(k) \in Nat /\ Before(m) \in Nat
      BY <2>3, BeforeIs
    <3>2. Len(data) \in Nat
      BY <1>4
    <3> QED
      BY ONLY <2>3, <3>1, <3>2
  <2>5. m = k
    <3>1. [n |-> k, data |-> Piece(data, k)] \in old
      BY <1>4, <2>2, <2>4, PiecesAre
    <3>2. ch.n <= k
      BY <1>2, <3>1
    <3>3. ch.n = m
      BY <2>3
    <3> QED
      BY ONLY <2>3, <3>2, <3>3, k \in Nat, m \in Nat
  <2>6. left = {b \in Pieces(data) : b.n >= k + 1}
    <3>1. \A b \in Pieces(data) : b.n \in Nat /\ b = [n |-> b.n, data |-> Piece(data, b.n)]
      BY <1>4, PiecesAre
    <3>2. \A b \in Pieces(data) : b.n >= k /\ b # ch <=> b.n >= k + 1
      BY <2>3, <2>5, <3>1
    <3> QED
      BY <2>2, <3>2 DEF left
  <2>7. Progress(q, r, data, Reached(k + 1, data))
    <3>1. ~Full(p, r)
      BY <1>1 DEF p, r
    <3>2. ch.data = Piece(data, k)
      BY <2>3, <2>5
    <3>3. Progress(PrintChunk(p, Piece(data, k), r.length, r.offset), r, data, Reached(k + 1, data))
      BY <1>4, <2>1, <2>2, <2>4, <3>1, ChunkWritten
    <3> QED
      BY <3>2, <3>3 DEF q
  <2> QED
    BY <1>4, <2>6, <2>7
<1>6. Printing(x)
  <2> HIDE DEF x
  <2> QED
    BY <1>4, <1>5 DEF Printing
<1> HIDE DEF x
<1> QED
  BY <1>3, <1>6, MovesPrinting

LEMMA WroteAllPrints ==
  ASSUME Safe, PrintInv, NEW c \in Clients, WroteAll(c)
  PROVE  PrintInv'
<1>1. /\ call[c].pc = "print" /\ call[c].op = "print" /\ call[c] \in CallType
      /\ call[c].left = {} \/ Full(call[c].p, call[c].range)
      /\ To(c, "done")
  BY DEF WroteAll, Safe, TypeOK, PlaceInv, Placed, Full
<1> DEFINE x == [call[c] EXCEPT !.pc = "done"]
<1>2. call' = [call EXCEPT ![c] = x]
  BY <1>1 DEF To
<1>3. /\ x.pc = "done" /\ x.op = call[c].op /\ x.found = call[c].found /\ x.data = call[c].data
      /\ x.range = call[c].range /\ x.left = call[c].left /\ x.p = call[c].p
  BY <1>1 DEF CallType
<1> HIDE DEF x
<1>4. Printing(x)
  BY <1>1, <1>3 DEF PrintInv, Printing
<1> QED
  BY <1>2, <1>4, MovesPrinting

LEMMA PrintInit == Init => PrintInv
<1>1. Idle.op = "none" /\ Idle.pc = "done"
  BY DEF Idle, Call
<1> QED
  BY <1>1 DEF Init, PrintInv, Printing

LEMMA PrintNext == Safe /\ PrintInv /\ [Next]_vars => PrintInv'
<1>1. SUFFICES ASSUME Safe, PrintInv, [Next]_vars PROVE PrintInv'
  BY <1>1
<1>2. CASE UNCHANGED vars
  BY <1>1, <1>2 DEF vars, PrintInv, Printing
<1>3. CASE Next
  BY <1>1, <1>3, OtherStep, ElsewherePrints, GetPrints, printPrints, WriteChunkPrints, WroteAllPrints DEF Next
<1> QED
  BY <1>1, <1>2, <1>3

(* When the loop is over, the range has been written: either all chunks    *)
(* have been gone through, or as many bytes have been written as asked for.*)
LEMMA RangeWritten ==
  ASSUME Safe, PrintInv, NEW c \in Clients, call[c].op = "print", call[c].pc = "done",
         Whole(call[c].found, call[c].data), Straight(call[c].range, call[c].data)
  PROVE  LET r == call[c].range
         IN  /\ call[c].p.out = substr(call[c].data, r.offset, IF r.length = 0 THEN Len(call[c].data) ELSE r.length)
             /\ call[c].p.written = Len(call[c].p.out)
<1> DEFINE data == call[c].data
           N == Len(data)
           L == call[c].range.length
           o == call[c].range.offset
<1>1. call[c].range \in [length : Nat, offset : Nat] /\ data \in Seq(Nat)
  BY DEF Safe, TypeOK, CallType
<1>2. PICK k \in Nat :
        /\ call[c].left = {ch \in Pieces(data) : ch.n >= k}
        /\ Progress(call[c].p, call[c].range, data, Reached(k, data))
        /\ call[c].left = {} \/ Full(call[c].p, call[c].range)
  BY DEF PrintInv, Printing
<1>3. PICK a \in Nat : a = Reached(k, data) /\ a <= N
  <2>1. Reached(k, data) \in 0..N
    BY <1>1, PieceIs
  <2> HIDE DEF data
  <2>2. N \in Nat
    BY <1>1
  <2> QED
    BY <2>1, <2>2
<1>4. /\ call[c].p.out = SubSeq(data, o + 1, End(call[c].range, a))
      /\ call[c].p.written = Len(call[c].p.out)
  BY <1>2, <1>3 DEF Progress
<1>5. call[c].left = {} => a = N
  <2>1. ASSUME Before(k) < N PROVE call[c].left # {}
    <3>1. [n |-> k, data |-> Piece(data, k)] \in Pieces(data)
      BY <1>1, <2>1, PiecesAre
    <3>2. [n |-> k, data |-> Piece(data, k)].n >= k
      OBVIOUS
    <3> QED
      BY <1>2, <3>1, <3>2
  <2> QED
    BY <1>3, <2>1 DEF Reached
<1>6. PICK e \in Nat : e = End(call[c].range, a) /\ e = IF L # 0 /\ o + L < a THEN o + L ELSE a
  BY <1>1 DEF End
<1>7. /\ N \in Nat /\ L \in Nat /\ o \in Nat
  BY <1>1
<1>8. L # 0 /\ call[c].p.written >= L => o + L <= N /\ e = o + L
  <2>1. e <= N
    BY <1>3, <1>6, <1>7
  <2>2. call[c].p.written = IF o < e THEN e - o ELSE 0
    <3>1. Len(SubSeq(data, o + 1, e)) = IF o < e THEN e - o ELSE 0
      <4>1. o \in Nat /\ e \in Nat /\ e <= Len(data) /\ data \in Seq(Nat)
        BY <1>1, <1>7, <2>1
      <4> HIDE DEF data, o
      <4> QED
        BY ONLY <4>1, Part
    <3> QED
      BY <1>4, <1>6, <3>1
  <2> HIDE DEF N, L, o
  <2> QED
    BY ONLY <1>3, <1>6, <1>7, <2>1, <2>2
<1> DEFINE m == IF L = 0 THEN N ELSE L
<1>9. e = IF o + m < N THEN o + m ELSE N
  <2>1. a = N \/ (L # 0 /\ call[c].p.written >= L)
    BY <1>2, <1>5 DEF Full
  <2> HIDE DEF N, L, o
  <2> QED
    BY ONLY <1>3, <1>6, <1>7, <1>8, <2>1 DEF m
<1>10. substr(data, o, m) = SubSeq(data, o + 1, e)
  BY <1>9 DEF substr
<1> QED
  BY <1>4, <1>6, <1>10

(* print writes the bytes it was asked for and says how many, if the       *)
(* chunks it found are the file's and the range is one of Straight.        *)
THEOREM PrintWritesRange == Spec => []PrintsRange
<1>1. Safe /\ PrintInv => PrintsRange
  BY RangeWritten DEF PrintsRange
<1>2. Init => Safe /\ PrintInv
  BY SafeInit, PrintInit
<1>3. Safe /\ PrintInv /\ [Next]_vars => Safe' /\ PrintInv'
  BY SafeNext, PrintNext
<1> QED
  BY <1>1, <1>2, <1>3, PTL DEF Spec
=============================================================================
