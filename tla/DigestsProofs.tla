--------------------------- MODULE DigestsProofs ---------------------------
(***************************************************************************)
(* A digest is right whatever pieces its message comes in.  The argument:  *)
(* bson_md5_append takes Fed(m), what feeding m into a new digest leaves,  *)
(* to Fed(m \o d).  Its count is the length of m in bits because a lower   *)
(* word that wrapped is smaller than what was added, its place in a block  *)
(* can be read from the lower word because 512 divides 2^32, and blocks    *)
(* are the same whether cut from the whole or from what follows full ones. *)
(***************************************************************************)
EXTENDS Digests, SequenceTheorems, TLAPS

-----------------------------------------------------------------------------
(* Division with remainder, and counting in two words *)

(* Division with remainder *)
LEMMA Divided ==
    ASSUME NEW w \in Nat \ {0}, NEW a \in Int
    PROVE  /\ a \div w \in Int /\ a % w \in 0..(w - 1)
           /\ a = w * (a \div w) + (a % w)
BY SMT

LEMMA DividedNat ==
    ASSUME NEW w \in Nat \ {0}, NEW a \in Nat
    PROVE  a \div w \in Nat
BY SMT

LEMMA Quotient ==
    \A w \in Nat \ {0}, q \in Int, a \in Int : \A r \in 0..(w - 1) :
        a = w * q + r => a \div w = q /\ a % w = r
BY SMT

(* Sums: the remainders are added, and what they carry *)
LEMMA SumDivided ==
    ASSUME NEW w \in Nat \ {0}, NEW a \in Int, NEW b \in Int, NEW q \in Int, NEW p \in Int,
           NEW r \in 0..(w - 1), NEW s \in 0..(w - 1), a = w * q + r, b = w * p + s
    PROVE  /\ r + s < w => /\ (a + b) \div w = q + p /\ (a + b) % w = r + s
                           /\ (r + s) % w = r + s
           /\ ~(r + s < w) => /\ (a + b) \div w = q + p + 1 /\ (a + b) % w = r + s - w
                              /\ (r + s) % w = r + s - w
<1>1. w * (q + p) = w * q + w * p /\ w * (q + p + 1) = w * q + w * p + w
  BY SMT
<1>2. CASE r + s < w
  <2>1. a + b = w * (q + p) + (r + s) /\ r + s \in 0..(w - 1) /\ q + p \in Int /\ a + b \in Int
    BY <1>1, <1>2
  <2>2. r + s = w * 0 + (r + s)
    BY SMT
  <2>3. (a + b) \div w = q + p /\ (a + b) % w = r + s
    BY ONLY Zenon, <2>1, Quotient, w \in Nat \ {0}
  <2>4. (r + s) % w = r + s
    BY ONLY <2>1, <2>2, Quotient, w \in Nat \ {0}, 0 \in Int, r + s \in Int
  <2> QED
    BY <1>2, <2>3, <2>4
<1>3. CASE ~(r + s < w)
  <2>1. a + b = w * (q + p + 1) + (r + s - w) /\ r + s - w \in 0..(w - 1) /\ q + p + 1 \in Int /\ a + b \in Int
    BY <1>1, <1>3
  <2>2. r + s = w * 1 + (r + s - w) /\ r + s \in Int
    BY SMT
  <2>3. (a + b) \div w = q + p + 1 /\ (a + b) % w = r + s - w
    BY ONLY Zenon, <2>1, Quotient, w \in Nat \ {0}
  <2>4. (r + s) % w = r + s - w
    BY ONLY <2>1, <2>2, Quotient, w \in Nat \ {0}, 1 \in Int
  <2> QED
    BY <1>3, <2>3, <2>4
<1> QED
  BY <1>2, <1>3

(* A remainder may be taken before or after something is added. *)
LEMMA AddedThenTaken ==
    ASSUME NEW w \in Nat \ {0}, NEW q \in Int, NEW t \in Int
    PROVE  ((q % w) + t) % w = (q + t) % w
<1> DEFINE a == q \div w
           u == ((q % w) + t) \div w
           v == ((q % w) + t) % w
<1>1. a \in Int /\ q % w \in 0..(w - 1) /\ q = w * a + (q % w)
  BY Divided
<1>2. (q % w) + t \in Int
  BY ONLY SMT, <1>1, t \in Int, w \in Nat \ {0}
<1>3. u \in Int /\ v \in 0..(w - 1) /\ (q % w) + t = w * u + v
  BY ONLY <1>2, Divided, w \in Nat \ {0}
<1> HIDE DEF a, u, v
<1>4. a + u \in Int /\ w * (a + u) = w * a + w * u
  BY ONLY SMT, <1>1, <1>3, w \in Nat \ {0}
<1>5. q + t = w * (a + u) + v /\ q + t \in Int
  <2>1. w * a \in Int /\ w * u \in Int /\ q % w \in Int /\ v \in Int
    BY ONLY SMT, <1>1, <1>3, w \in Nat \ {0}
  <2> QED
    BY ONLY SMT, <1>1, <1>3, <1>4, <2>1, q \in Int, t \in Int
<1>6. (q + t) % w = v
  <2>1. \A i \in 0..(w - 1) : q + t = w * (a + u) + i => (q + t) % w = i
    BY ONLY <1>4, <1>5, Quotient, w \in Nat \ {0}
  <2> QED
    BY ONLY <1>3, <1>5, <2>1
<1> QED
  BY <1>6 DEF v

(* The lower word of 8 times the length tells the place in a block. *)
LEMMA PlaceInBlock ==
    ASSUME NEW n \in Nat
    PROVE  ((8 * n) % Word) \in Nat /\ (((8 * n) % Word) \div 8) % BlockSize = n % BlockSize
<1> DEFINE q == (8 * n) \div Word
           r == (8 * n) % Word
           k == Word \div 512
<1>1. Word \in Nat \ {0} /\ 8 * n \in Nat
  BY Md5Assumption
<1>2. q \in Int /\ r \in 0..(Word - 1) /\ 8 * n = Word * q + r
  BY ONLY <1>1, Divided, DividedNat
<1>3. k \in Int /\ Word = 512 * k
  BY Md5Assumption
<1> HIDE DEF q, r, k
<1>4. PICK j \in Int : j = k * q
  BY ONLY SMT, <1>2, <1>3
<1>5. Word * q = 512 * j
  BY ONLY SMT, <1>2, <1>3, <1>4
<1>6. r = 8 * (n - 64 * j) /\ r \in Nat
  <2>1. r \in Nat
    BY ONLY SMT, <1>1, <1>2
  <2>2. 8 * n = 512 * j + r
    BY ONLY Zenon, <1>2, <1>5
  <2> QED
    BY ONLY SMT, <2>1, <2>2, j \in Int, n \in Nat
<1>7. r \div 8 = n - 64 * j
  BY ONLY SMT, <1>6, j \in Int, n \in Nat
<1>8. (n - 64 * j) % 64 = n % 64
  BY ONLY SMT, j \in Int, n \in Nat
<1> QED
  BY Zenon, <1>6, <1>7, <1>8 DEF r, BlockSize

(* The two words count the bits. *)
Bits0(n) == (8 * n) % Word
Bits1(n) == ((8 * n) \div Word) % Word

(* A digest, and one with another rest *)
Digest(c0, c1, blocks, rest) == [count0 |-> c0, count1 |-> c1, abcd |-> blocks, buf |-> rest]
Kept(md5_, rest) == [md5_ EXCEPT !.buf = rest]

LEMMA DigestParts ==
    \A c0, c1, a, b : /\ Digest(c0, c1, a, b).count0 = c0 /\ Digest(c0, c1, a, b).count1 = c1
                      /\ Digest(c0, c1, a, b).abcd = a /\ Digest(c0, c1, a, b).buf = b
BY DEF Digest

LEMMA DigestCounted ==
    ASSUME NEW n \in Nat, NEW k \in Nat, NEW a, NEW b
    PROVE  Counted(Digest(Bits0(n), Bits1(n), a, b), k) = Digest(Bits0(n + k), Bits1(n + k), a, b)
<1> DEFINE d == Digest(Bits0(n), Bits1(n), a, b)
           q == (8 * n) \div Word
           r == (8 * n) % Word
           p == (8 * k) \div Word
           s == (8 * k) % Word
           lower == (r + s) % Word
           carry == IF lower < s THEN 1 ELSE 0
<1>1. Word \in Nat \ {0} /\ 8 * n \in Int /\ 8 * k \in Int
  BY Md5Assumption
<1>2. q \in Int /\ r \in 0..(Word - 1) /\ 8 * n = Word * q + r
  BY ONLY <1>1, Divided
<1>3. p \in Int /\ s \in 0..(Word - 1) /\ 8 * k = Word * p + s
  BY ONLY <1>1, Divided
<1>4. k \div (Word \div 8) = p
  <2> DEFINE v == Word \div 8
  <2>1. v \in Nat \ {0} /\ Word = 8 * v
    BY Md5Assumption
  <2> HIDE DEF v
  <2>2. k \div v \in Int /\ k % v \in 0..(v - 1) /\ k = v * (k \div v) + (k % v)
    BY ONLY <2>1, Divided, k \in Int, k \in Nat
  <2> DEFINE x == k \div v
             y == k % v
  <2> HIDE DEF x, y
  <2>3. x \in Int /\ y \in 0..(v - 1) /\ k = v * x + y
    BY ONLY <2>2 DEF x, y
  <2>4. 8 * k = (8 * v) * x + 8 * y
    BY ONLY SMT, <2>1, <2>3
  <2>5. 8 * k = Word * x + 8 * y /\ 8 * y \in 0..(Word - 1)
    BY ONLY SMT, <2>1, <2>3, <2>4
  <2>6. x = p
    <3>1. \A i \in 0..(Word - 1) : 8 * k = Word * x + i => (8 * k) \div Word = x
      BY ONLY <1>1, <2>3, Quotient
    <3> QED
      BY ONLY <2>5, <3>1 DEF p
  <2> QED
    BY <2>6 DEF x, v
<1> HIDE DEF q, r, p, s
<1>5. 8 * (n + k) = 8 * n + 8 * k
  BY SMT
<1>6. /\ r + s < Word => (8 * (n + k)) \div Word = q + p /\ (8 * (n + k)) % Word = r + s /\ lower = r + s
      /\ ~(r + s < Word) => /\ (8 * (n + k)) \div Word = q + p + 1 /\ (8 * (n + k)) % Word = r + s - Word
                            /\ lower = r + s - Word
  BY ONLY <1>1, <1>2, <1>3, <1>5, SumDivided
<1>7. r + s < Word <=> ~(lower < s)
  BY ONLY SMT, <1>1, <1>2, <1>3, <1>6
<1>8. carry \in Int /\ (8 * (n + k)) \div Word = q + (p + carry) /\ (8 * (n + k)) % Word = lower
  <2>1. CASE r + s < Word
    BY ONLY SMT, <1>2, <1>3, <1>6, <1>7, <2>1
  <2>2. CASE ~(r + s < Word)
    BY ONLY SMT, <1>2, <1>3, <1>6, <1>7, <2>2
  <2> QED
    BY <2>1, <2>2
<1> HIDE DEF lower, carry
<1>9. ((q % Word) + (p + carry)) % Word = (q + (p + carry)) % Word
  BY ONLY <1>1, <1>2, <1>3, <1>8, AddedThenTaken, p + carry \in Int
<1>10. Bits0(n + k) = lower /\ Bits1(n + k) = ((q % Word) + (p + carry)) % Word
  BY Zenon, <1>8, <1>9 DEF Bits0, Bits1
<1>0. d.count0 = Bits0(n) /\ d.count1 = Bits1(n)
  BY DigestParts
<1>00. d = [count0 |-> Bits0(n), count1 |-> Bits1(n), abcd |-> a, buf |-> b]
  BY DEF Digest
<1> HIDE DEF d
<1>11. Counted(d, k) = [d EXCEPT !.count0 = lower, !.count1 = (@ + p + carry) % Word]
  BY Zenon, <1>0, <1>4 DEF Counted, Bits0, r, s, lower, carry
<1>12. d.count1 = q % Word /\ (q % Word) + (p + carry) = (q % Word) + p + carry
  <2>1. q % Word \in Int
    BY ONLY <1>1, <1>2, Divided
  <2>2. d.count1 = q % Word
    BY Zenon, <1>0 DEF Bits1, q
  <2> QED
    BY ONLY SMT, <2>1, <2>2, <1>3, <1>8
<1> DEFINE x == Bits0(n + k)
           y == Bits1(n + k)
           v == Bits1(n)
           e == [d EXCEPT !.count0 = x]
<1>13. Counted(d, k) = [d EXCEPT !.count0 = x, !.count1 = y]
  BY ONLY <1>10, <1>11, <1>12
<1> HIDE DEF v, x, y
<1>14. e = [count0 |-> x, count1 |-> v, abcd |-> a, buf |-> b]
  BY ONLY <1>00 DEF v
<1>15. [d EXCEPT !.count0 = x, !.count1 = y] = [e EXCEPT !.count1 = y]
  BY <1>00
<1> HIDE DEF e
<1>16. [e EXCEPT !.count1 = y] = [count0 |-> x, count1 |-> y, abcd |-> a, buf |-> b]
  BY ONLY <1>14
<1> QED
  BY ONLY Zenon, <1>13, <1>15, <1>16 DEF Digest, d, x, y

-----------------------------------------------------------------------------
(* Parts of two sequences one behind the other *)

LEMMA PartIs ==
    ASSUME NEW S, NEW s \in Seq(S), NEW i \in Nat \ {0}, NEW j \in Nat, j <= Len(s), i <= j + 1
    PROVE  /\ SubSeq(s, i, j) \in Seq(S) /\ Len(SubSeq(s, i, j)) = j + 1 - i
           /\ \A k \in 1..(j + 1 - i) : SubSeq(s, i, j)[k] = s[i + k - 1]
<1>1. Len(s) \in Nat
  BY LenProperties
<1>2. \A k \in i..j : k \in 1..Len(s)
  BY <1>1
<1>3. \A k \in i..j : s[k] \in S
  BY <1>2, ElementOfSeq
<1>4. /\ SubSeq(s, i, j) \in Seq(S)
      /\ Len(SubSeq(s, i, j)) = IF i <= j THEN j - i + 1 ELSE 0
      /\ \A k \in 1..(j - i + 1) : SubSeq(s, i, j)[k] = s[i + k - 1]
  BY <1>3, SubSeqProperties
<1>5. j + 1 - i = j - i + 1 /\ (~(i <= j) => j - i + 1 = 0)
  BY SMT
<1> QED
  BY <1>4, <1>5

LEMMA PartOfFirst ==
    ASSUME NEW S, NEW s \in Seq(S), NEW u \in Seq(S),
           NEW i \in Nat \ {0}, NEW j \in Nat, j <= Len(s), i <= j + 1
    PROVE  SubSeq(s \o u, i, j) = SubSeq(s, i, j)
<1>1. /\ Len(s) \in Nat /\ Len(u) \in Nat /\ s \o u \in Seq(S) /\ Len(s \o u) = Len(s) + Len(u)
      /\ \A k \in 1..(Len(s) + Len(u)) : (s \o u)[k] = IF k <= Len(s) THEN s[k] ELSE u[k - Len(s)]
  BY LenProperties, ConcatProperties
<1>2. /\ SubSeq(s, i, j) \in Seq(S) /\ Len(SubSeq(s, i, j)) = j + 1 - i
      /\ \A k \in 1..(j + 1 - i) : SubSeq(s, i, j)[k] = s[i + k - 1]
  BY PartIs
<1>3. /\ SubSeq(s \o u, i, j) \in Seq(S) /\ Len(SubSeq(s \o u, i, j)) = j + 1 - i
      /\ \A k \in 1..(j + 1 - i) : SubSeq(s \o u, i, j)[k] = (s \o u)[i + k - 1]
  <2>1. j <= Len(s \o u)
    BY ONLY SMT, <1>1, j <= Len(s), j \in Nat
  <2> QED
    BY ONLY <1>1, <2>1, i \in Nat \ {0}, j \in Nat, i <= j + 1, PartIs
<1>4. ASSUME NEW k \in 1..(j + 1 - i) PROVE (s \o u)[i + k - 1] = s[i + k - 1]
  <2>1. i + k - 1 \in 1..(Len(s) + Len(u)) /\ i + k - 1 <= Len(s)
    BY <1>1
  <2> QED
    BY <1>1, <2>1
<1> QED
  BY ONLY <1>2, <1>3, <1>4, SeqEqual

LEMMA PartOfSecond ==
    ASSUME NEW S, NEW s \in Seq(S), NEW u \in Seq(S),
           NEW i \in Nat \ {0}, NEW j \in Nat, j <= Len(u), i <= j + 1
    PROVE  SubSeq(s \o u, Len(s) + i, Len(s) + j) = SubSeq(u, i, j)
<1>1. /\ Len(s) \in Nat /\ Len(u) \in Nat /\ s \o u \in Seq(S) /\ Len(s \o u) = Len(s) + Len(u)
      /\ \A k \in 1..(Len(s) + Len(u)) : (s \o u)[k] = IF k <= Len(s) THEN s[k] ELSE u[k - Len(s)]
  BY LenProperties, ConcatProperties
<1> DEFINE a == Len(s) + i
           b == Len(s) + j
<1>2. a \in Nat \ {0} /\ b \in Nat /\ b <= Len(s \o u) /\ a <= b + 1 /\ b + 1 - a = j + 1 - i
  BY <1>1
<1>3. /\ SubSeq(u, i, j) \in Seq(S) /\ Len(SubSeq(u, i, j)) = j + 1 - i
      /\ \A k \in 1..(j + 1 - i) : SubSeq(u, i, j)[k] = u[i + k - 1]
  BY PartIs
<1>4. /\ SubSeq(s \o u, a, b) \in Seq(S) /\ Len(SubSeq(s \o u, a, b)) = j + 1 - i
      /\ \A k \in 1..(j + 1 - i) : SubSeq(s \o u, a, b)[k] = (s \o u)[a + k - 1]
  <2> HIDE DEF a, b
  <2>1. /\ SubSeq(s \o u, a, b) \in Seq(S) /\ Len(SubSeq(s \o u, a, b)) = b + 1 - a
        /\ \A k \in 1..(b + 1 - a) : SubSeq(s \o u, a, b)[k] = (s \o u)[a + k - 1]
    BY ONLY <1>1, <1>2, PartIs
  <2> QED
    BY ONLY <1>2, <2>1
<1>5. ASSUME NEW k \in 1..(j + 1 - i) PROVE (s \o u)[a + k - 1] = u[i + k - 1]
  <2>1. /\ a + k - 1 \in 1..(Len(s) + Len(u)) /\ ~(a + k - 1 <= Len(s))
        /\ a + k - 1 - Len(s) = i + k - 1
    BY <1>1
  <2> QED
    BY <1>1, <2>1
<1> HIDE DEF a, b
<1>6. SubSeq(s \o u, a, b) = SubSeq(u, i, j)
  BY ONLY <1>3, <1>4, <1>5, SeqEqual
<1> QED
  BY <1>6 DEF a, b

LEMMA PartToEnd ==
    ASSUME NEW S, NEW s \in Seq(S), NEW u \in Seq(S), NEW i \in Nat \ {0}, i <= Len(s) + 1
    PROVE  SubSeq(s \o u, i, Len(s) + Len(u)) = SubSeq(s, i, Len(s)) \o u
<1>1. /\ Len(s) \in Nat /\ Len(u) \in Nat /\ s \o u \in Seq(S) /\ Len(s \o u) = Len(s) + Len(u)
      /\ \A k \in 1..(Len(s) + Len(u)) : (s \o u)[k] = IF k <= Len(s) THEN s[k] ELSE u[k - Len(s)]
  BY LenProperties, ConcatProperties
<1> DEFINE j == Len(u)
           b == Len(s) + j
           p == SubSeq(s, i, Len(s))
           n == Len(s) + 1 - i
<1>2. b \in Nat /\ b <= Len(s \o u) /\ i <= b + 1 /\ b + 1 - i = n + j /\ n \in Nat /\ j \in Nat
  BY <1>1
<1>3. p \in Seq(S) /\ Len(p) = n /\ \A k \in 1..n : p[k] = s[i + k - 1]
  BY <1>1, PartIs
<1>5. /\ SubSeq(s \o u, i, b) \in Seq(S) /\ Len(SubSeq(s \o u, i, b)) = n + j
      /\ \A k \in 1..(n + j) : SubSeq(s \o u, i, b)[k] = (s \o u)[i + k - 1]
  <2> HIDE DEF b, n
  <2>1. /\ SubSeq(s \o u, i, b) \in Seq(S) /\ Len(SubSeq(s \o u, i, b)) = b + 1 - i
        /\ \A k \in 1..(b + 1 - i) : SubSeq(s \o u, i, b)[k] = (s \o u)[i + k - 1]
    BY ONLY <1>1, <1>2, i \in Nat \ {0}, PartIs
  <2> QED
    BY ONLY <1>2, <2>1
<1> HIDE DEF p, j
<1>6. /\ p \o u \in Seq(S) /\ Len(p \o u) = n + j
      /\ \A k \in 1..(n + j) : (p \o u)[k] = IF k <= n THEN p[k] ELSE u[k - n]
  <2>1. /\ p \o u \in Seq(S) /\ Len(p \o u) = Len(p) + Len(u)
        /\ \A k \in 1..(Len(p) + Len(u)) : (p \o u)[k] = IF k <= Len(p) THEN p[k] ELSE u[k - Len(p)]
    BY ONLY <1>3, u \in Seq(S), ConcatProperties
  <2> QED
    BY ONLY <1>3, <2>1 DEF j
<1>7. ASSUME NEW k \in 1..(n + j) PROVE (s \o u)[i + k - 1] = (p \o u)[k]
  <2>1. i + k - 1 \in 1..(Len(s) + Len(u)) /\ (i + k - 1 <= Len(s) <=> k <= n)
    BY <1>1 DEF j
  <2>2. CASE k <= n
    <3>1. k \in 1..n
      BY <1>1, <2>2
    <3> QED
      BY <1>1, <1>3, <1>6, <2>1, <2>2, <3>1
  <2>3. CASE ~(k <= n)
    <3>1. i + k - 1 - Len(s) = k - n
      BY <1>1, <2>3 DEF j
    <3> QED
      BY <1>1, <1>6, <2>1, <2>3, <3>1
  <2> QED
    BY <2>2, <2>3
<1> HIDE DEF b, n
<1>8. SubSeq(s \o u, i, b) = p \o u
  BY ONLY <1>2, <1>5, <1>6, <1>7, SeqEqual
<1> QED
  BY <1>8 DEF b, p, j

LEMMA Joined ==
    ASSUME NEW S, NEW s \in Seq(S), NEW u \in Seq(S)
    PROVE  s \o u \in Seq(S) /\ Len(s \o u) = Len(s) + Len(u)
BY ConcatProperties

-----------------------------------------------------------------------------
(* Blocks of a message *)

LEMMA BlocksAre ==
    ASSUME NEW S, NEW m \in Seq(S)
    PROVE  /\ Blocks(m) \in Seq(Seq(S)) /\ Len(Blocks(m)) = Len(m) \div 64
           /\ \A i \in 1..(Len(m) \div 64) : Blocks(m)[i] = SubSeq(m, 64 * (i - 1) + 1, 64 * i)
           /\ Rest(m) \in Seq(S) /\ Len(Rest(m)) = Len(m) % 64
           /\ Rest(m) = SubSeq(m, 64 * (Len(m) \div 64) + 1, Len(m))
<1> DEFINE q == Len(m) \div 64
<1>1. Len(m) \in Nat
  BY LenProperties
<1>2. q \in Nat /\ 64 * q <= Len(m) /\ Len(m) = 64 * q + (Len(m) % 64)
  BY ONLY SMT, <1>1
<1>3. Blocks(m) = [i \in 1..q |-> SubSeq(m, 64 * (i - 1) + 1, 64 * i)]
      /\ Rest(m) = SubSeq(m, 64 * q + 1, Len(m))
  BY DEF Blocks, Rest, BlockSize
<1> HIDE DEF q
<1>4. \A i \in 1..q : SubSeq(m, 64 * (i - 1) + 1, 64 * i) \in Seq(S)
  <2> TAKE i \in 1..q
  <2>1. 64 * (i - 1) + 1 \in Nat \ {0} /\ 64 * i \in Nat /\ 64 * i <= Len(m) /\ 64 * (i - 1) + 1 <= 64 * i + 1
    BY <1>1, <1>2
  <2> QED
    BY ONLY <2>1, m \in Seq(S), PartIs
<1>5. Blocks(m) \in Seq(Seq(S)) /\ Len(Blocks(m)) = q
  BY <1>2, <1>3, <1>4
<1>6. Rest(m) \in Seq(S) /\ Len(Rest(m)) = Len(m) % 64
  <2>1. 64 * q + 1 \in Nat \ {0} /\ 64 * q + 1 <= Len(m) + 1 /\ Len(m) + 1 - (64 * q + 1) = Len(m) % 64
    BY ONLY SMT, <1>1, <1>2
  <2>2. Len(m) <= Len(m)
    BY <1>1
  <2>3. Rest(m) \in Seq(S) /\ Len(Rest(m)) = Len(m) + 1 - (64 * q + 1)
    BY ONLY <1>1, <1>3, <2>1, <2>2, m \in Seq(S), PartIs
  <2> QED
    BY <2>1, <2>3
<1> QED
  BY <1>3, <1>5, <1>6 DEF q

(* What follows full blocks is cut into blocks as if it stood alone. *)
LEMMA BlocksBehind ==
    ASSUME NEW S, NEW m \in Seq(S), NEW d \in Seq(S), Len(m) % 64 = 0
    PROVE  Blocks(m \o d) = Blocks(m) \o Blocks(d) /\ Rest(m \o d) = Rest(d)
<1> DEFINE q == Len(m) \div 64
           p == Len(d) \div 64
<1>1. /\ Len(m) \in Nat /\ Len(d) \in Nat /\ m \o d \in Seq(S) /\ Len(m \o d) = Len(m) + Len(d)
  BY LenProperties, ConcatProperties
<1>2. /\ q \in Nat /\ Len(m) = 64 * q /\ p \in Nat /\ 64 * p <= Len(d)
      /\ (Len(m) + Len(d)) \div 64 = q + p
  BY ONLY SMT, <1>1, Len(m) % 64 = 0
<1> HIDE DEF q, p
<1>3. /\ Blocks(m \o d) \in Seq(Seq(S)) /\ Len(Blocks(m \o d)) = q + p
      /\ \A i \in 1..(q + p) : Blocks(m \o d)[i] = SubSeq(m \o d, 64 * (i - 1) + 1, 64 * i)
      /\ Rest(m \o d) = SubSeq(m \o d, 64 * (q + p) + 1, Len(m) + Len(d))
  <2> DEFINE s == m \o d
  <2>1. s \in Seq(S) /\ Len(s) = Len(m) + Len(d) /\ Len(s) \div 64 = q + p
    BY <1>1, <1>2
  <2> HIDE DEF s
  <2>2. /\ Blocks(s) \in Seq(Seq(S)) /\ Len(Blocks(s)) = q + p
        /\ \A i \in 1..(q + p) : Blocks(s)[i] = SubSeq(s, 64 * (i - 1) + 1, 64 * i)
        /\ Rest(s) = SubSeq(s, 64 * (q + p) + 1, Len(s))
    BY ONLY <2>1, BlocksAre
  <2> QED
    BY ONLY <2>1, <2>2 DEF s
<1>4. /\ Blocks(m) \in Seq(Seq(S)) /\ Len(Blocks(m)) = q
      /\ \A i \in 1..q : Blocks(m)[i] = SubSeq(m, 64 * (i - 1) + 1, 64 * i)
  BY ONLY <1>1, <1>2, BlocksAre, m \in Seq(S) DEF q
<1>5. /\ Blocks(d) \in Seq(Seq(S)) /\ Len(Blocks(d)) = p
      /\ \A i \in 1..p : Blocks(d)[i] = SubSeq(d, 64 * (i - 1) + 1, 64 * i)
      /\ Rest(d) = SubSeq(d, 64 * p + 1, Len(d))
  BY ONLY <1>1, <1>2, BlocksAre, d \in Seq(S) DEF p
<1>6. /\ Blocks(m) \o Blocks(d) \in Seq(Seq(S)) /\ Len(Blocks(m) \o Blocks(d)) = q + p
      /\ \A i \in 1..(q + p) : (Blocks(m) \o Blocks(d))[i] =
            IF i <= q THEN Blocks(m)[i] ELSE Blocks(d)[i - q]
  <2> DEFINE x == Blocks(m)
             y == Blocks(d)
  <2> HIDE DEF x, y
  <2>0. x \in Seq(Seq(S)) /\ y \in Seq(Seq(S)) /\ Len(x) = q /\ Len(y) = p
    BY <1>4, <1>5 DEF x, y
  <2>1. /\ x \o y \in Seq(Seq(S)) /\ Len(x \o y) = Len(x) + Len(y)
        /\ \A i \in 1..(Len(x) + Len(y)) : (x \o y)[i] = IF i <= Len(x) THEN x[i] ELSE y[i - Len(x)]
    BY ONLY <2>0, ConcatProperties
  <2>2. /\ x \o y \in Seq(Seq(S)) /\ Len(x \o y) = q + p
        /\ \A i \in 1..(q + p) : (x \o y)[i] = IF i <= q THEN x[i] ELSE y[i - q]
    BY ONLY <2>0, <2>1
  <2> QED
    BY ONLY <2>2 DEF x, y
<1>7. ASSUME NEW i \in 1..(q + p) PROVE Blocks(m \o d)[i] = (Blocks(m) \o Blocks(d))[i]
  <2>1. CASE i <= q
    <3>1. /\ i \in 1..q /\ 64 * (i - 1) + 1 \in Nat \ {0} /\ 64 * i \in Nat
          /\ 64 * i <= Len(m) /\ 64 * (i - 1) + 1 <= 64 * i + 1
      BY ONLY SMT, <1>1, <1>2, <2>1, i \in 1..(q + p)
    <3>2. SubSeq(m \o d, 64 * (i - 1) + 1, 64 * i) = SubSeq(m, 64 * (i - 1) + 1, 64 * i)
      BY ONLY <3>1, m \in Seq(S), d \in Seq(S), PartOfFirst
    <3>3. Blocks(m \o d)[i] = SubSeq(m, 64 * (i - 1) + 1, 64 * i)
      BY ONLY Zenon, <1>3, <3>2, i \in 1..(q + p)
    <3>4. Blocks(m)[i] = SubSeq(m, 64 * (i - 1) + 1, 64 * i)
      BY ONLY Zenon, <1>4, <3>1
    <3> QED
      BY ONLY <1>6, <2>1, <3>3, <3>4, i \in 1..(q + p)
  <2>2. CASE ~(i <= q)
    <3> DEFINE j == i - q
               a == 64 * (j - 1) + 1
               b == 64 * j
    <3>1. /\ j \in 1..p /\ a \in Nat \ {0} /\ b \in Nat /\ b <= Len(d) /\ a <= b + 1
          /\ 64 * (i - 1) + 1 = Len(m) + a /\ 64 * i = Len(m) + b
      BY ONLY SMT, <1>1, <1>2, <2>2, i \in 1..(q + p)
    <3> HIDE DEF a, b
    <3>2. SubSeq(m \o d, Len(m) + a, Len(m) + b) = SubSeq(d, a, b)
      BY ONLY <3>1, m \in Seq(S), d \in Seq(S), PartOfSecond
    <3>3. Blocks(m \o d)[i] = SubSeq(d, a, b)
      BY ONLY <1>3, <3>1, <3>2, i \in 1..(q + p)
    <3>4. Blocks(d)[j] = SubSeq(d, a, b)
      BY ONLY <1>5, <3>1 DEF a, b
    <3> QED
      BY <1>6, <2>2, <3>3, <3>4
  <2> QED
    BY <2>1, <2>2
<1>8. Blocks(m \o d) = Blocks(m) \o Blocks(d)
  <2> DEFINE x == Blocks(m \o d)
             y == Blocks(m) \o Blocks(d)
  <2>1. x \in Seq(Seq(S)) /\ y \in Seq(Seq(S)) /\ Len(x) = q + p /\ Len(y) = q + p
        /\ \A i \in 1..(q + p) : x[i] = y[i]
    BY <1>3, <1>6, <1>7
  <2> HIDE DEF x, y
  <2>2. x = y
    BY ONLY <2>1, SeqEqual
  <2> QED
    BY <2>2 DEF x, y
<1>9. Rest(m \o d) = Rest(d)
  <2>1. /\ 64 * (q + p) + 1 = Len(m) + (64 * p + 1) /\ 64 * p + 1 \in Nat \ {0}
        /\ 64 * p + 1 <= Len(d) + 1 /\ Len(d) <= Len(d)
    BY ONLY SMT, <1>1, <1>2
  <2>2. SubSeq(m \o d, Len(m) + (64 * p + 1), Len(m) + Len(d)) = SubSeq(d, 64 * p + 1, Len(d))
    <3> DEFINE a == 64 * p + 1
               b == Len(d)
    <3>1. a \in Nat \ {0} /\ b \in Nat /\ b <= Len(d) /\ a <= b + 1
      BY <1>1, <2>1
    <3> HIDE DEF a, b
    <3>2. SubSeq(m \o d, Len(m) + a, Len(m) + b) = SubSeq(d, a, b)
      BY ONLY <3>1, m \in Seq(S), d \in Seq(S), PartOfSecond
    <3> QED
      BY ONLY Zenon, <3>2 DEF a, b
  <2> QED
    BY <1>3, <1>5, <2>1, <2>2
<1> QED
  BY <1>8, <1>9

(* Data that does not fill the block begun is only kept. *)
LEMMA BlocksWithin ==
    ASSUME NEW S, NEW m \in Seq(S), NEW d \in Seq(S), (Len(m) % 64) + Len(d) < 64
    PROVE  Blocks(m \o d) = Blocks(m) /\ Rest(m \o d) = Rest(m) \o d
<1> DEFINE q == Len(m) \div 64
<1>1. /\ Len(m) \in Nat /\ Len(d) \in Nat /\ m \o d \in Seq(S) /\ Len(m \o d) = Len(m) + Len(d)
  BY LenProperties, ConcatProperties
<1>2. /\ q \in Nat /\ 64 * q <= Len(m) /\ (Len(m) + Len(d)) \div 64 = q
  BY ONLY SMT, <1>1, (Len(m) % 64) + Len(d) < 64
<1> HIDE DEF q
<1>3. /\ Blocks(m) \in Seq(Seq(S)) /\ Len(Blocks(m)) = q
      /\ \A i \in 1..q : Blocks(m)[i] = SubSeq(m, 64 * (i - 1) + 1, 64 * i)
      /\ Rest(m) = SubSeq(m, 64 * q + 1, Len(m))
  BY ONLY <1>1, <1>2, BlocksAre, m \in Seq(S) DEF q
<1>4. /\ Blocks(m \o d) \in Seq(Seq(S)) /\ Len(Blocks(m \o d)) = q
      /\ \A i \in 1..q : Blocks(m \o d)[i] = SubSeq(m \o d, 64 * (i - 1) + 1, 64 * i)
      /\ Rest(m \o d) = SubSeq(m \o d, 64 * q + 1, Len(m) + Len(d))
  <2> DEFINE s == m \o d
  <2>1. s \in Seq(S) /\ Len(s) = Len(m) + Len(d) /\ Len(s) \div 64 = q
    BY <1>1, <1>2
  <2> HIDE DEF s
  <2>2. /\ Blocks(s) \in Seq(Seq(S)) /\ Len(Blocks(s)) = q
        /\ \A i \in 1..q : Blocks(s)[i] = SubSeq(s, 64 * (i - 1) + 1, 64 * i)
        /\ Rest(s) = SubSeq(s, 64 * q + 1, Len(s))
    BY ONLY <2>1, BlocksAre
  <2> QED
    BY ONLY <2>1, <2>2 DEF s
<1>5. ASSUME NEW i \in 1..q PROVE Blocks(m \o d)[i] = Blocks(m)[i]
  <2>1. /\ 64 * (i - 1) + 1 \in Nat \ {0} /\ 64 * i \in Nat
        /\ 64 * i <= Len(m) /\ 64 * (i - 1) + 1 <= 64 * i + 1
    BY ONLY SMT, <1>1, <1>2, i \in 1..q
  <2>2. SubSeq(m \o d, 64 * (i - 1) + 1, 64 * i) = SubSeq(m, 64 * (i - 1) + 1, 64 * i)
    BY ONLY <2>1, m \in Seq(S), d \in Seq(S), PartOfFirst
  <2> QED
    BY <1>3, <1>4, <2>2
<1>6. Blocks(m \o d) = Blocks(m)
  <2> DEFINE x == Blocks(m \o d)
             y == Blocks(m)
  <2>1. x \in Seq(Seq(S)) /\ y \in Seq(Seq(S)) /\ Len(x) = q /\ Len(y) = q
        /\ \A i \in 1..q : x[i] = y[i]
    BY <1>3, <1>4, <1>5
  <2> HIDE DEF x, y
  <2>2. x = y
    BY ONLY <2>1, SeqEqual
  <2> QED
    BY <2>2 DEF x, y
<1>7. Rest(m \o d) = Rest(m) \o d
  <2>1. 64 * q + 1 \in Nat \ {0} /\ 64 * q + 1 <= Len(m) + 1
    BY ONLY SMT, <1>1, <1>2
  <2>2. SubSeq(m \o d, 64 * q + 1, Len(m) + Len(d)) = SubSeq(m, 64 * q + 1, Len(m)) \o d
    <3> DEFINE n == 64 * q + 1
    <3>1. n \in Nat \ {0} /\ n <= Len(m) + 1
      BY <2>1
    <3> HIDE DEF n
    <3>2. SubSeq(m \o d, n, Len(m) + Len(d)) = SubSeq(m, n, Len(m)) \o d
      BY ONLY <3>1, m \in Seq(S), d \in Seq(S), PartToEnd
    <3> QED
      BY <3>2 DEF n
  <2> QED
    BY <1>3, <1>4, <2>2
<1> QED
  BY <1>6, <1>7

(* Data that just fills the block begun makes it the next block. *)
LEMMA BlockFilled ==
    ASSUME NEW S, NEW m \in Seq(S), NEW d \in Seq(S), (Len(m) % 64) + Len(d) = 64
    PROVE  Blocks(m \o d) = Append(Blocks(m), Rest(m) \o d) /\ Len(m \o d) % 64 = 0
<1> DEFINE q == Len(m) \div 64
<1>1. /\ Len(m) \in Nat /\ Len(d) \in Nat /\ m \o d \in Seq(S) /\ Len(m \o d) = Len(m) + Len(d)
  BY LenProperties, ConcatProperties
<1>2. /\ q \in Nat /\ 64 * q <= Len(m) /\ (Len(m) + Len(d)) \div 64 = q + 1
      /\ 64 * (q + 1) = Len(m) + Len(d) /\ (Len(m) + Len(d)) % 64 = 0
  BY ONLY SMT, <1>1, (Len(m) % 64) + Len(d) = 64
<1> HIDE DEF q
<1>3. /\ Blocks(m) \in Seq(Seq(S)) /\ Len(Blocks(m)) = q
      /\ \A i \in 1..q : Blocks(m)[i] = SubSeq(m, 64 * (i - 1) + 1, 64 * i)
      /\ Rest(m) = SubSeq(m, 64 * q + 1, Len(m)) /\ Rest(m) \in Seq(S)
  BY ONLY <1>1, <1>2, BlocksAre, m \in Seq(S) DEF q
<1>4. /\ Blocks(m \o d) \in Seq(Seq(S)) /\ Len(Blocks(m \o d)) = q + 1
      /\ \A i \in 1..(q + 1) : Blocks(m \o d)[i] = SubSeq(m \o d, 64 * (i - 1) + 1, 64 * i)
  <2> DEFINE s == m \o d
  <2>1. s \in Seq(S) /\ Len(s) = Len(m) + Len(d) /\ Len(s) \div 64 = q + 1
    BY <1>1, <1>2
  <2> HIDE DEF s
  <2>2. /\ Blocks(s) \in Seq(Seq(S)) /\ Len(Blocks(s)) = q + 1
        /\ \A i \in 1..(q + 1) : Blocks(s)[i] = SubSeq(s, 64 * (i - 1) + 1, 64 * i)
    BY ONLY <2>1, BlocksAre
  <2> QED
    BY ONLY <2>1, <2>2 DEF s
<1>5. ASSUME NEW i \in 1..q PROVE Blocks(m \o d)[i] = Blocks(m)[i]
  <2>1. /\ 64 * (i - 1) + 1 \in Nat \ {0} /\ 64 * i \in Nat /\ i \in 1..(q + 1)
        /\ 64 * i <= Len(m) /\ 64 * (i - 1) + 1 <= 64 * i + 1
    BY ONLY SMT, <1>1, <1>2, i \in 1..q
  <2>2. SubSeq(m \o d, 64 * (i - 1) + 1, 64 * i) = SubSeq(m, 64 * (i - 1) + 1, 64 * i)
    BY ONLY <2>1, m \in Seq(S), d \in Seq(S), PartOfFirst
  <2>3. Blocks(m)[i] = SubSeq(m, 64 * (i - 1) + 1, 64 * i)
    BY ONLY Zenon, <1>3, i \in 1..q
  <2>4. Blocks(m \o d)[i] = SubSeq(m \o d, 64 * (i - 1) + 1, 64 * i)
    BY ONLY Zenon, <1>4, <2>1
  <2> QED
    BY ONLY Zenon, <2>2, <2>3, <2>4
<1>6. Blocks(m \o d)[q + 1] = Rest(m) \o d
  <2>1. /\ 64 * q + 1 \in Nat \ {0} /\ 64 * q + 1 <= Len(m) + 1
    BY ONLY SMT, <1>1, <1>2
  <2>0. q + 1 \in 1..(q + 1) /\ 64 * ((q + 1) - 1) + 1 = 64 * q + 1
    BY ONLY SMT, <1>1, <1>2
  <2>2. SubSeq(m \o d, 64 * q + 1, Len(m) + Len(d)) = SubSeq(m, 64 * q + 1, Len(m)) \o d
    <3> DEFINE n == 64 * q + 1
    <3>1. n \in Nat \ {0} /\ n <= Len(m) + 1
      BY <2>1
    <3> HIDE DEF n
    <3>2. SubSeq(m \o d, n, Len(m) + Len(d)) = SubSeq(m, n, Len(m)) \o d
      BY ONLY <3>1, m \in Seq(S), d \in Seq(S), PartToEnd
    <3> QED
      BY <3>2 DEF n
  <2>4. Blocks(m \o d)[q + 1] = SubSeq(m \o d, 64 * q + 1, Len(m) + Len(d))
    BY ONLY <1>2, <1>4, <2>0
  <2> QED
    BY <1>3, <2>2, <2>4
<1>7. Blocks(m \o d) = Append(Blocks(m), Rest(m) \o d)
  <2> DEFINE x == Blocks(m \o d)
             y == Blocks(m)
             r == Rest(m) \o d
             z == Append(y, r)
  <2>0. r \in Seq(S)
    BY <1>3, ConcatProperties
  <2>1. x \in Seq(Seq(S)) /\ y \in Seq(Seq(S)) /\ Len(x) = q + 1 /\ Len(y) = q
        /\ (\A i \in 1..q : x[i] = y[i]) /\ x[q + 1] = r /\ r \in Seq(S)
    BY <1>3, <1>4, <1>5, <1>6, <2>0
  <2> HIDE DEF x, y, r
  <2>2. z \in Seq(Seq(S)) /\ Len(z) = q + 1 /\ (\A i \in 1..q : z[i] = y[i]) /\ z[q + 1] = r
    BY ONLY <2>1, AppendProperties DEF z
  <2> HIDE DEF z
  <2>3. ASSUME NEW i \in 1..(q + 1) PROVE x[i] = z[i]
    <3>1. i \in 1..q \/ i = q + 1
      BY <1>2
    <3> QED
      BY <2>1, <2>2, <3>1
  <2>4. x = z
    BY ONLY <2>1, <2>2, <2>3, SeqEqual
  <2> QED
    BY <2>4 DEF x, y, r, z
<1> QED
  BY <1>1, <1>2, <1>7

(* A sequence is its first elements and what follows them. *)
LEMMA TwoParts ==
    ASSUME NEW S, NEW d \in Seq(S), NEW c \in 0..Len(d)
    PROVE  /\ SubSeq(d, 1, c) \in Seq(S) /\ Len(SubSeq(d, 1, c)) = c
           /\ SubSeq(d, c + 1, Len(d)) \in Seq(S)
           /\ d = SubSeq(d, 1, c) \o SubSeq(d, c + 1, Len(d))
<1>1. /\ Len(d) \in Nat /\ c \in Nat /\ c <= Len(d) /\ 1 <= c + 1 /\ c + 1 - 1 = c /\ c + 1 <= Len(d) + 1
      /\ Len(d) <= Len(d) /\ c + 1 \in Nat \ {0} /\ 1 \in Nat \ {0}
      /\ 1 \in 1..(Len(d) + 1) /\ c \in (1 - 1)..Len(d) /\ Len(d) \in c..Len(d)
  BY LenProperties
<1>2. SubSeq(d, 1, c) \in Seq(S) /\ Len(SubSeq(d, 1, c)) = c + 1 - 1
  BY ONLY <1>1, d \in Seq(S), PartIs
<1>3. SubSeq(d, c + 1, Len(d)) \in Seq(S)
  <2> DEFINE b == c + 1
  <2>1. b \in Nat \ {0} /\ b <= Len(d) + 1
    BY <1>1
  <2> HIDE DEF b
  <2>2. SubSeq(d, b, Len(d)) \in Seq(S)
    BY ONLY <1>1, <2>1, d \in Seq(S), PartIs
  <2> QED
    BY <2>2 DEF b
<1>4. SubSeq(d, 1, c) \o SubSeq(d, c + 1, Len(d)) = SubSeq(d, 1, Len(d))
  BY ONLY <1>1, d \in Seq(S), ConcatAdjacentSubSeq
<1>5. SubSeq(d, 1, Len(d)) = d
  BY SubSeqFull
<1> QED
  BY <1>1, <1>2, <1>3, <1>4, <1>5

LEMMA DigestKept ==
    \A c0, c1, a, b, rest : Kept(Digest(c0, c1, a, b), rest) = Digest(c0, c1, a, rest)
BY DEF Digest, Kept

LEMMA BlockProcessed ==
    \A c0, c1, a, b, block :
        bson_md5_process(Digest(c0, c1, a, b), block) = Digest(c0, c1, Append(a, block), b)
<1> TAKE c0, c1, a, b, block
<1> DEFINE d == Digest(c0, c1, a, b)
           x == Append(a, block)
<1>1. d = [count0 |-> c0, count1 |-> c1, abcd |-> a, buf |-> b]
  BY DEF Digest
<1>2. bson_md5_process(d, block) = [d EXCEPT !.abcd = x]
  <2>1. d.abcd = a
    BY DigestParts
  <2> HIDE DEF d
  <2> QED
    BY Zenon, <2>1 DEF bson_md5_process
<1> HIDE DEF d, x
<1>3. [d EXCEPT !.abcd = x] = [count0 |-> c0, count1 |-> c1, abcd |-> x, buf |-> b]
  BY ONLY <1>1
<1> QED
  BY ONLY Zenon, <1>2, <1>3 DEF Digest, d, x

LEMMA BlocksProcessed ==
    \A c0, c1, a, b, data :
        ProcessBlocks(Digest(c0, c1, a, b), data) = Digest(c0, c1, a \o Blocks(data), Rest(data))
<1> TAKE c0, c1, a, b, data
<1> DEFINE d == Digest(c0, c1, a, b)
           x == a \o Blocks(data)
           y == Rest(data)
           e == [d EXCEPT !.abcd = x]
<1>1. d = [count0 |-> c0, count1 |-> c1, abcd |-> a, buf |-> b]
  BY DEF Digest
<1>2. ProcessBlocks(d, data) = [d EXCEPT !.abcd = x, !.buf = y]
  <2>1. d.abcd = a
    BY DEF Digest
  <2> HIDE DEF d
  <2> QED
    BY Zenon, <2>1 DEF ProcessBlocks
<1> HIDE DEF d, x, y
<1>3. e = [count0 |-> c0, count1 |-> c1, abcd |-> x, buf |-> b]
  BY ONLY <1>1
<1>4. [d EXCEPT !.abcd = x, !.buf = y] = [e EXCEPT !.buf = y]
  BY <1>1
<1> HIDE DEF e
<1>5. [e EXCEPT !.buf = y] = [count0 |-> c0, count1 |-> c1, abcd |-> x, buf |-> y]
  BY ONLY <1>3
<1> QED
  BY ONLY Zenon, <1>2, <1>4, <1>5 DEF Digest, d, x, y

(* The digest that was fed exactly m *)
Fed(m) == Digest(Bits0(Len(m)), Bits1(Len(m)), Blocks(m), Rest(m))

(* Whatever the digest was fed before, more data feeds it the whole. *)
LEMMA FedAppended ==
    ASSUME NEW S, NEW m \in Seq(S), NEW d \in Seq(S)
    PROVE  bson_md5_append(Fed(m), d) = Fed(m \o d)
<1> DEFINE n == Len(m)
           k == Len(d)
           o == n % 64
           c == IF o + k > 64 THEN 64 - o ELSE k
           md5_ == Fed(m)
           counted == Counted(md5_, k)
           filled == SubSeq(Rest(m), 1, o) \o SubSeq(d, 1, c)
           later == SubSeq(d, c + 1, k)
<1>1. n \in Nat /\ k \in Nat /\ m \o d \in Seq(S) /\ Len(m \o d) = n + k
  BY LenProperties, ConcatProperties
<1>2. o \in 0..63
  <2> HIDE DEF n
  <2> QED
    BY ONLY SMT, <1>1
<1>b. md5_.count0 = Bits0(n) /\ md5_.count1 = Bits1(n) /\ md5_.buf = Rest(m)
  BY DigestParts DEF Fed
<1>3. (md5_.count0 \div 8) % BlockSize = o
  BY <1>1, <1>b, PlaceInBlock DEF Bits0, BlockSize
<1>4. counted = Digest(Bits0(n + k), Bits1(n + k), Blocks(m), Rest(m))
  BY <1>1, DigestCounted DEF Fed
<1>5. Rest(m) \in Seq(S) /\ Len(Rest(m)) = o /\ SubSeq(Rest(m), 1, o) = Rest(m)
  <2>1. Rest(m) \in Seq(S) /\ Len(Rest(m)) = o
    BY BlocksAre
  <2> QED
    BY <2>1, SubSeqFull
<1>6. bson_md5_append(md5_, d) =
        IF d = <<>> THEN md5_
        ELSE IF o = 0 THEN ProcessBlocks(counted, d)
        ELSE IF o + c < 64 THEN Kept(counted, filled)
        ELSE ProcessBlocks(bson_md5_process(counted, filled), later)
  <2> HIDE DEF o, md5_
  <2> QED
    BY ONLY ZenonT(30), <1>3, <1>b DEF bson_md5_append, BlockSize, counted, filled, later, c, k, Kept
<1>7. Fed(m \o d) = Digest(Bits0(n + k), Bits1(n + k), Blocks(m \o d), Rest(m \o d))
  BY <1>1 DEF Fed
<1> HIDE DEF counted, later, filled, o
<1>a. c \in 0..k /\ (o + c < 64 => c = k) /\ (~(o + c < 64) => o + c = 64)
  BY ONLY SMT, <1>1, <1>2 DEF c
<1> HIDE DEF c, n, k
<1>8. CASE d = <<>>
  <2>1. m \o d = m
    BY <1>8, ConcatEmptySeq
  <2> QED
    BY <1>6, <1>8, <2>1
<1>9. CASE d # <<>> /\ o = 0
  <2>1. Blocks(m \o d) = Blocks(m) \o Blocks(d) /\ Rest(m \o d) = Rest(d)
    BY <1>9, BlocksBehind DEF o, n
  <2>4. ProcessBlocks(counted, d) = Fed(m \o d)
    BY ONLY <1>4, <1>7, <2>1, BlocksProcessed
  <2> QED
    BY ONLY Zenon, <1>6, <1>9, <2>4 DEF md5_
<1>10. CASE d # <<>> /\ o # 0 /\ o + c < 64
  <2>1. c = k /\ (Len(m) % 64) + Len(d) < 64
    BY <1>a, <1>10 DEF o, n, k
  <2>2. SubSeq(d, 1, c) = d
    BY <2>1, SubSeqFull DEF k
  <2>3. filled = Rest(m) \o d
    BY <1>5, <2>2 DEF filled
  <2>4. Blocks(m \o d) = Blocks(m) /\ Rest(m \o d) = Rest(m) \o d
    BY <2>1, BlocksWithin
  <2>5. Kept(counted, filled) = Fed(m \o d)
    BY ONLY <1>4, <1>7, <2>3, <2>4, DigestKept
  <2> QED
    BY ONLY Zenon, <1>6, <1>10, <2>5 DEF md5_
<1>11. CASE d # <<>> /\ o # 0 /\ ~(o + c < 64)
  <2> DEFINE e == SubSeq(d, 1, c)
  <2>1. o + c = 64
    BY <1>a, <1>11
  <2>2. e \in Seq(S) /\ Len(e) = c /\ later \in Seq(S) /\ d = e \o later
    BY <1>a, TwoParts DEF later, k
  <2> HIDE DEF e
  <2>3. filled = Rest(m) \o e
    BY <1>5 DEF e, filled
  <2>4. Blocks(m \o e) = Append(Blocks(m), Rest(m) \o e) /\ Len(m \o e) % 64 = 0 /\ m \o e \in Seq(S)
    <3>1. (Len(m) % 64) + Len(e) = 64
      BY <2>1, <2>2 DEF o, n
    <3>2. m \o e \in Seq(S)
      BY <2>2, ConcatProperties
    <3> QED
      BY ONLY <2>2, <3>1, <3>2, m \in Seq(S), BlockFilled
  <2>5. (m \o e) \o later = m \o d
    <3>1. (m \o e) \o later = m \o (e \o later)
      <4>1. e \in Seq(S) /\ later \in Seq(S)
        BY <2>2
      <4> QED
        BY ONLY <4>1, m \in Seq(S), ConcatAssociative
    <3> QED
      BY ONLY Zenon, <2>2, <3>1
  <2>6. Blocks(m \o d) = Blocks(m \o e) \o Blocks(later) /\ Rest(m \o d) = Rest(later)
    <3> DEFINE s == m \o e
    <3>1. s \in Seq(S) /\ Len(s) % 64 = 0
      BY <2>4
    <3> HIDE DEF s
    <3>2. Blocks(s \o later) = Blocks(s) \o Blocks(later) /\ Rest(s \o later) = Rest(later)
      BY ONLY <2>2, <3>1, BlocksBehind
    <3> QED
      BY ONLY Zenon, <2>5, <3>2 DEF s
  <2>7. bson_md5_process(counted, filled) =
          Digest(Bits0(n + k), Bits1(n + k), Blocks(m \o e), Rest(m))
    BY ONLY <1>4, <2>3, <2>4, BlockProcessed
  <2> DEFINE x == bson_md5_process(counted, filled)
  <2> HIDE DEF x
  <2>9. ProcessBlocks(x, later) = Fed(m \o d)
    BY ONLY <1>7, <2>6, <2>7, BlocksProcessed DEF x
  <2> QED
    BY ONLY Zenon, <1>6, <1>11, <2>9 DEF md5_, x
<1> QED
  BY ONLY Zenon, <1>8, <1>9, <1>10, <1>11

(* The new digest was fed nothing. *)
LEMMA FedNothing == bson_md5_init = Fed(<<>>)
<1>1. Bits0(0) = 0 /\ Bits1(0) = 0
  BY Md5Assumption DEF Bits0, Bits1
<1>2. Blocks(<<>>) = <<>> /\ Rest(<<>>) = <<>> /\ Len(<<>>) = 0
  <2>1. <<>> \in Seq(Int) /\ Len(<<>>) = 0 /\ 0 \div 64 = 0 /\ 0 % 64 = 0
    OBVIOUS
  <2>2. Blocks(<<>>) \in Seq(Seq(Int)) /\ Len(Blocks(<<>>)) = 0 /\ Rest(<<>>) \in Seq(Int) /\ Len(Rest(<<>>)) = 0
    BY <2>1, BlocksAre
  <2> QED
    BY <2>1, <2>2, EmptySeq
<1> QED
  BY <1>1, <1>2 DEF Fed, Digest, bson_md5_init

(* The zeros that bring n bytes and a byte of 128 to 56 in the last block *)
Zeros(n) == CHOOSE z \in 0..(BlockSize - 1) : (n + 1 + z + 8) % BlockSize = 0

Bytes == 0..255

(* A word is four bytes. *)
LEMMA WordBytesAre ==
    ASSUME NEW n \in Nat
    PROVE  WordBytes(n) \in Seq(Bytes) /\ Len(WordBytes(n)) = 4
<1> DEFINE a == n % 256
           b == (n \div 256) % 256
           c == (n \div 65536) % 256
           e == (n \div 16777216) % 256
<1>1. a \in Bytes /\ b \in Bytes /\ c \in Bytes /\ e \in Bytes
  BY SMT DEF Bytes
<1>2. WordBytes(n) = <<a, b, c, e>>
  BY DEF WordBytes
<1> HIDE DEF a, b, c, e
<1> QED
  BY <1>1, <1>2 DEF Bytes

(* A digest that is finished has mixed in the padded message. *)
LEMMA FinishedDigest ==
    ASSUME NEW m \in Seq(Bytes)
    PROVE  /\ bson_md5_finish(Fed(m)) = Fed(Padded(m))
           /\ Padded(m) \in Seq(Bytes) /\ Len(Padded(m)) % 64 = 0
<1> DEFINE n == Len(m)
           c == Fed(m).count0 \div 8
           k == (55 - c) % 64
           zeros == [i \in 1..k |-> 0]
           pad == [i \in 1..(k + 1) |-> IF i = 1 THEN 128 ELSE 0]
           w == WordBytes(Bits0(n))
           v == WordBytes(Bits1(n))
<1>1. n \in Nat
  BY LenProperties
<1>2. Fed(m).count0 = Bits0(n) /\ Fed(m).count1 = Bits1(n)
  BY DigestParts DEF Fed
<1>3. Bits0(n) \in Nat /\ Bits1(n) \in Nat
  BY <1>1, Md5Assumption DEF Bits0, Bits1
<1>4. c \in Nat /\ c % 64 = n % 64
  <2>1. (Bits0(n) \div 8) % BlockSize = n % BlockSize
    BY <1>1, PlaceInBlock DEF Bits0
  <2> QED
    BY <1>2, <1>3, <2>1 DEF BlockSize
<1> HIDE DEF c
<1>5. k \in 0..63 /\ (n + 1 + k + 8) % 64 = 0 /\ Zeros(n) = k
  <2>1. n \in Nat /\ c \in Nat /\ c % 64 = n % 64
    BY <1>1, <1>4
  <2> HIDE DEF n
  <2>2. k \in 0..63 /\ (n + 1 + k + 8) % 64 = 0
    BY ONLY SMT, <2>1
  <2>3. \A z \in 0..63 : (n + 1 + z + 8) % 64 = 0 => z = k
    BY ONLY SMT, <2>1
  <2> HIDE DEF k
  <2>4. (CHOOSE z \in 0..63 : (n + 1 + z + 8) % 64 = 0) = k
    BY ONLY Zenon, <2>2, <2>3
  <2>5. BlockSize = 64 /\ BlockSize - 1 = 63
    BY DEF BlockSize
  <2> QED
    BY ONLY Zenon, <2>2, <2>4, <2>5 DEF Zeros
<1>6. CountBytes(Fed(m)) = w \o v
  BY <1>2 DEF CountBytes
<1>7. bson_md5_finish(Fed(m)) = bson_md5_append(bson_md5_append(Fed(m), pad), w \o v)
  BY ONLY Zenon, <1>6 DEF bson_md5_finish, c, k, pad, BlockSize
<1>8. Padded(m) = m \o <<128>> \o zeros \o w \o v
  <2>1. (8 * n) % Word = Bits0(n) /\ ((8 * n) \div Word) % Word = Bits1(n)
    BY DEF Bits0, Bits1
  <2> HIDE DEF k
  <2> QED
    BY ONLY Zenon, <1>5, <2>1 DEF Padded, Zeros, n, w, v, zeros
<1> HIDE DEF k, n
<1>9. /\ zeros \in Seq(Bytes) /\ Len(zeros) = k /\ <<128>> \in Seq(Bytes) /\ Len(<<128>>) = 1
      /\ pad \in Seq(Bytes) /\ Len(pad) = k + 1
  <2>1. k \in Nat /\ k + 1 \in Nat
    BY <1>5
  <2> QED
    BY <2>1 DEF Bytes
<1>10. pad = <<128>> \o zeros
  <2> DEFINE s == <<128>> \o zeros
             h == <<128>>
  <2>1. h[1] = 128
    OBVIOUS
  <2>2. \A i \in 1..k : zeros[i] = 0
    OBVIOUS
  <2>3. \A i \in 1..(k + 1) : pad[i] = IF i = 1 THEN 128 ELSE 0
    OBVIOUS
  <2> HIDE DEF pad, zeros, h
  <2>4. s = h \o zeros /\ h \in Seq(Bytes) /\ Len(h) = 1
    BY <1>9 DEF h
  <2> HIDE DEF s
  <2>5. /\ s \in Seq(Bytes) /\ Len(s) = Len(h) + Len(zeros)
        /\ \A i \in 1..(Len(h) + Len(zeros)) : s[i] = IF i <= Len(h) THEN h[i] ELSE zeros[i - Len(h)]
    <3> DEFINE S == Bytes
    <3>1. h \in Seq(S) /\ zeros \in Seq(S)
      BY <1>9, <2>4
    <3> HIDE DEF S
    <3>2. /\ h \o zeros \in Seq(S) /\ Len(h \o zeros) = Len(h) + Len(zeros)
          /\ \A i \in 1..(Len(h) + Len(zeros)) :
                (h \o zeros)[i] = IF i <= Len(h) THEN h[i] ELSE zeros[i - Len(h)]
      BY ONLY <3>1, ConcatProperties
    <3> QED
      BY ONLY <2>4, <3>2 DEF S
  <2>6. 1 + k = k + 1 /\ k \in Nat
    BY <1>5
  <2>7. ASSUME NEW i \in 1..(k + 1) PROVE s[i] = pad[i]
    <3>1. (i <= 1 <=> i = 1) /\ (i # 1 => i - 1 \in 1..k)
      BY ONLY SMT, <2>6, i \in 1..(k + 1)
    <3>2. s[i] = IF i <= 1 THEN h[i] ELSE zeros[i - 1]
      BY ONLY <1>9, <2>4, <2>5, <2>6, i \in 1..(k + 1)
    <3> QED
      BY ONLY <2>1, <2>2, <2>3, <3>1, <3>2, i \in 1..(k + 1)
  <2>8. s = pad
    BY ONLY <1>9, <2>4, <2>5, <2>6, <2>7, SeqEqual
  <2> QED
    BY <2>8 DEF s
<1>11. w \in Seq(Bytes) /\ v \in Seq(Bytes) /\ Len(w) = 4 /\ Len(v) = 4
  BY <1>3, WordBytesAre
<1> DEFINE h == <<128>>
<1> HIDE DEF pad, zeros, w, v, h
<1>12. /\ h \o zeros \in Seq(Bytes) /\ w \o v \in Seq(Bytes) /\ Len(h \o zeros) = 1 + k /\ Len(w \o v) = 8
       /\ m \o h \in Seq(Bytes)
  <2>1. h \in Seq(Bytes) /\ Len(h) = 1
    BY <1>9 DEF h
  <2>2. h \o zeros \in Seq(Bytes) /\ Len(h \o zeros) = 1 + k
    <3>1. zeros \in Seq(Bytes) /\ Len(zeros) = k
      BY <1>9
    <3> QED
      BY ONLY <2>1, <3>1, Joined
  <2>3. w \o v \in Seq(Bytes) /\ Len(w \o v) = 4 + 4
    BY ONLY <1>11, Joined
  <2>4. m \o h \in Seq(Bytes)
    BY ONLY <2>1, m \in Seq(Bytes), Joined
  <2> QED
    BY ONLY <2>2, <2>3, <2>4, 4 + 4 = 8
<1>13. Padded(m) = (m \o pad) \o (w \o v)
  <2>1. h \in Seq(Bytes)
    BY <1>9 DEF h
  <2>2. (m \o h) \o zeros = m \o (h \o zeros)
    <3>1. zeros \in Seq(Bytes)
      BY <1>9
    <3> QED
      BY ONLY <2>1, <3>1, m \in Seq(Bytes), ConcatAssociative
  <2>3. pad = h \o zeros
    BY <1>10 DEF h
  <2>4. m \o pad \in Seq(Bytes)
    BY <1>9, ConcatProperties
  <2>5. ((m \o pad) \o w) \o v = (m \o pad) \o (w \o v)
    <3> DEFINE s == m \o pad
    <3>1. s \in Seq(Bytes) /\ w \in Seq(Bytes) /\ v \in Seq(Bytes)
      BY <1>11, <2>4
    <3> HIDE DEF s
    <3>2. (s \o w) \o v = s \o (w \o v)
      BY ONLY <3>1, ConcatAssociative
    <3> QED
      BY ONLY Zenon, <3>2 DEF s
  <2> QED
    BY ONLY Zenon, <1>8, <2>2, <2>3, <2>5 DEF h
<1>14. m \o pad \in Seq(Bytes) /\ Len(m \o pad) = n + (k + 1)
  BY ONLY <1>9, m \in Seq(Bytes), Joined DEF n
<1>15. Padded(m) \in Seq(Bytes) /\ Len(Padded(m)) = n + (k + 1) + 8
  BY ONLY <1>12, <1>13, <1>14, Joined
<1>16. n + (k + 1) + 8 = n + 1 + k + 8
  BY ONLY SMT, <1>1, <1>5
<1>17. bson_md5_finish(Fed(m)) = Fed(Padded(m))
  <2>1. bson_md5_append(Fed(m), pad) = Fed(m \o pad)
    BY ONLY <1>9, m \in Seq(Bytes), FedAppended
  <2>2. bson_md5_append(Fed(m \o pad), w \o v) = Fed((m \o pad) \o (w \o v))
    BY ONLY <1>12, <1>14, FedAppended
  <2> QED
    BY ONLY Zenon, <1>7, <1>13, <2>1, <2>2
<1> QED
  BY <1>5, <1>15, <1>16, <1>17

-----------------------------------------------------------------------------
(* The theorems *)

(* The digest was fed what was given of the message so far. *)
FedSoFar ==
    /\ message \in Seq(Bytes) /\ given \in 0..Len(message)
    /\ md5 = Fed(SubSeq(message, 1, given))

(* Whatever pieces were appended (bson_md5_append), the digest is what one *)
(* feeding of all of them would have left: count, blocks and buffer.       *)
THEOREM FedSoFarAlways == DigestSpec => []FedSoFar
<1>1. DigestInit => FedSoFar
  <2> SUFFICES ASSUME DigestInit PROVE FedSoFar
    OBVIOUS
  <2>1. message \in Seq(Bytes) /\ given = 0 /\ md5 = bson_md5_init
    BY DigestsAssumption DEF DigestInit, Bytes
  <2>2. given \in 0..Len(message) /\ SubSeq(message, 1, 0) = <<>>
    BY <2>1, LenProperties, SubSeqEmpty
  <2> QED
    BY ONLY <2>1, <2>2, FedNothing DEF FedSoFar
<1>2. FedSoFar /\ [DigestNext]_digest => FedSoFar'
  <2> SUFFICES ASSUME FedSoFar, [DigestNext]_digest PROVE FedSoFar'
    OBVIOUS
  <2>1. CASE DigestNext
    <3>1. PICK n \in Pieces : AppendPiece(n)
      BY <2>1 DEF DigestNext
    <3> DEFINE whole == SubSeq(message, 1, given)
               piece == SubSeq(message, given + 1, given + n)
    <3>2. /\ message \in Seq(Bytes) /\ given \in 0..Len(message) /\ md5 = Fed(whole)
          /\ given + n <= Len(message) /\ md5' = bson_md5_append(md5, piece)
          /\ given' = given + n /\ message' = message /\ n \in Nat /\ Len(message) \in Nat
      BY <3>1, DigestsAssumption, LenProperties DEF FedSoFar, AppendPiece
    <3>3. /\ given \in (1 - 1)..Len(message) /\ given + n \in given..Len(message)
          /\ 1 \in 1..(Len(message) + 1) /\ given + n \in 0..Len(message)
      BY <3>2
    <3>4. whole \o piece = SubSeq(message, 1, given + n)
      BY ONLY <3>2, <3>3, ConcatAdjacentSubSeq
    <3>5. whole \in Seq(Bytes) /\ piece \in Seq(Bytes)
      <4>1. /\ 1 \in Nat \ {0} /\ given + 1 \in Nat \ {0} /\ given \in Nat /\ given + n \in Nat
            /\ given <= Len(message) /\ 1 <= given + 1 /\ given + 1 <= (given + n) + 1
        BY <3>2
      <4> DEFINE a == given + 1
                 b == given + n
      <4> HIDE DEF a, b
      <4>2. a \in Nat \ {0} /\ b \in Nat /\ b <= Len(message) /\ a <= b + 1
        BY <3>2, <4>1 DEF a, b
      <4>3. SubSeq(message, a, b) \in Seq(Bytes)
        BY ONLY <3>2, <4>2, PartIs
      <4>4. whole \in Seq(Bytes)
        BY ONLY <3>2, <4>1, PartIs
      <4> QED
        BY ONLY <4>3, <4>4 DEF a, b
    <3> HIDE DEF whole, piece
    <3>6. md5' = Fed(whole \o piece)
      BY ONLY <3>2, <3>5, FedAppended
    <3> QED
      BY ONLY <3>2, <3>3, <3>4, <3>6 DEF FedSoFar
  <2>2. CASE UNCHANGED digest
    BY <2>2 DEF FedSoFar, digest
  <2> QED
    BY <2>1, <2>2
<1> QED
  BY <1>1, <1>2, PTL DEF DigestSpec

(* Whatever message is handed over in whatever pieces, and however often   *)
(* the lower count word wraps, finishing the digest mixes in the blocks of *)
(* the padded message, each of them, in order, and nothing else.           *)
THEOREM DigestsAreWhole == DigestSpec => []DigestOfWhole
<1>1. FedSoFar => DigestOfWhole
  <2> SUFFICES ASSUME FedSoFar PROVE DigestOfWhole
    OBVIOUS
  <2> DEFINE m == SubSeq(message, 1, given)
             whole == Padded(m)
             mixed == bson_md5_finish(md5).abcd
             q == Len(whole) \div 64
  <2>1. m \in Seq(Bytes)
    <3>1. message \in Seq(Bytes) /\ given \in Nat /\ given <= Len(message) /\ 1 <= given + 1 /\ 1 \in Nat \ {0}
      BY LenProperties DEF FedSoFar
    <3> QED
      BY ONLY <3>1, PartIs
  <2>2. md5 = Fed(m)
    BY DEF FedSoFar
  <2> HIDE DEF m
  <2>3. bson_md5_finish(md5) = Fed(whole) /\ whole \in Seq(Bytes) /\ Len(whole) % 64 = 0
    BY <2>1, <2>2, FinishedDigest
  <2> HIDE DEF whole
  <2>4. mixed = Blocks(whole)
    BY ONLY <2>3, DigestParts DEF Fed
  <2>5. /\ Len(mixed) = q
        /\ \A i \in 1..q : mixed[i] = SubSeq(whole, 64 * (i - 1) + 1, 64 * i)
    BY ONLY <2>3, <2>4, BlocksAre
  <2>6. Len(whole) = 64 * q
    <3>1. Len(whole) \in Nat
      BY <2>3, LenProperties
    <3> QED
      BY ONLY SMT, <2>3, <3>1
  <2> HIDE DEF mixed, q
  <2> QED
    BY ONLY Zenon, <2>5, <2>6 DEF DigestOfWhole, BlockSize, mixed, whole, m
<1> QED
  BY <1>1, FedSoFarAlways, PTL
=============================================================================
