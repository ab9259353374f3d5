----------------------------- MODULE IdsProofs -----------------------------
(***************************************************************************)
(* Why object ids are unique: the bytes of an id give back its time, pid   *)
(* and number as far as they keep them (SameOid), and a process draws      *)
(* every number once (NumbersInv), also after a fork, as the pid in the    *)
(* bytes is that of the process that draws (ContextInv).  Their texts are  *)
(* faithful by TextReadsBack and TextSorts.  Request ids: while a query     *)
(* lies between its header and the copy of its id, nobody else counts      *)
(* (WriterInv).                                                            *)
(***************************************************************************)
EXTENDS Ids, SequenceTheorems, WellFoundedInduction, TLAPS

-----------------------------------------------------------------------------
(* The text of an object id stands for the id, whatever its bytes are. *)

Octet == {n \in Nat : n < 256}
Digits == {n \in Nat : n < 16}

(* Twelve bytes *)
Oids == {s \in Seq(Octet) : Len(s) = 12}

-----------------------------------------------------------------------------
(* memcmp: the first place where two strings differ decides. *)

LEMMA HasLeast == ASSUME NEW T, T \subseteq Nat, T # {} PROVE \E d \in T : \A j \in T : d <= j
<1>1. PICK d \in T : \A j \in T : ~(<<j, d>> \in OpToRel(<, Nat))
  BY NatLessThanWellFounded, WFMin
<1>2. ASSUME NEW j \in T PROVE d <= j
  <2>1. ~(j < d) /\ j \in Nat /\ d \in Nat
    BY <1>1 DEF OpToRel
  <2> QED
    BY <2>1
<1> QED
  BY <1>2

LEMMA FirstDecides ==
    ASSUME NEW s, NEW u, NEW n \in Nat, NEW d \in 1..n, s[d] # u[d],
           \A j \in 1..n : j < d => s[j] = u[j]
    PROVE  MemCmp(s, u, n) = IF s[d] < u[d] THEN -1 ELSE 1
<1> DEFINE first == CHOOSE i \in Differ(s, u, n) : \A j \in Differ(s, u, n) : i <= j
<1>1. d \in Differ(s, u, n)
  BY DEF Differ
<1>2. \A j \in Differ(s, u, n) : d <= j
  BY DEF Differ
<1>3. first \in Differ(s, u, n) /\ \A j \in Differ(s, u, n) : first <= j
  BY Zenon, <1>1, <1>2
<1> HIDE DEF first
<1>4. first = d
  <2>1. first <= d /\ d <= first /\ first \in Int /\ d \in Int
    BY <1>1, <1>2, <1>3 DEF Differ
  <2> QED
    BY ONLY SMT, <2>1
<1>5. MemCmp(s, u, n) = IF s[first] < u[first] THEN -1 ELSE 1
  BY Zenon, <1>1 DEF MemCmp, first
<1> QED
  BY Zenon, <1>4, <1>5

LEMMA NoneDiffers ==
    ASSUME NEW s, NEW u, NEW n \in Nat, \A j \in 1..n : s[j] = u[j]
    PROVE  MemCmp(s, u, n) = 0
<1>1. Differ(s, u, n) = {}
  BY DEF Differ
<1> QED
  BY Zenon, <1>1 DEF MemCmp

-----------------------------------------------------------------------------
(* Digits *)

LEMMA DigitsOrdered ==
    /\ \A d \in Digits : /\ HexDigit(d) \in (48..57) \cup (97..102) /\ HexDigit(d) \in Nat
                         /\ bson_oid_parse_hex_char(HexDigit(d)) = d
    /\ \A d, e \in Digits : d < e => HexDigit(d) < HexDigit(e)
    /\ \A d, e \in Digits : d # e => HexDigit(d) # HexDigit(e)
<1>1. ASSUME NEW d \in Digits
      PROVE  /\ HexDigit(d) \in (48..57) \cup (97..102) /\ HexDigit(d) \in Nat
             /\ bson_oid_parse_hex_char(HexDigit(d)) = d
  <2>1. CASE d < 10
    <3>1. HexDigit(d) = 48 + d /\ 48 + d \in 48..57 /\ (48 + d) - 48 = d
      BY SMT, <2>1 DEF HexDigit, Digits
    <3> QED
      BY SMT, <3>1 DEF bson_oid_parse_hex_char
  <2>2. CASE ~(d < 10)
    <3>1. HexDigit(d) = 87 + d /\ 87 + d \in 97..102 /\ 87 + d \notin 48..57
          /\ 87 + d \notin 65..70 /\ (87 + d) - 87 = d
      BY SMT, <2>2 DEF HexDigit, Digits
    <3> QED
      BY SMT, <3>1 DEF bson_oid_parse_hex_char
  <2> QED
    BY <2>1, <2>2
<1>2. /\ \A d, e \in Digits : d < e => HexDigit(d) < HexDigit(e)
      /\ \A d, e \in Digits : d # e => HexDigit(d) # HexDigit(e)
  BY SMT DEF HexDigit, Digits
<1> QED
  BY <1>1, <1>2

LEMMA Halves ==
    \A b \in Octet : /\ b \div 16 \in Digits /\ b % 16 \in Digits
                     /\ b = 16 * (b \div 16) + (b % 16)
BY SMT DEF Octet, Digits

(* The digits of a text, byte by byte *)
LEMMA TextDigits ==
    ASSUME NEW x \in Oids
    PROVE  /\ \A i \in 1..12 : x[i] \in Octet
           /\ Len(bson_oid_to_string(x)) = 24
           /\ \A i \in 1..12 : /\ bson_oid_to_string(x)[2 * i - 1] = HexDigit(x[i] \div 16)
                               /\ bson_oid_to_string(x)[2 * i] = HexDigit(x[i] % 16)
<1> DEFINE text == bson_oid_to_string(x)
<1>1. \A i \in 1..12 : x[i] \in Octet
  <2>1. x \in Seq(Octet) /\ Len(x) = 12
    BY Zenon DEF Oids
  <2> QED
    BY ONLY Zenon, <2>1, ElementOfSeq
<1>2. \A j \in 1..24 : text[j] = gHexCharPairs[x[(j + 1) \div 2]][2 - (j % 2)]
  BY DEF bson_oid_to_string
<1>3. Len(text) = 24
  BY DEF bson_oid_to_string
<1>4. \A b \in Octet : gHexCharPairs[b] = <<HexDigit(b \div 16), HexDigit(b % 16)>>
  <2>1. \A b \in 0..255 : gHexCharPairs[b] = <<HexDigit(b \div 16), HexDigit(b % 16)>>
    BY Zenon DEF gHexCharPairs
  <2>2. \A b \in Octet : b \in 0..255
    BY SMT DEF Octet
  <2> QED
    BY ONLY Zenon, <2>1, <2>2
<1>5. ASSUME NEW i \in 1..12
      PROVE  text[2 * i - 1] = HexDigit(x[i] \div 16) /\ text[2 * i] = HexDigit(x[i] % 16)
  <2>1. /\ 2 * i - 1 \in 1..24 /\ ((2 * i - 1) + 1) \div 2 = i /\ 2 - ((2 * i - 1) % 2) = 1
        /\ 2 * i \in 1..24 /\ (2 * i + 1) \div 2 = i /\ 2 - ((2 * i) % 2) = 2
    BY ONLY SMT, i \in 1..12
  <2>2. /\ text[2 * i - 1] = gHexCharPairs[x[i]][1]
        /\ text[2 * i] = gHexCharPairs[x[i]][2]
    BY ONLY Zenon, <1>2, <2>1
  <2> QED
    BY <1>1, <1>4, <2>2
<1> QED
  BY Zenon, <1>1, <1>3, <1>5

(* The text is valid, and read back it is the id. *)
LEMMA TextReadsBack ==
    ASSUME NEW x \in Oids
    PROVE  /\ bson_oid_is_valid(bson_oid_to_string(x))
           /\ bson_oid_init_from_string(bson_oid_to_string(x)) = x
<1> DEFINE text == bson_oid_to_string(x)
<1>1. /\ \A i \in 1..12 : x[i] \in Octet
      /\ Len(text) = 24
      /\ \A i \in 1..12 : /\ text[2 * i - 1] = HexDigit(x[i] \div 16)
                          /\ text[2 * i] = HexDigit(x[i] % 16)
  BY Zenon, TextDigits
<1> HIDE DEF text
<1>2. \A i \in 1..12 : x[i] \div 16 \in Digits /\ x[i] % 16 \in Digits
                       /\ x[i] = 16 * (x[i] \div 16) + (x[i] % 16)
  BY Zenon, <1>1, Halves
<1>3. bson_oid_is_valid(text)
  <2>1. ASSUME NEW j \in 1..24 PROVE text[j] \in (48..57) \cup (97..102)
    <3>1. PICK i \in 1..12 : j = 2 * i - 1 \/ j = 2 * i
      <4>1. (j + 1) \div 2 \in 1..12 /\ (j = 2 * ((j + 1) \div 2) - 1 \/ j = 2 * ((j + 1) \div 2))
        BY ONLY SMT, j \in 1..24
      <4> QED
        BY ONLY Zenon, <4>1
    <3>2. text[j] = HexDigit(x[i] \div 16) \/ text[j] = HexDigit(x[i] % 16)
      BY ONLY Zenon, <1>1, <3>1
    <3>3. x[i] \div 16 \in Digits /\ x[i] % 16 \in Digits
      BY ONLY Zenon, <1>2, <3>1
    <3>4. /\ HexDigit(x[i] \div 16) \in (48..57) \cup (97..102)
          /\ HexDigit(x[i] % 16) \in (48..57) \cup (97..102)
      BY ONLY Zenon, <3>3, DigitsOrdered
    <3> DEFINE characters == (48..57) \cup (97..102)
    <3> HIDE DEF characters
    <3>5. HexDigit(x[i] \div 16) \in characters /\ HexDigit(x[i] % 16) \in characters
      BY ONLY Zenon, <3>4 DEF characters
    <3>6. text[j] \in characters
      BY ONLY Zenon, <3>2, <3>5
    <3> QED
      BY ONLY Zenon, <3>6 DEF characters
  <2> QED
    BY Zenon, <1>1, <2>1 DEF bson_oid_is_valid
<1>4. \A i \in 1..12 : 16 * bson_oid_parse_hex_char(At(text, 2 * i - 1))
                       + bson_oid_parse_hex_char(At(text, 2 * i)) = x[i]
  <2> SUFFICES ASSUME NEW i \in 1..12
               PROVE  16 * bson_oid_parse_hex_char(At(text, 2 * i - 1))
                      + bson_oid_parse_hex_char(At(text, 2 * i)) = x[i]
    OBVIOUS
  <2>1. 2 * i - 1 <= 24 /\ 2 * i <= 24
    BY ONLY SMT, i \in 1..12
  <2>2. At(text, 2 * i - 1) = HexDigit(x[i] \div 16) /\ At(text, 2 * i) = HexDigit(x[i] % 16)
    BY Zenon, <1>1, <2>1 DEF At
  <2>3. /\ bson_oid_parse_hex_char(HexDigit(x[i] \div 16)) = x[i] \div 16
        /\ bson_oid_parse_hex_char(HexDigit(x[i] % 16)) = x[i] % 16
    BY Zenon, <1>2, DigitsOrdered
  <2> QED
    BY Zenon, <1>2, <2>2, <2>3
<1>5. bson_oid_init_from_string(text) = [i \in 1..12 |-> x[i]]
  BY Zenon, <1>4 DEF bson_oid_init_from_string
<1>6. [i \in 1..12 |-> x[i]] = x
  BY DEF Oids
<1> QED
  BY Zenon, <1>3, <1>5, <1>6 DEF text

(* Texts sort as their ids do. *)
LEMMA TextSorts ==
    ASSUME NEW x \in Oids, NEW y \in Oids
    PROVE  /\ bson_oid_compare(x, y) = MemCmp(bson_oid_to_string(x), bson_oid_to_string(y), 24)
           /\ bson_oid_equal(x, y) <=> bson_oid_to_string(x) = bson_oid_to_string(y)
<1> DEFINE s == bson_oid_to_string(x)
           u == bson_oid_to_string(y)
<1>1. /\ \A i \in 1..12 : x[i] \in Octet
      /\ \A i \in 1..12 : s[2 * i - 1] = HexDigit(x[i] \div 16) /\ s[2 * i] = HexDigit(x[i] % 16)
      /\ \A i \in 1..12 : y[i] \in Octet
      /\ \A i \in 1..12 : u[2 * i - 1] = HexDigit(y[i] \div 16) /\ u[2 * i] = HexDigit(y[i] % 16)
  BY Zenon, TextDigits
<1>2. CASE Differ(x, y, 12) = {}
  <2>1. \A i \in 1..12 : x[i] = y[i]
    BY <1>2 DEF Differ
  <2>2. x = y
    BY <2>1 DEF Oids
  <2>3. bson_oid_compare(x, y) = 0
    BY Zenon, <1>2 DEF bson_oid_compare, MemCmp
  <2>4. s = u
    BY Zenon, <2>2
  <2>5. MemCmp(s, u, 24) = 0
    BY Zenon, <2>4, NoneDiffers, 24 \in Nat
  <2> QED
    BY Zenon, <2>3, <2>4, <2>5 DEF bson_oid_equal
<1>3. CASE Differ(x, y, 12) # {}
  <2>1. PICK d \in Differ(x, y, 12) : \A j \in Differ(x, y, 12) : d <= j
    <3>1. Differ(x, y, 12) \subseteq Nat
      BY DEF Differ
    <3> QED
      BY Zenon, <1>3, <3>1, HasLeast
  <2>2. d \in 1..12 /\ x[d] # y[d] /\ \A j \in 1..12 : j < d => x[j] = y[j]
    <3>1. d \in 1..12 /\ x[d] # y[d]
      BY Zenon, <2>1 DEF Differ
    <3>2. ASSUME NEW j \in 1..12, j < d PROVE x[j] = y[j]
      <4>1. ~(d <= j)
        BY ONLY SMT, <3>1, <3>2
      <4> QED
        BY Zenon, <2>1, <4>1 DEF Differ
    <3> QED
      BY Zenon, <3>1, <3>2
  <2>3. bson_oid_compare(x, y) = IF x[d] < y[d] THEN -1 ELSE 1
    BY Zenon, <2>2, FirstDecides, 12 \in Nat DEF bson_oid_compare
  <2> HIDE DEF s, u
  <2>4. ASSUME NEW i \in 1..12, i < d
        PROVE  s[2 * i - 1] = u[2 * i - 1] /\ s[2 * i] = u[2 * i]
    BY Zenon, <1>1, <2>2, <2>4
  <2>5. ASSUME NEW j \in 1..24, j < 2 * d - 1 PROVE s[j] = u[j]
    <3>1. PICK i \in 1..12 : i < d /\ (j = 2 * i - 1 \/ j = 2 * i)
      <4>1. /\ (j + 1) \div 2 \in 1..12 /\ (j + 1) \div 2 < d
            /\ j = 2 * ((j + 1) \div 2) - 1 \/ j = 2 * ((j + 1) \div 2)
        BY ONLY SMT, <2>2, <2>5, j \in 1..24
      <4> QED
        BY ONLY Zenon, <4>1
    <3> QED
      BY Zenon, <2>4, <3>1
  <2> DEFINE a == x[d] \div 16
             b == x[d] % 16
             c == y[d] \div 16
             e == y[d] % 16
  <2>6. /\ x[d] \in Octet /\ y[d] \in Octet
        /\ a \in Digits /\ b \in Digits /\ c \in Digits /\ e \in Digits
        /\ x[d] = 16 * a + b /\ y[d] = 16 * c + e
    BY Zenon, <1>1, <2>2, Halves
  <2>7. /\ s[2 * d - 1] = HexDigit(a) /\ s[2 * d] = HexDigit(b)
        /\ u[2 * d - 1] = HexDigit(c) /\ u[2 * d] = HexDigit(e)
    BY Zenon, <1>1, <2>2
  <2> HIDE DEF a, b, c, e
  <2>8. 2 * d - 1 \in 1..24 /\ 2 * d \in 1..24 /\ 24 \in Nat
    BY ONLY SMT, <2>2
  <2>9. CASE a # c
    <3>1. s[2 * d - 1] # u[2 * d - 1]
      BY Zenon, <2>6, <2>7, <2>9, DigitsOrdered
    <3>2. MemCmp(s, u, 24) = IF s[2 * d - 1] < u[2 * d - 1] THEN -1 ELSE 1
      BY Zenon, <2>5, <2>8, <3>1, FirstDecides
    <3>3. (x[d] < y[d] /\ a < c) \/ (~(x[d] < y[d]) /\ c < a)
      BY ONLY SMT, <2>6, <2>9 DEF Digits
    <3>4. s[2 * d - 1] < u[2 * d - 1] <=> x[d] < y[d]
      <4>1. s[2 * d - 1] \in Nat /\ u[2 * d - 1] \in Nat
        <5>1. HexDigit(a) \in Nat /\ HexDigit(c) \in Nat
          BY ONLY Zenon, <2>6, DigitsOrdered
        <5> QED
          BY ONLY Zenon, <2>7, <5>1
      <4>2. (a < c => HexDigit(a) < HexDigit(c)) /\ (c < a => HexDigit(c) < HexDigit(a))
        BY ONLY Zenon, <2>6, DigitsOrdered
      <4>3. (a < c => s[2 * d - 1] < u[2 * d - 1]) /\ (c < a => u[2 * d - 1] < s[2 * d - 1])
        BY ONLY Zenon, <2>7, <4>2
      <4> QED
        BY ONLY SMT, <3>3, <4>1, <4>3
    <3>5. s # u
      BY Zenon, <3>1
    <3>6. MemCmp(s, u, 24) = bson_oid_compare(x, y)
      BY Zenon, <2>3, <3>2, <3>4
    <3>7. ~bson_oid_equal(x, y)
      BY <2>3 DEF bson_oid_equal
    <3> QED
      BY Zenon, <3>5, <3>6, <3>7 DEF s, u
  <2>10. CASE a = c
    <3>1. b # e /\ ((x[d] < y[d] /\ b < e) \/ (~(x[d] < y[d]) /\ e < b))
      <4>1. x[d] # y[d]
        BY Zenon, <2>2
      <4> QED
        BY ONLY SMT, <2>6, <2>10, <4>1 DEF Digits
    <3>2. s[2 * d] # u[2 * d]
      BY Zenon, <2>6, <2>7, <3>1, DigitsOrdered
    <3>3. ASSUME NEW j \in 1..24, j < 2 * d PROVE s[j] = u[j]
      <4>1. j < 2 * d - 1 \/ j = 2 * d - 1
        BY ONLY SMT, <2>2, <3>3
      <4>2. s[2 * d - 1] = u[2 * d - 1]
        BY Zenon, <2>7, <2>10
      <4> QED
        BY Zenon, <2>5, <4>1, <4>2
    <3>4. MemCmp(s, u, 24) = IF s[2 * d] < u[2 * d] THEN -1 ELSE 1
      BY Zenon, <2>8, <3>2, <3>3, FirstDecides
    <3>5. s[2 * d] < u[2 * d] <=> x[d] < y[d]
      <4>1. s[2 * d] \in Nat /\ u[2 * d] \in Nat
        <5>1. HexDigit(b) \in Nat /\ HexDigit(e) \in Nat
          BY ONLY Zenon, <2>6, DigitsOrdered
        <5> QED
          BY ONLY Zenon, <2>7, <5>1
      <4>2. (b < e => HexDigit(b) < HexDigit(e)) /\ (e < b => HexDigit(e) < HexDigit(b))
        BY ONLY Zenon, <2>6, DigitsOrdered
      <4>3. (b < e => s[2 * d] < u[2 * d]) /\ (e < b => u[2 * d] < s[2 * d])
        BY ONLY Zenon, <2>7, <4>2
      <4> QED
        BY ONLY SMT, <3>1, <4>1, <4>3
    <3>6. s # u
      BY Zenon, <3>2
    <3>7. MemCmp(s, u, 24) = bson_oid_compare(x, y)
      BY Zenon, <2>3, <3>4, <3>5
    <3>8. ~bson_oid_equal(x, y)
      BY <2>3 DEF bson_oid_equal
    <3> QED
      BY Zenon, <3>6, <3>7, <3>8 DEF s, u
  <2> QED
    BY Zenon, <2>9, <2>10
<1> QED
  BY Zenon, <1>2, <1>3


(* Times and numbers that fit four bytes *)
Word  == {n \in Nat : n <= 2147483647}

(* Sequences of equal length that are continued to the same sequence *)
LEMMA ConcatSame ==
    ASSUME NEW S, NEW s \in Seq(S), NEW u \in Seq(S), NEW v \in Seq(S), NEW w \in Seq(S),
           Len(s) = Len(v), s \o u = v \o w
    PROVE  s = v /\ u = w
<1>1. /\ Len(s) \in Nat /\ Len(u) \in Nat /\ Len(w) \in Nat
      /\ Len(s \o u) = Len(s) + Len(u) /\ Len(v \o w) = Len(v) + Len(w)
      /\ \A i \in 1..(Len(s) + Len(u)) :
            (s \o u)[i] = IF i <= Len(s) THEN s[i] ELSE u[i - Len(s)]
      /\ \A i \in 1..(Len(v) + Len(w)) :
            (v \o w)[i] = IF i <= Len(v) THEN v[i] ELSE w[i - Len(v)]
  BY ConcatProperties, LenProperties
<1>2. Len(u) = Len(w)
  <2>1. Len(s) + Len(u) = Len(s) + Len(w)
    BY <1>1
  <2> QED
    BY ONLY <1>1, <2>1
<1>3. ASSUME NEW i \in 1..Len(s) PROVE s[i] = v[i]
  <2>1. i \in 1..(Len(s) + Len(u)) /\ i <= Len(s)
    BY ONLY <1>1, i \in 1..Len(s)
  <2> QED
    BY <1>1, <1>2, <2>1
<1>4. ASSUME NEW i \in 1..Len(u) PROVE u[i] = w[i]
  <2>1. /\ i + Len(s) \in 1..(Len(s) + Len(u)) /\ ~(i + Len(s) <= Len(s))
        /\ (i + Len(s)) - Len(s) = i
    BY ONLY <1>1, i \in 1..Len(u)
  <2>2. (s \o u)[i + Len(s)] = u[i] /\ (v \o w)[i + Len(s)] = w[i]
    BY ONLY <1>1, <1>2, <2>1, Len(s) = Len(v)
  <2> QED
    BY <2>2
<1> QED
  BY <1>2, <1>3, <1>4, SeqEqual

(* The parts of a sequence put together *)
LEMMA ConcatParts ==
    ASSUME NEW S, NEW s \in Seq(S), NEW u \in Seq(S)
    PROVE  /\ s \o u \in Seq(S) /\ Len(s \o u) = Len(s) + Len(u)
           /\ \A i \in 1..Len(s) : (s \o u)[i] = s[i]
           /\ \A i \in 1..Len(u) : (s \o u)[Len(s) + i] = u[i]
<1>1. /\ Len(s) \in Nat /\ Len(u) \in Nat
      /\ s \o u \in Seq(S) /\ Len(s \o u) = Len(s) + Len(u)
      /\ \A i \in 1..(Len(s) + Len(u)) :
            (s \o u)[i] = IF i <= Len(s) THEN s[i] ELSE u[i - Len(s)]
  BY ConcatProperties, LenProperties
<1>2. ASSUME NEW i \in 1..Len(s) PROVE (s \o u)[i] = s[i]
  <2>1. i \in 1..(Len(s) + Len(u)) /\ i <= Len(s)
    BY ONLY <1>1, i \in 1..Len(s)
  <2> QED
    BY <1>1, <2>1
<1>3. ASSUME NEW i \in 1..Len(u) PROVE (s \o u)[Len(s) + i] = u[i]
  <2>1. /\ Len(s) + i \in 1..(Len(s) + Len(u)) /\ ~(Len(s) + i <= Len(s))
        /\ (Len(s) + i) - Len(s) = i
    BY ONLY <1>1, i \in 1..Len(u)
  <2> QED
    BY ONLY <1>1, <2>1
<1> QED
  BY <1>1, <1>2, <1>3

-----------------------------------------------------------------------------
(* Big-endian bytes *)

LEMMA Two ==
    ASSUME NEW n \in Nat
    PROVE  /\ BE2(n) \in Seq(Octet) /\ Len(BE2(n)) = 2
           /\ 256 * BE2(n)[1] + BE2(n)[2] = n % 65536
<1>1. (n \div 256) % 256 \in Octet /\ n % 256 \in Octet
  BY SMT DEF Octet
<1>2. 256 * ((n \div 256) % 256) + (n % 256) = n % 65536
  BY SMT
<1> QED
  BY SMT, <1>1, <1>2 DEF BE2

LEMMA Four ==
    ASSUME NEW n \in Word
    PROVE  /\ BE4(n) \in Seq(Octet) /\ Len(BE4(n)) = 4
           /\ 65536 * (256 * BE4(n)[1] + BE4(n)[2]) + 256 * BE4(n)[3] + BE4(n)[4] = n
<1>1. /\ n \in Nat /\ n \div 65536 \in Nat /\ n \div 65536 < 65536
      /\ 65536 * (n \div 65536) + (n % 65536) = n
      /\ (n \div 65536) % 65536 = n \div 65536
  BY SMT DEF Word
<1>2. /\ BE2(n) \in Seq(Octet) /\ Len(BE2(n)) = 2
      /\ BE2(n \div 65536) \in Seq(Octet) /\ Len(BE2(n \div 65536)) = 2
      /\ 256 * BE2(n)[1] + BE2(n)[2] = n % 65536
      /\ 256 * BE2(n \div 65536)[1] + BE2(n \div 65536)[2] = n \div 65536
  BY SMT, <1>1, Two
<1>3. /\ BE4(n) \in Seq(Octet) /\ Len(BE4(n)) = 2 + 2
      /\ \A i \in 1..2 : BE4(n)[i] = BE2(n \div 65536)[i]
      /\ \A i \in 1..2 : BE4(n)[2 + i] = BE2(n)[i]
  BY SMT, <1>2, ConcatParts DEF BE4
<1>4. /\ BE4(n)[1] = BE2(n \div 65536)[1] /\ BE4(n)[2] = BE2(n \div 65536)[2]
      /\ BE4(n)[3] = BE2(n)[1] /\ BE4(n)[4] = BE2(n)[2]
  BY SMT, <1>3
<1>5. /\ BE2(n)[1] \in Int /\ BE2(n)[2] \in Int
      /\ BE2(n \div 65536)[1] \in Int /\ BE2(n \div 65536)[2] \in Int
  BY SMT, <1>2 DEF Octet
<1>6. 65536 * (256 * BE4(n)[1] + BE4(n)[2]) + 256 * BE4(n)[3] + BE4(n)[4] = n
  <2>1. 65536 * (n \div 65536) + (256 * BE2(n)[1] + BE2(n)[2]) = n
    BY SMT, <1>1, <1>2
  <2>2. 65536 * (256 * BE2(n \div 65536)[1] + BE2(n \div 65536)[2])
        + (256 * BE2(n)[1] + BE2(n)[2]) = n
    BY SMT, <1>2, <2>1
  <2>3. 65536 * (256 * BE4(n)[1] + BE4(n)[2]) + (256 * BE4(n)[3] + BE4(n)[4]) = n
    BY SMT, <1>4, <2>2
  <2>4. \A a, b, c, d \in Int : a + (b + c) = d => a + b + c = d
    BY SMT
  <2> QED
    BY SMT, <1>4, <1>5, <2>3
<1> QED
  BY SMT, <1>3, <1>6

LEMMA FourSame ==
    ASSUME NEW m \in Word, NEW n \in Word, BE4(m) = BE4(n)
    PROVE  m = n
BY SMT, Four

(* The number that three bytes stand for *)
Number3(s) == 65536 * s[1] + 256 * s[2] + s[3]

LEMMA Three ==
    ASSUME NEW n \in Nat, n < 16777216
    PROVE  /\ BE3(n) \in Seq(Octet) /\ Len(BE3(n)) = 3
           /\ Number3(BE3(n)) = n
<1>1. /\ BE4(n) \in Seq(Octet) /\ Len(BE4(n)) = 4
      /\ 65536 * (256 * BE4(n)[1] + BE4(n)[2]) + 256 * BE4(n)[3] + BE4(n)[4] = n
  BY SMT, Four DEF Word
<1>2. BE3(n) = Tail(BE4(n))
  BY SMT DEF BE3
<1> DEFINE q == BE4(n)
<1> HIDE DEF q
<1>0. q \in Seq(Octet) /\ Len(q) = 4
  BY SMT, <1>1 DEF q
<1>3. q \in Seq(Octet) /\ Len(q) = 4 /\ q # <<>>
  <2>1. q = <<>> => Len(q) = 0
    BY ONLY SMT
  <2> QED
    BY ONLY SMT, <1>0, <2>1
<1>4. q[1] \in Octet /\ q[2] \in Octet /\ q[3] \in Octet /\ q[4] \in Octet
  BY ONLY SMT, <1>3, ElementOfSeq
<1>5. /\ Tail(q) \in Seq(Octet) /\ Len(Tail(q)) = 3
      /\ \A i \in 1..3 : Tail(q)[i] = q[i + 1]
  <2>1. /\ Tail(q) \in Seq(Octet) /\ Len(Tail(q)) = Len(q) - 1
        /\ \A i \in 1..Len(Tail(q)) : Tail(q)[i] = q[i + 1]
    BY ONLY Zenon, <1>3, HeadTailProperties
  <2>2. Len(Tail(q)) = 3
    BY ONLY SMT, <1>3, <2>1
  <2> QED
    BY ONLY Zenon, <2>1, <2>2
<1>6. 65536 * (256 * q[1] + q[2]) + 256 * q[3] + q[4] = n
  BY SMT, <1>1 DEF q
<1>7. q[1] = 0
  BY SMT, <1>4, <1>6 DEF Octet
<1> DEFINE r == Tail(q)
<1> HIDE DEF r
<1>8. r[1] = q[2] /\ r[2] = q[3] /\ r[3] = q[4]
  <2>1. \A i \in 1..3 : r[i] = q[i + 1]
    BY ONLY Zenon, <1>5 DEF r
  <2> QED
    BY ONLY SMT, <2>1
<1>9. Number3(r) = n
  <2>1. PICK a \in Octet, b \in Octet, c \in Octet, d \in Octet :
              a = q[1] /\ b = q[2] /\ c = q[3] /\ d = q[4]
    BY ONLY SMT, <1>4
  <2>2. 65536 * (256 * a + b) + 256 * c + d = n /\ a = 0
    BY ONLY SMT, <1>6, <1>7, <2>1
  <2>3. 65536 * b + 256 * c + d = n
    BY ONLY SMT, <2>2, a \in Octet, b \in Octet, c \in Octet, d \in Octet DEF Octet
  <2>4. r[1] = b /\ r[2] = c /\ r[3] = d
    BY ONLY Zenon, <1>8, <2>1
  <2> QED
    BY ONLY SMT, <2>3, <2>4 DEF Number3
<1>10. BE3(n) = r
  BY SMT, <1>2 DEF q, r
<1> QED
  BY ONLY Zenon, <1>5, <1>9, <1>10 DEF r

LEMMA ThreeSame ==
    ASSUME NEW m \in Nat, m < 16777216, NEW n \in Nat, n < 16777216, BE3(m) = BE3(n)
    PROVE  m = n
BY SMT, Three

LEMMA Eight ==
    ASSUME NEW n \in Word
    PROVE  BE8(n) \in Seq(Octet) /\ Len(BE8(n)) = 8
<1> DEFINE h == (n \div 65536) \div 65536
<1>1. BE8(n) = BE4(h) \o BE4(n)
  BY SMT DEF BE8
<1>2. h \in Word
  BY SMT DEF Word
<1> HIDE DEF h
<1>3. /\ BE4(n) \in Seq(Octet) /\ Len(BE4(n)) = 4
      /\ BE4(h) \in Seq(Octet) /\ Len(BE4(h)) = 4
  BY SMT, <1>2, Four
<1>4. /\ BE4(h) \o BE4(n) \in Seq(Octet)
      /\ Len(BE4(h) \o BE4(n)) = Len(BE4(h)) + Len(BE4(n))
  BY ONLY Zenon, <1>3, ConcatParts
<1> QED
  BY SMT, <1>1, <1>3, <1>4

LEMMA EightSame ==
    ASSUME NEW m \in Word, NEW n \in Word, BE8(m) = BE8(n)
    PROVE  m = n
<1> DEFINE h(k) == (k \div 65536) \div 65536
<1>1. BE4(h(m)) \o BE4(m) = BE4(h(n)) \o BE4(n)
  BY SMT DEF BE8
<1>2. h(m) \in Word /\ h(n) \in Word
  BY SMT DEF Word
<1> HIDE DEF h
<1>3. /\ BE4(m) \in Seq(Octet) /\ BE4(n) \in Seq(Octet)
      /\ BE4(h(m)) \in Seq(Octet) /\ BE4(h(n)) \in Seq(Octet)
      /\ Len(BE4(h(m))) = Len(BE4(h(n)))
  BY SMT, <1>2, Four
<1>4. BE4(m) = BE4(n)
  BY ONLY Zenon, <1>1, <1>3, ConcatSame
<1> QED
  BY SMT, <1>4, FourSame

LEMMA TwoSame ==
    ASSUME NEW m \in Nat, m < 65536, NEW n \in Nat, n < 65536, BE2(m) = BE2(n)
    PROVE  m = n
<1>1. m % 65536 = m /\ n % 65536 = n
  BY SMT
<1> QED
  BY SMT, <1>1, Two

-----------------------------------------------------------------------------
Process == [live : BOOLEAN, context : BOOLEAN, seq32 : Nat, seq64 : Nat, pid : Nat,
            request_id : Nat, queries : Nat]
Place   == {"idle", "context", "draw", "increment", "header", "info"}
Thread  == [pc : Place, time : Word, id : Nat, header : Int]
Made    == [oid : Seq(Octet), pid : Pids, time : Word, seq : Nat]

TypeInv ==
    /\ now \in Word
    /\ proc \in [Pids -> Process]
    /\ thread \in [Pids -> [Threads -> Thread]]
    /\ made \in Seq(Made) /\ Len(made) <= MaxOids

(* The id that is made of a time, a process and a number *)
RecordOid(m) ==
    BE4(m.time)
    \o IF use.for = "oid"
       THEN _bson_context_get_oid_host \o BE2(m.pid % PidSpace) \o BE3(m.seq % SeqSpace)
       ELSE BE8(m.seq)

(* A process that has not been forked yet runs nothing and has made        *)
(* nothing; one that has made an id has the context it was made with.      *)
ContextInv ==
    /\ \A p \in Pids, t \in Threads :
          /\ thread[p][t].pc # "idle" => proc[p].live
          /\ thread[p][t].pc = "draw" => proc[p].context
    /\ \A p \in Pids : proc[p].context => proc[p].live
    /\ \A p \in Pids : Cached(p) => proc[p].pid = p
    /\ \A i \in 1..Len(made) : proc[made[i].pid].live /\ proc[made[i].pid].context

(* Every number drawn is below the next one of its process, and drawn once. *)
NumbersInv ==
    /\ \A p \in Pids : proc[p].seq64 <= Len(made)
    /\ \A i \in 1..Len(made) :
          made[i].oid = RecordOid(made[i]) /\ made[i].seq < NextNumber(made[i].pid)
    /\ \A i, j \in 1..Len(made) : i # j /\ made[i].pid = made[j].pid => made[i].seq # made[j].seq

OidsInv == TypeInv /\ ContextInv /\ NumbersInv

LEMMA Bounds ==
    /\ Pids \subseteq Nat
    /\ PidSpace \in Nat \ {0} /\ SeqSpace \in Nat \ {0} /\ MaxOids \in Word
    /\ \A n \in Nat : n % PidSpace \in Nat /\ n % PidSpace < 65536
    /\ \A n \in Nat : n % SeqSpace \in Nat /\ n % SeqSpace < 16777216
    /\ \A n \in Nat : n < MaxTime => n + 1 \in Word
    /\ \A n \in Nat : n < MaxOids => n + 1 <= MaxOids
    /\ \A n \in Nat : n < MaxOids => n \in Word
<1>1. /\ PidSpace \in Nat \ {0} /\ SeqSpace \in Nat \ {0} /\ PidSpace <= 65536 /\ SeqSpace <= 16777216
      /\ MaxOids \in Nat /\ MaxOids <= 2147483647 /\ MaxTime \in Nat /\ MaxTime <= 2147483647
  BY SMT, IdsAssumption
<1>2. \A n \in Nat : n % PidSpace \in Nat /\ n % PidSpace < 65536
  BY ONLY SMT, <1>1
<1>3. \A n \in Nat : n % SeqSpace \in Nat /\ n % SeqSpace < 16777216
  BY ONLY SMT, <1>1
<1> QED
  BY SMT, <1>1, <1>2, <1>3, IdsAssumption DEF Word

LEMMA PidsAreNumbers == \A p \in Pids : p \in Nat
BY SMT, IdsAssumption

LEMMA OidBytes ==
    ASSUME NEW time \in Word, NEW pid \in Nat, NEW seq \in Nat
    PROVE  /\ _bson_context_get_oid_host \o BE2(pid % PidSpace) \o BE3(seq % SeqSpace) \in Seq(Octet)
           /\ Len(_bson_context_get_oid_host \o BE2(pid % PidSpace) \o BE3(seq % SeqSpace)) = 8
<1> DEFINE h == _bson_context_get_oid_host
           p == BE2(pid % PidSpace)
           s == BE3(seq % SeqSpace)
<1>1. p \in Seq(Octet) /\ Len(p) = 2
  BY SMT, Bounds, Two
<1>2. s \in Seq(Octet) /\ Len(s) = 3
  BY SMT, Bounds, Three
<1>3. h \in Seq(Octet) /\ Len(h) = 3
  BY SMT DEF _bson_context_get_oid_host, Octet
<1> HIDE DEF h, p, s
<1>4. h \o p \in Seq(Octet) /\ Len(h \o p) = 5
  <2>1. h \o p \in Seq(Octet) /\ Len(h \o p) = Len(h) + Len(p)
    BY ONLY Zenon, <1>1, <1>3, ConcatParts
  <2> QED
    BY ONLY SMT, <1>1, <1>3, <2>1
<1>5. (h \o p) \o s \in Seq(Octet) /\ Len((h \o p) \o s) = 8
  <2>1. (h \o p) \o s \in Seq(Octet) /\ Len((h \o p) \o s) = Len(h \o p) + Len(s)
    BY ONLY Zenon, <1>2, <1>4, ConcatParts
  <2> QED
    BY ONLY SMT, <1>2, <1>4, <2>1
<1> QED
  BY SMT, <1>5 DEF h, p, s
(* The bytes behind the time, of an object id *)
Rest(p, n) == _bson_context_get_oid_host \o BE2(p % PidSpace) \o BE3(n % SeqSpace)

LEMMA SameRest ==
    ASSUME NEW p \in Nat, NEW q \in Nat, NEW m \in Nat, NEW n \in Nat, Rest(p, m) = Rest(q, n)
    PROVE  p % PidSpace = q % PidSpace /\ m % SeqSpace = n % SeqSpace
<1> DEFINE h  == _bson_context_get_oid_host
           bp == BE2(p % PidSpace)
           bq == BE2(q % PidSpace)
           bm == BE3(m % SeqSpace)
           bn == BE3(n % SeqSpace)
<1>1. (h \o bp) \o bm = (h \o bq) \o bn
  BY Zenon DEF Rest
<1>2. bp \in Seq(Octet) /\ bq \in Seq(Octet) /\ Len(bp) = 2 /\ Len(bq) = 2
  <2>1. /\ p % PidSpace \in Nat /\ q % PidSpace \in Nat
    BY SMT, Bounds
  <2> QED
    BY SMT, <2>1, Two
<1>3. bm \in Seq(Octet) /\ bn \in Seq(Octet) /\ Len(bm) = 3 /\ Len(bn) = 3
  <2>1. /\ m % SeqSpace \in Nat /\ m % SeqSpace < 16777216
        /\ n % SeqSpace \in Nat /\ n % SeqSpace < 16777216
    BY SMT, Bounds
  <2> QED
    BY SMT, <2>1, Three
<1>4. h \in Seq(Octet) /\ Len(h) = 3
  BY SMT DEF _bson_context_get_oid_host, Octet
<1> HIDE DEF h, bp, bq, bm, bn
<1>5. /\ h \o bp \in Seq(Octet) /\ Len(h \o bp) = Len(h) + Len(bp)
      /\ h \o bq \in Seq(Octet) /\ Len(h \o bq) = Len(h) + Len(bq)
  BY ONLY Zenon, <1>2, <1>4, ConcatParts
<1>6. Len(h \o bp) = Len(h \o bq)
  BY ONLY SMT, <1>2, <1>5
<1>7. h \o bp = h \o bq /\ bm = bn
  BY ONLY Zenon, <1>1, <1>3, <1>5, <1>6, ConcatSame
<1>8. bp = bq
  BY ONLY Zenon, <1>2, <1>4, <1>7, ConcatSame
<1>9. p % PidSpace = q % PidSpace
  <2>1. BE2(p % PidSpace) = BE2(q % PidSpace)
    BY ONLY Zenon, <1>8 DEF bp, bq
  <2> QED
    BY SMT, <2>1, Bounds, TwoSame
<1>10. m % SeqSpace = n % SeqSpace
  <2>1. BE3(m % SeqSpace) = BE3(n % SeqSpace)
    BY ONLY Zenon, <1>7 DEF bm, bn
  <2> QED
    BY SMT, <2>1, Bounds, ThreeSame
<1> QED
  BY ONLY Zenon, <1>9, <1>10

(* Two ids are the same only if what they were made of is, as far as the   *)
(* bytes tell it apart.                                                    *)
LEMMA SameOid ==
    ASSUME NEW m \in Made, NEW n \in Made, RecordOid(m) = RecordOid(n),
           use.for # "oid" => m.seq \in Word /\ n.seq \in Word
    PROVE  /\ m.time = n.time
           /\ use.for = "oid" => /\ m.pid % PidSpace = n.pid % PidSpace
                                 /\ m.seq % SeqSpace = n.seq % SeqSpace
           /\ use.for # "oid" => m.seq = n.seq
<1>0. /\ m.time \in Word /\ m.pid \in Pids /\ m.seq \in Nat
      /\ n.time \in Word /\ n.pid \in Pids /\ n.seq \in Nat
  BY SMT DEF Made
<1>1. m.pid \in Nat /\ n.pid \in Nat
  BY ONLY Zenon, <1>0, PidsAreNumbers
<1>2. /\ BE4(m.time) \in Seq(Octet) /\ BE4(n.time) \in Seq(Octet)
      /\ Len(BE4(m.time)) = Len(BE4(n.time))
  BY SMT, <1>0, Four
<1>3. CASE use.for = "oid"
  <2>1. BE4(m.time) \o Rest(m.pid, m.seq) = BE4(n.time) \o Rest(n.pid, n.seq)
    BY Zenon, <1>3 DEF RecordOid, Rest
  <2>2. Rest(m.pid, m.seq) \in Seq(Octet) /\ Rest(n.pid, n.seq) \in Seq(Octet)
    BY Zenon, <1>0, <1>1, OidBytes DEF Rest
  <2>3. BE4(m.time) = BE4(n.time) /\ Rest(m.pid, m.seq) = Rest(n.pid, n.seq)
    <3> DEFINE t == BE4(m.time)
               u == BE4(n.time)
               r == Rest(m.pid, m.seq)
               s == Rest(n.pid, n.seq)
    <3> HIDE DEF t, u, r, s
    <3>1. t \in Seq(Octet) /\ u \in Seq(Octet) /\ Len(t) = Len(u) /\ t \o r = u \o s
      BY ONLY Zenon, <1>2, <2>1 DEF t, u, r, s
    <3>2. r \in Seq(Octet) /\ s \in Seq(Octet)
      BY ONLY Zenon, <2>2 DEF r, s
    <3>3. t = u /\ r = s
      BY ONLY Zenon, <3>1, <3>2, ConcatSame
    <3> QED
      BY ONLY Zenon, <3>3 DEF t, u, r, s
  <2>4. m.time = n.time
    BY SMT, <1>0, <2>3, FourSame
  <2>5. m.pid % PidSpace = n.pid % PidSpace /\ m.seq % SeqSpace = n.seq % SeqSpace
    <3>1. /\ m.pid \in Nat /\ n.pid \in Nat /\ m.seq \in Nat /\ n.seq \in Nat
          /\ Rest(m.pid, m.seq) = Rest(n.pid, n.seq)
      BY ONLY Zenon, <1>0, <1>1, <2>3
    <3> QED
      BY ONLY SMT, <3>1, SameRest
  <2> QED
    BY ONLY Zenon, <1>3, <2>4, <2>5
<1>4. CASE use.for # "oid"
  <2>1. BE4(m.time) \o BE8(m.seq) = BE4(n.time) \o BE8(n.seq)
    BY Zenon, <1>4 DEF RecordOid
  <2>2. m.seq \in Word /\ n.seq \in Word
    BY Zenon, <1>4
  <2>3. BE8(m.seq) \in Seq(Octet) /\ BE8(n.seq) \in Seq(Octet)
    BY SMT, <2>2, Eight
  <2>4. BE4(m.time) = BE4(n.time) /\ BE8(m.seq) = BE8(n.seq)
    BY ONLY Zenon, <1>2, <2>1, <2>3, ConcatSame
  <2>5. m.time = n.time /\ m.seq = n.seq
    BY SMT, <1>0, <2>2, <2>4, FourSame, EightSame
  <2> QED
    BY ONLY Zenon, <1>4, <2>5
<1> QED
  BY Zenon, <1>3, <1>4

(* The numbers of sequence ids fit four of their bytes. *)
LEMMA NumberFits ==
    ASSUME OidsInv, NEW k \in 1..Len(made), made[k] \in Made, use.for # "oid"
    PROVE  made[k].seq \in Word
<1>1. made[k].seq < proc[made[k].pid].seq64 /\ made[k].pid \in Pids
  BY SMT DEF OidsInv, NumbersInv, NextNumber, _bson_context_get_oid_seq64, Made
<1>2. /\ proc[made[k].pid].seq64 <= Len(made) /\ Len(made) <= MaxOids
      /\ made[k].seq \in Nat /\ Len(made) \in Nat /\ proc[made[k].pid].seq64 \in Nat
  <2>1. proc[made[k].pid].seq64 <= Len(made) /\ Len(made) <= MaxOids
    BY Zenon, <1>1 DEF OidsInv, NumbersInv, TypeInv
  <2>2. made[k].seq \in Nat
    BY SMT DEF Made
  <2>3. Len(made) \in Nat
    BY Zenon, LenProperties DEF OidsInv, TypeInv
  <2>4. proc[made[k].pid] \in Process
    BY Zenon, <1>1 DEF OidsInv, TypeInv
  <2>5. proc[made[k].pid].seq64 \in Nat
    BY SMT, <2>4 DEF Process
  <2> QED
    BY ONLY Zenon, <2>1, <2>2, <2>3, <2>5
<1>3. made[k].seq < MaxOids
  BY SMT, <1>1, <1>2, Bounds DEF Word
<1> QED
  BY SMT, <1>2, <1>3, Bounds

(* What the numbers drawn say of the ids *)
LEMMA NumbersTell == OidsInv => OidsUnique
<1> SUFFICES ASSUME OidsInv PROVE OidsUnique
  OBVIOUS
<1> SUFFICES ASSUME NEW i \in 1..Len(made), NEW j \in 1..Len(made), i # j,
                    made[i].oid = made[j].oid
             PROVE  /\ made[i].time = made[j].time
                    /\ IF use.for = "oid" /\ made[i].pid = made[j].pid
                       THEN /\ made[i].seq # made[j].seq
                            /\ made[i].seq % SeqSpace = made[j].seq % SeqSpace
                       ELSE /\ made[i].pid # made[j].pid
                            /\ use.for = "oid" => made[i].pid % PidSpace = made[j].pid % PidSpace
  BY Zenon DEF OidsUnique
<1>1. made[i] \in Made /\ made[j] \in Made
  <2>1. made \in Seq(Made)
    BY Zenon DEF OidsInv, TypeInv
  <2> QED
    BY ONLY Zenon, <2>1, ElementOfSeq, i \in 1..Len(made), j \in 1..Len(made)
<1>2. RecordOid(made[i]) = RecordOid(made[j])
  BY Zenon DEF OidsInv, NumbersInv
<1>3. made[i].pid = made[j].pid => made[i].seq # made[j].seq
  BY Zenon DEF OidsInv, NumbersInv
<1>4. ASSUME NEW k \in 1..Len(made), made[k] \in Made, use.for # "oid" PROVE made[k].seq \in Word
  BY Zenon, <1>4, NumberFits
<1>5. /\ made[i].time = made[j].time
      /\ use.for = "oid" => /\ made[i].pid % PidSpace = made[j].pid % PidSpace
                            /\ made[i].seq % SeqSpace = made[j].seq % SeqSpace
      /\ use.for # "oid" => made[i].seq = made[j].seq
  BY ONLY Zenon, <1>1, <1>2, <1>4, SameOid, i \in 1..Len(made), j \in 1..Len(made)
<1> QED
  BY ONLY Zenon, <1>3, <1>5
-----------------------------------------------------------------------------
(* A process that has a context keeps it, and its numbers. *)
Kept(x) ==
    /\ proc[x].live => proc'[x].live
    /\ proc[x].context => /\ proc'[x].context
                          /\ proc'[x].seq32 = proc[x].seq32 /\ proc'[x].seq64 = proc[x].seq64
    /\ proc'[x].context => proc'[x].live
    /\ proc'[x].context /\ "disable_pid_cache" \notin use.flags => proc'[x].pid = x
    /\ proc'[x].seq64 <= Len(made)

Busy(th, pr) ==
    \A x \in Pids, t \in Threads :
        /\ th[x][t].pc # "idle" => pr[x].live
        /\ th[x][t].pc = "draw" => pr[x].context

(* A step that draws no number *)
LEMMA QuietStep ==
    ASSUME OidsInv, UNCHANGED <<made, use>>, now' \in Word,
           proc' \in [Pids -> Process], thread' \in [Pids -> [Threads -> Thread]],
           \A x \in Pids : Kept(x), Busy(thread', proc')
    PROVE  OidsInv'
<1>1. TypeInv'
  BY Zenon DEF OidsInv, TypeInv
<1>2. \A i \in 1..Len(made) : made[i].pid \in Pids
  <2>1. \A i \in 1..Len(made) : made[i] \in Made
    BY Zenon, ElementOfSeq DEF OidsInv, TypeInv
  <2> QED
    BY SMT, <2>1 DEF Made
<1>3. ContextInv'
  <2>1. \A x \in Pids : Cached(x)' => proc'[x].pid = x
    BY Zenon DEF Cached, Kept
  <2>2. \A i \in 1..Len(made) : proc'[made[i].pid].live /\ proc'[made[i].pid].context
    BY Zenon, <1>2 DEF OidsInv, ContextInv, Kept
  <2>3. \A x \in Pids : proc'[x].context => proc'[x].live
    BY Zenon DEF Kept
  <2> QED
    BY Zenon, <2>1, <2>2, <2>3 DEF ContextInv, Busy
<1>4. \A i \in 1..Len(made) : NextNumber(made[i].pid)' = NextNumber(made[i].pid)
  <2> SUFFICES ASSUME NEW i \in 1..Len(made)
               PROVE  NextNumber(made[i].pid)' = NextNumber(made[i].pid)
    OBVIOUS
  <2>1. /\ proc'[made[i].pid].seq32 = proc[made[i].pid].seq32
        /\ proc'[made[i].pid].seq64 = proc[made[i].pid].seq64
    BY Zenon, <1>2 DEF OidsInv, ContextInv, Kept
  <2> QED
    BY Zenon, <2>1 DEF NextNumber, _bson_context_get_oid_seq32, _bson_context_get_oid_seq64
<1>5. NumbersInv'
  <2>1. \A x \in Pids : proc'[x].seq64 <= Len(made')
    BY Zenon DEF Kept
  <2>2. ASSUME NEW i \in 1..Len(made)
        PROVE  (made[i].oid = RecordOid(made[i]) /\ made[i].seq < NextNumber(made[i].pid))'
    <3>1. made[i].oid = RecordOid(made[i]) /\ made[i].seq < NextNumber(made[i].pid)
      BY Zenon DEF OidsInv, NumbersInv
    <3>2. made' = made /\ use' = use
      BY Zenon
    <3>3. RecordOid(made[i])' = RecordOid(made[i])
      BY Zenon, <3>2 DEF RecordOid
    <3>4. NextNumber(made[i].pid)' = NextNumber(made[i].pid)
      BY Zenon, <1>4
    <3> QED
      BY Zenon, <3>1, <3>2, <3>3, <3>4
  <2>4. \A i, j \in 1..Len(made') : i # j /\ made'[i].pid = made'[j].pid
                                   => made'[i].seq # made'[j].seq
    BY Zenon DEF OidsInv, NumbersInv
  <2> QED
    BY Zenon, <2>1, <2>2, <2>4 DEF NumbersInv
<1> QED
  BY Zenon, <1>1, <1>3, <1>5 DEF OidsInv
(* Where a thread can be after a step *)
LEMMA TimeUpdate ==
    ASSUME NEW r \in Thread, NEW c \in Place, NEW a \in Word
    PROVE  [r EXCEPT !.pc = c, !.time = a] \in Thread /\ [r EXCEPT !.pc = c, !.time = a].pc = c
<1>1. r \in [pc : Place, time : Word, id : Nat, header : Int]
  BY Zenon DEF Thread
<1>2. [r EXCEPT !.pc = c, !.time = a] \in [pc : Place, time : Word, id : Nat, header : Int]
  BY ONLY <1>1, c \in Place, a \in Word
<1>3. [r EXCEPT !.pc = c, !.time = a].pc = c
  BY ONLY <1>1
<1> QED
  BY Zenon, <1>2, <1>3 DEF Thread

LEMMA IdUpdate ==
    ASSUME NEW r \in Thread, NEW c \in Place, NEW a \in Nat
    PROVE  [r EXCEPT !.pc = c, !.id = a] \in Thread /\ [r EXCEPT !.pc = c, !.id = a].pc = c
<1>1. r \in [pc : Place, time : Word, id : Nat, header : Int]
  BY Zenon DEF Thread
<1>2. [r EXCEPT !.pc = c, !.id = a] \in [pc : Place, time : Word, id : Nat, header : Int]
  BY ONLY <1>1, c \in Place, a \in Nat
<1>3. [r EXCEPT !.pc = c, !.id = a].pc = c
  BY ONLY <1>1
<1> QED
  BY Zenon, <1>2, <1>3 DEF Thread

LEMMA HeaderUpdate ==
    ASSUME NEW r \in Thread, NEW c \in Place, NEW a \in Int
    PROVE  [r EXCEPT !.pc = c, !.header = a] \in Thread /\ [r EXCEPT !.pc = c, !.header = a].pc = c
<1>1. r \in [pc : Place, time : Word, id : Nat, header : Int]
  BY Zenon DEF Thread
<1>2. [r EXCEPT !.pc = c, !.header = a] \in [pc : Place, time : Word, id : Nat, header : Int]
  BY ONLY <1>1, c \in Place, a \in Int
<1>3. [r EXCEPT !.pc = c, !.header = a].pc = c
  BY ONLY <1>1
<1> QED
  BY Zenon, <1>2, <1>3 DEF Thread

LEMMA Places == "context" \in Place /\ "increment" \in Place /\ "info" \in Place
BY DEF Place

(* Moving one thread *)
LEMMA StepEffect ==
    ASSUME thread \in [Pids -> [Threads -> Thread]],
           NEW p \in Pids, NEW t \in Threads, NEW to \in Thread, Step(p, t, to)
    PROVE  /\ thread' \in [Pids -> [Threads -> Thread]]
           /\ thread'[p][t] = to
           /\ \A x \in Pids, u \in Threads : (x # p \/ u # t) => thread'[x][u] = thread[x][u]
<1>1. thread' = [thread EXCEPT ![p] = [thread[p] EXCEPT ![t] = to]]
  BY Zenon DEF Step
<1>2. thread[p] \in [Threads -> Thread]
  OBVIOUS
<1>3. [thread[p] EXCEPT ![t] = to] \in [Threads -> Thread]
  BY <1>2
<1>4. /\ thread'[p] = [thread[p] EXCEPT ![t] = to]
      /\ \A x \in Pids : x # p => thread'[x] = thread[x]
  BY <1>1
<1>5. thread' \in [Pids -> [Threads -> Thread]]
  BY <1>1, <1>3
<1> QED
  BY Zenon, <1>2, <1>4, <1>5

(* A thread that moves on, in a process that runs *)
LEMMA ThreadStep ==
    ASSUME OidsInv, UNCHANGED <<made, use, now>>,
           proc' \in [Pids -> Process], \A x \in Pids : Kept(x),
           NEW p \in Pids, NEW t \in Threads, NEW to \in Thread, Step(p, t, to),
           proc[p].live, to.pc = "draw" => proc'[p].context
    PROVE  OidsInv'
<1>1. /\ thread \in [Pids -> [Threads -> Thread]] /\ now' \in Word
      /\ Busy(thread, proc)
  BY Zenon DEF OidsInv, TypeInv, ContextInv, Busy
<1>2. /\ thread' \in [Pids -> [Threads -> Thread]]
      /\ thread'[p][t] = to
      /\ \A x \in Pids, u \in Threads : (x # p \/ u # t) => thread'[x][u] = thread[x][u]
  BY Zenon, <1>1, StepEffect
<1>3. ASSUME NEW x \in Pids, NEW u \in Threads
      PROVE  /\ thread'[x][u].pc # "idle" => proc'[x].live
             /\ thread'[x][u].pc = "draw" => proc'[x].context
  <2>1. Kept(x) /\ Kept(p)
    BY Zenon
  <2>2. CASE x = p /\ u = t
    <3>1. thread'[x][u] = to
      BY Zenon, <1>2, <2>2
    <3>2. proc'[x].live
      BY Zenon, <2>1, <2>2 DEF Kept
    <3>3. to.pc = "draw" => proc'[x].context
      BY Zenon, <2>2
    <3> QED
      BY Zenon, <3>1, <3>2, <3>3
  <2>3. CASE x # p \/ u # t
    <3>1. thread'[x][u] = thread[x][u]
      BY Zenon, <1>2, <2>3
    <3>2. /\ thread[x][u].pc # "idle" => proc[x].live
          /\ thread[x][u].pc = "draw" => proc[x].context
      BY Zenon, <1>1 DEF Busy
    <3>3. /\ proc[x].live => proc'[x].live
          /\ proc[x].context => proc'[x].context
      BY Zenon, <2>1 DEF Kept
    <3> QED
      BY Zenon, <3>1, <3>2, <3>3
  <2> QED
    BY Zenon, <2>2, <2>3
<1>4. Busy(thread', proc')
  BY Zenon, <1>3 DEF Busy
<1> QED
  BY Zenon, <1>1, <1>2, <1>4, QuietStep

(* Processes that nothing happens to *)
LEMMA KeptSame ==
    ASSUME OidsInv, NEW x \in Pids, proc'[x] = proc[x]
    PROVE  Kept(x)
<1>1. /\ proc[x].context => proc[x].live
      /\ proc[x].seq64 <= Len(made)
      /\ proc[x].context /\ "disable_pid_cache" \notin use.flags => proc[x].pid = x
  BY Zenon DEF OidsInv, ContextInv, NumbersInv, Cached
<1> QED
  BY Zenon, <1>1 DEF Kept

(* The counter of request ids is no part of a context. *)
LEMMA KeptRequest ==
    ASSUME OidsInv, NEW p \in Pids, NEW a \in Nat, NEW b \in Nat,
           proc' = [proc EXCEPT ![p] = [proc[p] EXCEPT !.request_id = a, !.queries = b]]
    PROVE  proc' \in [Pids -> Process] /\ \A x \in Pids : Kept(x)
<1>1. proc \in [Pids -> Process] /\ proc[p] \in Process
  BY Zenon DEF OidsInv, TypeInv
<1>2. [proc[p] EXCEPT !.request_id = a, !.queries = b] \in Process
  BY <1>1 DEF Process
<1>3. proc' \in [Pids -> Process]
  BY <1>1, <1>2
<1>4. /\ proc'[p].live = proc[p].live /\ proc'[p].context = proc[p].context
      /\ proc'[p].seq32 = proc[p].seq32 /\ proc'[p].seq64 = proc[p].seq64
      /\ proc'[p].pid = proc[p].pid
  BY <1>1 DEF Process
<1>5. Kept(p)
  <2>1. /\ proc[p].context => proc[p].live
        /\ proc[p].seq64 <= Len(made)
        /\ proc[p].context /\ "disable_pid_cache" \notin use.flags => proc[p].pid = p
    BY Zenon DEF OidsInv, ContextInv, NumbersInv, Cached
  <2> QED
    BY Zenon, <1>4, <2>1 DEF Kept
<1>6. ASSUME NEW x \in Pids, x # p PROVE Kept(x)
  <2>1. proc'[x] = proc[x]
    BY <1>1, <1>6
  <2> QED
    BY Zenon, <2>1, KeptSame
<1> QED
  BY Zenon, <1>3, <1>5, <1>6

LEMMA IdleThread == Idle \in Thread
BY SMT DEF Idle, Thread, Place, Word

LEMMA TickInv == ASSUME OidsInv, Tick PROVE OidsInv'
<1>1. now \in Nat /\ now < MaxTime /\ now' = now + 1
  BY SMT DEF OidsInv, TypeInv, Word, Tick
<1>2. now' \in Word
  BY SMT, <1>1, Bounds
<1>3. UNCHANGED <<proc, thread, made, use>>
  BY Zenon DEF Tick
<1>4. \A x \in Pids : Kept(x)
  BY Zenon, <1>3, KeptSame
<1>5. Busy(thread', proc') /\ proc' \in [Pids -> Process]
      /\ thread' \in [Pids -> [Threads -> Thread]]
  BY Zenon, <1>3 DEF OidsInv, TypeInv, ContextInv, Busy
<1> QED
  BY Zenon, <1>2, <1>3, <1>4, <1>5, QuietStep

LEMMA ForkInv == ASSUME OidsInv, NEW p \in Pids, NEW q \in Pids, NEW t \in Threads, Fork(p, t, q)
                 PROVE  OidsInv'
<1>1. /\ ~Cached(p) /\ proc[p].live /\ ~proc[q].live
      /\ proc' = [proc EXCEPT ![q] = [proc[p] EXCEPT !.queries = 0]]
      /\ UNCHANGED <<now, thread, made, use>>
  BY Zenon DEF Fork
<1>2. proc \in [Pids -> Process] /\ proc[p] \in Process /\ proc[q] \in Process
  BY Zenon DEF OidsInv, TypeInv
<1>3. [proc[p] EXCEPT !.queries = 0] \in Process
  BY <1>2 DEF Process
<1>4. proc' \in [Pids -> Process]
  BY <1>1, <1>2, <1>3
<1>5. /\ proc'[q].live = proc[p].live /\ proc'[q].context = proc[p].context
      /\ proc'[q].seq64 = proc[p].seq64
  BY <1>1, <1>2 DEF Process
<1>6. Kept(q)
  <2>1. ~proc[q].context /\ proc[p].seq64 <= Len(made)
    BY Zenon, <1>1 DEF OidsInv, ContextInv, NumbersInv
  <2>2. proc[p].context => "disable_pid_cache" \in use.flags
    BY Zenon, <1>1 DEF Cached
  <2> QED
    BY Zenon, <1>1, <1>5, <2>1, <2>2 DEF Kept
<1>7. \A x \in Pids : x # q => proc'[x] = proc[x]
  BY <1>1, <1>2
<1>8. \A x \in Pids : Kept(x)
  BY Zenon, <1>6, <1>7, KeptSame
<1>9. Busy(thread', proc')
  <2> SUFFICES ASSUME NEW x \in Pids, NEW u \in Threads
               PROVE  /\ thread[x][u].pc # "idle" => proc'[x].live
                      /\ thread[x][u].pc = "draw" => proc'[x].context
    BY Zenon, <1>1 DEF Busy
  <2>1. /\ thread[x][u].pc # "idle" => proc[x].live
        /\ thread[x][u].pc = "draw" => proc[x].context
    BY Zenon DEF OidsInv, ContextInv
  <2> QED
    BY Zenon, <1>8, <2>1 DEF Kept
<1>10. now' \in Word /\ thread' \in [Pids -> [Threads -> Thread]]
  BY Zenon, <1>1 DEF OidsInv, TypeInv
<1> QED
  BY Zenon, <1>1, <1>4, <1>8, <1>9, <1>10, QuietStep

LEMMA BeginInv == ASSUME OidsInv, NEW p \in Pids, NEW t \in Threads, Begin(p, t) PROVE OidsInv'
<1> DEFINE to == [Idle EXCEPT !.pc = "context", !.time = now]
<1>1. /\ proc[p].live /\ Step(p, t, to) /\ UNCHANGED <<now, proc, made, use>>
  BY Zenon DEF Begin, At_
<1>2. now \in Word /\ proc \in [Pids -> Process]
  BY Zenon DEF OidsInv, TypeInv
<1>3. to \in Thread /\ to.pc = "context"
  BY Zenon, <1>2, IdleThread, Places, TimeUpdate
<1> HIDE DEF to
<1>4. \A x \in Pids : Kept(x)
  BY Zenon, <1>1, KeptSame
<1>5. proc' \in [Pids -> Process] /\ to.pc # "draw"
  BY <1>1, <1>2, <1>3
<1> QED
  BY Zenon, <1>1, <1>3, <1>4, <1>5, ThreadStep

LEMMA ContextStep ==
    ASSUME OidsInv, NEW p \in Pids, NEW t \in Threads, bson_context_get_default(p, t)
    PROVE  OidsInv'
<1> DEFINE to == [thread[p][t] EXCEPT !.pc = "draw"]
<1>1. /\ proc[p].live /\ Step(p, t, to) /\ UNCHANGED <<now, made, use>>
  BY Zenon DEF bson_context_get_default, At_
<1>2. proc \in [Pids -> Process] /\ thread[p][t] \in Thread
  BY DEF OidsInv, TypeInv
<1>3. to \in Thread
  BY SMT, <1>2 DEF Thread, Place
<1> HIDE DEF to
<1>4. CASE proc[p].context /\ UNCHANGED proc
  <2>1. \A x \in Pids : Kept(x)
    BY Zenon, <1>4, KeptSame
  <2>2. proc' \in [Pids -> Process] /\ proc'[p].context
    BY Zenon, <1>2, <1>4
  <2> QED
    BY Zenon, <1>1, <1>3, <2>1, <2>2, ThreadStep
<1>5. ASSUME ~proc[p].context, NEW seed \in Seeds, proc' = [proc EXCEPT ![p] = bson_context_new(p, seed)]
      PROVE  OidsInv'
  <2>1. seed \in Nat /\ p \in Nat
    BY SMT, IdsAssumption
  <2>2. proc[p] \in Process
    BY <1>2
  <2>3. bson_context_new(p, seed) \in Process
    BY <2>1, <2>2 DEF bson_context_new, Process
  <2>4. proc' \in [Pids -> Process] /\ proc'[p] = bson_context_new(p, seed)
    BY <1>2, <1>5, <2>3
  <2>5. /\ proc'[p].live = proc[p].live /\ proc'[p].context = TRUE
        /\ proc'[p].seq64 = 0 /\ proc'[p].pid = p
    BY <2>2, <2>4 DEF bson_context_new, Process
  <2>6. Len(made) \in Nat
    BY Zenon, LenProperties DEF OidsInv, TypeInv
  <2>7. proc'[p].seq64 <= Len(made)
    BY SMT, <2>5, <2>6
  <2>8. Kept(p)
    BY Zenon, <1>1, <1>5, <2>5, <2>7 DEF Kept
  <2>9. \A x \in Pids : x # p => proc'[x] = proc[x]
    BY <1>2, <1>5
  <2>10. \A x \in Pids : Kept(x)
    BY Zenon, <2>8, <2>9, KeptSame
  <2> QED
    BY Zenon, <1>1, <1>3, <2>4, <2>5, <2>10, ThreadStep
<1> QED
  BY Zenon, <1>4, <1>5 DEF bson_context_get_default

LEMMA Int32Type == \A n \in Nat : Int32(n) \in Int
<1>1. IdSpace \in Nat \ {0}
  BY SMT, IdsAssumption
<1>2. \A n \in Nat : n % IdSpace \in Int
  BY ONLY SMT, <1>1
<1>3. \A k \in Int : k - IdSpace \in Int
  BY ONLY SMT, <1>1
<1> QED
  BY Zenon, <1>2, <1>3 DEF Int32

(* The steps of write_query leave contexts and numbers alone. *)
LEMMA QueryInv ==
    ASSUME OidsInv, NEW p \in Pids, NEW t \in Threads,
           ReadRequestId(p, t) \/ SetRequestId(p, t) \/ CreateHeader(p, t) \/ StoreInfo(p, t)
    PROVE  OidsInv'
<1>1. proc \in [Pids -> Process] /\ proc[p] \in Process /\ thread[p][t] \in Thread
  BY DEF OidsInv, TypeInv
<1>2. /\ proc[p].request_id \in Nat /\ proc[p].queries \in Nat /\ thread[p][t].id \in Nat
  BY <1>1 DEF Process, Thread
<1>3. CASE ReadRequestId(p, t)
  <2> DEFINE to == [Idle EXCEPT !.pc = "increment", !.id = proc[p].request_id + 1]
  <2>1. /\ proc[p].live /\ Step(p, t, to) /\ UNCHANGED <<now, made, use>>
        /\ proc' = [proc EXCEPT ![p].queries = @ + 1]
    BY Zenon, <1>3 DEF ReadRequestId, At_
  <2>2. to \in Thread /\ to.pc = "increment"
    <3>1. proc[p].request_id + 1 \in Nat
      BY <1>2
    <3>2. Idle \in Thread /\ "increment" \in Place
      BY Zenon, IdleThread, Places
    <3> QED
      BY ONLY Zenon, <3>1, <3>2, IdUpdate
  <2> HIDE DEF to
  <2>3. proc' = [proc EXCEPT ![p] = [proc[p] EXCEPT !.request_id = proc[p].request_id,
                                                    !.queries = proc[p].queries + 1]]
    <3>1. [proc[p] EXCEPT !.queries = proc[p].queries + 1]
          = [proc[p] EXCEPT !.request_id = proc[p].request_id, !.queries = proc[p].queries + 1]
      BY <1>1 DEF Process
    <3> QED
      BY Zenon, <2>1, <3>1
  <2>4. proc[p].queries + 1 \in Nat
    BY <1>2
  <2>5. proc' \in [Pids -> Process] /\ \A x \in Pids : Kept(x)
    BY ONLY Zenon, OidsInv, p \in Pids, <1>2, <2>3, <2>4, KeptRequest
  <2>6. to.pc # "draw"
    BY <2>2
  <2> QED
    BY Zenon, <2>1, <2>2, <2>5, <2>6, ThreadStep
<1>4. CASE SetRequestId(p, t)
  <2> DEFINE to == [thread[p][t] EXCEPT !.pc = "header"]
  <2>1. /\ proc[p].live /\ Step(p, t, to) /\ UNCHANGED <<now, made, use>>
        /\ proc' = [proc EXCEPT ![p].request_id = thread[p][t].id]
    BY Zenon, <1>4 DEF SetRequestId, At_
  <2>2. to \in Thread /\ to.pc = "header"
    BY SMT, <1>1 DEF Thread, Place
  <2> HIDE DEF to
  <2>3. proc' = [proc EXCEPT ![p] = [proc[p] EXCEPT !.request_id = thread[p][t].id,
                                                    !.queries = proc[p].queries]]
    <3>1. [proc[p] EXCEPT !.request_id = thread[p][t].id]
          = [proc[p] EXCEPT !.request_id = thread[p][t].id, !.queries = proc[p].queries]
      BY <1>1 DEF Process
    <3> QED
      BY Zenon, <2>1, <3>1
  <2>5. proc' \in [Pids -> Process] /\ \A x \in Pids : Kept(x)
    BY ONLY Zenon, OidsInv, p \in Pids, <1>2, <2>3, KeptRequest
  <2>6. to.pc # "draw"
    BY <2>2
  <2> QED
    BY Zenon, <2>1, <2>2, <2>5, <2>6, ThreadStep
<1>5. ASSUME NEW to \in Thread, to.pc # "draw", proc[p].live, Step(p, t, to),
             UNCHANGED <<now, proc, made, use>>
      PROVE  OidsInv'
  <2>1. proc' \in [Pids -> Process] /\ \A x \in Pids : Kept(x)
    BY Zenon, <1>1, <1>5, KeptSame
  <2> QED
    BY Zenon, <1>5, <2>1, ThreadStep
<1>6. CASE CreateHeader(p, t)
  <2> DEFINE to == [thread[p][t] EXCEPT !.pc = "info", !.header = Int32(proc[p].request_id)]
  <2>1. /\ proc[p].live /\ Step(p, t, to) /\ UNCHANGED <<now, proc, made, use>>
    BY Zenon, <1>6 DEF CreateHeader, At_
  <2>2. Int32(proc[p].request_id) \in Int
    BY Zenon, <1>2, Int32Type
  <2>3. to \in Thread /\ to.pc = "info"
    BY Zenon, <1>1, <2>2, Places, HeaderUpdate
  <2>4. to.pc # "draw"
    BY <2>3
  <2> QED
    BY Zenon, <1>5, <2>1, <2>3, <2>4
<1>7. CASE StoreInfo(p, t)
  <2>1. /\ proc[p].live /\ Step(p, t, Idle) /\ UNCHANGED <<now, proc, made, use>>
    BY Zenon, <1>7 DEF StoreInfo, At_
  <2>2. Idle.pc # "draw"
    BY DEF Idle
  <2> QED
    BY Zenon, <1>5, <2>1, <2>2, IdleThread
<1> QED
  BY Zenon, <1>3, <1>4, <1>6, <1>7

-----------------------------------------------------------------------------
(* Drawing a number *)

(* What a draw makes of the process *)
LEMMA DrawsNext ==
    ASSUME OidsInv, NEW p \in Pids, NEW t \in Threads, Draw(p, t)
    PROVE  /\ proc' \in [Pids -> Process]
           /\ \A x \in Pids : x # p => proc'[x] = proc[x]
           /\ proc'[p].live = proc[p].live /\ proc'[p].context = proc[p].context
           /\ proc'[p].pid = proc[p].pid
           /\ proc'[p].seq64 <= proc[p].seq64 + 1
           /\ NextNumber(p) \in Nat /\ NextNumber(p)' = NextNumber(p) + 1
<1>1. proc \in [Pids -> Process] /\ proc[p] \in Process
  BY DEF OidsInv, TypeInv
<1>2. use' = use
  BY Zenon DEF Draw
<1>3. proc[p].seq32 \in Nat /\ proc[p].seq64 \in Nat
  BY <1>1 DEF Process
<1>4. CASE use.for = "oid"
  <2>1. proc' = [proc EXCEPT ![p] = [proc[p] EXCEPT !.seq32 = proc[p].seq32 + 1]]
    BY Zenon, <1>4 DEF Draw
  <2>2. [proc[p] EXCEPT !.seq32 = proc[p].seq32 + 1] \in Process
    BY <1>1, <1>3 DEF Process
  <2>3. proc' \in [Pids -> Process] /\ \A x \in Pids : x # p => proc'[x] = proc[x]
    BY <1>1, <2>1, <2>2
  <2>4. /\ proc'[p].live = proc[p].live /\ proc'[p].context = proc[p].context
        /\ proc'[p].pid = proc[p].pid
        /\ proc'[p].seq64 = proc[p].seq64 /\ proc'[p].seq32 = proc[p].seq32 + 1
    BY <1>1, <2>1 DEF Process
  <2>5. NextNumber(p) \in Nat /\ NextNumber(p)' = NextNumber(p) + 1
    BY <1>2, <1>3, <1>4, <2>4 DEF NextNumber, _bson_context_get_oid_seq32
  <2> QED
    BY <1>3, <2>3, <2>4, <2>5
<1>5. CASE use.for # "oid"
  <2>1. proc' = [proc EXCEPT ![p] = [proc[p] EXCEPT !.seq64 = proc[p].seq64 + 1]]
    BY Zenon, <1>5 DEF Draw
  <2>2. [proc[p] EXCEPT !.seq64 = proc[p].seq64 + 1] \in Process
    BY <1>1, <1>3 DEF Process
  <2>3. proc' \in [Pids -> Process] /\ \A x \in Pids : x # p => proc'[x] = proc[x]
    BY <1>1, <2>1, <2>2
  <2>4. /\ proc'[p].live = proc[p].live /\ proc'[p].context = proc[p].context
        /\ proc'[p].pid = proc[p].pid /\ proc'[p].seq64 = proc[p].seq64 + 1
    BY <1>1, <2>1 DEF Process
  <2>5. NextNumber(p) \in Nat /\ NextNumber(p)' = NextNumber(p) + 1
    BY <1>2, <1>3, <1>5, <2>4 DEF NextNumber, _bson_context_get_oid_seq64
  <2> QED
    BY <1>3, <2>3, <2>4, <2>5
<1> QED
  BY Zenon, <1>4, <1>5

(* What is recorded of the id a thread makes *)
Drawn(p, t) == [oid |-> OidOf(p, t), pid |-> p, time |-> thread[p][t].time, seq |-> NextNumber(p)]

(* The pid in an id is that of the process that made it: a cached one is,  *)
(* as nothing forks once it is cached.                                     *)
LEMMA DrawnId ==
    ASSUME OidsInv, NEW p \in Pids, NEW t \in Threads, Draw(p, t)
    PROVE  Drawn(p, t) \in Made /\ Drawn(p, t).oid = RecordOid(Drawn(p, t))
<1> DEFINE m == Drawn(p, t)
<1>1. /\ m.oid = OidOf(p, t) /\ m.pid = p /\ m.time = thread[p][t].time /\ m.seq = NextNumber(p)
  BY Zenon DEF Drawn
<1>2. proc[p] \in Process /\ thread[p][t] \in Thread
  BY DEF OidsInv, TypeInv
<1>3. m.time \in Word /\ m.seq \in Nat /\ p \in Nat
  <2>1. thread[p][t].time \in Word
    BY SMT, <1>2 DEF Thread
  <2> QED
    BY Zenon, <1>1, <2>1, DrawsNext, PidsAreNumbers
<1>4. proc[p].context
  BY Zenon DEF OidsInv, ContextInv, Draw, At_
<1>5. _bson_context_get_oid_pid(p) = BE2(p % PidSpace)
  <2>1. "disable_pid_cache" \notin use.flags => proc[p].pid = p
    BY Zenon, <1>4 DEF OidsInv, ContextInv, Cached
  <2> QED
    BY Zenon, <2>1 DEF _bson_context_get_oid_pid, _bson_context_get_oid_pid_cached
<1>6. use.for = "oid" => m.seq = _bson_context_get_oid_seq32(p)
  BY Zenon, <1>1 DEF NextNumber
<1>7. use.for # "oid" => m.seq = _bson_context_get_oid_seq64(p)
  BY Zenon, <1>1 DEF NextNumber
<1>8. m.oid = RecordOid(m)
  BY Zenon, <1>1, <1>5, <1>6, <1>7 DEF OidOf, RecordOid
<1>9. BE4(m.time) \in Seq(Octet)
  <2>1. \A n \in Word : BE4(n) \in Seq(Octet)
    BY SMT, Four
  <2> QED
    BY ONLY Zenon, <1>3, <2>1
<1>10. RecordOid(m) \in Seq(Octet)
  <2>1. CASE use.for = "oid"
    <3>1. _bson_context_get_oid_host \o BE2(m.pid % PidSpace) \o BE3(m.seq % SeqSpace) \in Seq(Octet)
      BY Zenon, <1>1, <1>3, OidBytes
    <3>2. BE4(m.time) \o (_bson_context_get_oid_host \o BE2(m.pid % PidSpace) \o BE3(m.seq % SeqSpace))
            \in Seq(Octet)
      BY ONLY Zenon, <1>9, <3>1, ConcatParts
    <3> QED
      BY Zenon, <2>1, <3>2 DEF RecordOid
  <2>2. CASE use.for # "oid"
    <3>1. m.seq = proc[p].seq64
      BY Zenon, <1>7, <2>2 DEF _bson_context_get_oid_seq64
    <3>2. proc[p].seq64 <= Len(made) /\ Len(made) < MaxOids
      BY Zenon DEF OidsInv, NumbersInv, Draw
    <3>3. Len(made) \in Nat /\ MaxOids \in Nat
      BY SMT, LenProperties, IdsAssumption DEF OidsInv, TypeInv
    <3>4. m.seq < MaxOids
      BY ONLY SMT, <1>3, <3>1, <3>2, <3>3
    <3>5. m.seq \in Word
      BY SMT, <1>3, <3>4, Bounds
    <3>6. BE8(m.seq) \in Seq(Octet)
      BY SMT, <3>5, Eight
    <3>7. BE4(m.time) \o BE8(m.seq) \in Seq(Octet)
      BY ONLY Zenon, <1>9, <3>6, ConcatParts
    <3> QED
      BY Zenon, <2>2, <3>7 DEF RecordOid
  <2> QED
    BY Zenon, <2>1, <2>2
<1>11. m \in Made
  <2>1. OidOf(p, t) \in Seq(Octet) /\ thread[p][t].time \in Word /\ NextNumber(p) \in Nat
    BY ONLY Zenon, <1>1, <1>3, <1>8, <1>10
  <2> QED
    BY Zenon, <2>1 DEF Drawn, Made
<1> QED
  BY Zenon, <1>8, <1>11

LEMMA DrawInv ==
    ASSUME OidsInv, NEW p \in Pids, NEW t \in Threads, Draw(p, t)
    PROVE  OidsInv'
<1> DEFINE m == Drawn(p, t)
<1>1. /\ proc[p].live /\ thread[p][t].pc = "draw" /\ Len(made) < MaxOids
      /\ made' = Append(made, m) /\ Step(p, t, Idle) /\ UNCHANGED <<now, use>>
  BY Zenon DEF Draw, At_, Drawn
<1>2. m \in Made /\ m.oid = RecordOid(m) /\ m.pid = p /\ m.seq = NextNumber(p)
  BY Zenon, DrawnId DEF Drawn
<1> HIDE DEF m
<1>3. /\ proc' \in [Pids -> Process]
      /\ \A x \in Pids : x # p => proc'[x] = proc[x]
      /\ proc'[p].live = proc[p].live /\ proc'[p].context = proc[p].context
      /\ proc'[p].pid = proc[p].pid
      /\ proc'[p].seq64 <= proc[p].seq64 + 1
      /\ NextNumber(p) \in Nat /\ NextNumber(p)' = NextNumber(p) + 1
  BY Zenon, DrawsNext
<1>4. /\ thread' \in [Pids -> [Threads -> Thread]]
      /\ thread'[p][t] = Idle
      /\ \A x \in Pids, u \in Threads : (x # p \/ u # t) => thread'[x][u] = thread[x][u]
  <2>1. thread \in [Pids -> [Threads -> Thread]]
    BY Zenon DEF OidsInv, TypeInv
  <2> QED
    BY Zenon, <1>1, <2>1, IdleThread, StepEffect
<1>5. made \in Seq(Made) /\ Len(made) \in Nat /\ Len(made) <= MaxOids
  BY Zenon, LenProperties DEF OidsInv, TypeInv
<1>6. /\ made' \in Seq(Made) /\ Len(made') = Len(made) + 1
      /\ \A i \in 1..Len(made) : made'[i] = made[i]
      /\ made'[Len(made) + 1] = m
  BY ONLY Zenon, <1>1, <1>2, <1>5, AppendProperties
<1>7. Len(made') <= MaxOids
  BY SMT, <1>1, <1>5, <1>6, Bounds
<1>8. TypeInv'
  <2>1. now' \in Word
    BY Zenon, <1>1 DEF OidsInv, TypeInv
  <2> QED
    BY Zenon, <1>3, <1>4, <1>6, <1>7, <2>1 DEF TypeInv
<1>9. \A i \in 1..Len(made') : (i \in 1..Len(made) /\ made'[i] = made[i])
                               \/ (i = Len(made) + 1 /\ made'[i] = m)
  <2>1. \A i \in 1..Len(made') : i \in 1..Len(made) \/ i = Len(made) + 1
    BY ONLY SMT, <1>5, <1>6
  <2> QED
    BY ONLY Zenon, <1>6, <2>1
<1>10. \A i \in 1..Len(made) : made[i] \in Made /\ made[i].pid \in Pids /\ made[i].seq \in Nat
  <2>1. \A i \in 1..Len(made) : made[i] \in Made
    BY ONLY Zenon, <1>5, ElementOfSeq
  <2> QED
    BY SMT, <2>1 DEF Made
<1>11. \A x \in Pids : /\ proc[x].live => proc'[x].live
                       /\ proc'[x].live => proc[x].live
                       /\ proc[x].context => proc'[x].context
                       /\ proc'[x].context => proc[x].context
                       /\ proc'[x].pid = proc[x].pid
  BY Zenon, <1>3
<1>12. proc[p].context
  BY Zenon, <1>1 DEF OidsInv, ContextInv
<1>13. ContextInv'
  <2>1. \A x \in Pids, u \in Threads : /\ thread'[x][u].pc # "idle" => proc'[x].live
                                       /\ thread'[x][u].pc = "draw" => proc'[x].context
    <3> SUFFICES ASSUME NEW x \in Pids, NEW u \in Threads
                 PROVE  /\ thread'[x][u].pc # "idle" => proc'[x].live
                        /\ thread'[x][u].pc = "draw" => proc'[x].context
      OBVIOUS
    <3>1. CASE x = p /\ u = t
      <4>1. thread'[x][u].pc = "idle"
        BY <1>4, <3>1 DEF Idle
      <4> QED
        BY <4>1
    <3>2. CASE x # p \/ u # t
      <4>1. thread'[x][u] = thread[x][u]
        BY Zenon, <1>4, <3>2
      <4>2. /\ thread[x][u].pc # "idle" => proc[x].live
            /\ thread[x][u].pc = "draw" => proc[x].context
        BY Zenon DEF OidsInv, ContextInv
      <4> QED
        BY Zenon, <1>11, <4>1, <4>2
    <3> QED
      BY Zenon, <3>1, <3>2
  <2>2. \A x \in Pids : proc'[x].context => proc'[x].live
    BY Zenon, <1>11 DEF OidsInv, ContextInv
  <2>3. \A x \in Pids : Cached(x)' => proc'[x].pid = x
    <3>1. \A x \in Pids : Cached(x)' => Cached(x)
      BY Zenon, <1>1, <1>11 DEF Cached
    <3>2. \A x \in Pids : Cached(x) => proc[x].pid = x
      BY Zenon DEF OidsInv, ContextInv
    <3> QED
      BY ONLY Zenon, <1>11, <3>1, <3>2
  <2>4. ASSUME NEW i \in 1..Len(made') PROVE proc'[made'[i].pid].live /\ proc'[made'[i].pid].context
    <3>1. CASE i \in 1..Len(made) /\ made'[i] = made[i]
      <4>1. proc[made[i].pid].live /\ proc[made[i].pid].context
        BY Zenon, <3>1 DEF OidsInv, ContextInv
      <4> QED
        BY Zenon, <1>10, <1>11, <3>1, <4>1
    <3>2. CASE made'[i] = m
      BY Zenon, <1>1, <1>2, <1>11, <1>12, <3>2
    <3> QED
      BY Zenon, <1>9, <3>1, <3>2
  <2> QED
    BY Zenon, <2>1, <2>2, <2>3, <2>4 DEF ContextInv
<1>14. \A i \in 1..Len(made) : made[i].seq < NextNumber(made[i].pid)
                               /\ made[i].oid = RecordOid(made[i])
  BY Zenon DEF OidsInv, NumbersInv
<1>15. \A x \in Pids : x # p => NextNumber(x)' = NextNumber(x)
  BY Zenon, <1>1, <1>3 DEF NextNumber, _bson_context_get_oid_seq32, _bson_context_get_oid_seq64
<1>16. ASSUME NEW i \in 1..Len(made')
       PROVE  (made[i].oid = RecordOid(made[i]) /\ made[i].seq < NextNumber(made[i].pid))'
  <2>1. CASE i \in 1..Len(made) /\ made'[i] = made[i]
    <3>1. made[i].oid = RecordOid(made[i]) /\ made[i].seq < NextNumber(made[i].pid)
          /\ made[i].pid \in Pids /\ made[i].seq \in Nat
      BY Zenon, <1>10, <1>14, <2>1
    <3>2. (made[i].oid = RecordOid(made[i]))'
      BY Zenon, <1>1, <2>1, <3>1 DEF RecordOid
    <3>3. made[i].seq < NextNumber(made[i].pid)'
      <4>1. CASE made[i].pid = p
        <5>1. made[i].seq < NextNumber(p)
          BY ONLY Zenon, <3>1, <4>1
        <5>2. made[i].seq < NextNumber(p) + 1
          BY ONLY SMT, <1>3, <3>1, <5>1
        <5>3. NextNumber(made[i].pid)' = NextNumber(p) + 1
          <6>1. made'[i].pid = p
            BY Zenon, <2>1, <4>1
          <6> QED
            BY Zenon, <1>3, <6>1 DEF NextNumber, _bson_context_get_oid_seq32, _bson_context_get_oid_seq64
        <5> QED
          BY ONLY Zenon, <5>2, <5>3
      <4>2. CASE made[i].pid # p
        <5>1. NextNumber(made[i].pid)' = NextNumber(made[i].pid)
          <6>1. made'[i].pid = made[i].pid
            BY Zenon, <2>1
          <6>2. proc'[made[i].pid] = proc[made[i].pid]
            BY Zenon, <1>3, <3>1, <4>2
          <6> QED
            BY Zenon, <1>1, <6>1, <6>2 DEF NextNumber, _bson_context_get_oid_seq32, _bson_context_get_oid_seq64
        <5> QED
          BY Zenon, <3>1, <5>1
      <4> QED
        BY Zenon, <4>1, <4>2
    <3> QED
      BY Zenon, <2>1, <3>2, <3>3
  <2>2. CASE made'[i] = m
    <3>1. (made[i].oid = RecordOid(made[i]))'
      <4>1. m.oid = RecordOid(m)
        BY Zenon, <1>2
      <4>2. RecordOid(made[i])' = RecordOid(m)
        BY Zenon, <1>1, <2>2 DEF RecordOid
      <4> QED
        BY Zenon, <2>2, <4>1, <4>2
    <3>2. NextNumber(made[i].pid)' = NextNumber(p) + 1
      <4>1. made'[i].pid = p
        BY Zenon, <1>2, <2>2
      <4> QED
        BY Zenon, <1>3, <4>1 DEF NextNumber, _bson_context_get_oid_seq32, _bson_context_get_oid_seq64
    <3>3. made'[i].seq = NextNumber(p)
      BY Zenon, <1>2, <2>2
    <3>4. NextNumber(p) < NextNumber(p) + 1
      BY ONLY SMT, <1>3
    <3> QED
      BY Zenon, <3>1, <3>2, <3>3, <3>4
  <2> QED
    BY Zenon, <1>9, <2>1, <2>2
<1>17. \A i \in 1..Len(made) : made[i].pid = p => made[i].seq # m.seq
  <2>1. \A a, b \in Nat : a < b => a # b
    BY ONLY SMT
  <2> QED
    BY Zenon, <1>2, <1>3, <1>10, <1>14, <2>1
<1>18. ASSUME NEW i \in 1..Len(made'), NEW j \in 1..Len(made'), i # j, made'[i].pid = made'[j].pid
       PROVE  made'[i].seq # made'[j].seq
  <2>1. \A k, l \in 1..Len(made) : k # l /\ made[k].pid = made[l].pid => made[k].seq # made[l].seq
    BY Zenon DEF OidsInv, NumbersInv
  <2> QED
    BY Zenon, <1>2, <1>9, <1>17, <1>18, <2>1
<1>19. \A x \in Pids : proc'[x].seq64 <= Len(made')
  <2> SUFFICES ASSUME NEW x \in Pids PROVE proc'[x].seq64 <= Len(made')
    OBVIOUS
  <2>1. proc[x].seq64 <= Len(made) /\ proc[x] \in Process /\ proc'[x] \in Process
    BY Zenon, <1>3 DEF OidsInv, NumbersInv, TypeInv
  <2>2. proc[x].seq64 \in Nat /\ proc'[x].seq64 \in Nat
    BY SMT, <2>1 DEF Process
  <2>3. proc'[x].seq64 <= proc[x].seq64 + 1
    <3>1. CASE x = p
      BY Zenon, <1>3, <3>1
    <3>2. CASE x # p
      <4>1. proc'[x].seq64 = proc[x].seq64
        BY Zenon, <1>3, <3>2
      <4> QED
        BY ONLY SMT, <2>2, <4>1
    <3> QED
      BY Zenon, <3>1, <3>2
  <2> QED
    BY ONLY SMT, <1>5, <1>6, <2>1, <2>2, <2>3
<1>20. NumbersInv'
  BY Zenon, <1>16, <1>18, <1>19 DEF NumbersInv
<1> QED
  BY Zenon, <1>8, <1>13, <1>20 DEF OidsInv

-----------------------------------------------------------------------------
LEMMA InitOids == Init => OidsInv
<1> SUFFICES ASSUME Init PROVE OidsInv
  OBVIOUS
<1>1. PICK id \in FirstIds :
          proc = [p \in Pids |-> IF p = FirstPid THEN [NoProcess EXCEPT !.live = TRUE, !.request_id = id]
                                 ELSE NoProcess]
  BY Zenon DEF Init
<1>2. id \in Nat
  BY SMT, IdsAssumption
<1>3. NoProcess \in Process /\ NoProcess.seq64 = 0 /\ NoProcess.context = FALSE
  BY DEF NoProcess, Process
<1> DEFINE first == [NoProcess EXCEPT !.live = TRUE, !.request_id = id]
<1>4. first \in Process /\ first.seq64 = 0 /\ first.context = FALSE
  BY <1>2, <1>3 DEF Process
<1> HIDE DEF first
<1>5. /\ proc \in [Pids -> Process]
      /\ \A p \in Pids : proc[p].seq64 = 0 /\ proc[p].context = FALSE
  <2>1. proc = [p \in Pids |-> IF p = FirstPid THEN first ELSE NoProcess]
    BY Zenon, <1>1 DEF first
  <2> QED
    BY <1>3, <1>4, <2>1
<1>6. /\ thread \in [Pids -> [Threads -> Thread]]
      /\ \A p \in Pids, t \in Threads : thread[p][t] = Idle
  BY Zenon, IdleThread DEF Init
<1>7. made = <<>> /\ now \in Word
  BY SMT DEF Init, Word
<1>8. made \in Seq(Made) /\ Len(made) = 0
  BY <1>7
<1>9. MaxOids \in Nat
  BY SMT, IdsAssumption
<1>10. 1..Len(made) = {}
  BY ONLY SMT, <1>8
<1>11. TypeInv
  <2>1. Len(made) <= MaxOids
    BY ONLY SMT, <1>8, <1>9
  <2> QED
    BY Zenon, <1>5, <1>6, <1>7, <1>8, <2>1 DEF TypeInv
<1>12. ContextInv
  <2>1. Idle.pc = "idle"
    BY DEF Idle
  <2>2. \A p \in Pids, t \in Threads : /\ thread[p][t].pc # "idle" => proc[p].live
                                       /\ thread[p][t].pc = "draw" => proc[p].context
    BY <1>6, <2>1
  <2>3. \A p \in Pids : ~proc[p].context
    BY <1>5
  <2> QED
    BY Zenon, <1>10, <2>2, <2>3 DEF ContextInv, Cached
<1>13. NumbersInv
  <2>1. \A p \in Pids : proc[p].seq64 <= Len(made)
    BY SMT, <1>5, <1>8
  <2> QED
    BY Zenon, <1>10, <2>1 DEF NumbersInv
<1> QED
  BY Zenon, <1>11, <1>12, <1>13 DEF OidsInv

LEMMA StillOids == ASSUME OidsInv, UNCHANGED vars PROVE OidsInv'
<1>1. UNCHANGED <<now, proc, thread, made, use>>
  BY Zenon DEF vars
<1>2. \A x \in Pids : Kept(x)
  BY Zenon, <1>1, KeptSame
<1>3. /\ Busy(thread', proc') /\ now' \in Word /\ proc' \in [Pids -> Process]
      /\ thread' \in [Pids -> [Threads -> Thread]]
  BY Zenon, <1>1 DEF OidsInv, TypeInv, ContextInv, Busy
<1> QED
  BY Zenon, <1>1, <1>2, <1>3, QuietStep

LEMMA NextOids == ASSUME OidsInv, [Next]_vars PROVE OidsInv'
<1>1. CASE Tick
  BY Zenon, <1>1, TickInv
<1>2. ASSUME NEW p \in Pids, NEW q \in Pids, NEW t \in Threads, Fork(p, t, q) PROVE OidsInv'
  BY Zenon, <1>2, ForkInv
<1>3. ASSUME NEW p \in Pids, NEW t \in Threads,
             bson_oid_init(p, t) \/ bson_oid_init_sequence(p, t)
      PROVE  OidsInv'
  BY Zenon, <1>3, BeginInv DEF bson_oid_init, bson_oid_init_sequence
<1>4. ASSUME NEW p \in Pids, NEW t \in Threads, bson_context_get_default(p, t) PROVE OidsInv'
  BY Zenon, <1>4, ContextStep
<1>5. ASSUME NEW p \in Pids, NEW t \in Threads, Draw(p, t) PROVE OidsInv'
  BY Zenon, <1>5, DrawInv
<1>6. ASSUME NEW p \in Pids, NEW t \in Threads,
             ReadRequestId(p, t) \/ SetRequestId(p, t) \/ CreateHeader(p, t) \/ StoreInfo(p, t)
      PROVE  OidsInv'
  BY Zenon, <1>6, QueryInv
<1>7. CASE UNCHANGED vars
  BY Zenon, <1>7, StillOids
<1> QED
  BY Zenon, <1>1, <1>2, <1>3, <1>4, <1>5, <1>6, <1>7 DEF Next

(* Processes, threads and the ids made are well typed.                    *)
THEOREM TypeCorrect == Spec => []TypeInv
<1>1. Init => OidsInv
  BY InitOids
<1>2. OidsInv /\ [Next]_vars => OidsInv'
  BY Zenon, NextOids
<1>3. OidsInv => TypeInv
  BY Zenon DEF OidsInv
<1> QED
  BY <1>1, <1>2, <1>3, PTL DEF Spec

(* Two object ids are the same only if their process made all of the       *)
(* numbers between them in one second, or their pids are the same in 16    *)
(* bits: whatever forks, and however threads come between each other as    *)
(* far as the flags of their context allow (bson-oid.c, bson-context.c).   *)
THEOREM OidsAreUnique == Spec => []OidsUnique
<1>1. Init => OidsInv
  BY InitOids
<1>2. OidsInv /\ [Next]_vars => OidsInv'
  BY Zenon, NextOids
<1>3. OidsInv => OidsUnique
  BY NumbersTell
<1> QED
  BY <1>1, <1>2, <1>3, PTL DEF Spec

-----------------------------------------------------------------------------
(* Texts of the ids made *)

LEMMA MadeOids ==
    ASSUME OidsInv, NEW i \in 1..Len(made)
    PROVE  made[i].oid \in Oids /\ bson_oid_get_time_t(made[i].oid) = made[i].time
<1> DEFINE m == made[i]
<1>1. m \in Made /\ m.oid = RecordOid(m)
  <2>1. made \in Seq(Made)
    BY Zenon DEF OidsInv, TypeInv
  <2>2. m.oid = RecordOid(m)
    BY Zenon DEF OidsInv, NumbersInv
  <2> QED
    BY Zenon, <2>1, <2>2, ElementOfSeq
<1>2. m.time \in Word /\ m.pid \in Pids /\ m.seq \in Nat
  BY SMT, <1>1 DEF Made
<1>3. use.for # "oid" => m.seq \in Word
  BY Zenon, <1>1, NumberFits
<1> HIDE DEF m
<1>4. \E r \in Seq(Octet) : Len(r) = 8 /\ RecordOid(m) = BE4(m.time) \o r
  <2>1. CASE use.for = "oid"
    <3>1. m.pid \in Nat
      BY Zenon, <1>2, PidsAreNumbers
    <3> DEFINE r == _bson_context_get_oid_host \o BE2(m.pid % PidSpace) \o BE3(m.seq % SeqSpace)
    <3>2. r \in Seq(Octet) /\ Len(r) = 8
      BY Zenon, <1>2, <3>1, OidBytes
    <3>3. RecordOid(m) = BE4(m.time) \o r
      BY Zenon, <2>1 DEF RecordOid
    <3> QED
      BY ONLY Zenon, <3>2, <3>3
  <2>2. CASE use.for # "oid"
    <3>1. BE8(m.seq) \in Seq(Octet) /\ Len(BE8(m.seq)) = 8
      <4>1. m.seq \in Word
        BY ONLY Zenon, <1>3, <2>2
      <4> QED
        BY SMT, <4>1, Eight
    <3>2. RecordOid(m) = BE4(m.time) \o BE8(m.seq)
      BY Zenon, <2>2 DEF RecordOid
    <3> QED
      BY ONLY Zenon, <3>1, <3>2
  <2> QED
    BY Zenon, <2>1, <2>2
<1>5. PICK r \in Seq(Octet) : Len(r) = 8 /\ RecordOid(m) = BE4(m.time) \o r
  BY Zenon, <1>4
<1>6. BE4(m.time) \in Seq(Octet) /\ Len(BE4(m.time)) = 4
  BY SMT, <1>2, Four
<1> DEFINE h == BE4(m.time)
           o == h \o r
<1>7. m.oid = o
  BY Zenon, <1>1, <1>5 DEF m
<1> HIDE DEF h, o
<1>8. /\ o \in Seq(Octet) /\ Len(o) = Len(h) + Len(r)
      /\ \A j \in 1..Len(h) : o[j] = h[j]
  <2>1. h \in Seq(Octet)
    BY ONLY Zenon, <1>6 DEF h
  <2> QED
    BY ONLY Zenon, <2>1, ConcatParts DEF o
<1>9. Len(h) = 4
  BY ONLY Zenon, <1>6 DEF h
<1>10. Len(o) = 12 /\ o[1] = h[1] /\ o[2] = h[2] /\ o[3] = h[3] /\ o[4] = h[4]
  BY ONLY SMT, <1>5, <1>8, <1>9
<1>11. o \in Oids
  BY Zenon, <1>8, <1>10 DEF Oids
<1>12. bson_oid_get_time_t(o) = m.time
  <2>1. 65536 * (256 * h[1] + h[2]) + 256 * h[3] + h[4] = m.time
    BY SMT, <1>2, Four DEF h
  <2> QED
    BY SMT, <1>10, <2>1 DEF bson_oid_get_time_t
<1> QED
  BY Zenon, <1>7, <1>11, <1>12 DEF m

(* The text of every object id made is valid, gives the id back and sorts  *)
(* as it does, and its first four bytes are the time of its making         *)
(* (bson-oid.c bson_oid_to_string, bson_oid_init_from_string).             *)
THEOREM TextsAreFaithful == Spec => []OidTextFaithful
<1>1. OidsInv => OidTextFaithful
  <2> SUFFICES ASSUME OidsInv, NEW i \in 1..Len(made), NEW j \in 1..Len(made)
               PROVE  LET x  == made[i].oid
                          y  == made[j].oid
                          sx == bson_oid_to_string(x)
                          sy == bson_oid_to_string(y)
                      IN  /\ bson_oid_is_valid(sx) /\ bson_oid_init_from_string(sx) = x
                          /\ bson_oid_compare(x, y) = MemCmp(sx, sy, 24)
                          /\ bson_oid_equal(x, y) <=> sx = sy
                          /\ bson_oid_get_time_t(x) = made[i].time
    BY Zenon DEF OidTextFaithful
  <2>1. made[i].oid \in Oids /\ made[j].oid \in Oids /\ bson_oid_get_time_t(made[i].oid) = made[i].time
    BY Zenon, MadeOids
  <2> QED
    BY Zenon, <2>1, TextReadsBack, TextSorts
<1>2. Init => OidsInv
  BY InitOids
<1>3. OidsInv /\ [Next]_vars => OidsInv'
  BY Zenon, NextOids
<1> QED
  BY <1>1, <1>2, <1>3, PTL DEF Spec

-----------------------------------------------------------------------------
(* Request ids: one thread of a process at a time writes a query, so that  *)
(* the counter stands still between the header and the copy in info.       *)
OneWriter == \A t, u \in Writers : t = u

WriterInv ==
    \A p \in Pids, t \in Threads :
        /\ thread[p][t].pc \in {"increment", "header", "info"} => t \in Writers
        /\ thread[p][t].pc = "info" => thread[p][t].header = Int32(proc[p].request_id)

AskedInv == OidsInv /\ WriterInv /\ AwaitsOwnReply

(* Steps that leave the counters of request ids alone *)
LEMMA WriterStep ==
    ASSUME OidsInv, WriterInv, NEW p \in Pids, NEW t \in Threads, NEW to \in Thread, Step(p, t, to),
           \A x \in Pids : proc'[x].request_id = proc[x].request_id,
           to.pc \in {"increment", "header", "info"} => t \in Writers,
           to.pc = "info" => to.header = Int32(proc[p].request_id)
    PROVE  WriterInv'
<1>1. thread \in [Pids -> [Threads -> Thread]]
  BY Zenon DEF OidsInv, TypeInv
<1>2. /\ thread'[p][t] = to
      /\ \A x \in Pids, u \in Threads : (x # p \/ u # t) => thread'[x][u] = thread[x][u]
  BY Zenon, <1>1, StepEffect
<1>3. \A x \in Pids : Int32(proc[x].request_id)' = Int32(proc[x].request_id)
  BY Zenon DEF Int32
<1>4. ASSUME NEW x \in Pids, NEW u \in Threads
      PROVE  /\ thread'[x][u].pc \in {"increment", "header", "info"} => u \in Writers
             /\ thread'[x][u].pc = "info" => thread'[x][u].header = Int32(proc'[x].request_id)
  <2>1. CASE x = p /\ u = t
    <3>1. thread'[x][u] = to
      BY Zenon, <1>2, <2>1
    <3>2. to.pc = "info" => to.header = Int32(proc'[x].request_id)
      BY Zenon, <2>1
    <3>3. to.pc \in {"increment", "header", "info"} => u \in Writers
      BY Zenon, <2>1
    <3> QED
      BY Zenon, <3>1, <3>2, <3>3
  <2>2. CASE x # p \/ u # t
    <3>1. thread'[x][u] = thread[x][u] /\ proc'[x].request_id = proc[x].request_id
      BY Zenon, <1>2, <2>2
    <3>2. /\ thread[x][u].pc \in {"increment", "header", "info"} => u \in Writers
          /\ thread[x][u].pc = "info" => thread[x][u].header = Int32(proc[x].request_id)
      BY Zenon DEF WriterInv
    <3> QED
      BY Zenon, <3>1, <3>2
  <2> QED
    BY Zenon, <2>1, <2>2
<1> QED
  BY Zenon, <1>4 DEF WriterInv, Int32

(* Another writer in the way of this one there is not. *)
LEMMA SetKeeps ==
    ASSUME OneWriter, OidsInv, WriterInv, NEW p \in Pids, NEW t \in Threads, SetRequestId(p, t)
    PROVE  WriterInv'
<1> DEFINE to == [thread[p][t] EXCEPT !.pc = "header"]
<1>1. /\ thread[p][t].pc = "increment" /\ Step(p, t, to)
      /\ proc' = [proc EXCEPT ![p].request_id = thread[p][t].id]
  BY Zenon DEF SetRequestId, At_
<1>2. /\ thread \in [Pids -> [Threads -> Thread]] /\ thread[p][t] \in Thread
      /\ proc \in [Pids -> Process]
  BY DEF OidsInv, TypeInv
<1>3. to \in Thread /\ to.pc = "header"
  BY SMT, <1>2 DEF Thread, Place
<1> HIDE DEF to
<1>4. t \in Writers
  BY Zenon, <1>1 DEF WriterInv
<1>5. /\ thread'[p][t] = to
      /\ \A x \in Pids, u \in Threads : (x # p \/ u # t) => thread'[x][u] = thread[x][u]
  BY Zenon, <1>1, <1>2, <1>3, StepEffect
<1>6. \A x \in Pids : x # p => proc'[x] = proc[x]
  BY <1>1, <1>2
<1>7. ASSUME NEW x \in Pids, NEW u \in Threads
      PROVE  /\ thread'[x][u].pc \in {"increment", "header", "info"} => u \in Writers
             /\ thread'[x][u].pc = "info" => thread'[x][u].header = Int32(proc'[x].request_id)
  <2>1. CASE x = p /\ u = t
    <3>1. thread'[x][u].pc = "header"
      BY Zenon, <1>3, <1>5, <2>1
    <3> QED
      BY <1>4, <2>1, <3>1
  <2>2. CASE x = p /\ u # t
    <3>1. thread'[x][u] = thread[x][u]
      BY Zenon, <1>5, <2>2
    <3>2. thread[x][u].pc \in {"increment", "header", "info"} => u = t
      BY Zenon, <1>4 DEF WriterInv, OneWriter
    <3> QED
      BY Zenon, <2>2, <3>1, <3>2
  <2>3. CASE x # p
    <3>1. thread'[x][u] = thread[x][u] /\ proc'[x] = proc[x]
      BY Zenon, <1>5, <1>6, <2>3
    <3>2. /\ thread[x][u].pc \in {"increment", "header", "info"} => u \in Writers
          /\ thread[x][u].pc = "info" => thread[x][u].header = Int32(proc[x].request_id)
      BY Zenon DEF WriterInv
    <3> QED
      BY Zenon, <3>1, <3>2
  <2> QED
    BY Zenon, <2>1, <2>2, <2>3
<1> QED
  BY Zenon, <1>7 DEF WriterInv, Int32

LEMMA ForkWriters ==
    ASSUME OidsInv, WriterInv, NEW p \in Pids, NEW q \in Pids, NEW t \in Threads, Fork(p, t, q)
    PROVE  WriterInv'
<1>1. /\ ~proc[q].live /\ thread' = thread
      /\ proc' = [proc EXCEPT ![q] = [proc[p] EXCEPT !.queries = 0]]
  BY Zenon DEF Fork
<1>2. \A x \in Pids : x # q => proc'[x] = proc[x]
  BY <1>1 DEF OidsInv, TypeInv
<1>3. \A u \in Threads : thread[q][u].pc = "idle"
  BY Zenon, <1>1 DEF OidsInv, ContextInv
<1>4. ASSUME NEW x \in Pids, NEW u \in Threads
      PROVE  /\ thread'[x][u].pc \in {"increment", "header", "info"} => u \in Writers
             /\ thread'[x][u].pc = "info" => thread'[x][u].header = Int32(proc'[x].request_id)
  <2>1. CASE x = q
    <3>1. thread'[x][u].pc = "idle"
      BY Zenon, <1>1, <1>3, <2>1
    <3> QED
      BY <3>1
  <2>2. CASE x # q
    <3>1. /\ thread[x][u].pc \in {"increment", "header", "info"} => u \in Writers
          /\ thread[x][u].pc = "info" => thread[x][u].header = Int32(proc[x].request_id)
      BY Zenon DEF WriterInv
    <3> QED
      BY Zenon, <1>1, <1>2, <2>2, <3>1
  <2> QED
    BY Zenon, <2>1, <2>2
<1> QED
  BY Zenon, <1>4 DEF WriterInv, Int32

(* An id that fits a signed number of 32 bits goes into the header whole. *)
LEMMA Fits == \A n \in Nat : n < IdSpace \div 2 => Int32(n) = n
<1> SUFFICES ASSUME NEW n \in Nat, n < IdSpace \div 2 PROVE Int32(n) = n
  OBVIOUS
<1>1. IdSpace \in Nat \ {0}
  BY SMT, IdsAssumption
<1>2. n % IdSpace = n
  BY ONLY SMT, <1>1, n < IdSpace \div 2, n \in Nat
<1> QED
  BY Zenon, <1>2 DEF Int32

LEMMA NextAsked == ASSUME OneWriter, AskedInv, [Next]_vars PROVE AskedInv'
<1>0. OidsInv /\ WriterInv /\ AwaitsOwnReply /\ OidsInv'
  BY Zenon, NextOids DEF AskedInv
<1>1. ASSUME asked' = asked PROVE AwaitsOwnReply'
  BY Zenon, <1>0, <1>1 DEF AwaitsOwnReply
<1>2. ASSUME UNCHANGED <<thread, asked>>, \A x \in Pids : proc'[x].request_id = proc[x].request_id
      PROVE  AskedInv'
  <2>1. WriterInv'
    BY Zenon, <1>0, <1>2 DEF WriterInv, Int32
  <2> QED
    BY Zenon, <1>0, <1>1, <1>2, <2>1 DEF AskedInv
<1>3. CASE Tick \/ UNCHANGED vars
  <2>1. UNCHANGED <<thread, asked, proc>>
    BY Zenon, <1>3 DEF Tick, vars
  <2> QED
    BY Zenon, <1>2, <2>1
<1>4. ASSUME NEW p \in Pids, NEW q \in Pids, NEW t \in Threads, Fork(p, t, q) PROVE AskedInv'
  <2>1. asked' = asked
    BY Zenon, <1>4 DEF Fork
  <2> QED
    BY Zenon, <1>0, <1>1, <1>4, <2>1, ForkWriters DEF AskedInv
<1> SUFFICES ASSUME NEW p \in Pids, NEW t \in Threads,
                    \/ bson_oid_init(p, t) \/ bson_oid_init_sequence(p, t)
                    \/ bson_context_get_default(p, t) \/ Draw(p, t)
                    \/ ReadRequestId(p, t) \/ SetRequestId(p, t) \/ CreateHeader(p, t) \/ StoreInfo(p, t)
             PROVE  AskedInv'
  BY Zenon, <1>3, <1>4 DEF Next
<1>5. /\ proc \in [Pids -> Process] /\ proc[p] \in Process
      /\ thread \in [Pids -> [Threads -> Thread]] /\ thread[p][t] \in Thread /\ now \in Word
  BY Zenon, <1>0 DEF OidsInv, TypeInv
<1>6. ASSUME NEW to \in Thread, Step(p, t, to), asked' = asked,
             \A x \in Pids : proc'[x].request_id = proc[x].request_id,
             to.pc \in {"increment", "header", "info"} => t \in Writers,
             to.pc = "info" => to.header = Int32(proc[p].request_id)
      PROVE  AskedInv'
  BY Zenon, <1>0, <1>1, <1>6, WriterStep DEF AskedInv
<1>7. ASSUME NEW to \in Thread, Step(p, t, to), asked' = asked,
             \A x \in Pids : proc'[x].request_id = proc[x].request_id,
             to.pc \in {"idle", "context", "draw"}
      PROVE  AskedInv'
  <2>1. to.pc \notin {"increment", "header", "info"} /\ to.pc # "info"
    BY ONLY <1>7
  <2> QED
    BY Zenon, <1>6, <1>7, <2>1
<1>8. Idle \in Thread /\ Idle.pc = "idle"
  BY IdleThread DEF Idle
<1>9. CASE bson_oid_init(p, t) \/ bson_oid_init_sequence(p, t)
  <2> DEFINE to == [Idle EXCEPT !.pc = "context", !.time = now]
  <2>1. Step(p, t, to) /\ UNCHANGED <<proc, asked>>
    BY Zenon, <1>9 DEF bson_oid_init, bson_oid_init_sequence, Begin
  <2>2. to \in Thread /\ to.pc = "context"
    BY Zenon, <1>5, <1>8, Places, TimeUpdate
  <2> HIDE DEF to
  <2>3. to.pc \in {"idle", "context", "draw"}
    BY ONLY <2>2
  <2> QED
    BY Zenon, <1>7, <2>1, <2>2, <2>3
<1>10. CASE bson_context_get_default(p, t)
  <2> DEFINE to == [thread[p][t] EXCEPT !.pc = "draw"]
  <2>1. Step(p, t, to) /\ asked' = asked
    BY Zenon, <1>10 DEF bson_context_get_default
  <2>2. to \in Thread /\ to.pc = "draw"
    BY SMT, <1>5 DEF Thread, Place
  <2>3. \A x \in Pids : proc'[x].request_id = proc[x].request_id
    <3>1. CASE UNCHANGED proc
      BY Zenon, <3>1
    <3>2. ASSUME NEW seed \in Seeds, proc' = [proc EXCEPT ![p] = bson_context_new(p, seed)]
          PROVE  \A x \in Pids : proc'[x].request_id = proc[x].request_id
      <4>1. bson_context_new(p, seed).request_id = proc[p].request_id
        BY <1>5 DEF bson_context_new, Process
      <4>2. proc'[p] = bson_context_new(p, seed) /\ \A x \in Pids : x # p => proc'[x] = proc[x]
        BY <1>5, <3>2
      <4> QED
        BY Zenon, <4>1, <4>2
    <3> QED
      BY Zenon, <1>10, <3>1, <3>2 DEF bson_context_get_default
  <2> HIDE DEF to
  <2>4. to.pc \in {"idle", "context", "draw"}
    BY ONLY <2>2
  <2> QED
    BY Zenon, <1>7, <2>1, <2>2, <2>3, <2>4
<1>11. CASE Draw(p, t)
  <2>1. Step(p, t, Idle) /\ asked' = asked
    BY Zenon, <1>11 DEF Draw
  <2>2. \A x \in Pids : proc'[x].request_id = proc[x].request_id
    <3>1. CASE use.for = "oid"
      <4>1. proc' = [proc EXCEPT ![p].seq32 = @ + 1]
        BY Zenon, <1>11, <3>1 DEF Draw
      <4> QED
        BY <1>5, <4>1 DEF Process
    <3>2. CASE use.for # "oid"
      <4>1. proc' = [proc EXCEPT ![p].seq64 = @ + 1]
        BY Zenon, <1>11, <3>2 DEF Draw
      <4> QED
        BY <1>5, <4>1 DEF Process
    <3> QED
      BY Zenon, <3>1, <3>2
  <2>3. Idle.pc \in {"idle", "context", "draw"}
    BY ONLY <1>8
  <2> QED
    BY Zenon, <1>7, <1>8, <2>1, <2>2, <2>3
<1>12. CASE ReadRequestId(p, t)
  <2> DEFINE to == [Idle EXCEPT !.pc = "increment", !.id = proc[p].request_id + 1]
  <2>1. Step(p, t, to) /\ asked' = asked /\ t \in Writers /\ proc' = [proc EXCEPT ![p].queries = @ + 1]
    BY Zenon, <1>12 DEF ReadRequestId
  <2>2. to \in Thread /\ to.pc = "increment"
    <3>1. proc[p].request_id + 1 \in Nat
      BY <1>5 DEF Process
    <3> QED
      BY Zenon, <1>8, <3>1, Places, IdUpdate
  <2>3. \A x \in Pids : proc'[x].request_id = proc[x].request_id
    BY <1>5, <2>1 DEF Process
  <2> HIDE DEF to
  <2>4. to.pc # "info"
    BY ONLY <2>2
  <2> QED
    BY Zenon, <1>6, <2>1, <2>2, <2>3, <2>4
<1>13. CASE SetRequestId(p, t)
  <2>1. asked' = asked
    BY Zenon, <1>13 DEF SetRequestId
  <2> QED
    BY Zenon, <1>0, <1>1, <1>13, <2>1, SetKeeps DEF AskedInv
<1>14. CASE CreateHeader(p, t)
  <2> DEFINE to == [thread[p][t] EXCEPT !.pc = "info", !.header = Int32(proc[p].request_id)]
  <2>1. Step(p, t, to) /\ asked' = asked /\ proc' = proc /\ thread[p][t].pc = "header"
    BY Zenon, <1>14 DEF CreateHeader, At_
  <2>2. Int32(proc[p].request_id) \in Int
    <3>1. proc[p].request_id \in Nat
      BY SMT, <1>5 DEF Process
    <3> QED
      BY Zenon, <3>1, Int32Type
  <2>3. to \in Thread /\ to.pc = "info"
    <3>1. thread[p][t] \in Thread /\ "info" \in Place
      BY Zenon, <1>5, Places
    <3> QED
      BY ONLY Zenon, <2>2, <3>1, HeaderUpdate
  <2>4. to.header = Int32(proc[p].request_id)
    <3> DEFINE h == Int32(proc[p].request_id)
    <3> HIDE DEF h
    <3>1. [thread[p][t] EXCEPT !.pc = "info", !.header = h].header = h
      BY <1>5 DEF Thread
    <3> QED
      BY <3>1 DEF h
  <2> HIDE DEF to
  <2>5. t \in Writers
    BY Zenon, <1>0, <2>1 DEF WriterInv
  <2> QED
    BY Zenon, <1>6, <2>1, <2>3, <2>4, <2>5
<1>15. CASE StoreInfo(p, t)
  <2> DEFINE a == [pid |-> p, header |-> thread[p][t].header, info |-> proc[p].request_id]
  <2>1. /\ Step(p, t, Idle) /\ proc' = proc /\ thread[p][t].pc = "info" /\ asked' = asked \cup {a}
    BY Zenon, <1>15 DEF StoreInfo, At_
  <2>2. a.header = Int32(proc[p].request_id) /\ a.info = proc[p].request_id
    BY Zenon, <1>0, <2>1 DEF WriterInv
  <2>3. proc[p].request_id \in Nat
    BY SMT, <1>5 DEF Process
  <2> HIDE DEF a
  <2>4. a.info < IdSpace \div 2 => a.header = a.info
    BY Zenon, <2>2, <2>3, Fits
  <2>5. AwaitsOwnReply'
    BY Zenon, <1>0, <2>1, <2>4 DEF AwaitsOwnReply
  <2>6. WriterInv'
    <3>1. Idle.pc \notin {"increment", "header", "info"} /\ Idle.pc # "info"
      BY ONLY <1>8
    <3> QED
      BY Zenon, <1>0, <1>8, <2>1, <3>1, WriterStep
  <2> QED
    BY Zenon, <1>0, <2>5, <2>6 DEF AskedInv
<1> QED
  BY Zenon, <1>9, <1>10, <1>11, <1>12, <1>13, <1>14, <1>15

LEMMA InitAsked == Init => AskedInv
<1> SUFFICES ASSUME Init PROVE AskedInv
  OBVIOUS
<1>1. \A p \in Pids, t \in Threads : thread[p][t] = Idle
  BY Zenon DEF Init
<1>2. Idle.pc \notin {"increment", "header", "info"} /\ Idle.pc # "info"
  BY DEF Idle
<1>3. WriterInv
  BY Zenon, <1>1, <1>2 DEF WriterInv
<1>4. AwaitsOwnReply
  BY DEF Init, AwaitsOwnReply
<1> QED
  BY Zenon, <1>3, <1>4, InitOids DEF AskedInv

(* Where one thread of a process writes the queries, a cursor waits for    *)
(* the id its query was sent with, as long as the counter fits a signed    *)
(* number of 32 bits (mongo_link.h CREATE_MSG_HEADER, Mongo.xs write_query).*)
THEOREM RepliesAreOwn == OneWriter => (Spec => []AwaitsOwnReply)
<1> SUFFICES ASSUME OneWriter PROVE Spec => []AwaitsOwnReply
  OBVIOUS
<1>1. Init => AskedInv
  BY InitAsked
<1>2. AskedInv /\ [Next]_vars => AskedInv'
  BY Zenon, NextAsked
<1>3. AskedInv => AwaitsOwnReply
  BY Zenon DEF AskedInv
<1> QED
  BY <1>1, <1>2, <1>3, PTL DEF Spec
=============================================================================
