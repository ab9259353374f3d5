------------------------------- MODULE Text -------------------------------
(***************************************************************************)
(* The text conversions of libbson: UTF-8 (bson-utf8.c), base64            *)
(* (b64_ntop.h, b64_pton.h), decimal and hexadecimal numbers.  Text is a   *)
(* sequence of bytes; T("...") is the text of a literal.                   *)
(***************************************************************************)
EXTENDS Characters, SequencesExt

(* The printable characters from code 32 on; a tab stands in for code 96. *)
Printable == " !\"#$%&" \o "'" \o "()*+,-./0123456789:;<=>?@ABCDEFGHIJKLMNOPQRSTUVWXYZ[" \o "\\"
             \o "]^_" \o "\t" \o "abcdefghijklmnopqrstuvwxyz{|}~"
ASCII == [i \in 32..126 |-> SubSeq(Printable, i - 31, i - 31)]
T(s) == [i \in 1..Len(s) |-> CHOOSE c \in 32..126 : ASCII[c] = SubSeq(s, i, i)]

(* Bytes handed to strlen, strcmp and %s end at the first NUL. *)
UpToNul(s) == LET n == SelectInSeq(s, LAMBDA c : c = 0) IN IF n = 0 THEN s ELSE SubSeq(s, 1, n - 1)

-----------------------------------------------------------------------------
(* UTF-8 *)

(* The bytes of the character that starts with byte c, 0 for none *)
SequenceLength(c) ==
    CASE c < 128      -> 1
      [] c \div 32 = 6   -> 2
      [] c \div 16 = 14  -> 3
      [] c \div 8 = 30   -> 4
      [] c \div 4 = 62   -> 5
      [] c \div 2 = 126  -> 6
      [] OTHER        -> 0

(* c & first_mask *)
FirstBits(c) == LET n == SequenceLength(c) IN IF n = 1 THEN c ELSE c % (2 ^ (7 - n))

Continuation(c) == c \div 64 = 2

RECURSIVE ValidFrom(_, _, _)
ValidFrom(s, i, allow_null) ==
    LET n == SequenceLength(s[i])
    IN  \/ i > Len(s)
        \/ /\ n # 0
           /\ \A j \in (i + 1)..(i + n - 1) : Continuation(At(s, j))
           /\ allow_null \/ \A j \in i..(i + n - 1) : At(s, j) # 0
           /\ ValidFrom(s, i + n, allow_null)

bson_utf8_validate(s, allow_null) == ValidFrom(s, 1, allow_null)

bson_utf8_get_char(s) ==
    FoldLeft(LAMBDA c, b : c * 64 + (b % 64), FirstBits(s[1]), SubSeq(s, 2, SequenceLength(s[1])))

bson_utf8_next_char(s) == SubSeq(s, SequenceLength(s[1]) + 1, Len(s))

(* Characters up to U+1FFFFF, as far as UTF-8 in use goes *)
bson_utf8_from_unichar(c) ==
    IF c <= 127 THEN <<c>>
    ELSE IF c <= 2047 THEN <<192 + c \div 64, 128 + (c % 64)>>
    ELSE IF c <= 65535 THEN <<224 + c \div 4096, 128 + ((c \div 64) % 64), 128 + (c % 64)>>
    ELSE <<240 + ((c \div 262144) % 8), 128 + ((c \div 4096) % 64),
           128 + ((c \div 64) % 64), 128 + (c % 64)>>

-----------------------------------------------------------------------------
(* Numbers *)

RECURSIVE bson_uint32_to_string(_)
bson_uint32_to_string(n) ==
    IF n < 10 THEN <<48 + n>> ELSE bson_uint32_to_string(n \div 10) \o <<48 + (n % 10)>>

(* %d *)
Decimal(n) == IF n < 0 THEN <<45>> \o bson_uint32_to_string(-n) ELSE bson_uint32_to_string(n)

(* %02x of every byte *)
Hex(s) == FlattenSeq([i \in 1..Len(s) |-> <<HexDigit(s[i] \div 16), HexDigit(s[i] % 16)>>])

(* %04u *)
FourDigits(n) == <<48, 48, 48 + n \div 10, 48 + (n % 10)>>

-----------------------------------------------------------------------------
(* bson_utf8_escape_for_json: the number behind backslash u is written in  *)
(* decimal.                                                                *)

Escaped(c) ==
    CASE c \in {92, 34, 47} -> <<92, c>>
      [] c = 8  -> <<92, 98>>
      [] c = 12 -> <<92, 102>>
      [] c = 10 -> <<92, 110>>
      [] c = 13 -> <<92, 114>>
      [] c = 9  -> <<92, 116>>
      [] c < 32 /\ c \notin {8, 9, 10, 12, 13} -> <<92, 117>> \o FourDigits(c)
      [] OTHER  -> bson_utf8_from_unichar(c)

RECURSIVE bson_utf8_escape_for_json(_)
bson_utf8_escape_for_json(s) ==
    IF s = <<>> THEN <<>>
    ELSE Escaped(bson_utf8_get_char(s)) \o bson_utf8_escape_for_json(bson_utf8_next_char(s))

-----------------------------------------------------------------------------
(* Base64 *)

Base64 == T("ABCDEFGHIJKLMNOPQRSTUVWXYZabcdefghijklmnopqrstuvwxyz0123456789+/")
Pad64  == 61

(* The four digits of up to three bytes *)
Digits(in) ==
    LET a == in[1]
        b == At(in, 2)
        c == At(in, 3)
        digit(v) == Base64[v + 1]
    IN  <<digit(a \div 4), digit((a % 4) * 16 + b \div 16),
          IF Len(in) > 1 THEN digit((b % 16) * 4 + c \div 64) ELSE Pad64,
          IF Len(in) > 2 THEN digit(c % 64) ELSE Pad64>>

RECURSIVE b64_ntop(_)
b64_ntop(src) ==
    IF src = <<>> THEN <<>>
    ELSE IF Len(src) <= 3 THEN Digits(src)
    ELSE Digits(SubSeq(src, 1, 3)) \o b64_ntop(SubSeq(src, 4, Len(src)))

IsSpace(c) == c \in {32} \cup 9..13

b64rmap == [c \in 1..255 |->
               IF \E i \in 1..64 : Base64[i] = c THEN (CHOOSE i \in 1..64 : Base64[i] = c) - 1
               ELSE IF IsSpace(c) THEN 254 ELSE IF c = Pad64 THEN 253 ELSE 255]

(* What stands in front of the padding or the end *)
Unpadded(src) == LET n == SelectInSeq(src, LAMBDA c : b64rmap[c] >= 253 /\ b64rmap[c] # 254)
                 IN  IF n = 0 THEN src ELSE SubSeq(src, 1, n - 1)
NoSpaces(src) == SelectSeq(src, LAMBDA c : ~IsSpace(c))

(* Whether the padding fits the number of digits, and the digits leave no  *)
(* bits behind                                                             *)
WellPadded(six, padding) ==
    CASE Len(six) % 4 = 0 -> padding = <<>>
      [] Len(six) % 4 = 1 -> FALSE
      [] Len(six) % 4 = 2 -> padding = <<Pad64, Pad64>> /\ Last(six) % 16 = 0
      [] Len(six) % 4 = 3 -> padding = <<Pad64>> /\ Last(six) % 4 = 0

(* Byte k, from 0 on, of those that four digits each make three of *)
Octet(six, k) ==
    LET i == 4 * (k \div 3) + (k % 3) + 1
    IN  CASE k % 3 = 0 -> ((six[i] * 4) % 256) + six[i + 1] \div 16
          [] k % 3 = 1 -> (six[i] % 16) * 16 + six[i + 1] \div 4
          [] k % 3 = 2 -> (six[i] % 4) * 64 + six[i + 1]
Octets(six, padding) ==
    IF ~WellPadded(six, padding) THEN [ok |-> FALSE, bytes |-> <<>>]
    ELSE [ok |-> TRUE, bytes |-> [k \in 1..((Len(six) * 3) \div 4) |-> Octet(six, k - 1)]]

Sextets(digits) == [i \in 1..Len(digits) |-> b64rmap[digits[i]]]
Split(src, digits) ==
    Octets(Sextets(NoSpaces(digits)), NoSpaces(SubSeq(src, Len(digits) + 1, Len(src))))

(* The bytes, or FALSE in ok where b64_pton returns -1 *)
b64_pton(src) == Split(src, Unpadded(src))
=============================================================================
