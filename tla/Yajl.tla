-------------------------------- MODULE Yajl --------------------------------
(***************************************************************************)
(* The lexer of the bundled yajl and the decoding of strings and numbers   *)
(* (yajl_lex.c, yajl_encode.c, yajl_parser.c).  What the lexer has kept of *)
(* a token that was cut by the end of a piece of text stands in front of   *)
(* the next piece, so that the lexer reads one sequence of bytes.          *)
(***************************************************************************)
EXTENDS Text

CONSTANT Int64Max   \* INT64_MAX

ASSUME YajlAssumption == Int64Max \in Nat

(* charLookupTable: hexadecimal digits, characters that may follow a       *)
(* backslash, and those that may not be in a string                        *)
VHC == (48..57) \cup (65..70) \cup (97..102)
VEC == {34, 47, 92, 98, 102, 110, 114, 116}
IJC == (0..31) \cup {34, 92}

IsDigit(c) == c \in 48..57

(* A token: its bytes are from .. to, and to is how far the lexer has read *)
Token(tok, from, to) == [tok |-> tok, from |-> from, to |-> to]
Eof(s, from) == Token("eof", from, Len(s))
LexError(from, to) == Token("error", from, to)

(* One character of a string whose first byte is s[i]: the last position   *)
(* of it, 0 if it is cut, -n if byte n is wrong.                           *)
yajl_lex_utf8_char(s, i) ==
    LET n   == SequenceLength(s[i])
        bad == {j \in (i + 1)..(i + n - 1) : j <= Len(s) /\ ~Continuation(s[j])}
    IN  IF n \notin 1..4 THEN -i
        ELSE IF bad # {} THEN -(CHOOSE j \in bad : \A k \in bad : j <= k)
        ELSE IF i + n - 1 > Len(s) THEN 0
        ELSE i + n - 1

(* From position i of the string whose quote is at from *)
RECURSIVE yajl_lex_string(_, _, _, _, _)
yajl_lex_string(s, from, i, hasEscapes, validateUTF8) ==
    LET go(j, escapes) == yajl_lex_string(s, from, j, escapes, validateUTF8)
        hex == {j \in (i + 2)..(i + 5) : j <= Len(s) /\ s[j] \notin VHC}
        last == yajl_lex_utf8_char(s, i)
    IN  IF i > Len(s) THEN Eof(s, from)
        ELSE IF s[i] = 34
        THEN Token(IF hasEscapes THEN "string_with_escapes" ELSE "string", from, i)
        ELSE IF s[i] = 92
        THEN IF i + 1 > Len(s) THEN Eof(s, from)
             ELSE IF s[i + 1] = 117
             THEN IF hex # {} THEN LexError(from, (CHOOSE j \in hex : \A k \in hex : j <= k) - 1)
                  ELSE IF i + 5 > Len(s) THEN Eof(s, from)
                  ELSE go(i + 6, TRUE)
             ELSE IF s[i + 1] \notin VEC THEN LexError(from, i)
             ELSE go(i + 2, TRUE)
        ELSE IF s[i] \in IJC THEN LexError(from, i - 1)
        ELSE IF ~validateUTF8 THEN go(i + 1, hasEscapes)
        ELSE IF last < 0 THEN LexError(from, -last)
        ELSE IF last = 0 THEN Eof(s, from)
        ELSE go(last + 1, hasEscapes)

(* The first position from i on that holds no digit *)
AfterDigits(s, i) ==
    LET n == SelectInSeq(SubSeq(s, i, Len(s)), LAMBDA c : ~IsDigit(c))
    IN  IF n = 0 THEN Len(s) + 1 ELSE i + n - 1

(* A number is known to end only when a character behind it is there: the  *)
(* digits of the exponent from i, which end in front of j; the exponent at *)
(* i; the decimals, which end in front of i; and the whole digits.         *)
LexExponentTo(s, from, i, j) ==
    IF j > Len(s) THEN Eof(s, from)
    ELSE IF j = i THEN LexError(from, j - 1)
    ELSE Token("double", from, j - 1)
LexExponent(s, from, i) == LexExponentTo(s, from, i, AfterDigits(s, i))

LexPower(s, from, i, tok) ==
    IF s[i] \notin {69, 101} THEN Token(tok, from, i - 1)
    ELSE LexExponent(s, from, IF At(s, i + 1) \in {43, 45} THEN i + 2 ELSE i + 1)

LexDecimals(s, from, point, i) ==
    IF i > Len(s) THEN Eof(s, from)
    ELSE IF i = point + 1 THEN LexError(from, i - 1)
    ELSE LexPower(s, from, i, "double")

LexFraction(s, from, i) ==
    IF i > Len(s) THEN Eof(s, from)
    ELSE IF s[i] # 46 THEN LexPower(s, from, i, "integer")
    ELSE LexDecimals(s, from, i, AfterDigits(s, i + 1))

LexWhole(s, from, i) ==
    IF i > Len(s) THEN Eof(s, from)
    ELSE IF ~IsDigit(s[i]) THEN LexError(from, i - 1)
    ELSE LexFraction(s, from, IF s[i] = 48 THEN i + 1 ELSE AfterDigits(s, i))

yajl_lex_number(s, from) == LexWhole(s, from, IF s[from] = 45 THEN from + 1 ELSE from)

(* true, false or null, of which the first character is at from *)
LexWord(s, from, want, tok) ==
    LET n     == Min({Len(want), Len(s) - from + 1})
        wrong == {j \in 1..n : s[from + j - 1] # want[j]}
    IN  IF wrong # {} THEN LexError(from, from + (CHOOSE j \in wrong : \A k \in wrong : j <= k) - 2)
        ELSE IF n < Len(want) THEN Eof(s, from)
        ELSE Token(tok, from, from + n - 1)

Word_true  == T("true")
Word_false == T("false")
Word_null  == T("null")

(* The token that begins at position i with the character c *)
LexFrom(s, i, c, validateUTF8) ==
    LET one(tok) == Token(tok, i, i)
    IN  CASE c = 123 -> one("left_bracket")
          [] c = 125 -> one("right_bracket")
          [] c = 91  -> one("left_brace")
          [] c = 93  -> one("right_brace")
          [] c = 44  -> one("comma")
          [] c = 58  -> one("colon")
          [] c = 116 -> LexWord(s, i, Word_true, "bool")
          [] c = 102 -> LexWord(s, i, Word_false, "bool")
          [] c = 110 -> LexWord(s, i, Word_null, "null")
          [] c = 34  -> yajl_lex_string(s, i, i + 1, FALSE, validateUTF8)
          [] c = 45 \/ IsDigit(c) -> yajl_lex_number(s, i)
          [] c = 47  -> LexError(i, i - 1)
          [] OTHER   -> LexError(i, i)

(* The next token behind the first at bytes.  Comments are not allowed. *)
LexBehind(s, at, skip, validateUTF8) ==
    IF skip = 0 THEN Eof(s, Len(s) + 1) ELSE LexFrom(s, at + skip, s[at + skip], validateUTF8)
yajl_lex_lex(s, at, validateUTF8) ==
    LexBehind(s, at, SelectInSeq(SubSeq(s, at + 1, Len(s)), LAMBDA c : ~IsSpace(c)), validateUTF8)

-----------------------------------------------------------------------------
(* Decoding *)

(* The number, or FALSE in ok if it does not fit in 64 bits: then its sign *)
(* does not matter, and the least number does not fit either.              *)
yajl_parse_integer(number) ==
    LET minus == number[1] = 45
        digits == IF minus THEN Tail(number) ELSE number
        n == FoldLeft(LAMBDA v, c : IF v > Int64Max THEN v ELSE 10 * v + (c - 48), 0, digits)
    IN  [ok |-> n <= Int64Max, value |-> IF minus THEN -n ELSE n]

(* strtod, for numbers without digits behind the point but zeros *)
strtod(number) ==
    LET point == SelectInSeq(number, LAMBDA c : c \in {46, 69, 101})
        power == SelectInSeq(number, LAMBDA c : c \in {69, 101})
    IN  yajl_parse_integer(SubSeq(number, 1, point - 1)).value
        * (IF power = 0 THEN 1 ELSE 10 ^ yajl_parse_integer(SubSeq(number, power + 1, Len(number))).value)

hexToDigit(hex) == FoldLeft(LAMBDA v, c : 16 * v + FromHexDigit(c), 0, hex)
Utf32toUtf8(codepoint) == bson_utf8_from_unichar(codepoint)

Unescape(c) ==
    CASE c = 114 -> <<13>>
      [] c = 110 -> <<10>>
      [] c = 102 -> <<12>>
      [] c = 98  -> <<8>>
      [] c = 116 -> <<9>>
      [] c \in {92, 47, 34} -> <<c>>

(* Two surrogates are one character; a first one alone becomes a question  *)
(* mark, and the character behind it is lost.                              *)
RECURSIVE yajl_string_decode(_)
yajl_string_decode(str) ==
    LET from(n) == yajl_string_decode(SubSeq(str, n, Len(str)))
        codepoint == hexToDigit(SubSeq(str, 3, 6))
        surrogate == hexToDigit(SubSeq(str, 9, 12))
    IN  IF str = <<>> THEN <<>>
        ELSE IF str[1] # 92 THEN <<str[1]>> \o from(2)
        ELSE IF str[2] # 117 THEN Unescape(str[2]) \o from(3)
        ELSE IF codepoint \div 1024 # 54 THEN Utf32toUtf8(codepoint) \o from(7)
        ELSE IF At(str, 7) = 92 /\ At(str, 8) = 117
        THEN Utf32toUtf8((codepoint % 64) * 1024 + (((codepoint \div 64) % 16) + 1) * 65536
                         + (surrogate % 1024)) \o from(13)
        ELSE <<63>> \o from(8)
=============================================================================
