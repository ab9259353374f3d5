---------------------------- MODULE Characters ----------------------------
(***************************************************************************)
(* What texts are made of: sequences of bytes, and hexadecimal digits.     *)
(***************************************************************************)
EXTENDS Integers, Sequences

(* The byte at position i of s; beyond its end s has the NUL that ends it. *)
At(s, i) == IF i <= Len(s) THEN s[i] ELSE 0

HexDigit(d) == IF d < 10 THEN 48 + d ELSE 87 + d
FromHexDigit(c) == IF c <= 57 THEN c - 48 ELSE IF c <= 70 THEN c - 55 ELSE c - 87
=============================================================================
