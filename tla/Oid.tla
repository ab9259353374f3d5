-------------------------------- MODULE Oid --------------------------------
(***************************************************************************)
(* Object ids as the bundled libbson keeps them: twelve bytes, and their   *)
(* text of 24 hexadecimal digits (bson-oid.c, bson-oid.h).                 *)
(***************************************************************************)
EXTENDS Characters

(* gHexCharPairs: the two digits of a byte *)
gHexCharPairs == [b \in 0..255 |-> <<HexDigit(b \div 16), HexDigit(b % 16)>>]

(* Faulty variant: the digits of a byte are swapped, as the table for the  *)
(* other byte order would have them.                                       *)
ToStringSwapped(oid) == [j \in 1..24 |-> gHexCharPairs[oid[(j + 1) \div 2]][1 + (j % 2)]]

bson_oid_to_string(oid) == [j \in 1..24 |-> gHexCharPairs[oid[(j + 1) \div 2]][2 - (j % 2)]]

(* A character that is no digit counts as 0; digits of either case do. *)
bson_oid_parse_hex_char(c) ==
    CASE c \in 48..57  -> c - 48
      [] c \in 65..70  -> c - 55
      [] c \in 97..102 -> c - 87
      [] OTHER         -> 0

bson_oid_init_from_string(str) ==
    [i \in 1..12 |-> 16 * bson_oid_parse_hex_char(At(str, 2 * i - 1))
                     + bson_oid_parse_hex_char(At(str, 2 * i))]

(* Only digits in lower case are valid. *)
bson_oid_is_valid(str) == Len(str) = 24 /\ \A i \in 1..24 : str[i] \in (48..57) \cup (97..102)

(* The sign of memcmp on n bytes *)
Differ(s, u, n) == {i \in 1..n : s[i] # u[i]}
MemCmp(s, u, n) ==
    LET first == CHOOSE i \in Differ(s, u, n) : \A j \in Differ(s, u, n) : i <= j
    IN  IF Differ(s, u, n) = {} THEN 0 ELSE IF s[first] < u[first] THEN -1 ELSE 1

bson_oid_compare(oid1, oid2) == MemCmp(oid1, oid2, 12)

bson_oid_equal(oid1, oid2) == bson_oid_compare(oid1, oid2) = 0

(* The first four bytes are the time of creation, the highest byte first.  *)
bson_oid_get_time_t(oid) == 65536 * (256 * oid[1] + oid[2]) + 256 * oid[3] + oid[4]
=============================================================================
