------------------------------ MODULE Digests ------------------------------
(***************************************************************************)
(* A message that is handed to MD5 in pieces, as host names are for object *)
(* ids (bson-context.c) and as a caller of bson-md5.c may.                 *)
(***************************************************************************)
EXTENDS Md5

CONSTANTS
    Messages,   \* the messages to digest, each a sequence of bytes
    Pieces      \* lengths of the pieces they are handed over in

(* A piece is counted in an int while it is gone through. *)
ASSUME DigestsAssumption ==
    Messages \subseteq Seq(0..255) /\ Pieces \subseteq Nat /\ \A n \in Pieces : 2 * n < Word

VARIABLES
    md5,      \* a digest on its way
    message,  \* what it is of: fixed
    given     \* how many bytes of that it was given

digest == <<md5, message, given>>

DigestInit == md5 = bson_md5_init /\ message \in Messages /\ given = 0

AppendPiece(n) ==
    /\ given + n <= Len(message)
    /\ md5' = bson_md5_append(md5, SubSeq(message, given + 1, given + n))
    /\ given' = given + n
    /\ UNCHANGED message

DigestNext == \E n \in Pieces : AppendPiece(n)

DigestSpec == DigestInit /\ [][DigestNext]_digest

-----------------------------------------------------------------------------
(* Properties *)

(* What MD5 prescribes for a message: a byte of 128, as few zeros as bring *)
(* it to eight bytes before the end of a block, and its length in bits, of *)
(* which two words are kept.                                               *)
Padded(m) ==
    LET zeros == CHOOSE z \in 0..(BlockSize - 1) : (Len(m) + 1 + z + 8) % BlockSize = 0
        bits  == 8 * Len(m)
    IN  m \o <<128>> \o [i \in 1..zeros |-> 0]
        \o WordBytes(bits % Word) \o WordBytes((bits \div Word) % Word)

(* Whatever pieces the message comes in, and however the count wraps, a    *)
(* digest finished now would mix in the padded message, block by block.    *)
DigestOfWhole ==
    LET whole == Padded(SubSeq(message, 1, given))
        mixed == bson_md5_finish(md5).abcd
    IN  /\ Len(whole) = BlockSize * Len(mixed)
        /\ \A i \in 1..Len(mixed) :
              mixed[i] = SubSeq(whole, BlockSize * (i - 1) + 1, BlockSize * i)
=============================================================================
