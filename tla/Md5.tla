-------------------------------- MODULE Md5 --------------------------------
(***************************************************************************)
(* How bson-md5.c feeds a message to MD5: the bytes are collected until a  *)
(* block of 64 is full, the bits are counted in two words, and the end of  *)
(* the message is padded.  What MD5 makes of a block does not matter here: *)
(* abcd is the sequence of blocks that were mixed into it, in their order. *)
(***************************************************************************)
EXTENDS Integers, Sequences

CONSTANT Word   \* one more than the largest uint32_t: 2^32

ASSUME Md5Assumption == Word \in Nat \ {0} /\ Word % 512 = 0

BlockSize == 64

bson_md5_init == [count0 |-> 0, count1 |-> 0, abcd |-> <<>>, buf |-> <<>>]

bson_md5_process(md5, block) == [md5 EXCEPT !.abcd = Append(@, block)]

(* The full blocks of data, and what follows the last *)
Blocks(data) == [i \in 1..(Len(data) \div BlockSize) |->
                    SubSeq(data, BlockSize * (i - 1) + 1, BlockSize * i)]
Rest(data)   == SubSeq(data, BlockSize * (Len(data) \div BlockSize) + 1, Len(data))

(* The full blocks follow straight from the data, the rest of it is kept. *)
ProcessBlocks(md5, data) == [md5 EXCEPT !.abcd = @ \o Blocks(data), !.buf = Rest(data)]

(* Faulty variant: nothing is carried into the upper word. *)
CountWithoutCarry(md5, nbytes) ==
    [md5 EXCEPT !.count0 = (@ + 8 * nbytes) % Word,
                !.count1 = (@ + nbytes \div (Word \div 8)) % Word]

(* The lower word is smaller than what was added to it if it wrapped. *)
Counted(md5, nbytes) ==
    LET nbits == (8 * nbytes) % Word
        lower == (md5.count0 + nbits) % Word
        carry == IF lower < nbits THEN 1 ELSE 0
    IN  [md5 EXCEPT !.count0 = lower,
                    !.count1 = (@ + nbytes \div (Word \div 8) + carry) % Word]

(* The buffer is filled up first; only when it is full do blocks follow. *)
bson_md5_append(md5, data) ==
    LET offset  == (md5.count0 \div 8) % BlockSize
        copy    == IF offset + Len(data) > BlockSize THEN BlockSize - offset ELSE Len(data)
        counted == Counted(md5, Len(data))
        filled  == SubSeq(md5.buf, 1, offset) \o SubSeq(data, 1, copy)
    IN  IF data = <<>> THEN md5
        ELSE IF offset = 0 THEN ProcessBlocks(counted, data)
        ELSE IF offset + copy < BlockSize THEN [counted EXCEPT !.buf = filled]
        ELSE ProcessBlocks(bson_md5_process(counted, filled), SubSeq(data, copy + 1, Len(data)))

(* The bytes of a word, the lowest first *)
WordBytes(n) == <<n % 256, (n \div 256) % 256, (n \div 65536) % 256, (n \div 16777216) % 256>>
CountBytes(md5) == WordBytes(md5.count0) \o WordBytes(md5.count1)

(* A byte of 128 and zeros up to 56 in the last block, then the count that *)
(* the message itself had.                                                 *)
bson_md5_finish(md5) ==
    LET n   == ((55 - md5.count0 \div 8) % BlockSize) + 1
        pad == [i \in 1..n |-> IF i = 1 THEN 128 ELSE 0]
    IN  bson_md5_append(bson_md5_append(md5, pad), CountBytes(md5))
=============================================================================
