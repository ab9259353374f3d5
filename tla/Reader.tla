------------------------------- MODULE Reader -------------------------------
(***************************************************************************)
(* A bson_reader_t: it returns the documents of a stream one by one, from  *)
(* memory as the driver reads a reply, or from a file descriptor that      *)
(* hands out a few bytes at a time (bson-reader.c).                        *)
(***************************************************************************)
EXTENDS Bson

CONSTANTS
    HandleBuffer, \* first length of a handle reader's buffer (1024)
    Chunks        \* numbers of bytes a read may return at most

ASSUME ReaderAssumption ==
    /\ HandleBuffer \in Nat /\ HandleBuffer >= 4
    /\ Chunks \subseteq Nat \ {0}

VARIABLES
    stream,  \* the bytes in front of the reader
    written, \* history: the documents that were written to it
    ends,    \* history: where each of them ends in it
    rd,      \* the reader
    got      \* history: the documents it returned

readerVars == <<stream, written, ends, rd, got>>

(* Where the first n documents end *)
EndOf(n) == IF n = 0 THEN 0 ELSE ends[n]

(* What is written: any bytes that are a document on the outside *)
ByteValues == 0..255
Readable == {doc \in Seq(ByteValues) : bson_init_static(doc)}

NoReader == [kind |-> "none"]

ReaderInit == stream = <<>> /\ written = <<>> /\ ends = <<>> /\ rd = NoReader /\ got = <<>>

(* One more document is written. *)
Noted(doc) ==
    /\ written' = Append(written, doc)
    /\ ends' = Append(ends, EndOf(Len(ends)) + Len(doc))

Write(doc) ==
    /\ rd = NoReader
    /\ Noted(doc)
    /\ stream' = stream \o doc
    /\ UNCHANGED <<rd, got>>

-----------------------------------------------------------------------------
bson_reader_new_from_data ==
    /\ rd' = [kind |-> "data", offset |-> 0, result |-> "none", eof |-> FALSE]

bson_reader_new_from_handle ==
    /\ rd' = [kind |-> "handle", data |-> <<>>, offset |-> 0, len |-> HandleBuffer,
              bytes_read |-> 0, done |-> FALSE, failed |-> FALSE,
              fill |-> TRUE, opened |-> FALSE, result |-> "none", eof |-> FALSE]

OpenReader ==
    /\ written # <<>> /\ rd = NoReader
    /\ bson_reader_new_from_data \/ bson_reader_new_from_handle
    /\ UNCHANGED <<stream, written, ends, got>>

(* A document of the data is returned where it is; without room for one    *)
(* there is none.                                                          *)
_bson_reader_data_read ==
    LET left == Len(stream) - rd.offset
        blen == Int32At(stream, rd.offset)
    IN  /\ rd.kind = "data" /\ rd.result # "end"
        /\ \/ /\ left > 4 /\ blen <= left /\ bson_init_static(Bytes(stream, rd.offset, blen))
              /\ got' = Append(got, Bytes(stream, rd.offset, blen))
              /\ rd' = [rd EXCEPT !.offset = @ + blen, !.result = "doc",
                                  !.eof = rd.offset + blen = Len(stream)]
           \/ /\ ~(left > 4 /\ blen <= left)
              /\ rd' = [rd EXCEPT !.result = "end", !.eof = rd.offset = Len(stream)]
              /\ UNCHANGED got
        /\ UNCHANGED <<stream, written, ends>>

(* Faulty variant: what is left in the buffer is not moved to its front. *)
FillKeepsOffset(r, data) ==
    [r EXCEPT !.data = data, !.bytes_read = @ + Len(data), !.fill = FALSE]

(* The bytes left move to the front of the buffer, the data follow. *)
Filled(r, data) ==
    [r EXCEPT !.data = SubSeq(@, r.offset + 1, Len(@)) \o data,
              !.offset = 0, !.bytes_read = @ + Len(data), !.fill = FALSE, !.opened = TRUE]

(* read(2) into room bytes answers with some of the left ones, with none   *)
(* at the end of the file, or with an error; asked to come again, it is.   *)
_bson_reader_handle_fd_read(left, room) ==
    {[n |-> n, error |-> FALSE] :
        n \in {m \in 0..left : m <= room /\ \E c \in Chunks : m <= c /\ m \in {c, room, left}}}
    \cup {[n |-> 0, error |-> TRUE]}

(* An error of the first read is not taken for a failure. *)
_bson_reader_handle_fill_buffer ==
    LET room == rd.len - (Len(rd.data) - rd.offset)
        left == Len(stream) - rd.bytes_read
    IN  /\ rd.kind = "handle" /\ rd.fill
        /\ \E ret \in _bson_reader_handle_fd_read(left, room) :
              LET r == Filled(rd, Bytes(stream, rd.bytes_read, ret.n))
              IN  rd' = IF ret.n > 0 THEN r
                        ELSE [r EXCEPT !.done = TRUE, !.failed = ret.error /\ rd.opened]
        /\ UNCHANGED <<stream, written, ends, got>>

_bson_reader_handle_grow_buffer(r) == [r EXCEPT !.len = @ * 2]

_bson_reader_handle_read ==
    LET have == Len(rd.data) - rd.offset
        blen == Int32At(rd.data, rd.offset)
        doc  == Bytes(rd.data, rd.offset, blen)
    IN  /\ rd.kind = "handle" /\ ~rd.fill /\ rd.result # "end"
        /\ \/ /\ rd.done
              /\ rd' = [rd EXCEPT !.result = "end", !.eof = ~rd.failed]
              /\ UNCHANGED got
           \/ /\ ~rd.done /\ have < 4
              /\ rd' = [rd EXCEPT !.fill = TRUE]
              /\ UNCHANGED got
           \/ /\ ~rd.done /\ have >= 4 /\ blen > have
              /\ rd' = [IF blen > rd.len THEN _bson_reader_handle_grow_buffer(rd) ELSE rd EXCEPT !.fill = TRUE]
              /\ UNCHANGED got
           \/ /\ ~rd.done /\ have >= 4 /\ blen <= have /\ bson_init_static(doc)
              /\ got' = Append(got, doc)
              /\ rd' = [rd EXCEPT !.offset = @ + blen, !.result = "doc"]
        /\ UNCHANGED <<stream, written, ends>>

(* The bytes of the stream that were returned *)
_bson_reader_handle_tell == rd.bytes_read - Len(rd.data) + rd.offset
_bson_reader_data_tell   == rd.offset
bson_reader_tell == IF rd.kind = "data" THEN _bson_reader_data_tell ELSE _bson_reader_handle_tell

ReaderNext ==
    \/ \E doc \in Readable : Write(doc)
    \/ OpenReader \/ _bson_reader_data_read
    \/ _bson_reader_handle_fill_buffer \/ _bson_reader_handle_read

ReaderSpec == ReaderInit /\ [][ReaderNext]_readerVars

-----------------------------------------------------------------------------
(* Properties *)

(* The reader returns the documents that were written, each whole, once    *)
(* and in order, however the bytes arrive; its position is the end of the  *)
(* last one; and it reports the end of the stream only behind the last,    *)
(* unless its very first read failed.                                      *)
ReadsBack ==
    rd.kind # "none" =>
        /\ got = SubSeq(written, 1, Len(got))
        /\ bson_reader_tell = EndOf(Len(got))
        /\ rd.result = "end" /\ rd.eof => Len(got) = Len(written) \/ bson_reader_tell = 0
=============================================================================
