------------------------------- MODULE GridFS -------------------------------
(***************************************************************************)
(* Files kept in two collections (GridFS.pm, GridFS/File.pm): insert with  *)
(* its check of the digest, remove, drop, and print of a range, by several *)
(* clients at once.  Every message is one step of the server; it may fail, *)
(* and the call that sent it then dies, or never learns of it if the write *)
(* is not acknowledged.  The bytes of a file stand for its digest too.     *)
(***************************************************************************)
EXTENDS Integers, Sequences

CONSTANTS
    Clients,
    Ids,         \* the _ids of files
    Contents,    \* what file handles hold: sequences of bytes
    chunk_size,
    Acks,        \* "safe": the option; "acked": w is 1; "none": w is 0
    Ranges,      \* arguments of print: length and offset, 0 if not given
    MaxCalls,    \* bound on the calls of all clients together
    MaxFaults    \* bound on the messages that fail

ASSUME GridFSAssumption ==
    /\ chunk_size \in Nat \ {0}
    /\ Acks \subseteq {"safe", "acked", "none"}
    /\ \A data \in Contents : data \in Seq(Nat)
    /\ Ranges \subseteq [length : Nat, offset : Nat]
    /\ MaxCalls \in Nat /\ MaxFaults \in Nat

VARIABLES
    files,     \* the files collection: documents with _id, of, data and ack
    chunks,    \* the chunks collection: files_id, n, data and of
    indexed,   \* the unique index on files_id and n exists
    call,      \* what each client is doing
    calls, faults,
    taken,     \* inserts whose chunks others took when they had been checked
    given,     \* the _ids given to inserts
    weak       \* inserts that do not see another's chunks of the _id, or have
               \* not noticed them: they wrote theirs beside them, or took
               \* them for theirs when they compared the digest

db == <<files, chunks, indexed>>
history == <<taken, given, weak>>
vars == <<db, call, calls, faults, history>>

(* A call: of is its number, by which documents are told apart; ids are    *)
(* the criteria, todo the files that remove has still to go through, found *)
(* the chunks that print has found and left those it has still to write.   *)
Printed == [out |-> <<>>, written |-> 0, pos |-> 0]
Call(op, pc, of, ids, ack, data) ==
    [op |-> op, pc |-> pc, of |-> of, ids |-> ids, ack |-> ack, data |-> data,
     n |-> 0, todo |-> {}, retry |-> 1, found |-> {}, left |-> {}, p |-> Printed, range |-> [length |-> 0, offset |-> 0]]

Idle == Call("none", "done", 0, {}, "safe", <<>>)

Init ==
    /\ files = {} /\ chunks = {} /\ indexed = TRUE
    /\ call = [c \in Clients |-> Idle]
    /\ calls = 0 /\ faults = 0 /\ taken = {} /\ given = {} /\ weak = {}

The(c) == CHOOSE id \in call[c].ids : TRUE
Of(id) == {ch \in chunks : ch.files_id = id}
substr(data, offset, length) ==
    SubSeq(data, offset + 1, IF offset + length < Len(data) THEN offset + length ELSE Len(data))
Piece(data, n) == substr(data, n * chunk_size, chunk_size)
Pieces(data) == {[n |-> n, data |-> Piece(data, n)] : n \in {k \in 0..Len(data) : k * chunk_size < Len(data)}}

To(c, pc) == call' = [call EXCEPT ![c].pc = pc]
Dies(c)   == To(c, "died")

(* The message fails before or after the server has run it.                *)
Fails(c) == faults < MaxFaults /\ faults' = faults + 1 /\ Dies(c)
(* An unacknowledged write that is lost, or refused, goes unnoticed.       *)
Lost(c) == call[c].ack = "none" /\ faults < MaxFaults /\ faults' = faults + 1

Unused(c) == call[c].pc \in {"done", "died"} /\ calls < MaxCalls /\ calls' = calls + 1

-----------------------------------------------------------------------------
(* insert and put *)

StartInsert(c) ==
    /\ Unused(c)
    /\ \E id \in Ids, data \in Contents, ack \in Acks :
          /\ call' = [call EXCEPT ![c] = Call("insert", "read", calls + 1, {id}, ack, data)]
          /\ given' = given \cup {[id |-> id, of |-> calls + 1]}
          /\ weak' = IF data = <<>> \/ ack = "none" THEN weak \cup {calls + 1} ELSE weak
    /\ UNCHANGED <<db, faults, taken>>

(* The unique index refuses a chunk that is there. *)
Refused(c) == indexed /\ \E ch \in Of(The(c)) : ch.n = call[c].n

(* Another's chunks are among those of the _id. *)
Mixes(c) == \E ch \in Of(The(c)) : ch.of # call[c].of
Weakens(c) == weak' = IF Mixes(c) THEN weak \cup {call[c].of} ELSE weak

InsertChunk(c) ==
    LET n    == call[c].n
        data == Piece(call[c].data, n)
        next == call' = [call EXCEPT ![c].n = n + 1]
    IN  /\ call[c].pc = "read" /\ data # <<>>
        /\ \/ /\ Refused(c)
              /\ IF call[c].ack = "none" THEN next ELSE Dies(c)
              /\ UNCHANGED <<chunks, faults, weak>>
           \/ /\ ~Refused(c)
              /\ chunks' = chunks \cup {[files_id |-> The(c), n |-> n, data |-> data, of |-> call[c].of]}
              /\ Weakens(c)
              /\ (next /\ UNCHANGED faults) \/ Fails(c)
           \/ Fails(c) /\ UNCHANGED <<chunks, weak>>
           \/ Lost(c) /\ next /\ UNCHANGED <<chunks, weak>>
        /\ UNCHANGED <<files, indexed, calls, taken, given>>

(* The end of the file handle *)
ReadAll(c) ==
    /\ call[c].pc = "read" /\ call[c].op = "insert" /\ Piece(call[c].data, call[c].n) = <<>>
    /\ To(c, IF call[c].ack = "safe" THEN "md5" ELSE "file")
    /\ UNCHANGED <<db, calls, faults, history>>

(* The server's digest is an error if the chunks do not follow each other, *)
(* and else that of the data they were cut from, one after the other.      *)
(* (It has a unique index: no number is there twice.)                      *)
Follow(cs, m) == {ch.n : ch \in cs} = 0..(m - 1)
CutFrom(cs, m, data) ==
    \E cut \in [0..m -> 0..Len(data)] :
        /\ cut[0] = 0 /\ cut[m] = Len(data)
        /\ \A ch \in cs : /\ cut[ch.n] <= cut[ch.n + 1]
                          /\ ch.data = SubSeq(data, cut[ch.n] + 1, cut[ch.n + 1])

(* Faulty variant: the chunks were acknowledged and are not compared. *)
DigestTrusted(c) == \E m \in 0..Len(call[c].data) : Follow(Of(The(c)), m)

SameDigest(c) ==
    \E m \in 0..Len(call[c].data) : Follow(Of(The(c)), m) /\ CutFrom(Of(The(c)), m, call[c].data)

CalcMd5(c) ==
    /\ call[c].pc = "md5"
    /\ \/ /\ ~indexed
          /\ To(c, IF call[c].retry = 1 THEN "index" ELSE "cleanup") /\ UNCHANGED <<faults, weak>>
       \/ indexed /\ SameDigest(c) /\ To(c, "file") /\ Weakens(c) /\ UNCHANGED faults
       \/ indexed /\ ~SameDigest(c) /\ To(c, "cleanup") /\ UNCHANGED <<faults, weak>>
       \/ Fails(c) /\ UNCHANGED weak
    /\ UNCHANGED <<db, calls, taken, given>>

(* A unique index cannot be made over chunks that are there twice. *)
CanIndex == \A x, y \in chunks : x.files_id = y.files_id /\ x.n = y.n => x = y

Retry(c) ==
    /\ call[c].pc = "index"
    /\ \/ /\ CanIndex
          /\ indexed' = TRUE
          /\ call' = [call EXCEPT ![c].pc = "md5", ![c].retry = 0] /\ UNCHANGED faults
       \/ ~CanIndex /\ Dies(c) /\ UNCHANGED <<indexed, faults>>
       \/ Fails(c) /\ UNCHANGED indexed
    /\ UNCHANGED <<files, chunks, calls, history>>

(* Chunks are removed.  An insert that has its digest still to compare     *)
(* will notice.                                                            *)
StillChecks(k) ==
    \E c \in Clients : call[c].of = k /\ call[c].ack = "safe" /\ call[c].pc \in {"read", "md5", "index"}
TakeChunks(gone) ==
    /\ chunks' = chunks \ gone
    /\ taken' = taken \cup {k \in {ch.of : ch \in gone} : ~StillChecks(k)}

(* The chunks of the _id are removed, without waiting for an answer. *)
CleanUp(c) ==
    /\ call[c].pc = "cleanup"
    /\ \/ TakeChunks(Of(The(c))) /\ Dies(c) /\ UNCHANGED faults
       \/ Fails(c) /\ UNCHANGED <<chunks, taken>>
    /\ UNCHANGED <<files, indexed, calls, given, weak>>

InsertFile(c) ==
    LET doc  == [_id |-> The(c), of |-> call[c].of, data |-> call[c].data, ack |-> call[c].ack]
        free == ~\E f \in files : f._id = doc._id
    IN  /\ call[c].pc = "file"
        /\ \/ free /\ files' = files \cup {doc} /\ ((To(c, "done") /\ UNCHANGED faults) \/ Fails(c))
           \/ ~free /\ To(c, IF call[c].ack = "none" THEN "done" ELSE "died") /\ UNCHANGED <<files, faults>>
           \/ Fails(c) /\ UNCHANGED files
           \/ Lost(c) /\ To(c, "done") /\ UNCHANGED files
        /\ UNCHANGED <<chunks, indexed, calls, history>>

-----------------------------------------------------------------------------
(* remove, delete and drop.  A remove waits for its answer only with the   *)
(* option: the client's w does not count.                                  *)

StartRemove(c) ==
    /\ Unused(c)
    /\ \E ids \in {{id} : id \in Ids} \cup {Ids}, ack \in {"safe", "none"} :
          call' = [call EXCEPT ![c] =
              [Call("remove", "chunks", calls + 1, ids, ack, <<>>) EXCEPT
                  !.todo = {f._id : f \in {g \in files : g._id \in ids}}]]
    /\ UNCHANGED <<db, faults, history>>

RemoveChunks(c) ==
    /\ call[c].pc = "chunks" /\ call[c].op = "remove"
    /\ \E id \in call[c].todo :
          LET next == call' = [call EXCEPT ![c].todo = @ \ {id}]
          IN  \/ /\ TakeChunks(Of(id))
                 /\ (next /\ UNCHANGED faults) \/ Fails(c)
              \/ Fails(c) /\ UNCHANGED <<chunks, taken>>
              \/ Lost(c) /\ next /\ UNCHANGED <<chunks, taken>>
    /\ UNCHANGED <<files, indexed, calls, given, weak>>

RemoveFiles(c) ==
    /\ call[c].pc = "chunks" /\ call[c].op = "remove" /\ call[c].todo = {}
    /\ \/ /\ files' = {f \in files : f._id \notin call[c].ids}
          /\ (To(c, "done") /\ UNCHANGED faults) \/ Fails(c)
       \/ Fails(c) /\ UNCHANGED files
       \/ Lost(c) /\ To(c, "done") /\ UNCHANGED files
    /\ UNCHANGED <<chunks, indexed, calls, history>>

(* What the server answers to the two commands is not looked at. *)
StartDrop(c) ==
    /\ Unused(c)
    /\ call' = [call EXCEPT ![c] = Call("drop", "files", calls + 1, Ids, "safe", <<>>)]
    /\ UNCHANGED <<db, faults, history>>

DropFiles(c) ==
    /\ call[c].pc = "files"
    /\ \/ files' = {} /\ ((To(c, "drop") /\ UNCHANGED faults) \/ Fails(c))
       \/ UNCHANGED files /\ Fails(c)
    /\ UNCHANGED <<chunks, indexed, calls, history>>

DropChunks(c) ==
    /\ call[c].pc = "drop"
    /\ \/ /\ TakeChunks(chunks) /\ indexed' = FALSE
          /\ (To(c, "ensure") /\ UNCHANGED faults) \/ Fails(c)
       \/ Fails(c) /\ UNCHANGED <<chunks, indexed, taken>>
    /\ UNCHANGED <<files, calls, given, weak>>

EnsureIndexes(c) ==
    /\ call[c].pc = "ensure"
    /\ \/ CanIndex /\ indexed' = TRUE /\ To(c, "done") /\ UNCHANGED faults
       \/ ~CanIndex /\ Dies(c) /\ UNCHANGED <<indexed, faults>>
       \/ Fails(c) /\ UNCHANGED indexed
    /\ UNCHANGED <<files, chunks, calls, history>>

-----------------------------------------------------------------------------
(* get and print *)

(* Faulty variant, for an offset at the start of a chunk: what was written *)
(* before does not count.                                                  *)
PrintAgain(p, data, length, offset) ==
    LET len == Len(data)
    IN  IF offset = 0 \/ p.pos >= offset
        THEN IF length = 0 \/ p.written + len < length
             THEN [out |-> p.out \o data, written |-> p.written + len, pos |-> p.pos + len]
             ELSE [out |-> p.out \o substr(data, 0, length), written |-> length, pos |-> p.pos]
        ELSE [p EXCEPT !.pos = @ + len]

(* One chunk of the loop of print.  The second assignment of its second    *)
(* branch adds nothing, because written has its new value by then.         *)
PrintChunk(p, data, length, offset) ==
    LET len  == Len(data)
        skip == offset - p.pos
    IN  IF offset = 0 \/ p.pos >= offset
        THEN IF length = 0 \/ p.written + len < length
             THEN [out |-> p.out \o data, written |-> p.written + len, pos |-> p.pos + len]
             ELSE [out |-> p.out \o substr(data, 0, length - p.written), written |-> length, pos |-> p.pos]
        ELSE IF p.pos + len > offset
        THEN IF length = 0 \/ len <= length - p.written
             THEN [out |-> p.out \o substr(data, skip, len - skip),
                   written |-> p.written + len - skip, pos |-> p.pos + len - skip]
             ELSE [out |-> p.out \o substr(data, skip, length),
                   written |-> p.written + length, pos |-> p.pos + length]
        ELSE [p EXCEPT !.pos = @ + len]

(* get finds the document; what it says is kept in the file object.        *)
Get(c) ==
    /\ Unused(c)
    /\ \E f \in files :
          call' = [call EXCEPT ![c] = Call("print", "query", f.of, {f._id}, "safe", f.data)]
    /\ UNCHANGED <<db, faults, history>>

(* print makes sure of the index and queries the chunks, which fit into    *)
(* the first batch of the cursor.                                          *)
print(c, r) ==
    LET cs == {[n |-> ch.n, data |-> ch.data] : ch \in Of(The(c))}
    IN  /\ call[c].pc = "query"
        /\ \/ /\ CanIndex /\ indexed' = TRUE
              /\ call' = [call EXCEPT ![c].pc = "print", ![c].range = r, ![c].found = cs, ![c].left = cs]
              /\ UNCHANGED faults
           \/ ~CanIndex /\ Dies(c) /\ UNCHANGED <<indexed, faults>>
           \/ Fails(c) /\ UNCHANGED indexed
        /\ UNCHANGED <<files, chunks, calls, history>>

(* The chunks come in the order of n. *)
WriteChunk(c) ==
    LET r == call[c].range
    IN  /\ call[c].pc = "print" /\ ~(r.length # 0 /\ call[c].p.written >= r.length)
        /\ \E ch \in call[c].left :
              /\ \A other \in call[c].left : ch.n <= other.n
              /\ call' = [call EXCEPT ![c].left = @ \ {ch},
                                        ![c].p = PrintChunk(@, ch.data, r.length, r.offset)]
        /\ UNCHANGED <<db, calls, faults, history>>

WroteAll(c) ==
    LET r == call[c].range
    IN  /\ call[c].pc = "print"
        /\ call[c].left = {} \/ (r.length # 0 /\ call[c].p.written >= r.length)
        /\ To(c, "done")
        /\ UNCHANGED <<db, calls, faults, history>>

Next ==
    \E c \in Clients :
        \/ StartInsert(c) \/ InsertChunk(c) \/ ReadAll(c) \/ CalcMd5(c) \/ Retry(c) \/ CleanUp(c) \/ InsertFile(c)
        \/ StartRemove(c) \/ RemoveChunks(c) \/ RemoveFiles(c)
        \/ StartDrop(c) \/ DropFiles(c) \/ DropChunks(c) \/ EnsureIndexes(c)
        \/ Get(c) \/ (\E r \in Ranges : print(c, r)) \/ WriteChunk(c) \/ WroteAll(c)

Spec == Init /\ [][Next]_vars

-----------------------------------------------------------------------------
(* Properties *)

(* A file that can be found has its chunks, all of them and no others,     *)
(* although they are written long before the document and while others     *)
(* insert, remove and drop.  Excepted are files whose writes were not      *)
(* acknowledged, whose chunks were taken after they had been checked, or   *)
(* whose _id was given to two inserts one of which did not notice.         *)
Mixed(f) ==
    \E g, h \in given : /\ g.of = f.of /\ h.of # f.of /\ h.id = f._id
                        /\ g.of \in weak \/ h.of \in weak
Whole(cs, data) == {[n |-> ch.n, data |-> ch.data] : ch \in cs} = Pieces(data)
FilesWhole ==
    \A f \in files : f.ack # "none" /\ f.of \notin taken /\ ~Mixed(f) => Whole(Of(f._id), f.data)

(* print writes the bytes of the file from the offset, as many as were     *)
(* asked for or as there are, and says how many.  The ranges of Straight:  *)
(* from the start of a chunk or behind the file, inside of a chunk, or     *)
(* inside of the last one to the end.                                      *)
Straight(r, data) ==
    LET inside == r.offset % chunk_size
        rest   == Len(data) - (r.offset - inside)
    IN  \/ inside = 0 \/ r.offset >= Len(data)
        \/ r.length > 0 /\ inside + r.length <= chunk_size /\ inside + r.length <= rest
        \/ rest <= chunk_size /\ (r.length = 0 \/ r.length >= rest)
PrintsRange ==
    \A c \in Clients :
        LET r == call[c].range
        IN  /\ call[c].op = "print" /\ call[c].pc = "done"
            /\ Whole(call[c].found, call[c].data) /\ Straight(r, call[c].data)
            => /\ call[c].p.out = substr(call[c].data, r.offset, IF r.length = 0 THEN Len(call[c].data) ELSE r.length)
               /\ call[c].p.written = Len(call[c].p.out)

(* What File.pm says of print for every range: "Writes the number of bytes *)
(* specified from the offset specified".  The code does not.               *)
PrintsWhatIsAsked ==
    \A c \in Clients :
        LET r == call[c].range
        IN  call[c].op = "print" /\ call[c].pc = "done" /\ Whole(call[c].found, call[c].data)
            => call[c].p.out = substr(call[c].data, r.offset, IF r.length = 0 THEN Len(call[c].data) ELSE r.length)
=============================================================================
