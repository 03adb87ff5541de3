------------------------------ MODULE ReaderStack ------------------------------
(***************************************************************************)
(* The readers find_read_file stacks on a disk: an OptimizedSeek on a      *)
(* BlockIoReader, and on top of it, while a GPT partition is searched, a   *)
(* PartialReader.  The file system libraries read and seek on the top one; *)
(* the firmware may fail any of the block reads that takes.                *)
(*                                                                         *)
(* A byte of the disk is represented by its position.  The statistics of   *)
(* OptimizedSeek (total_seeks, unstopped_seeks) are left out.              *)
(***************************************************************************)
EXTENDS Integers, Sequences

CONSTANTS None,
          BS,           \* block size
          Blocks,       \* number of blocks
          Lengths,      \* buffer lengths clients read with
          StartOffsets, CurrentOffsets, EndOffsets, \* seeks clients make
          Windows,      \* <<first byte, length>> of the GPT partitions
          MaxPos        \* bound on the positions reached by relative seeks

Size == BS * Blocks

ASSUME DiskAssumption == BS \in Nat \ {0} /\ Blocks \in Nat \ {0}
ASSUME InputAssumption ==
    /\ Lengths \subseteq Nat /\ StartOffsets \subseteq Nat
    /\ CurrentOffsets \subseteq Int /\ EndOffsets \subseteq Int
ASSUME WindowAssumption ==    \* partitions are made of whole blocks
    \A w \in Windows : w[1] \in Nat /\ w[2] \in Nat /\ w[1] % BS = 0 /\ w[2] % BS = 0

PartialReaders == [start : Nat, size : Nat, cursor : Nat, needReset : BOOLEAN]

ASSUME NoneAssumption == None \notin Int /\ None \notin PartialReaders

VARIABLES
    blk,       \* BlockIoReader.cursor
    cursor,    \* OptimizedSeek.cursor
    end,       \* OptimizedSeek.end
    part,      \* the PartialReader on top, or None
    expected,  \* history: the position the client has reason to expect (0 if lost)
    lost,      \* history: it has none, a failed call left it unspecified
    last       \* history: the last call and what it returned

vars == <<blk, cursor, end, part, expected, lost, last>>

Seeks == [whence : {"Start"}, off : StartOffsets]
            \cup [whence : {"Current"}, off : CurrentOffsets]
            \cup [whence : {"End"}, off : EndOffsets]

StartAt(p) == [whence |-> "Start", off |-> p]

Smaller(a, b) == IF a < b THEN a ELSE b

-------------------------------------------------------------------------------
(* BlockIoReader. *)

\* The n bytes of the disk from p on.
Bytes(p, n) == [i \in 1..n |-> p + i - 1]

\* BlockIO's read_blocks: n blocks from lba on.
ReadBlocks(lba, n) == Bytes(lba * BS, n * BS)

Got(c, data) == [ok |-> TRUE, blk |-> c, data |-> data]

\* Mutant: the cursor moves before the block is read.
ErrorMoved(c) == [ok |-> FALSE, blk |-> c + BS, data |-> <<>>]

Error(c) == [ok |-> FALSE, blk |-> c, data |-> <<>>]

\* read with the cursor at c: the rest of an unaligned first block, then either
\* a part of one block or as many whole ones as fit.  The call number failing
\* of read_blocks fails (0 for none); the cursor has then already moved over
\* the first block.
BlockRead(c, want, failing) ==
    LET len   == Smaller(want, Size - c)
        off   == c % BS
        first == IF off = 0 THEN <<>> ELSE SubSeq(ReadBlocks(c \div BS, 1), off + 1, BS)
        next  == c + Len(first)
        rest  == len - Len(first)
        call2 == IF off = 0 THEN 1 ELSE 2
        full  == rest \div BS
    IN  IF c >= Size THEN Got(c, <<>>)
        ELSE IF off # 0 /\ failing = 1 THEN Error(c)
        ELSE IF off # 0 /\ len <= Len(first) THEN Got(c + len, SubSeq(first, 1, len))
        ELSE IF failing = call2 THEN Error(next)
        ELSE IF rest < BS
        THEN Got(next + rest, first \o SubSeq(ReadBlocks(next \div BS, 1), 1, rest))
        ELSE Got(next + full * BS, first \o ReadBlocks(next \div BS, full))

\* Mutant: a position before 0 is not noticed.
BlockSeekUnchecked(c, req) ==
    IF req.whence = "Start" THEN req.off
    ELSE IF req.whence = "End" THEN Size + req.off ELSE c + req.off

\* seek: None for a position before 0.
BlockSeek(c, req) ==
    LET target == IF req.whence = "Start" THEN req.off
                  ELSE IF req.whence = "End" THEN Size + req.off ELSE c + req.off
    IN  IF target < 0 THEN None ELSE target

-------------------------------------------------------------------------------
(* OptimizedSeek.  A call yields its outcome and the new state of the device. *)

AddEndOffset(e, off) == IF e - off < 0 THEN None ELSE e - off

\* The seeks that are answered without asking the inner reader.
SeekHit(req) ==
    /\ cursor # None
    /\ \/ req.whence = "Start" /\ req.off = cursor
       \/ req.whence = "Current" /\ req.off = 0
       \/ req.whence = "End" /\ end # None /\ cursor = AddEndOffset(end, req.off)

OptSeek(req) ==
    LET pos == BlockSeek(blk, req)
    IN  IF SeekHit(req)
        THEN [ok |-> TRUE, pos |-> cursor, blk |-> blk, cursor |-> cursor, end |-> end]
        ELSE IF pos = None
        THEN [ok |-> FALSE, pos |-> 0, blk |-> blk, cursor |-> cursor, end |-> end]
        ELSE [ok |-> TRUE, pos |-> pos, blk |-> pos, cursor |-> pos,
              end |-> IF req.whence = "End" /\ end = None
                      THEN AddEndOffset(pos, -req.off) ELSE end]

\* read with the inner reader at b and the cached cursor c.
OptRead(b, c, want, failing) ==
    LET r == BlockRead(b, want, failing)
    IN  [ok |-> r.ok, data |-> r.data, blk |-> r.blk,
         cursor |-> IF r.ok /\ c # None THEN c + Len(r.data) ELSE c]

-------------------------------------------------------------------------------
(* The client's view: where a seek should lead, in bytes of the disk. *)

Base  == IF part = None THEN 0 ELSE part.start
Limit == IF part = None THEN Size ELSE part.start + part.size

Ideal(req) == (IF req.whence = "Start" THEN Base
               ELSE IF req.whence = "End" THEN Limit ELSE expected) + req.off

Seeked(req, ok, pos) ==
    [op |-> "seek", req |-> req, ok |-> ok, pos |-> pos, ideal |-> Ideal(req),
     limit |-> Limit, lost |-> lost', data |-> <<>>, want |-> 0]
Readed(from, want, ok, data) ==
    [op |-> "read", req |-> StartAt(0), ok |-> ok, pos |-> 0, ideal |-> from,
     limit |-> Limit, lost |-> lost', data |-> data, want |-> want]

\* A failed call leaves the position unspecified until a seek to a fixed place
\* that is the start of a block.  Clients do not read on before that: whatever a
\* library made of the error, find_read_file_internal rewinds before its next
\* probe or goes on with a new PartialReader.
Fixed(req) == req.whence # "Current" /\ Ideal(req) % BS = 0

-------------------------------------------------------------------------------
(* Calls on the OptimizedSeek. *)

SeekDisk(req) ==
    LET r == OptSeek(req)
    IN  /\ part = None
        /\ r.pos <= MaxPos
        /\ blk' = r.blk /\ cursor' = r.cursor /\ end' = r.end
        /\ lost' = (lost /\ ~(r.ok /\ Fixed(req)))
        /\ expected' = IF lost' THEN 0 ELSE IF r.ok THEN Ideal(req) ELSE expected
        /\ last' = Seeked(req, r.ok, r.pos)
        /\ UNCHANGED part

ReadDisk(want, failing) ==
    LET r == OptRead(blk, cursor, want, failing)
    IN  /\ part = None /\ ~lost
        /\ blk' = r.blk /\ cursor' = r.cursor
        /\ lost' = ~r.ok
        /\ expected' = IF lost' THEN 0 ELSE expected + Len(r.data)
        /\ last' = Readed(expected, want, r.ok, r.data)
        /\ UNCHANGED <<end, part>>

\* PartialReader::new on the next partition of the table, and its end.
OpenPartition(w) ==
    /\ part = None
    /\ part' = [start |-> w[1], size |-> w[2], cursor |-> 0, needReset |-> TRUE]
    /\ expected' = IF lost THEN 0 ELSE w[1]
    /\ UNCHANGED <<blk, cursor, end, lost, last>>

ClosePartition ==
    /\ part # None
    /\ part' = None
    /\ lost' = TRUE /\ expected' = 0
    /\ UNCHANGED <<blk, cursor, end, last>>

\* IgnoreWriteWrapper, which fatfs gets: a write says that all is written, and neither
\* the disk nor the position changes.  fatfs seeks before it reads or writes.
IgnoreWrite(want) ==
    /\ UNCHANGED <<blk, cursor, end, part, expected, lost>>
    /\ last' = [Readed(expected, want, TRUE, <<>>) EXCEPT !.op = "write"]

-------------------------------------------------------------------------------
(* Calls on the PartialReader. *)

\* Mutant: the end of the partition is counted from the start of the disk.
BelowFromDisk(req) ==
    IF req.whence = "Current" THEN req
    ELSE StartAt(IF req.whence = "Start" THEN part.start + req.off ELSE part.size + req.off)

\* The seek it makes on the reader below; one before 0 from the end panics.
Below(req) == IF req.whence = "Current" THEN req
              ELSE StartAt(IF req.whence = "Start" THEN part.start + req.off
                                                   ELSE part.start + part.size + req.off)

\* seek: a position before the partition is an error, but the reader below has
\* moved there.  A relative seek before the first read starts from wherever the
\* reader below happens to be.
SeekPart(req) ==
    LET r      == OptSeek(Below(req))
        inside == r.ok /\ part.start <= r.pos
    IN  /\ part # None
        /\ Below(req).whence = "Start" => Below(req).off >= 0
        /\ r.pos <= MaxPos
        /\ blk' = r.blk /\ cursor' = r.cursor /\ end' = r.end
        /\ part' = [part EXCEPT !.needReset = FALSE,
                                !.cursor = IF inside THEN r.pos - part.start ELSE @]
        /\ lost' = (~inside \/ (~Fixed(req) /\ (lost \/ (part.needReset /\ req.whence = "Current"))))
        /\ expected' = IF lost' THEN 0 ELSE Ideal(req)
        /\ last' = Seeked(req, inside, r.pos)

\* Mutant: a read is not clipped.
ClipNot(want, c) == want

\* A read stops at the end of the partition.
Clip(want, c) == Smaller(want, part.size - c)

\* read: rewind first if nothing was done yet, and ask for nothing at the end.
ReadPart(want, failing) ==
    LET s    == IF part.needReset
                THEN OptSeek(StartAt(part.start))
                ELSE [ok |-> TRUE, pos |-> part.start + part.cursor,
                      blk |-> blk, cursor |-> cursor, end |-> end]
        c    == s.pos - part.start
        r    == OptRead(s.blk, s.cursor, Clip(want, c), failing)
        done == c >= part.size
        data == IF done THEN <<>> ELSE r.data
        from == IF part.needReset THEN part.start ELSE expected
    IN  /\ part # None /\ (lost => part.needReset)
        /\ blk' = IF done THEN s.blk ELSE r.blk
        /\ cursor' = IF done THEN s.cursor ELSE r.cursor
        /\ end' = s.end
        /\ part' = [part EXCEPT !.needReset = FALSE,
                                !.cursor = c + Len(data)]
        /\ lost' = (~done /\ ~r.ok)
        /\ expected' = IF lost' THEN 0 ELSE from + Len(data)
        /\ last' = Readed(from, want, done \/ r.ok, data)

-------------------------------------------------------------------------------

Init ==
    /\ blk = 0 /\ cursor = None /\ end = None /\ part = None
    /\ expected = 0 /\ lost = FALSE
    /\ last = [op |-> "none", req |-> StartAt(0), ok |-> TRUE, pos |-> 0, ideal |-> 0,
               limit |-> 0, lost |-> FALSE, data |-> <<>>, want |-> 0]

Next ==
    \/ \E req \in Seeks : SeekDisk(req) \/ SeekPart(req)
    \/ \E want \in Lengths, failing \in 0..2 :
            ReadDisk(want, failing) \/ ReadPart(want, failing)
    \/ \E want \in Lengths : IgnoreWrite(want)
    \/ \E w \in Windows : OpenPartition(w)
    \/ ClosePartition

Spec == Init /\ [][Next]_vars

-------------------------------------------------------------------------------
(* Correctness. *)

TypeOK ==
    /\ blk \in Nat /\ cursor \in Nat \cup {None} /\ end \in Nat \cup {None}
    /\ part \in PartialReaders \cup {None}
    /\ expected \in Nat /\ lost \in BOOLEAN

\* The cached cursor of OptimizedSeek differs from the real one only after a
\* read failed half way, and then it is in the middle of a block.  This is what
\* makes it safe to skip a seek: no rewind and no start of a partition is ever
\* mistaken for one that need not be done.
StaleCursorIsUnaligned == cursor \notin {None, blk} => cursor % BS # 0

\* A successful read returns the bytes at the position the client expects, in
\* order, none beyond what it asked for or beyond the end of the disk or the
\* partition, and at least one unless it is there: read_exact and read_to_end
\* need all of that.
ReadsAreRight ==
    LET n == Len(last.data)
    IN  last.op = "read" /\ last.ok /\ ~last.lost =>
            /\ last.data = Bytes(last.ideal, n)
            /\ n <= last.want
            /\ n > 0 => last.ideal + n <= last.limit
            /\ last.want > 0 /\ last.ideal < last.limit => n > 0

\* A successful seek reports the position it was asked for, from the start, the
\* end or the current position of the disk or partition.
SeeksAreRight ==
    last.op = "seek" /\ last.ok /\ ~last.lost => last.pos = last.ideal
===============================================================================
