-------------------------- MODULE ReaderStack_proofs --------------------------
(***************************************************************************)
(* The stack of readers, for blocks, disks and buffers of every size.      *)
(***************************************************************************)
EXTENDS ReaderStack, TLAPS

-------------------------------------------------------------------------------
(* Bytes of the disk. *)

LEMMA BytesHaveLength ==
  ASSUME NEW p, NEW n \in Nat
  PROVE  Len(Bytes(p, n)) = n /\ DOMAIN Bytes(p, n) = 1..n
BY DEF Bytes

\* Names for two operators, so that facts about them are used as they are stated.
Cut(s, a, b) == SubSeq(s, a, b)
Join(s, t)   == s \o t

LEMMA PartOfBytes ==
  ASSUME NEW p \in Nat, NEW n \in Nat, NEW a \in Nat, NEW b \in Nat, b <= n, 1 <= a, a <= b + 1,
         NEW from \in Nat, NEW size \in Nat, from = p + a - 1, size = b - a + 1
  PROVE  Cut(Bytes(p, n), a, b) = Bytes(from, size)
<1>1. SubSeq(Bytes(p, n), a, b) = Bytes(p + a - 1, b - a + 1)
  BY DEF Bytes
<1> QED
  BY <1>1 DEF Cut

LEMMA BytesInARow ==
  ASSUME NEW p \in Nat, NEW n \in Nat, NEW m \in Nat, NEW mid \in Nat, NEW size \in Nat,
         mid = p + n, size = n + m
  PROVE  Join(Bytes(p, n), Bytes(mid, m)) = Bytes(p, size)
<1>1. Bytes(p, n) \o Bytes(p + n, m) = Bytes(p, n + m)
  BY DEF Bytes
<1> QED
  BY <1>1 DEF Join

-------------------------------------------------------------------------------
(* Blocks. *)

LEMMA Division ==
  ASSUME NEW c \in Nat
  PROVE  /\ c \div BS \in Nat /\ c % BS \in Nat /\ c % BS < BS
         /\ c = (c \div BS) * BS + (c % BS)
<1>1. BS \in Nat /\ BS > 0
  BY DiskAssumption
<1>2. c % BS \in 0..(BS - 1)
  BY <1>1
<1>3. c \div BS \in Nat /\ c = (c \div BS) * BS + (c % BS)
  BY <1>1
<1> QED
  BY <1>1, <1>2, <1>3

LEMMA BlockStart ==
  ASSUME NEW q \in Nat
  PROVE  (q * BS) \div BS = q /\ (q * BS) % BS = 0 /\ q * BS \in Nat
BY DiskAssumption

LEMMA NoBytes == ASSUME NEW p PROVE Bytes(p, 0) = <<>>
BY DEF Bytes

\* A read from c of up to want bytes: the bytes from there, none behind the end
\* of the disk, and at least one in front of it; or an error.
ReadsFrom(c, want, r) ==
  /\ r.ok \in BOOLEAN /\ r.blk \in Nat
  /\ r.ok => \E n \in Nat :
        /\ r.data = Bytes(c, n) /\ r.blk = c + n /\ n <= want
        /\ n > 0 => c + n <= Size
        /\ want > 0 /\ c < Size => n > 0
  /\ ~r.ok => r.data = <<>> /\ (r.blk = c \/ c % BS # 0)

LEMMA GotReads ==
  ASSUME NEW c \in Nat, NEW want \in Nat, NEW n \in Nat, n <= want, n > 0 => c + n <= Size,
         want > 0 /\ c < Size => n > 0
  PROVE  ReadsFrom(c, want, Got(c + n, Bytes(c, n)))
<1>1. /\ Got(c + n, Bytes(c, n)).ok /\ Got(c + n, Bytes(c, n)).blk = c + n
      /\ Got(c + n, Bytes(c, n)).data = Bytes(c, n) /\ Got(c + n, Bytes(c, n)).ok \in BOOLEAN
  BY DEF Got
<1> QED
  BY <1>1 DEF ReadsFrom

LEMMA ErrorReads ==
  ASSUME NEW c \in Nat, NEW want \in Nat, NEW b \in Nat, b = c \/ c % BS # 0
  PROVE  ReadsFrom(c, want, Error(b))
<1>1. Error(b).ok = FALSE /\ Error(b).blk = b /\ Error(b).data = <<>>
  BY DEF Error
<1> QED
  BY <1>1 DEF ReadsFrom

LEMMA BlockReadIsRight ==
  ASSUME NEW c \in Nat, NEW want \in Nat, NEW failing \in 0..2
  PROVE  ReadsFrom(c, want, BlockRead(c, want, failing))
<1> DEFINE len   == Smaller(want, Size - c)
           off   == c % BS
           first == IF off = 0 THEN <<>> ELSE SubSeq(ReadBlocks(c \div BS, 1), off + 1, BS)
           next  == c + Len(first)
           rest  == len - Len(first)
           call2 == IF off = 0 THEN 1 ELSE 2
           full  == rest \div BS
           q     == c \div BS
           k     == IF off = 0 THEN 0 ELSE BS - off
           m     == IF off = 0 THEN q ELSE q + 1
<1>a. BlockRead(c, want, failing) =
        IF c >= Size THEN Got(c, <<>>)
        ELSE IF off # 0 /\ failing = 1 THEN Error(c)
        ELSE IF off # 0 /\ len <= Len(first) THEN Got(c + len, SubSeq(first, 1, len))
        ELSE IF failing = call2 THEN Error(next)
        ELSE IF rest < BS
        THEN Got(next + rest, first \o SubSeq(ReadBlocks(next \div BS, 1), 1, rest))
        ELSE Got(next + full * BS, first \o ReadBlocks(next \div BS, full))
  BY DEF BlockRead
<1>0. BS \in Nat /\ BS > 0 /\ Size \in Nat
  BY DiskAssumption DEF Size
<1>1. q \in Nat /\ off \in Nat /\ off < BS /\ c = q * BS + off
  BY Division
<1>2. q * BS \in Nat /\ m \in Nat /\ (q + 1) * BS = q * BS + BS
  BY <1>0, <1>1
<1>3. k \in Nat /\ c + k = m * BS /\ (off # 0 => 0 < k) /\ k <= BS
  <2> HIDE DEF q, off
  <2>1. CASE off = 0
    BY <1>0, <1>1, <2>1
  <2>2. CASE off # 0
    BY <1>0, <1>1, <1>2, <2>2
  <2> QED
    BY <2>1, <2>2
<1>4. first = Bytes(c, k) /\ Len(first) = k
  <2>1. first = Bytes(c, k)
    <3>1. CASE off = 0
      BY <3>1, NoBytes
    <3>2. CASE off # 0
      <4>1. ReadBlocks(q, 1) = Bytes(q * BS, BS)
        BY <1>0 DEF ReadBlocks
      <4>2. k = BS - off
        BY <3>2
      <4>3. SubSeq(Bytes(q * BS, BS), off + 1, BS) = Bytes(c, k)
        <5> HIDE DEF off, q, k
        <5> DEFINE b == q * BS
                   a == off + 1
        <5>1. b \in Nat /\ a \in Nat /\ 1 <= a /\ a <= BS + 1 /\ c = b + a - 1 /\ k = BS - a + 1
          BY <1>0, <1>1, <1>2, <4>2
        <5> HIDE DEF a, b
        <5>2. Cut(Bytes(b, BS), a, BS) = Bytes(c, k)
          BY <1>0, <1>3, <5>1, PartOfBytes
        <5> QED
          BY <5>2 DEF a, b, Cut
      <4> QED
        BY <3>2, <4>1, <4>3
    <3> QED
      BY <3>1, <3>2
  <2> HIDE DEF first, k
  <2> QED
    BY <1>3, <2>1, BytesHaveLength
<1>5. next = m * BS /\ next \in Nat /\ next \div BS = m /\ next = c + k
  <2>1. next = c + k
    BY <1>4
  <2> HIDE DEF m, k, next
  <2> QED
    BY <1>2, <1>3, <2>1, BlockStart
<1>6. len \in Int /\ len <= want /\ len <= Size - c /\ (len = want \/ len = Size - c)
      /\ rest = len - k
  <2>1. len \in Int /\ len <= want /\ len <= Size - c /\ (len = want \/ len = Size - c)
    BY <1>0 DEF Smaller
  <2> QED
    BY <2>1, <1>4
<1> HIDE DEF len, off, first, next, rest, call2, q, k, m
<1>7. CASE c >= Size
  <2>1. BlockRead(c, want, failing) = Got(c + 0, Bytes(c, 0))
    BY <1>a, <1>7, NoBytes
  <2>2. ~(c < Size)
    BY <1>0, <1>7
  <2> QED
    BY <2>1, <2>2, GotReads
<1>8. CASE ~(c >= Size) /\ off # 0 /\ failing = 1
  BY <1>a, <1>8, ErrorReads DEF off
<1>9. CASE ~(c >= Size) /\ ~(off # 0 /\ failing = 1) /\ off # 0 /\ len <= Len(first)
  <2>1. len \in Nat /\ len <= k /\ (want > 0 => len > 0)
    BY <1>0, <1>4, <1>6, <1>9
  <2>2. SubSeq(first, 1, len) = Bytes(c, len)
    <3>1. c = c + 1 - 1 /\ len = len - 1 + 1 /\ 1 <= len + 1 /\ 1 \in Nat /\ 1 <= 1
      BY <2>1
    <3>2. Cut(Bytes(c, k), 1, len) = Bytes(c, len)
      BY <1>3, <2>1, <3>1, PartOfBytes
    <3> QED
      BY <1>4, <3>2 DEF Cut
  <2>3. BlockRead(c, want, failing) = Got(c + len, Bytes(c, len))
    BY <1>a, <1>9, <2>1, <2>2
  <2>4. c + len <= Size
    BY <1>0, <1>6
  <2> QED
    BY <1>6, <2>1, <2>3, <2>4, GotReads
<1>10. CASE ~(c >= Size) /\ ~(off # 0 /\ failing = 1) /\ ~(off # 0 /\ len <= Len(first))
  <2>1. rest \in Nat /\ k + rest = len /\ len \in Nat /\ (want > 0 => len > 0)
    <3>1. off = 0 => k = 0
      BY DEF k
    <3> QED
      BY <1>0, <1>3, <1>4, <1>6, <1>10, <3>1
  <2>2. CASE failing = call2
    <3>1. BlockRead(c, want, failing) = Error(next)
      BY <1>a, <1>10, <2>2
    <3>2. next = c \/ c % BS # 0
      BY <1>5 DEF off, k
    <3> QED
      BY <1>5, <3>1, <3>2, ErrorReads
  <2>3. CASE failing # call2 /\ rest < BS
    <3>1. ReadBlocks(next \div BS, 1) = Bytes(next, BS)
      BY <1>0, <1>5 DEF ReadBlocks
    <3>2. Cut(Bytes(next, BS), 1, rest) = Bytes(next, rest)
      <4>1. next = next + 1 - 1 /\ rest = rest - 1 + 1 /\ 1 <= rest + 1 /\ 1 \in Nat /\ 1 <= 1
            /\ rest <= BS
        BY <1>0, <1>5, <2>1, <2>3
      <4> QED
        BY <1>0, <1>5, <2>1, <4>1, PartOfBytes
    <3>4. Join(first, Bytes(next, rest)) = Bytes(c, len)
      <4>1. next = c + k /\ len = k + rest /\ next \in Nat /\ len \in Nat /\ rest \in Nat /\ k \in Nat
        BY <1>3, <1>5, <2>1
      <4>2. Join(Bytes(c, k), Bytes(next, rest)) = Bytes(c, len)
        BY <4>1, BytesInARow
      <4> QED
        BY <1>4, <4>2
    <3>5. next + rest = c + len
      BY <1>3, <1>5, <2>1
    <3>6. BlockRead(c, want, failing) = Got(c + len, Bytes(c, len))
      BY <1>a, <1>10, <2>1, <2>3, <3>1, <3>2, <3>4, <3>5 DEF Cut, Join
    <3>7. c + len <= Size
      BY <1>0, <1>6
    <3> QED
      BY <1>6, <2>1, <3>6, <3>7, GotReads
  <2>4. CASE failing # call2 /\ ~(rest < BS)
    <3>1. full \in Nat /\ full * BS \in Nat /\ full * BS <= rest /\ full * BS > 0
      <4>1. full \in Nat /\ rest % BS < BS /\ rest % BS \in Nat /\ rest = full * BS + (rest % BS)
        BY <2>1, Division
      <4>2. full # 0
        <5> SUFFICES ASSUME full = 0 PROVE FALSE
          OBVIOUS
        <5>1. rest = 0 * BS + (rest % BS)
          BY <4>1
        <5> HIDE DEF full
        <5> QED
          BY <1>0, <2>1, <2>4, <4>1, <5>1
      <4> HIDE DEF full
      <4>3. full * BS \in Nat /\ full * BS > 0
        BY <1>0, <4>1, <4>2
      <4> QED
        BY <2>1, <4>1, <4>3
    <3> DEFINE n == full * BS
    <3>2. ReadBlocks(next \div BS, full) = Bytes(next, n)
      BY <1>5 DEF ReadBlocks
    <3>3. n \in Nat /\ n <= rest /\ n > 0
      BY <3>1
    <3> HIDE DEF n
    <3>4. Join(first, Bytes(next, n)) = Bytes(c, k + n)
      <4>1. k + n \in Nat
        BY <1>3, <3>3
      <4> QED
        BY <1>3, <1>4, <1>5, <3>3, <4>1, BytesInARow
    <3>5. next + n = c + (k + n) /\ k + n \in Nat
      BY <1>3, <1>5, <3>3
    <3>6. BlockRead(c, want, failing) = Got(c + (k + n), Bytes(c, k + n))
      <4>1. BlockRead(c, want, failing) = Got(next + n, first \o ReadBlocks(next \div BS, full))
        BY <1>a, <1>10, <2>4 DEF n
      <4> QED
        BY <4>1, <3>2, <3>4, <3>5 DEF Join
    <3>7. k + n <= want /\ c + (k + n) <= Size /\ k + n > 0
      BY <1>0, <1>3, <1>6, <2>1, <3>3
    <3> QED
      BY <3>5, <3>6, <3>7, GotReads
  <2> QED
    BY <2>2, <2>3, <2>4
<1> QED
  BY <1>7, <1>8, <1>9, <1>10

-------------------------------------------------------------------------------
(* The invariant. *)

Whences == {"Start", "Current", "End"}

\* Seeks as the clients make them: from the end only to the end itself.
SeeksOf == {req \in [whence : Whences, off : Int] :
              /\ req.whence = "Start" => req.off \in Nat
              /\ req.whence = "End" => req.off = 0}

Types ==
  /\ blk \in Nat /\ cursor \in Nat \cup {None} /\ end \in {Size, None}
  /\ part \in PartialReaders \cup {None}
  /\ part # None => part.start % BS = 0 /\ part.start + part.size <= Size
  /\ expected \in Nat /\ lost \in BOOLEAN

\* The cached cursor is wrong only when the client knows of a failure.
CursorInv == cursor \notin {None, blk} => lost /\ cursor % BS # 0

\* The client is where it thinks it is.
PlaceInv ==
  ~lost /\ (part # None => ~part.needReset) =>
     /\ expected = blk
     /\ part # None => blk = part.start + part.cursor

StackInv == Types /\ CursorInv /\ PlaceInv

LastInv == ReadsAreRight /\ SeeksAreRight

\* A seek that succeeds leads to where it should, unless it is a relative one
\* after a failure; then the cached cursor and the real one may still differ.
LEMMA OptSeekIsRight ==
  ASSUME StackInv, NEW req \in SeeksOf
  PROVE  LET r == OptSeek(req)
         IN  /\ r.ok \in BOOLEAN /\ r.pos \in Nat /\ r.blk \in Nat
             /\ r.cursor \in Nat \cup {None} /\ r.end \in {Size, None}
             /\ r.ok => /\ r.cursor = r.pos
                        /\ r.pos # r.blk => lost /\ r.pos % BS # 0
                        /\ req.whence = "Start" => r.pos = req.off
                        /\ req.whence = "End" => r.pos = Size + req.off
                        /\ req.whence = "Current" /\ ~lost => r.pos = blk + req.off
             /\ ~r.ok => r.blk = blk /\ r.cursor = cursor
<1> DEFINE r   == OptSeek(req)
           pos == BlockSeek(blk, req)
<1>0. Size \in Nat
  BY DiskAssumption DEF Size
<1>1. /\ req.whence \in Whences /\ req.off \in Int
      /\ req.whence = "Start" => req.off \in Nat
      /\ req.whence = "End" => req.off = 0
  BY DEF SeeksOf
<1>2. /\ blk \in Nat /\ cursor \in Nat \cup {None} /\ end \in {Size, None} /\ lost \in BOOLEAN
      /\ cursor \notin {None, blk} => lost /\ cursor % BS # 0
  BY DEF StackInv, Types, CursorInv
<1>3. CASE SeekHit(req)
  <2>1. r = [ok |-> TRUE, pos |-> cursor, blk |-> blk, cursor |-> cursor, end |-> end]
    BY <1>3 DEF OptSeek
  <2>2. r.ok = TRUE /\ r.pos = cursor /\ r.blk = blk /\ r.cursor = cursor /\ r.end = end
    BY <2>1
  <2>3. cursor # None /\ cursor \in Nat
    BY <1>2, <1>3 DEF SeekHit
  <2>4. req.whence = "Start" => cursor = req.off
    BY <1>3 DEF SeekHit
  <2>5. req.whence = "Current" => req.off = 0
    BY <1>3 DEF SeekHit
  <2>6. req.whence = "End" => cursor = Size + req.off
    <3> SUFFICES ASSUME req.whence = "End" PROVE cursor = Size + req.off
      OBVIOUS
    <3>1. end # None /\ cursor = AddEndOffset(end, req.off)
      BY <1>3 DEF SeekHit
    <3>2. end = Size /\ req.off = 0
      BY <1>1, <1>2, <3>1
    <3> QED
      BY <1>0, <3>1, <3>2 DEF AddEndOffset
  <2>7. req.whence = "Current" /\ ~lost => cursor = blk + req.off
    BY <1>1, <1>2, <2>3, <2>5
  <2> HIDE DEF r
  <2> QED
    BY <1>2, <2>2, <2>3, <2>4, <2>6, <2>7 DEF r
<1>4. CASE ~SeekHit(req) /\ pos = None
  <2>1. r = [ok |-> FALSE, pos |-> 0, blk |-> blk, cursor |-> cursor, end |-> end]
    BY <1>4 DEF OptSeek
  <2>2. r.ok = FALSE /\ r.pos = 0 /\ r.blk = blk /\ r.cursor = cursor /\ r.end = end
    BY <2>1
  <2> HIDE DEF r
  <2>3. r.ok \in BOOLEAN /\ ~r.ok
    BY <2>2, Zenon
  <2>4. /\ r.pos \in Nat /\ r.blk \in Nat
        /\ r.cursor \in Nat \cup {None} /\ r.end \in {Size, None}
        /\ r.blk = blk /\ r.cursor = cursor
    <3>1. r.pos = 0 /\ r.blk = blk /\ r.cursor = cursor /\ r.end = end
      BY <2>2
    <3> QED
      BY <1>2, <3>1
  <2> QED
    BY <2>3, <2>4 DEF r
<1>5. CASE ~SeekHit(req) /\ pos # None
  <2>0. r = [ok |-> TRUE, pos |-> pos, blk |-> pos, cursor |-> pos,
              end |-> IF req.whence = "End" /\ end = None
                      THEN AddEndOffset(pos, -req.off) ELSE end]
    BY <1>5 DEF OptSeek
  <2>1. r.ok = TRUE /\ r.pos = pos /\ r.blk = pos /\ r.cursor = pos
        /\ r.end = IF req.whence = "End" /\ end = None THEN AddEndOffset(pos, -req.off) ELSE end
    BY <2>0
  <2>2. /\ pos \in Nat
        /\ req.whence = "Start" => pos = req.off
        /\ req.whence = "End" => pos = Size + req.off
        /\ req.whence = "Current" => pos = blk + req.off
    BY <1>0, <1>1, <1>2, <1>5 DEF BlockSeek, Whences
  <2> HIDE DEF pos
  <2>3. req.whence = "End" => AddEndOffset(pos, -req.off) = Size
    BY <1>0, <1>1, <2>2 DEF AddEndOffset
  <2>4. r.end \in {Size, None}
    BY <1>2, <2>1, <2>3
  <2>5. r.ok /\ r.ok \in BOOLEAN /\ r.pos \in Nat /\ r.blk \in Nat
        /\ r.cursor \in Nat \cup {None} /\ r.pos = r.blk /\ r.cursor = r.pos
    BY <2>1, <2>2
  <2>6. /\ req.whence = "Start" => r.pos = req.off
        /\ req.whence = "End" => r.pos = Size + req.off
        /\ req.whence = "Current" => r.pos = blk + req.off
    BY <2>1, <2>2
  <2> HIDE DEF r
  <2> QED
    BY <2>4, <2>5, <2>6 DEF r
<1> QED
  BY <1>3, <1>4, <1>5

\* A read with the cached cursor right, or empty, gives the next bytes and leaves
\* it so; one that fails leaves it wrong only in the middle of a block.
LEMMA OptReadIsRight ==
  ASSUME NEW b \in Nat, NEW c \in Nat \cup {None}, c \in {b, None},
         NEW want \in Nat, NEW failing \in 0..2
  PROVE  LET r == OptRead(b, c, want, failing)
         IN  /\ r.ok \in BOOLEAN /\ r.blk \in Nat /\ r.cursor \in Nat \cup {None}
             /\ r.ok => \E n \in Nat :
                   /\ r.data = Bytes(b, n) /\ Len(r.data) = n
                   /\ r.blk = b + n /\ r.cursor \in {r.blk, None} /\ n <= want
                   /\ n > 0 => b + n <= Size
                   /\ want > 0 /\ b < Size => n > 0
             /\ ~r.ok => /\ Len(r.data) = 0
                         /\ r.cursor \notin {None, r.blk} => r.cursor % BS # 0
<1> DEFINE r == OptRead(b, c, want, failing)
           i == BlockRead(b, want, failing)
<1>1. ReadsFrom(b, want, i)
  BY BlockReadIsRight
<1>2. r = [ok |-> i.ok, data |-> i.data, blk |-> i.blk,
           cursor |-> IF i.ok /\ c # None THEN c + Len(i.data) ELSE c]
  BY DEF OptRead
<1>3. r.ok = i.ok /\ r.data = i.data /\ r.blk = i.blk
      /\ r.cursor = IF i.ok /\ c # None THEN c + Len(i.data) ELSE c
  BY <1>2
<1> HIDE DEF r, i
<1>4. CASE i.ok
  <2>1. PICK n \in Nat :
           /\ i.data = Bytes(b, n) /\ i.blk = b + n /\ n <= want
           /\ n > 0 => b + n <= Size
           /\ want > 0 /\ b < Size => n > 0
    BY <1>1, <1>4 DEF ReadsFrom
  <2>2. Len(i.data) = n
    BY <2>1, BytesHaveLength
  <2>3. r.cursor \in {r.blk, None} /\ r.cursor \in Nat \cup {None}
    <3>1. CASE c = None
      BY <1>3, <3>1
    <3>2. CASE c # None
      <4>1. c = b /\ r.cursor = b + n /\ r.blk = b + n
        BY <1>3, <1>4, <2>1, <2>2, <3>2
      <4> QED
        BY <4>1
    <3> QED
      BY <3>1, <3>2
  <2> QED
    BY <1>1, <1>3, <1>4, <2>1, <2>2, <2>3 DEF ReadsFrom, r
<1>5. CASE ~i.ok
  BY <1>1, <1>3, <1>5 DEF ReadsFrom, r
<1> QED
  BY <1>4, <1>5

-------------------------------------------------------------------------------
(* The steps. *)

LEMMA SeekDiskKeeps ==
  ASSUME StackInv, NEW req \in SeeksOf, SeekDisk(req)
  PROVE  StackInv' /\ LastInv'
<1> DEFINE r == OptSeek(req)
<1>0. Size \in Nat
  BY DiskAssumption DEF Size
<1>1. /\ part = None /\ part' = None /\ blk' = r.blk /\ cursor' = r.cursor /\ end' = r.end
      /\ lost' = (lost /\ ~(r.ok /\ Fixed(req)))
      /\ expected' = IF lost' THEN 0 ELSE IF r.ok THEN Ideal(req) ELSE expected
      /\ last' = Seeked(req, r.ok, r.pos)
  BY DEF SeekDisk
<1>2. /\ r.ok \in BOOLEAN /\ r.pos \in Nat /\ r.blk \in Nat
      /\ r.cursor \in Nat \cup {None} /\ r.end \in {Size, None}
      /\ r.ok => /\ r.cursor = r.pos
                 /\ r.pos # r.blk => lost /\ r.pos % BS # 0
                 /\ req.whence = "Start" => r.pos = req.off
                 /\ req.whence = "End" => r.pos = Size + req.off
                 /\ req.whence = "Current" /\ ~lost => r.pos = blk + req.off
      /\ ~r.ok => r.blk = blk /\ r.cursor = cursor
  BY OptSeekIsRight
<1> HIDE DEF r
<1>3. req.whence \in Whences /\ req.off \in Int
  BY DEF SeeksOf
<1>4. blk \in Nat /\ expected \in Nat /\ lost \in BOOLEAN /\ (~lost => expected = blk)
  BY <1>1 DEF StackInv, Types, PlaceInv
<1>5. /\ req.whence = "Start" => Ideal(req) = req.off
      /\ req.whence = "End" => Ideal(req) = Size + req.off
      /\ req.whence = "Current" => Ideal(req) = expected + req.off
  BY <1>1, <1>3 DEF Ideal, Base, Limit
<1>6. ASSUME r.ok, ~lost'
      PROVE  r.pos = Ideal(req) /\ r.pos = r.blk
  <2>1. ~lost \/ Fixed(req)
    BY <1>1, <1>6
  <2>2. r.pos = Ideal(req)
    BY <1>2, <1>3, <1>4, <1>5, <1>6, <2>1 DEF Fixed, Whences
  <2>3. Fixed(req) => r.pos % BS = 0
    BY <2>2 DEF Fixed
  <2> QED
    BY <1>2, <1>6, <2>1, <2>2, <2>3
<1>7. Types'
  <2>1. lost' \in BOOLEAN
    BY <1>1, <1>4
  <2>2. expected' \in Nat
    <3>1. CASE lost'
      BY <1>1, <3>1
    <3>2. CASE ~lost' /\ r.ok
      BY <1>1, <1>2, <1>6, <3>2
    <3>3. CASE ~lost' /\ ~r.ok
      BY <1>1, <1>4, <3>3
    <3> QED
      BY <3>1, <3>2, <3>3
  <2>3. blk' \in Nat /\ cursor' \in Nat \cup {None} /\ end' \in {Size, None} /\ part' = None
    BY <1>1, <1>2
  <2> QED
    BY <2>1, <2>2, <2>3 DEF Types, Size
<1>8. CursorInv'
  <2>1. CASE r.ok
    <3>1. cursor' = r.pos /\ blk' = r.blk
      BY <1>1, <1>2, <2>1
    <3>2. r.pos # r.blk => lost' /\ r.pos % BS # 0
      BY <1>2, <1>6, <2>1
    <3> QED
      BY <3>1, <3>2 DEF CursorInv
  <2>2. CASE ~r.ok
    <3>1. cursor' = cursor /\ blk' = blk /\ lost' = lost
      BY <1>1, <1>2, <1>4, <2>2
    <3> QED
      BY <3>1 DEF StackInv, CursorInv
  <2> QED
    BY <2>1, <2>2
<1>9. PlaceInv'
  <2> SUFFICES ASSUME ~lost' PROVE expected' = blk'
    BY <1>1 DEF PlaceInv
  <2>1. CASE r.ok
    BY <1>1, <1>6, <2>1
  <2>2. CASE ~r.ok
    BY <1>1, <1>2, <1>4, <2>2
  <2> QED
    BY <2>1, <2>2
<1>10. LastInv'
  <2>1. last'.op = "seek" /\ last'.ok = r.ok /\ last'.pos = r.pos
        /\ last'.ideal = Ideal(req) /\ last'.lost = lost'
    BY <1>1 DEF Seeked
  <2>2. r.ok /\ ~lost' => r.pos = Ideal(req)
    BY <1>6
  <2> QED
    BY <2>1, <2>2 DEF LastInv, ReadsAreRight, SeeksAreRight
<1> QED
  BY <1>7, <1>8, <1>9, <1>10 DEF StackInv

LEMMA ReadDiskKeeps ==
  ASSUME StackInv, NEW want \in Nat, NEW failing \in 0..2, ReadDisk(want, failing)
  PROVE  StackInv' /\ LastInv'
<1> DEFINE r == OptRead(blk, cursor, want, failing)
<1>1. /\ part = None /\ part' = None /\ ~lost /\ blk' = r.blk /\ cursor' = r.cursor /\ end' = end
      /\ lost' = ~r.ok
      /\ expected' = IF lost' THEN 0 ELSE expected + Len(r.data)
      /\ last' = Readed(expected, want, r.ok, r.data)
  BY DEF ReadDisk
<1>2. /\ blk \in Nat /\ cursor \in Nat \cup {None} /\ cursor \in {blk, None} /\ expected = blk
      /\ end \in {Size, None}
  BY <1>1 DEF StackInv, Types, CursorInv, PlaceInv
<1>3. /\ r.ok \in BOOLEAN /\ r.blk \in Nat /\ r.cursor \in Nat \cup {None}
      /\ r.ok => \E n \in Nat :
             /\ r.data = Bytes(blk, n) /\ Len(r.data) = n
             /\ r.blk = blk + n /\ r.cursor \in {r.blk, None} /\ n <= want
             /\ n > 0 => blk + n <= Size
             /\ want > 0 /\ blk < Size => n > 0
      /\ ~r.ok /\ r.cursor \notin {None, r.blk} => r.cursor % BS # 0
  BY <1>2, OptReadIsRight
<1> HIDE DEF r
<1>4. last'.op = "read" /\ last'.ok = r.ok /\ last'.data = r.data /\ last'.ideal = blk
      /\ last'.limit = Size /\ last'.want = want
  BY <1>1, <1>2 DEF Readed, Limit
<1>5. CASE r.ok
  <2>1. PICK n \in Nat :
             /\ r.data = Bytes(blk, n) /\ Len(r.data) = n
             /\ r.blk = blk + n /\ r.cursor \in {r.blk, None} /\ n <= want
             /\ n > 0 => blk + n <= Size
             /\ want > 0 /\ blk < Size => n > 0
    BY <1>3, <1>5
  <2>2. ~lost' /\ lost' \in BOOLEAN /\ expected' = blk + n /\ blk' = blk + n /\ cursor' \in {blk', None}
        /\ expected' \in Nat
    <3>1. lost' \in BOOLEAN /\ ~lost'
      BY <1>1, <1>5
    <3>2. expected' = blk + n /\ blk' = blk + n
      BY <1>1, <1>2, <2>1, <3>1
    <3> QED
      BY <1>1, <1>2, <2>1, <3>1, <3>2
  <2>3. Types' /\ CursorInv' /\ PlaceInv'
    BY <1>1, <1>2, <1>3, <2>2 DEF Types, CursorInv, PlaceInv, Size
  <2>4. LastInv'
    BY <1>4, <2>1 DEF LastInv, ReadsAreRight, SeeksAreRight
  <2> QED
    BY <2>3, <2>4 DEF StackInv
<1>6. CASE ~r.ok
  <2>1. lost' /\ lost' \in BOOLEAN /\ expected' = 0
    BY <1>1, <1>6
  <2>2. Types' /\ CursorInv' /\ PlaceInv'
    BY <1>1, <1>2, <1>3, <1>6, <2>1 DEF Types, CursorInv, PlaceInv, Size
  <2>3. LastInv'
    BY <1>4, <1>6 DEF LastInv, ReadsAreRight, SeeksAreRight
  <2> QED
    BY <2>2, <2>3 DEF StackInv
<1> QED
  BY <1>5, <1>6

LEMMA OpenPartitionKeeps ==
  ASSUME StackInv, LastInv, NEW w \in Windows, w[1] + w[2] <= Size, OpenPartition(w)
  PROVE  StackInv' /\ LastInv'
<1> DEFINE p == [start |-> w[1], size |-> w[2], cursor |-> 0, needReset |-> TRUE]
<1>1. /\ part' = p /\ UNCHANGED <<blk, cursor, end, lost, last>>
      /\ expected' = IF lost THEN 0 ELSE w[1]
  BY DEF OpenPartition
<1>2. w[1] \in Nat /\ w[2] \in Nat /\ w[1] % BS = 0
  BY WindowAssumption
<1>3. p \in PartialReaders /\ p.start % BS = 0 /\ p.start + p.size <= Size /\ p.needReset
  BY <1>2 DEF PartialReaders
<1> HIDE DEF p
<1>4. expected' \in Nat
  BY <1>1, <1>2 DEF StackInv, Types
<1>5. Types'
  BY <1>1, <1>3, <1>4 DEF StackInv, Types, Size
<1>6. CursorInv'
  BY <1>1 DEF StackInv, CursorInv
<1>7. PlaceInv'
  BY <1>1, <1>3, NoneAssumption DEF PlaceInv
<1>8. LastInv'
  BY <1>1 DEF LastInv, ReadsAreRight, SeeksAreRight
<1> QED
  BY <1>5, <1>6, <1>7, <1>8 DEF StackInv

LEMMA ClosePartitionKeeps ==
  ASSUME StackInv, LastInv, ClosePartition
  PROVE  StackInv' /\ LastInv'
<1>1. part' = None /\ lost' = TRUE /\ expected' = 0 /\ UNCHANGED <<blk, cursor, end, last>>
  BY DEF ClosePartition
<1>2. Types' /\ CursorInv' /\ PlaceInv'
  BY <1>1 DEF StackInv, Types, CursorInv, PlaceInv, Size
<1>3. LastInv'
  BY <1>1 DEF LastInv, ReadsAreRight, SeeksAreRight
<1> QED
  BY <1>2, <1>3 DEF StackInv

LEMMA IgnoreWriteKeeps ==
  ASSUME StackInv, NEW want, IgnoreWrite(want)
  PROVE  StackInv' /\ LastInv'
<1>1. UNCHANGED <<blk, cursor, end, part, expected, lost>>
  BY DEF IgnoreWrite
<1>2. last'.op = "write"
  BY DEF IgnoreWrite, Readed
<1> QED
  BY <1>1, <1>2 DEF StackInv, Types, CursorInv, PlaceInv, LastInv, ReadsAreRight, SeeksAreRight

LEMMA SeekPartKeeps ==
  ASSUME StackInv, NEW req \in SeeksOf, SeekPart(req)
  PROVE  StackInv' /\ LastInv'
<1> DEFINE b      == Below(req)
           r      == OptSeek(b)
           inside == r.ok /\ part.start <= r.pos
<1>0. Size \in Nat
  BY DiskAssumption DEF Size
<1>1. /\ part # None /\ (b.whence = "Start" => b.off >= 0)
      /\ blk' = r.blk /\ cursor' = r.cursor /\ end' = r.end
      /\ part' = [part EXCEPT !.needReset = FALSE,
                              !.cursor = IF inside THEN r.pos - part.start ELSE @]
      /\ lost' = (~inside \/ (~Fixed(req) /\ (lost \/ (part.needReset /\ req.whence = "Current"))))
      /\ expected' = IF lost' THEN 0 ELSE Ideal(req)
      /\ last' = Seeked(req, inside, r.pos)
  BY DEF SeekPart
<1>2. req.whence \in Whences /\ req.off \in Int /\ (req.whence = "End" => req.off = 0)
      /\ (req.whence = "Start" => req.off \in Nat)
      /\ req = [whence |-> req.whence, off |-> req.off]
  BY DEF SeeksOf
<1>3. /\ blk \in Nat /\ expected \in Nat /\ lost \in BOOLEAN /\ part \in PartialReaders
      /\ part.start % BS = 0 /\ part.start + part.size <= Size
      /\ ~lost /\ ~part.needReset => expected = blk /\ blk = part.start + part.cursor
  BY <1>1 DEF StackInv, Types, PlaceInv
<1>4. part.start \in Nat /\ part.size \in Nat /\ part.cursor \in Nat /\ part.needReset \in BOOLEAN
  BY <1>3 DEF PartialReaders
<1>5. /\ req.whence = "Start" => Ideal(req) = part.start + req.off
      /\ req.whence = "End" => Ideal(req) = part.start + part.size + req.off
      /\ req.whence = "Current" => Ideal(req) = expected + req.off
  BY <1>1, <1>2 DEF Ideal, Base, Limit
<1>6. /\ req.whence = "Current" => b = req
      /\ req.whence # "Current" => b.whence = "Start" /\ b.off = Ideal(req)
      /\ b \in SeeksOf
  <2>1. CASE req.whence = "Current"
    BY <2>1 DEF Below
  <2>2. CASE req.whence # "Current"
    <3> DEFINE off == IF req.whence = "Start" THEN part.start + req.off
                                              ELSE part.start + part.size + req.off
    <3>1. b = [whence |-> "Start", off |-> off]
      BY <2>2 DEF Below, StartAt
    <3>2. off = Ideal(req) /\ off \in Nat
      BY <1>2, <1>4, <1>5, <2>2 DEF Whences
    <3> HIDE DEF off, b
    <3> QED
      BY <2>2, <3>1, <3>2 DEF SeeksOf, Whences
  <2> QED
    BY <2>1, <2>2
<1>7. /\ r.ok \in BOOLEAN /\ r.pos \in Nat /\ r.blk \in Nat
      /\ r.cursor \in Nat \cup {None} /\ r.end \in {Size, None}
      /\ r.ok => /\ r.cursor = r.pos
                 /\ r.pos # r.blk => lost /\ r.pos % BS # 0
                 /\ b.whence = "Start" => r.pos = b.off
                 /\ b.whence = "Current" /\ ~lost => r.pos = blk + b.off
      /\ ~r.ok => r.blk = blk /\ r.cursor = cursor
  BY <1>6, OptSeekIsRight
<1> HIDE DEF r, b
<1>8. ASSUME ~lost'
      PROVE  r.ok /\ part.start <= r.pos /\ r.pos = Ideal(req) /\ r.pos = r.blk
  <2>1. r.ok /\ part.start <= r.pos
        /\ (Fixed(req) \/ (~lost /\ ~(part.needReset /\ req.whence = "Current")))
    BY <1>1, <1>8
  <2>2. r.pos = Ideal(req)
    <3>1. CASE req.whence = "Current"
      BY <1>3, <1>5, <1>6, <1>7, <2>1, <3>1 DEF Fixed
    <3>2. CASE req.whence # "Current"
      BY <1>6, <1>7, <2>1, <3>2
    <3> QED
      BY <3>1, <3>2
  <2>3. Fixed(req) => r.pos % BS = 0
    BY <2>2 DEF Fixed
  <2> QED
    BY <1>7, <2>1, <2>2, <2>3
<1>9. /\ part' \in PartialReaders /\ part'.start = part.start /\ part'.size = part.size
      /\ part'.needReset = FALSE
      /\ ~lost' => part'.cursor = r.pos - part.start
  <2>1. (IF inside THEN r.pos - part.start ELSE part.cursor) \in Nat
    BY <1>4, <1>7
  <2>2. part' = [start |-> part.start, size |-> part.size,
                 cursor |-> IF inside THEN r.pos - part.start ELSE part.cursor, needReset |-> FALSE]
    BY <1>1, <1>3 DEF PartialReaders
  <2>3. ~lost' => inside
    BY <1>8
  <2> HIDE DEF inside
  <2> QED
    BY <1>4, <2>1, <2>2, <2>3 DEF PartialReaders
<1>10. lost' \in BOOLEAN
  BY <1>1
<1>11. Types'
  <2>1. expected' \in Nat
    BY <1>1, <1>7, <1>8, <1>10
  <2> QED
    BY <1>1, <1>3, <1>7, <1>9, <1>10, <2>1 DEF Types, Size
<1>12. CursorInv'
  <2>1. CASE r.ok
    BY <1>1, <1>7, <1>8, <2>1 DEF CursorInv
  <2>2. CASE ~r.ok
    <3>1. cursor' = cursor /\ blk' = blk
      BY <1>1, <1>7, <2>2
    <3>2. lost'
      BY <1>1, <2>2
    <3> QED
      BY <3>1, <3>2 DEF StackInv, CursorInv
  <2> QED
    BY <2>1, <2>2
<1>13. PlaceInv'
  <2> SUFFICES ASSUME ~lost' PROVE expected' = blk' /\ blk' = part'.start + part'.cursor
    BY DEF PlaceInv
  <2>1. expected' = r.pos /\ blk' = r.pos /\ part'.start = part.start /\ part'.cursor = r.pos - part.start
    BY <1>1, <1>8, <1>9
  <2> QED
    BY <1>4, <1>7, <2>1
<1>14. LastInv'
  <2>1. last'.op = "seek" /\ last'.pos = r.pos /\ last'.ideal = Ideal(req) /\ last'.lost = lost'
    BY <1>1 DEF Seeked
  <2> QED
    BY <1>8, <2>1 DEF LastInv, ReadsAreRight, SeeksAreRight
<1> QED
  BY <1>11, <1>12, <1>13, <1>14 DEF StackInv

LEMMA ReadPartKeeps ==
  ASSUME StackInv, NEW want \in Nat, NEW failing \in 0..2, ReadPart(want, failing)
  PROVE  StackInv' /\ LastInv'
<1> DEFINE s    == IF part.needReset
                   THEN OptSeek(StartAt(part.start))
                   ELSE [ok |-> TRUE, pos |-> part.start + part.cursor,
                         blk |-> blk, cursor |-> cursor, end |-> end]
           c    == s.pos - part.start
           most == Clip(want, c)
           r    == OptRead(s.blk, s.cursor, most, failing)
           done == c >= part.size
           data == IF done THEN <<>> ELSE r.data
           from == IF part.needReset THEN part.start ELSE expected
<1>1. /\ part # None /\ (lost => part.needReset)
      /\ blk' = IF done THEN s.blk ELSE r.blk
      /\ cursor' = IF done THEN s.cursor ELSE r.cursor
      /\ end' = s.end
      /\ part' = [part EXCEPT !.needReset = FALSE, !.cursor = c + Len(data)]
      /\ lost' = (~done /\ ~r.ok)
      /\ expected' = IF lost' THEN 0 ELSE from + Len(data)
      /\ last' = Readed(from, want, done \/ r.ok, data)
  BY DEF ReadPart
<1>2. /\ blk \in Nat /\ expected \in Nat /\ lost \in BOOLEAN /\ part \in PartialReaders
      /\ cursor \in Nat \cup {None} /\ end \in {Size, None} /\ Size \in Nat
      /\ part.start % BS = 0 /\ part.start + part.size <= Size
      /\ ~lost /\ ~part.needReset => expected = blk /\ blk = part.start + part.cursor
      /\ cursor \notin {None, blk} => lost
  BY <1>1, DiskAssumption DEF StackInv, Types, PlaceInv, CursorInv, Size
<1>3. part.start \in Nat /\ part.size \in Nat /\ part.cursor \in Nat /\ part.needReset \in BOOLEAN
  BY <1>2 DEF PartialReaders
\* The reader below is where the read has to begin.
<1>4. /\ s.blk = from /\ s.pos = from /\ from \in Nat /\ part.start <= from
      /\ s.cursor \in {s.blk, None} /\ s.cursor \in Nat \cup {None} /\ s.end \in {Size, None}
  <2>1. CASE part.needReset
    <3> DEFINE req == StartAt(part.start)
               q   == OptSeek(req)
    <3>1. req.whence = "Start" /\ req.off = part.start /\ req \in SeeksOf
      BY <1>3 DEF StartAt, SeeksOf, Whences
    <3>2. SeekHit(req) \/ BlockSeek(blk, req) # None
      BY <1>3, <3>1, NoneAssumption DEF BlockSeek
    <3>3. q.ok
      BY <3>2 DEF OptSeek
    <3>4. /\ q.pos = part.start /\ q.cursor = q.pos /\ q.end \in {Size, None}
          /\ q.pos # q.blk => q.pos % BS # 0
      BY <3>1, <3>3, OptSeekIsRight
    <3>5. s = q /\ from = part.start
      BY <2>1
    <3> HIDE DEF q, s, from
    <3> QED
      BY <1>2, <1>3, <3>4, <3>5
  <2>2. CASE ~part.needReset
    <3>1. ~lost /\ from = expected
      BY <1>1, <2>2
    <3>2. s.blk = blk /\ s.pos = part.start + part.cursor /\ s.cursor = cursor /\ s.end = end
      BY <2>2
    <3> HIDE DEF s, from
    <3> QED
      BY <1>2, <1>3, <2>2, <3>1, <3>2
  <2> QED
    BY <2>1, <2>2
<1> HIDE DEF s, from
<1>5. c \in Nat /\ part.start + c = from
  BY <1>3, <1>4
<1> HIDE DEF c
<1>6. ASSUME Len(data) \in Nat
      PROVE  /\ part' \in PartialReaders /\ part'.start = part.start /\ part'.size = part.size
             /\ part'.needReset = FALSE /\ part'.cursor = c + Len(data)
  <2> DEFINE n == c + Len(data)
  <2>1. n \in Nat
    BY <1>5, <1>6
  <2>2. part' = [part EXCEPT !.needReset = FALSE, !.cursor = n]
    BY <1>1
  <2> HIDE DEF n
  <2>3. part' = [start |-> part.start, size |-> part.size, cursor |-> n, needReset |-> FALSE]
    BY <1>2, <2>2 DEF PartialReaders
  <2>4. part' \in PartialReaders /\ part'.start = part.start /\ part'.size = part.size
        /\ part'.needReset = FALSE /\ part'.cursor = n
    BY <1>3, <2>1, <2>3 DEF PartialReaders
  <2> QED
    BY <2>4 DEF n
<1>7. last'.op = "read" /\ last'.ok = (done \/ r.ok) /\ last'.data = data /\ last'.ideal = from
      /\ last'.limit = part.start + part.size /\ last'.want = want
  BY <1>1 DEF Readed, Limit
\* What a read leaves behind when it returns n bytes.
<1>8. ASSUME NEW n \in Nat, data = Bytes(from, n), Len(data) = n, lost' = FALSE,
             blk' = from + n, cursor' \in {blk', None}, cursor' \in Nat \cup {None},
             n <= want, n > 0 => from + n <= part.start + part.size,
             want > 0 /\ from < part.start + part.size => n > 0
      PROVE  StackInv' /\ LastInv'
  <2> HIDE DEF data, done, r
  <2>1. Len(data) \in Nat
    BY <1>8
  <2>2. /\ part' \in PartialReaders /\ part'.start = part.start /\ part'.size = part.size
        /\ part'.needReset = FALSE /\ part'.cursor = c + n
    BY <1>6, <1>8, <2>1
  <2>3. expected' = from + n /\ expected' \in Nat
    BY <1>1, <1>4, <1>8
  <2>4. blk' \in Nat /\ blk' = part'.start + part'.cursor
    <3>1. blk' = part.start + c + n /\ part'.start = part.start /\ part'.cursor = c + n
      BY <1>5, <1>8, <2>2
    <3> QED
      BY <1>3, <1>5, <1>8, <3>1
  <2>5. Types'
    BY <1>1, <1>2, <1>4, <1>8, <2>2, <2>3, <2>4 DEF Types, Size
  <2>6. CursorInv'
    BY <1>8 DEF CursorInv
  <2>7. PlaceInv'
    BY <1>8, <2>3, <2>4 DEF PlaceInv
  <2>8. LastInv'
    BY <1>7, <1>8 DEF LastInv, ReadsAreRight, SeeksAreRight
  <2> QED
    BY <2>5, <2>6, <2>7, <2>8 DEF StackInv
<1>9. CASE done
  <2>1. data = Bytes(from, 0) /\ Len(data) = 0
    BY <1>9, NoBytes
  <2>2. lost' = FALSE /\ blk' = from + 0 /\ cursor' \in {blk', None} /\ cursor' \in Nat \cup {None}
    <3>1. lost' = FALSE
      BY <1>1, <1>9
    <3>2. blk' = s.blk /\ cursor' = s.cursor
      BY <1>1, <1>9
    <3>3. blk' = from + 0
      BY <1>4, <3>2
    <3> QED
      BY <1>4, <3>1, <3>2, <3>3
  <2>3. ~(from < part.start + part.size)
    BY <1>3, <1>4, <1>5, <1>9
  <2>4. 0 \in Nat /\ 0 <= want /\ ~(0 > 0)
    OBVIOUS
  <2> HIDE DEF data, done, r, most
  <2> QED
    BY <1>8, <2>1, <2>2, <2>3, <2>4
<1>10. CASE ~done
  <2>1. most \in Nat /\ most <= want /\ c + most <= part.size /\ (want > 0 => most > 0)
    BY <1>3, <1>5, <1>10 DEF Clip, Smaller
  <2> HIDE DEF most
  <2>2. /\ r.ok \in BOOLEAN /\ r.blk \in Nat /\ r.cursor \in Nat \cup {None}
        /\ r.ok => \E n \in Nat :
               /\ r.data = Bytes(from, n) /\ Len(r.data) = n
               /\ r.blk = from + n /\ r.cursor \in {r.blk, None} /\ n <= most
               /\ n > 0 => from + n <= Size
               /\ most > 0 /\ from < Size => n > 0
        /\ ~r.ok => /\ Len(r.data) = 0
                    /\ r.cursor \notin {None, r.blk} => r.cursor % BS # 0
    <3>1. s.blk \in Nat /\ s.cursor \in Nat \cup {None} /\ s.cursor \in {s.blk, None} /\ s.blk = from
      BY <1>4
    <3> HIDE DEF s
    <3> QED
      BY <2>1, <3>1, OptReadIsRight
  <2>3. data = r.data /\ blk' = r.blk /\ cursor' = r.cursor /\ lost' = ~r.ok
    BY <1>1, <1>10
  <2> HIDE DEF r, done, data
  <2>4. CASE r.ok
    <3>1. PICK n \in Nat :
               /\ r.data = Bytes(from, n) /\ Len(r.data) = n
               /\ r.blk = from + n /\ r.cursor \in {r.blk, None} /\ n <= most
               /\ n > 0 => from + n <= Size
               /\ most > 0 /\ from < Size => n > 0
      BY <2>2, <2>4
    <3>2. n <= want /\ (n > 0 => from + n <= part.start + part.size)
      BY <1>3, <1>4, <1>5, <2>1, <3>1
    <3>3. want > 0 /\ from < part.start + part.size => n > 0
      BY <1>2, <1>3, <1>4, <2>1, <3>1
    <3>4. data = Bytes(from, n) /\ Len(data) = n /\ lost' = FALSE /\ blk' = from + n
          /\ cursor' \in {blk', None} /\ cursor' \in Nat \cup {None}
      BY <2>2, <2>3, <2>4, <3>1
    <3> QED
      BY <1>8, <3>2, <3>3, <3>4
  <2>5. CASE ~r.ok
    <3>1. lost' = TRUE /\ expected' = 0
      BY <1>1, <2>3, <2>5
    <3>2. CursorInv' /\ PlaceInv'
      BY <2>2, <2>3, <2>5, <3>1 DEF CursorInv, PlaceInv
    <3>3. LastInv'
      BY <1>7, <1>10, <2>5 DEF LastInv, ReadsAreRight, SeeksAreRight
    <3>4. Types'
      <4>1. Len(data) \in Nat
        BY <2>2, <2>3, <2>5
      <4>2. part' \in PartialReaders /\ part'.start = part.start /\ part'.size = part.size
        BY <1>6, <4>1
      <4> QED
        BY <1>1, <1>2, <1>4, <2>2, <2>3, <3>1, <4>2 DEF Types, Size
    <3> QED
      BY <3>2, <3>3, <3>4 DEF StackInv
  <2> QED
    BY <2>2, <2>4, <2>5
<1> QED
  BY <1>9, <1>10

-------------------------------------------------------------------------------
(* The theorems.  They are about clients that seek from the end only to the end *)
(* itself, which those of this program do, and partitions that end on the disk. *)

SeeksOnlyToTheEnd   == EndOffsets \subseteq {0}
PartitionsAreInside == \A w \in Windows : w[1] + w[2] <= Size

LEMMA StackInvariant ==
  ASSUME SeeksOnlyToTheEnd, PartitionsAreInside
  PROVE  Spec => [](StackInv /\ LastInv)
<1>1. Init => StackInv /\ LastInv
  <2> SUFFICES ASSUME Init PROVE StackInv /\ LastInv
    OBVIOUS
  <2>1. blk = 0 /\ cursor = None /\ end = None /\ part = None /\ expected = 0 /\ lost = FALSE
    BY DEF Init
  <2>2. Types /\ CursorInv /\ PlaceInv
    BY <2>1 DEF Types, CursorInv, PlaceInv
  <2>3. last.op = "none"
    BY DEF Init
  <2> QED
    BY <2>2, <2>3 DEF StackInv, LastInv, ReadsAreRight, SeeksAreRight
<1>2. StackInv /\ LastInv /\ [Next]_vars => (StackInv /\ LastInv)'
  <2> SUFFICES ASSUME StackInv, LastInv, [Next]_vars PROVE StackInv' /\ LastInv'
    OBVIOUS
  <2>1. ASSUME NEW req \in Seeks, SeekDisk(req) \/ SeekPart(req)
        PROVE  StackInv' /\ LastInv'
    <3>1. req \in SeeksOf
      <4>1. CASE req \in [whence : {"Start"}, off : StartOffsets]
        <5>1. req.off \in Nat /\ req.whence = "Start"
          BY <4>1, InputAssumption
        <5> QED
          BY <4>1, <5>1 DEF SeeksOf, Whences
      <4>2. CASE req \in [whence : {"Current"}, off : CurrentOffsets]
        BY <4>2, InputAssumption DEF SeeksOf, Whences
      <4>3. CASE req \in [whence : {"End"}, off : EndOffsets]
        <5>1. req.off = 0 /\ req.whence = "End"
          BY <4>3 DEF SeeksOnlyToTheEnd
        <5> QED
          BY <4>3, <5>1 DEF SeeksOf, Whences
      <4> QED
        BY <2>1, <4>1, <4>2, <4>3 DEF Seeks
    <3> QED
      BY <2>1, <3>1, SeekDiskKeeps, SeekPartKeeps
  <2>2. ASSUME NEW want \in Lengths, NEW failing \in 0..2,
               ReadDisk(want, failing) \/ ReadPart(want, failing)
        PROVE  StackInv' /\ LastInv'
    <3>1. want \in Nat
      BY InputAssumption
    <3> QED
      BY <2>2, <3>1, ReadDiskKeeps, ReadPartKeeps
  <2>3. ASSUME NEW want \in Lengths, IgnoreWrite(want)
        PROVE  StackInv' /\ LastInv'
    BY <2>3, IgnoreWriteKeeps
  <2>4. ASSUME NEW w \in Windows, OpenPartition(w)
        PROVE  StackInv' /\ LastInv'
    BY <2>4, OpenPartitionKeeps DEF PartitionsAreInside
  <2>5. CASE ClosePartition
    BY <2>5, ClosePartitionKeeps
  <2>6. CASE UNCHANGED vars
    BY <2>6 DEF vars, StackInv, Types, CursorInv, PlaceInv, Size, LastInv, ReadsAreRight, SeeksAreRight
  <2> QED
    BY <2>1, <2>2, <2>3, <2>4, <2>5, <2>6 DEF Next
<1> QED
  BY <1>1, <1>2, PTL DEF Spec

\* Every variable keeps its type: no position is ever negative.
THEOREM ReadersTypeCorrect ==
  ASSUME SeeksOnlyToTheEnd, PartitionsAreInside
  PROVE  Spec => []TypeOK
<1>1. StackInv => TypeOK
  BY DiskAssumption DEF StackInv, Types, TypeOK, Size
<1> QED
  BY <1>1, StackInvariant, PTL

\* The cached cursor of OptimizedSeek is wrong only in the middle of a block, so
\* no seek to the start of one is skipped that has to be made.
THEOREM StaleCursorsAreUnaligned ==
  ASSUME SeeksOnlyToTheEnd, PartitionsAreInside
  PROVE  Spec => []StaleCursorIsUnaligned
<1>1. StackInv => StaleCursorIsUnaligned
  BY DEF StackInv, CursorInv, StaleCursorIsUnaligned
<1> QED
  BY <1>1, StackInvariant, PTL

\* A read through the whole stack returns the bytes at the client's position, also
\* after failures, for blocks, disks, partitions and buffers of every size.
THEOREM EveryReadIsRight ==
  ASSUME SeeksOnlyToTheEnd, PartitionsAreInside
  PROVE  Spec => []ReadsAreRight
BY StackInvariant, PTL DEF LastInv

\* A seek through the whole stack leads to where the client wants to be.
THEOREM EverySeekIsRight ==
  ASSUME SeeksOnlyToTheEnd, PartitionsAreInside
  PROVE  Spec => []SeeksAreRight
BY StackInvariant, PTL DEF LastInv
===============================================================================
