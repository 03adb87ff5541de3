--------------------------- MODULE Discovery_proofs ---------------------------
(***************************************************************************)
(* The walk over the descriptors, for buffers and answers of every size:   *)
(* between two turns of the loop the driver has noted exactly the          *)
(* descriptors in front of the offset, and the loop cannot end before the  *)
(* last one that fits.                                                     *)
(***************************************************************************)
EXTENDS Discovery, FiniteSetTheorems, TLAPS

Data  == {d.data : d \in Descriptors} \cup {None}
Flags == {FromBits(d.data) : d \in Descriptors} \cup {None}
Info  == [locking : Flags, opal_v2 : Data, enterprise : Data]

-------------------------------------------------------------------------------
(* Where a descriptor begins. *)

BytesBefore(ds, k) ==
  {byte \in (1..(k - 1)) \X (1..259) : byte[2] <= 4 + ds[byte[1]].len}

LEMMA UpTo ==
  ASSUME NEW n \in Nat
  PROVE  IsFiniteSet(1..n) /\ Cardinality(1..n) = n
<1>1. IsFiniteSet(1..n) /\ Cardinality(1..n) = IF 1 > n THEN 0 ELSE n - 1 + 1
  BY FS_Interval
<1> QED
  BY <1>1

LEMMA BytesAreFinite ==
  ASSUME NEW ds, NEW k \in Nat
  PROVE  IsFiniteSet(BytesBefore(ds, k)) /\ Cardinality(BytesBefore(ds, k)) \in Nat
<1>1. IsFiniteSet(1..(k - 1)) /\ IsFiniteSet(1..259)
  <2>1. k - 1 \in Int /\ 1 \in Int /\ 259 \in Int
    OBVIOUS
  <2>2. IsFiniteSet(1..(k - 1))
    BY <2>1, FS_Interval
  <2>3. IsFiniteSet(1..259)
    BY <2>1, FS_Interval
  <2> QED
    BY <2>2, <2>3
<1>2. IsFiniteSet((1..(k - 1)) \X (1..259))
  BY <1>1, FS_Product
<1>3. BytesBefore(ds, k) \in SUBSET ((1..(k - 1)) \X (1..259))
  BY DEF BytesBefore
<1> QED
  BY <1>2, <1>3, FS_Subset, FS_CardinalityType

LEMMA FirstStart ==
  ASSUME NEW ds
  PROVE  StartOf(ds, 1) = FirstOffset
<1>1. BytesBefore(ds, 1) = {}
  BY DEF BytesBefore
<1>2. Cardinality(BytesBefore(ds, 1)) = 0
  BY <1>1, FS_EmptySet
<1> QED
  BY <1>2 DEF StartOf, BytesBefore, FirstOffset

LEMMA NextStart ==
  ASSUME NEW ds, NEW k \in Nat, 1 <= k, ds[k].len \in 0..255
  PROVE  StartOf(ds, k + 1) = StartOf(ds, k) + ds[k].len + 4 /\ StartOf(ds, k) \in Nat
<1> DEFINE size == 4 + ds[k].len
           own  == {k} \X (1..size)
<1>0. size \in Nat /\ size <= 259
  OBVIOUS
<1>1. BytesBefore(ds, k + 1) = BytesBefore(ds, k) \cup own
  <2>1. ASSUME NEW b \in BytesBefore(ds, k + 1) PROVE b \in BytesBefore(ds, k) \cup own
    BY <2>1 DEF BytesBefore
  <2>2. ASSUME NEW b \in BytesBefore(ds, k) PROVE b \in BytesBefore(ds, k + 1)
    BY <2>2 DEF BytesBefore
  <2>3. ASSUME NEW b \in own PROVE b \in BytesBefore(ds, k + 1)
    BY <2>3 DEF BytesBefore
  <2> QED
    BY <2>1, <2>2, <2>3
<1>2. BytesBefore(ds, k) \cap own = {}
  BY DEF BytesBefore
<1>3. IsFiniteSet(own) /\ Cardinality(own) = size
  <2> HIDE DEF size
  <2>1. IsFiniteSet({k}) /\ Cardinality({k}) = 1
    BY FS_Singleton
  <2>2. IsFiniteSet(1..size) /\ Cardinality(1..size) = size
    BY <1>0, UpTo
  <2>3. IsFiniteSet(own) /\ Cardinality(own) = Cardinality({k}) * Cardinality(1..size)
    BY <2>1, <2>2, FS_Product
  <2>4. Cardinality(own) = 1 * size
    BY <2>1, <2>2, <2>3
  <2> QED
    BY <1>0, <2>3, <2>4
<1>4. IsFiniteSet(BytesBefore(ds, k)) /\ Cardinality(BytesBefore(ds, k)) \in Nat
  BY BytesAreFinite
<1>5. Cardinality(BytesBefore(ds, k + 1)) = Cardinality(BytesBefore(ds, k)) + size
  <2> HIDE DEF own, size
  <2>1. Cardinality(BytesBefore(ds, k) \cup own) =
          Cardinality(BytesBefore(ds, k)) + Cardinality(own) - Cardinality(BytesBefore(ds, k) \cap own)
    BY <1>3, <1>4, FS_Union
  <2>2. Cardinality(BytesBefore(ds, k) \cap own) = 0
    BY <1>2, FS_EmptySet
  <2> DEFINE before == BytesBefore(ds, k)
  <2>3. Cardinality(BytesBefore(ds, k + 1)) = Cardinality(before \cup own)
    BY <1>1
  <2>4. Cardinality(before) \in Nat /\ Cardinality(own) = size /\ Cardinality(before \cap own) = 0
    BY <1>3, <1>4, <2>2
  <2>5. Cardinality(before \cup own) = Cardinality(before) + Cardinality(own) - Cardinality(before \cap own)
    BY <2>1
  <2> HIDE DEF before
  <2>6. Cardinality(before \cup own) = Cardinality(before) + size
    BY <1>0, <2>4, <2>5
  <2> QED
    BY <2>3, <2>6 DEF before
<1>6. StartOf(ds, k + 1) = FirstOffset + Cardinality(BytesBefore(ds, k + 1))
  BY DEF StartOf, BytesBefore
<1>7. StartOf(ds, k) = FirstOffset + Cardinality(BytesBefore(ds, k))
  BY DEF StartOf, BytesBefore
<1> QED
  BY <1>0, <1>4, <1>5, <1>6, <1>7 DEF FirstOffset

LEMMA StartsGrow ==
  ASSUME NEW ds, NEW k \in Nat, NEW n \in Nat, k <= n
  PROVE  StartOf(ds, k) <= StartOf(ds, n) /\ StartOf(ds, k) \in Nat /\ StartOf(ds, n) \in Nat
<1>1. BytesBefore(ds, k) \in SUBSET BytesBefore(ds, n)
  BY DEF BytesBefore
<1>2. /\ IsFiniteSet(BytesBefore(ds, n)) /\ Cardinality(BytesBefore(ds, n)) \in Nat
      /\ Cardinality(BytesBefore(ds, k)) \in Nat
  BY BytesAreFinite
<1>3. Cardinality(BytesBefore(ds, k)) <= Cardinality(BytesBefore(ds, n))
  BY <1>1, <1>2, FS_Subset
<1> QED
  BY <1>2, <1>3 DEF StartOf, BytesBefore, FirstOffset

-------------------------------------------------------------------------------
(* The invariant. *)

Absent(ds, code, k) == \A j \in 1..Len(ds) : j <= k => ds[j].code # code

\* The features of the first k descriptors are remembered, and no others.
Noted(ds, inf, k) ==
  /\ \A j \in 1..Len(ds) : j <= k =>
        /\ ds[j].code = "LOCKING" => inf.locking = FromBits(ds[j].data)
        /\ ds[j].code = "ENTERPRISE" => inf.enterprise = ds[j].data
        /\ ds[j].code = "OPAL_V2" => inf.opal_v2 = ds[j].data
  /\ Absent(ds, "LOCKING", k) => inf.locking = None
  /\ Absent(ds, "ENTERPRISE", k) => inf.enterprise = None
  /\ Absent(ds, "OPAL_V2", k) => inf.opal_v2 = None

AnswerInv ==
  /\ answer \in Seq(Descriptors)
  /\ \A i, j \in 1..Len(answer) :
        i # j /\ answer[i].code = answer[j].code => answer[i].code = "OTHER"

Types ==
  /\ pc \in {"recv", "walk", "new", "ready", "panic", "Io", "IncompatibleVersion",
             "Unsupported"}
  /\ offset \in Nat /\ (offset = 0 \/ FirstOffset <= offset) /\ offset <= BufLen + 258
  /\ index \in Nat /\ info \in Info
  /\ device.is_eprise \in BOOLEAN /\ device.was_locked \in BOOLEAN

AtIndex ==
  /\ 1 <= index /\ FirstOffset <= offset
  /\ index <= Len(answer) => offset = StartOf(answer, index)
  /\ index > Len(answer) => EndOf(answer) <= offset

WalkInv ==
  /\ AnswerInv /\ Types
  /\ pc = "recv" => info = NoInfo
  /\ pc = "walk" => AtIndex /\ Noted(answer, info, index - 1)
  /\ pc \in {"new", "ready", "Unsupported"} /\ Fits => Noted(answer, info, Len(answer))
  /\ pc = "ready" =>
        /\ info.enterprise # None \/ info.opal_v2 # None
        /\ device.com_id = ComId
        /\ device.is_eprise <=> info.enterprise # None
        /\ device.was_locked <=> info.locking # None /\ "LOCKED" \in info.locking
  /\ pc = "Unsupported" => info.enterprise = None /\ info.opal_v2 = None

LEMMA HereIsKnown ==
  ASSUME AnswerInv, index \in Nat, 1 <= index
  PROVE  /\ Here.code \in {"LOCKING", "ENTERPRISE", "OPAL_V2", "OTHER"}
         /\ Here.len \in 0..255
         /\ Here.code # "OTHER" => Here \in Descriptors /\ index <= Len(answer)
         /\ index <= Len(answer) => Here = answer[index] /\ Here \in Descriptors
         /\ Here \in Descriptors /\ Here.code # "OTHER" => Here.len # 0 /\ Here.data # None
<1>1. CASE index <= Len(answer)
  <2>1. index \in 1..Len(answer) /\ Here = answer[index]
    BY <1>1 DEF Here, AnswerInv
  <2>2. Here \in Descriptors
    BY <2>1 DEF AnswerInv
  <2> QED
    BY <1>1, <2>1, <2>2, DescriptorAssumption
<1>2. CASE ~(index <= Len(answer))
  <2>1. Here = Padding
    BY <1>2 DEF Here
  <2> QED
    BY <1>2, <2>1, DescriptorAssumption DEF Padding
<1> QED
  BY <1>1, <1>2

\* A turn of the loop comes to where the next descriptor begins.
LEMMA AdvanceGoesOn ==
  ASSUME AnswerInv, index \in Nat, offset \in Nat, AtIndex,
         answer' = answer, index' = index + 1, offset' = offset + Here.len + 4
  PROVE  AtIndex'
<1>1. Here.len \in 0..255 /\ (index <= Len(answer) => Here = answer[index])
  BY HereIsKnown DEF AtIndex
<1>2. Len(answer) \in Nat
  BY DEF AnswerInv
<1> DEFINE len == Here.len
<1>3. offset' = offset + len + 4
  OBVIOUS
<1>4. len \in 0..255
  BY <1>1
<1> HIDE DEF len
<1>5. offset' \in Nat /\ offset <= offset'
  BY <1>3, <1>4
<1>6. 1 <= index + 1 /\ FirstOffset <= offset'
  BY <1>5 DEF AtIndex, FirstOffset
<1>7. CASE index <= Len(answer)
  <2>1. offset' = StartOf(answer, index + 1)
    BY <1>1, <1>7, NextStart DEF AtIndex
  <2>2. index + 1 > Len(answer) => index = Len(answer)
    BY <1>2, <1>7
  <2>3. index + 1 > Len(answer) => EndOf(answer) <= offset'
    <3> SUFFICES ASSUME index = Len(answer) PROVE EndOf(answer) <= offset'
      BY <2>2
    <3>1. offset' = EndOf(answer)
      BY <2>1 DEF EndOf
    <3> QED
      BY <1>5, <3>1
  <2>4. EndOf(answer)' = EndOf(answer) /\ StartOf(answer, index)' = StartOf(answer, index + 1)
    BY DEF EndOf, StartOf
  <2> QED
    BY <2>1, <2>3, <2>4, <1>6 DEF AtIndex
<1>8. CASE ~(index <= Len(answer))
  <2>1. EndOf(answer) <= offset /\ EndOf(answer) \in Nat
    <3>1. StartOf(answer, Len(answer) + 1) \in Nat
      BY <1>2, StartsGrow
    <3> QED
      BY <1>2, <1>8, <3>1 DEF AtIndex, EndOf
  <2>2. EndOf(answer) <= offset'
    BY <1>5, <2>1
  <2>3. EndOf(answer)' = EndOf(answer)
    BY DEF EndOf, StartOf
  <2>4. ~(index + 1 <= Len(answer))
    BY <1>2, <1>8
  <2> QED
    BY <1>2, <2>2, <2>3, <2>4, <1>6 DEF AtIndex
<1> QED
  BY <1>7, <1>8

\* What the loop still has in front of it is inside the buffer if all of it is.
LEMMA InsideIfFits ==
  ASSUME AnswerInv, index \in Nat, offset \in Nat, AtIndex, Fits, index <= Len(answer)
  PROVE  offset + Here.len + 4 <= BufLen
<1>1. Here.len \in 0..255 /\ Here = answer[index]
  BY HereIsKnown DEF AtIndex
<1>2. Len(answer) \in Nat
  BY DEF AnswerInv
<1>3. StartOf(answer, index + 1) = offset + Here.len + 4
  BY <1>1, NextStart DEF AtIndex
<1>4. StartOf(answer, index + 1) <= StartOf(answer, Len(answer) + 1)
  BY <1>2, StartsGrow
<1>5. StartOf(answer, Len(answer) + 1) <= BufLen /\ StartOf(answer, Len(answer) + 1) \in Nat
  BY <1>2, StartsGrow DEF Fits, EndOf
<1> DEFINE next == StartOf(answer, index + 1)
           last == StartOf(answer, Len(answer) + 1)
<1>6. next \in Nat /\ last \in Nat /\ next <= last /\ last <= BufLen
  BY <1>2, <1>4, <1>5, StartsGrow
<1> HIDE DEF next, last
<1>7. next <= BufLen
  BY <1>6, BufferAssumption
<1> QED
  BY <1>3, <1>7 DEF next

LEMMA NotingFields ==
  ASSUME info \in Info, NEW d \in Descriptors
  PROVE  /\ Noting(d) \in Info
         /\ Noting(d).locking = IF d.code = "LOCKING" THEN FromBits(d.data) ELSE info.locking
         /\ Noting(d).enterprise = IF d.code = "ENTERPRISE" THEN d.data ELSE info.enterprise
         /\ Noting(d).opal_v2 = IF d.code = "OPAL_V2" THEN d.data ELSE info.opal_v2
<1>1. d.data \in Data /\ FromBits(d.data) \in Flags
  BY Zenon DEF Data, Flags
<1>2. CASE d.code = "LOCKING"
  BY <1>1, <1>2 DEF Noting, Info
<1>3. CASE d.code = "ENTERPRISE"
  BY <1>1, <1>3 DEF Noting, Info
<1>4. CASE d.code = "OPAL_V2"
  BY <1>1, <1>4 DEF Noting, Info
<1>5. CASE d.code \notin {"LOCKING", "ENTERPRISE", "OPAL_V2"}
  BY <1>5 DEF Noting, Info
<1> QED
  BY <1>2, <1>3, <1>4, <1>5

LEMMA NotedOneMore ==
  ASSUME AnswerInv, info \in Info, index \in 1..Len(answer), Noted(answer, info, index - 1)
  PROVE  Noted(answer, Noting(answer[index]), index)
<1> DEFINE d == answer[index]
           new == Noting(d)
<1>1. d \in Descriptors /\ Len(answer) \in Nat /\ index \in Nat
  BY DEF AnswerInv
<1>2. /\ new.locking = IF d.code = "LOCKING" THEN FromBits(d.data) ELSE info.locking
      /\ new.enterprise = IF d.code = "ENTERPRISE" THEN d.data ELSE info.enterprise
      /\ new.opal_v2 = IF d.code = "OPAL_V2" THEN d.data ELSE info.opal_v2
  BY <1>1, NotingFields
<1>3. ASSUME NEW j \in 1..Len(answer), j <= index
      PROVE  /\ answer[j].code = "LOCKING" => new.locking = FromBits(answer[j].data)
             /\ answer[j].code = "ENTERPRISE" => new.enterprise = answer[j].data
             /\ answer[j].code = "OPAL_V2" => new.opal_v2 = answer[j].data
  <2>1. CASE j = index
    BY <1>2, <2>1
  <2>2. CASE j # index
    <3>1. j <= index - 1
      BY <1>1, <1>3, <2>2
    <3>2. answer[j].code # "OTHER" => answer[j].code # d.code
      BY <2>2 DEF AnswerInv
    <3>3. /\ answer[j].code = "LOCKING" => info.locking = FromBits(answer[j].data)
          /\ answer[j].code = "ENTERPRISE" => info.enterprise = answer[j].data
          /\ answer[j].code = "OPAL_V2" => info.opal_v2 = answer[j].data
      BY <3>1 DEF Noted
    <3> QED
      BY <1>2, <3>2, <3>3
  <2> QED
    BY <2>1, <2>2
<1>4. ASSUME NEW code, Absent(answer, code, index)
      PROVE  Absent(answer, code, index - 1) /\ d.code # code
  BY <1>1, <1>4 DEF Absent
<1>5. /\ Absent(answer, "LOCKING", index) => new.locking = None
      /\ Absent(answer, "ENTERPRISE", index) => new.enterprise = None
      /\ Absent(answer, "OPAL_V2", index) => new.opal_v2 = None
  BY <1>2, <1>4 DEF Noted
<1> HIDE DEF new
<1>6. Noted(answer, new, index)
  BY <1>3, <1>5 DEF Noted
<1> QED
  BY <1>6 DEF new

\* Behind the last descriptor there is nothing to note.
LEMMA NotedAll ==
  ASSUME AnswerInv, NEW k \in Nat, NEW m \in Nat, NEW inf,
         k >= Len(answer), m >= Len(answer), Noted(answer, inf, k)
  PROVE  Noted(answer, inf, m)
<1>1. \A j \in 1..Len(answer) : j <= k /\ j <= m
  BY DEF AnswerInv
<1> QED
  BY <1>1 DEF Noted, Absent

-------------------------------------------------------------------------------
(* The steps. *)

LEMMA InitWalk == Init => WalkInv
<1> SUFFICES ASSUME Init PROVE WalkInv
  OBVIOUS
<1>1. AnswerInv
  <2>1. answer \in UNION {[1..n -> Descriptors] : n \in 0..MaxDescriptors}
    BY DEF Init, Answers
  <2>2. PICK n \in 0..MaxDescriptors : answer \in [1..n -> Descriptors]
    BY <2>1
  <2>3. answer \in Seq(Descriptors)
    BY <2>2
  <2> QED
    BY <2>3 DEF Init, Answers, AnswerInv
<1>2. NoInfo \in Info
  BY DEF NoInfo, Info, Data, Flags
<1>3. Types
  BY <1>2, BufferAssumption DEF Init, Types, NoDevice
<1> QED
  BY <1>1, <1>3 DEF WalkInv, Init

\* What a step that changes neither the answer nor the notes leaves alone.
LEMMA NotesStay ==
  ASSUME WalkInv, UNCHANGED <<answer, info>>
  PROVE  /\ AnswerInv' /\ (Fits' <=> Fits)
         /\ \A k : Noted(answer, info, k)' <=> Noted(answer, info, k)
<1>1. answer' = answer /\ info' = info
  OBVIOUS
<1>2. AnswerInv'
  BY <1>1 DEF WalkInv, AnswerInv
<1>3. Fits' <=> Fits
  BY <1>1 DEF Fits, EndOf, StartOf
<1> QED
  BY <1>1, <1>2, <1>3

LEMMA RecvWalk == WalkInv /\ Recv => WalkInv'
<1> SUFFICES ASSUME WalkInv, Recv PROVE WalkInv'
  OBVIOUS
<1>1. Len(answer) \in Nat /\ info = NoInfo /\ answer' = answer /\ info' = info
      /\ pc' = "walk" /\ index' = 1 /\ offset' = FirstOffset /\ device' = device
  BY DEF WalkInv, AnswerInv, Recv
<1>2. AnswerInv'
  BY NotesStay DEF Recv
<1>3. Types'
  BY <1>1, BufferAssumption DEF WalkInv, Types, FirstOffset
<1>4. AtIndex'
  <2>1. StartOf(answer, 1) = FirstOffset
    BY FirstStart
  <2>2. StartOf(answer, index)' = FirstOffset
    BY <1>1, <2>1 DEF StartOf
  <2>3. 1 > Len(answer) => Len(answer) = 0
    BY <1>1
  <2>4. 1 > Len(answer) => EndOf(answer) = FirstOffset
    BY <2>1, <2>3 DEF EndOf
  <2>5. EndOf(answer)' = EndOf(answer) /\ FirstOffset <= FirstOffset
    BY <1>1 DEF EndOf, StartOf, FirstOffset
  <2> QED
    BY <1>1, <2>2, <2>4, <2>5 DEF AtIndex
<1>5. Noted(answer, info, index - 1)'
  <2>1. \A j \in 1..Len(answer) : ~(j <= 0)
    OBVIOUS
  <2>2. Noted(answer, NoInfo, 0)
    BY <2>1 DEF Noted, NoInfo
  <2>3. index' - 1 = 0
    BY <1>1
  <2> QED
    BY <1>1, <2>2, <2>3
<1> QED
  BY <1>1, <1>2, <1>3, <1>4, <1>5 DEF WalkInv

LEMMA RecvFailsWalk == WalkInv /\ RecvFails => WalkInv'
<1> SUFFICES ASSUME WalkInv, RecvFails PROVE WalkInv'
  OBVIOUS
<1>1. pc' \in {"Io", "IncompatibleVersion"}
      /\ UNCHANGED <<answer, offset, index, info, device>>
  BY DEF RecvFails
<1>2. AnswerInv'
  BY <1>1, NotesStay
<1>3. Types'
  BY <1>1 DEF WalkInv, Types
<1> QED
  BY <1>1, <1>2, <1>3 DEF WalkInv

\* A step that only ends the loop, with everything noted if it all fits.
LEMMA LoopEnds ==
  ASSUME WalkInv, pc = "walk", pc' = "new",
         UNCHANGED <<answer, offset, index, info, device>>,
         Fits => index > Len(answer)
  PROVE  WalkInv'
<1>1. AnswerInv' /\ (Fits' <=> Fits)
  BY NotesStay
<1>2. Types'
  BY DEF WalkInv, Types
<1>3. Fits => Noted(answer, info, Len(answer))
  <2> SUFFICES ASSUME Fits PROVE Noted(answer, info, Len(answer))
    OBVIOUS
  <2>1. AnswerInv /\ Len(answer) \in Nat /\ index \in Nat /\ 1 <= index
        /\ Noted(answer, info, index - 1)
    BY DEF WalkInv, AnswerInv, Types, AtIndex
  <2>2. index - 1 \in Nat /\ index - 1 >= Len(answer) /\ Len(answer) >= Len(answer)
    BY <2>1
  <2> QED
    BY <2>1, <2>2, NotedAll
<1>4. Noted(answer, info, Len(answer))' <=> Noted(answer, info, Len(answer))
  OBVIOUS
<1> QED
  BY <1>1, <1>2, <1>3, <1>4 DEF WalkInv

\* Behind the last descriptor the walk reads zeroes, which mean nothing.
LEMMA BehindTheLast ==
  ASSUME AnswerInv, index \in Nat, ~(index <= Len(answer))
  PROVE  Here.code = "OTHER" /\ Here.len = 0 /\ Noting(Here) = info
<1>1. Here = Padding
  BY DEF Here
<1> QED
  BY <1>1 DEF Padding, Noting

LEMMA TurnWalk ==
  ASSUME WalkInv, Walk, Wants(Here) < BufLen
  PROVE  WalkInv'
<1>1. /\ pc = "walk" /\ pc' = "walk" /\ More /\ info' = Noting(Here) /\ answer' = answer
      /\ offset' = offset + Here.len + 4 /\ index' = index + 1 /\ device' = device
  BY DEF Walk, Advance
<1>2. AnswerInv /\ AtIndex /\ Noted(answer, info, index - 1) /\ info \in Info
      /\ index \in Nat /\ offset \in Nat /\ 1 <= index /\ Len(answer) \in Nat
  BY <1>1 DEF WalkInv, Types, AtIndex, AnswerInv
<1>3. Here.len \in 0..255 /\ (index <= Len(answer) => Here = answer[index] /\ Here \in Descriptors)
  BY <1>2, HereIsKnown
<1>4. AnswerInv'
  BY <1>1, <1>2 DEF AnswerInv
<1>5. AtIndex'
  BY <1>1, <1>2, AdvanceGoesOn
<1>6. info' \in Info /\ Noted(answer, info', index)
  <2>1. CASE index <= Len(answer)
    <3>1. index \in 1..Len(answer)
      BY <1>2, <2>1
    <3>2. Noting(Here) \in Info
      BY <1>2, <1>3, <2>1, NotingFields
    <3>3. Noted(answer, Noting(answer[index]), index)
      BY <1>2, <3>1, NotedOneMore
    <3> QED
      BY <1>1, <1>3, <2>1, <3>2, <3>3
  <2>2. CASE ~(index <= Len(answer))
    <3>1. info' = info
      BY <1>1, <1>2, <2>2, BehindTheLast
    <3>2. index - 1 \in Nat /\ index - 1 >= Len(answer) /\ index >= Len(answer)
      BY <1>2, <2>2
    <3>3. Noted(answer, info, index)
      BY <1>2, <3>2, NotedAll
    <3> QED
      BY <1>2, <3>1, <3>3
  <2> QED
    BY <2>1, <2>2
<1>7. Types'
  <2> DEFINE len == Here.len
  <2>1. offset' = offset + len + 4 /\ len \in 0..255 /\ offset < BufLen - 1
    BY <1>1, <1>3 DEF More
  <2> HIDE DEF len
  <2>2. offset' \in Nat /\ offset' <= BufLen + 258
    BY <1>2, <2>1, BufferAssumption
  <2>3. FirstOffset <= offset'
    BY <1>5 DEF AtIndex
  <2>4. index' \in Nat
    BY <1>1, <1>2
  <2> QED
    BY <1>1, <1>6, <2>2, <2>3, <2>4 DEF WalkInv, Types
<1>8. Noted(answer, info, index - 1)'
  <2>1. index' - 1 = index
    BY <1>1, <1>2
  <2> QED
    BY <1>1, <1>6, <2>1
<1> QED
  BY <1>1, <1>4, <1>5, <1>7, <1>8 DEF WalkInv

LEMMA CutWalk ==
  ASSUME WalkInv, Walk, ~(Wants(Here) < BufLen)
  PROVE  WalkInv'
<1>1. /\ pc = "walk" /\ pc' = "new" /\ answer' = answer
      /\ UNCHANGED <<offset, index, device>>
      /\ info' = IF Here.code = "LOCKING" THEN info ELSE Noting(Here)
  BY DEF Walk
<1>2. AnswerInv /\ AtIndex /\ info \in Info
      /\ index \in Nat /\ offset \in Nat /\ 1 <= index /\ Len(answer) \in Nat
  BY <1>1 DEF WalkInv, Types, AtIndex, AnswerInv
<1>3. Fits => index > Len(answer)
  <2> SUFFICES ASSUME Fits, index <= Len(answer) PROVE FALSE
    BY <1>2
  <2>1. offset + Here.len + 4 <= BufLen
    BY <1>2, InsideIfFits
  <2> DEFINE len == Here.len
  <2>2. len \in 0..255 /\ (Here.code = "LOCKING" => len # 0)
    BY <1>2, HereIsKnown
  <2>3. offset + len + 4 <= BufLen
    BY <2>1
  <2> HIDE DEF len
  <2>4. offset + 3 < BufLen
    BY <1>2, <2>2, <2>3, BufferAssumption
  <2>5. Here.code = "LOCKING" => offset + 4 < BufLen
    BY <1>2, <2>2, <2>3, BufferAssumption
  <2> QED
    BY <2>4, <2>5 DEF Wants
<1>4. CASE index <= Len(answer)
  <2>1. ~Fits
    BY <1>2, <1>3, <1>4
  <2>2. Noting(Here) \in Info
    <3>1. Here \in Descriptors
      BY <1>2, <1>4, HereIsKnown
    <3> QED
      BY <1>2, <3>1, NotingFields
  <2>3. info' \in Info
    BY <1>1, <1>2, <2>2
  <2>4. Types'
    BY <1>1, <2>3 DEF WalkInv, Types
  <2>5. AnswerInv' /\ ~Fits'
    BY <1>1, <1>2, <2>1 DEF AnswerInv, Fits, EndOf, StartOf
  <2> QED
    BY <1>1, <2>4, <2>5 DEF WalkInv
<1>5. CASE ~(index <= Len(answer))
  <2>1. info' = info
    BY <1>1, <1>2, <1>5, BehindTheLast
  <2> QED
    BY <1>1, <1>3, <2>1, LoopEnds
<1> QED
  BY <1>4, <1>5

LEMMA WalkEndsWalk == WalkInv /\ WalkEnds => WalkInv'
<1> SUFFICES ASSUME WalkInv, WalkEnds PROVE WalkInv'
  OBVIOUS
<1>1. pc = "walk" /\ pc' = "new" /\ ~More /\ UNCHANGED <<answer, offset, index, info, device>>
  BY DEF WalkEnds
<1>2. AnswerInv /\ AtIndex /\ index \in Nat /\ offset \in Nat /\ 1 <= index /\ Len(answer) \in Nat
  BY <1>1 DEF WalkInv, Types, AtIndex, AnswerInv
<1>3. Fits => index > Len(answer)
  <2> SUFFICES ASSUME Fits, index <= Len(answer) PROVE FALSE
    BY <1>2
  <2> DEFINE len == Here.len
  <2>1. offset + len + 4 <= BufLen
    BY <1>2, InsideIfFits
  <2>2. len \in 0..255
    BY <1>2, HereIsKnown
  <2>3. ~(offset < BufLen - 1)
    BY <1>1 DEF More
  <2> HIDE DEF len
  <2> QED
    BY <1>2, <2>1, <2>2, <2>3, BufferAssumption
<1> QED
  BY <1>1, <1>3, LoopEnds

LEMMA WalkPanicsWalk == WalkInv /\ WalkPanics => WalkInv'
<1> SUFFICES ASSUME WalkInv, WalkPanics PROVE WalkInv'
  OBVIOUS
<1>1. pc' = "panic" /\ UNCHANGED <<answer, offset, index, info, device>>
  BY DEF WalkPanics
<1>2. AnswerInv'
  BY <1>1, NotesStay
<1>3. Types'
  BY <1>1 DEF WalkInv, Types
<1> QED
  BY <1>1, <1>2, <1>3 DEF WalkInv

LEMMA NewWalk == WalkInv /\ New => WalkInv'
<1> SUFFICES ASSUME WalkInv, New PROVE WalkInv'
  OBVIOUS
<1>1. pc = "new" /\ UNCHANGED <<answer, offset, index, info>>
  BY DEF New
<1>2. AnswerInv' /\ (Fits' <=> Fits)
  BY <1>1, NotesStay
<1>3. Fits => Noted(answer, info, Len(answer))
  BY <1>1 DEF WalkInv
<1>4. Noted(answer, info, Len(answer))' <=> Noted(answer, info, Len(answer))
  BY <1>1
<1>5. CASE info.enterprise = None /\ info.opal_v2 = None
  <2>1. pc' = "Unsupported" /\ device' = device
    BY <1>5 DEF New
  <2>2. Types'
    BY <1>1, <2>1 DEF WalkInv, Types
  <2>3. info.enterprise' = None /\ info.opal_v2' = None
    BY <1>1, <1>5
  <2> QED
    BY <1>2, <1>3, <1>4, <2>1, <2>2, <2>3 DEF WalkInv
<1>6. CASE ~(info.enterprise = None /\ info.opal_v2 = None)
  <2>1. pc' = "ready"
        /\ device' = [com_id |-> ComId,
                      is_eprise |-> info.enterprise # None,
                      was_locked |-> info.locking # None /\ "LOCKED" \in info.locking]
    BY <1>6 DEF New
  <2>2. /\ device'.com_id = ComId
        /\ device'.is_eprise \in BOOLEAN /\ (device'.is_eprise <=> info.enterprise # None)
        /\ device'.was_locked \in BOOLEAN
        /\ (device'.was_locked <=> info.locking # None /\ "LOCKED" \in info.locking)
    BY <2>1, Zenon
  <2>3. Types'
    BY <1>1, <2>1, <2>2 DEF WalkInv, Types
  <2>4. ComId' = ComId /\ info' = info
    BY <1>1 DEF ComId
  <2> QED
    BY <1>2, <1>3, <1>4, <1>6, <2>1, <2>2, <2>3, <2>4 DEF WalkInv
<1> QED
  BY <1>5, <1>6

LEMMA WalkInvariant == Spec => []WalkInv
<1>1. Init => WalkInv
  BY InitWalk
<1>2. WalkInv /\ [Next]_vars => WalkInv'
  <2> SUFFICES ASSUME WalkInv, [Next]_vars PROVE WalkInv'
    OBVIOUS
  <2>1. CASE Recv
    BY <2>1, RecvWalk
  <2>2. CASE RecvFails
    BY <2>2, RecvFailsWalk
  <2>3. CASE Walk
    BY <2>3, TurnWalk, CutWalk
  <2>4. CASE WalkPanics
    BY <2>4, WalkPanicsWalk
  <2>5. CASE WalkEnds
    BY <2>5, WalkEndsWalk
  <2>6. CASE New
    BY <2>6, NewWalk
  <2>7. CASE UNCHANGED vars
    BY <2>7 DEF vars, WalkInv, AnswerInv, Types, AtIndex, Noted, Absent, Fits, EndOf, StartOf, ComId
  <2> QED
    BY <2>1, <2>2, <2>3, <2>4, <2>5, <2>6, <2>7 DEF Next
<1> QED
  BY <1>1, <1>2, PTL DEF Spec

-------------------------------------------------------------------------------
(* The theorems. *)

\* The offset never leaves the buffer by more than one descriptor, whatever the
\* drive sends.
THEOREM DiscoveryTypeCorrect == Spec => []TypeOK
<1>1. WalkInv => TypeOK
  <2> SUFFICES ASSUME WalkInv PROVE TypeOK
    OBVIOUS
  <2>1. offset \in {0} \cup FirstOffset..(BufLen + 258)
    BY BufferAssumption DEF WalkInv, Types, FirstOffset
  <2> QED
    BY <2>1 DEF WalkInv, Types, TypeOK
<1> QED
  BY <1>1, WalkInvariant, PTL

LEMMA IsOffered ==
  ASSUME NEW code, NEW x
  PROVE  x \in Offered(code) <=>
           \E j \in 1..Len(answer) : answer[j].code = code /\ x = answer[j].data
BY DEF Offered

\* Of an answer that fits, what is remembered of a feature is what the drive offered.
LEMMA RememberedIsOffered ==
  ASSUME AnswerInv, Noted(answer, info, Len(answer))
  PROVE  /\ \A flags \in Offered("LOCKING") : info.locking = FromBits(flags)
         /\ Offered("LOCKING") = {} => info.locking = None
         /\ \A c \in Offered("ENTERPRISE") : info.enterprise = c /\ c # None
         /\ Offered("ENTERPRISE") = {} => info.enterprise = None
         /\ \A c \in Offered("OPAL_V2") : info.opal_v2 = c /\ c # None
         /\ Offered("OPAL_V2") = {} => info.opal_v2 = None
<1>1. ASSUME NEW j \in 1..Len(answer)
      PROVE  j <= Len(answer) /\ (answer[j].code # "OTHER" => answer[j].data # None)
  <2>1. answer[j] \in Descriptors
    BY <1>1 DEF AnswerInv
  <2> QED
    BY <1>1, <2>1, DescriptorAssumption
<1>2. ASSUME NEW code, Offered(code) = {}
      PROVE  Absent(answer, code, Len(answer))
  BY <1>2, IsOffered DEF Absent
<1>3. \A flags \in Offered("LOCKING") : info.locking = FromBits(flags)
  BY <1>1, IsOffered DEF Noted
<1>4. \A c \in Offered("ENTERPRISE") : info.enterprise = c /\ c # None
  BY <1>1, IsOffered DEF Noted
<1>5. \A c \in Offered("OPAL_V2") : info.opal_v2 = c /\ c # None
  BY <1>1, IsOffered DEF Noted
<1> QED
  BY <1>2, <1>3, <1>4, <1>5 DEF Noted

\* The driver talks to a ComID the drive offered, the Enterprise one if there is
\* one, and gives up only on a drive that offers none, for answers of any length.
THEOREM ComIdIsTheDrives == Spec => []ComIdIsOffered
<1>1. WalkInv => ComIdIsOffered
  <2> SUFFICES ASSUME WalkInv PROVE ComIdIsOffered
    OBVIOUS
  <2>1. AnswerInv
    BY DEF WalkInv
  <2>2. ASSUME pc = "ready", Fits
        PROVE  /\ device.is_eprise <=> Offered("ENTERPRISE") # {}
               /\ device.com_id \in Offered(IF device.is_eprise THEN "ENTERPRISE" ELSE "OPAL_V2")
    <3>1. Noted(answer, info, Len(answer))
      BY <2>2 DEF WalkInv
    <3>2. /\ info.enterprise # None \/ info.opal_v2 # None
          /\ device.com_id = ComId
          /\ device.is_eprise <=> info.enterprise # None
      BY <2>2 DEF WalkInv
    <3>3. info.enterprise # None => info.enterprise \in Offered("ENTERPRISE")
      BY <2>1, <3>1, RememberedIsOffered
    <3>4. info.opal_v2 # None => info.opal_v2 \in Offered("OPAL_V2")
      BY <2>1, <3>1, RememberedIsOffered
    <3>5. info.enterprise = None => Offered("ENTERPRISE") = {}
      BY <2>1, <3>1, RememberedIsOffered
    <3>6. CASE info.enterprise # None
      BY <3>2, <3>3, <3>6 DEF ComId
    <3>7. CASE info.enterprise = None
      BY <3>2, <3>4, <3>5, <3>7 DEF ComId
    <3> QED
      BY <3>6, <3>7
  <2>3. ASSUME pc = "Unsupported", Fits
        PROVE  Offered("ENTERPRISE") \cup Offered("OPAL_V2") = {}
    <3>1. Noted(answer, info, Len(answer)) /\ info.enterprise = None /\ info.opal_v2 = None
      BY <2>3 DEF WalkInv
    <3>2. Offered("ENTERPRISE") = {} /\ Offered("OPAL_V2") = {}
      BY <2>1, <3>1, RememberedIsOffered
    <3> QED
      BY <3>2
  <2> QED
    BY <2>2, <2>3 DEF ComIdIsOffered
<1> QED
  BY <1>1, WalkInvariant, PTL

\* was_locked() is the drive's own LOCKED flag, as long as the drive sets no flag
\* the crate has no name for.
THEOREM LockedIsKnown ==
  ASSUME \A d \in Descriptors : d.code = "LOCKING" => d.data \subseteq Known
  PROVE  Spec => []LockedIsSeen
<1>1. WalkInv => LockedIsSeen
  <2> SUFFICES ASSUME WalkInv, pc = "ready", Fits
      PROVE  device.was_locked <=> \E flags \in Offered("LOCKING") : "LOCKED" \in flags
    BY DEF LockedIsSeen
  <2>1. AnswerInv /\ Noted(answer, info, Len(answer))
        /\ (device.was_locked <=> info.locking # None /\ "LOCKED" \in info.locking)
    BY DEF WalkInv
  <2>2. ASSUME NEW flags \in Offered("LOCKING") PROVE info.locking = flags /\ flags # None
    <3>1. PICK j \in 1..Len(answer) : answer[j].code = "LOCKING" /\ flags = answer[j].data
      BY <2>2, IsOffered
    <3>2. answer[j] \in Descriptors
      BY <2>1 DEF AnswerInv
    <3>3. flags \subseteq Known /\ flags # None
      BY <3>1, <3>2, DescriptorAssumption
    <3> QED
      BY <2>1, <3>3, RememberedIsOffered DEF FromBits
  <2>3. Offered("LOCKING") = {} => info.locking = None
    BY <2>1, RememberedIsOffered
  <2> QED
    BY <2>1, <2>2, <2>3
<1> QED
  BY <1>1, WalkInvariant, PTL
===============================================================================
