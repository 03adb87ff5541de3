------------------------------ MODULE Discovery ------------------------------
(***************************************************************************)
(* SecureDevice::new: one Level 0 discovery of a drive, the walk over the  *)
(* feature descriptors in its answer, and what the driver remembers of it: *)
(* the ComID to talk to, whether the drive is an Enterprise one, and       *)
(* whether it was locked.                                                  *)
(*                                                                         *)
(* The answer is the sequence of descriptors the drive put into the buffer *)
(* from byte 48 on; what follows them is zero.  A descriptor is its code,  *)
(* the length of its data and the data the driver looks at: the flags of   *)
(* byte 4 of the Locking feature, or a base ComID.                         *)
(***************************************************************************)
EXTENDS Naturals, Sequences, FiniteSets

CONSTANTS None,
          BufLen,          \* bytes of the receive buffer
          Descriptors,     \* feature descriptors a drive may send
          MaxDescriptors,  \* how many of them, at most
          Overflow         \* how far they may reach past the buffer

Known == {"LOCKING_SUPPORTED", "LOCKING_ENABLED", "LOCKED", "MEDIA_ENCRYPTION",
          "MBR_ENABLED", "MBR_DONE"}        \* LockingFlags
FirstOffset == 48

ASSUME BufferAssumption == BufLen \in Nat /\ BufLen > FirstOffset
ASSUME DescriptorAssumption ==
    \A d \in Descriptors :
        /\ d.code \in {"LOCKING", "ENTERPRISE", "OPAL_V2", "OTHER"} /\ d.len \in 0..255
        /\ d.code # "OTHER" => d.len # 0 /\ d.data # None

VARIABLES
    answer,     \* the descriptors in the buffer
    versionOk,  \* whether its version field is 1
    pc,         \* "recv", "walk", "new", "ready" or how it failed
    offset,     \* the local of recv_info
    index,      \* the number of the descriptor at offset
    info,       \* SecureDeviceInfo
    device      \* com_id, is_eprise and was_locked of SecureDevice

vars == <<answer, versionOk, pc, offset, index, info, device>>

NoInfo   == [locking |-> None, opal_v2 |-> None, enterprise |-> None]
Padding  == [code |-> "OTHER", len |-> 0, data |-> None]
NoDevice == [com_id |-> None, is_eprise |-> FALSE, was_locked |-> FALSE]

\* Where descriptor number k begins: behind the bytes of those before it, a byte
\* being the number of its descriptor and its place in that.
StartOf(ds, k) ==
    FirstOffset + Cardinality({byte \in (1..(k - 1)) \X (1..259) :
                                  byte[2] <= 4 + ds[byte[1]].len})
EndOf(ds) == StartOf(ds, Len(ds) + 1)

\* A drive has one descriptor of each feature, in an order of its own.  Those
\* of a drive with many features need not all fit into the buffer.
Answers ==
    {ds \in UNION {[1..n -> Descriptors] : n \in 0..MaxDescriptors} :
        /\ \A i, j \in 1..Len(ds) :
              i # j /\ ds[i].code = ds[j].code => ds[i].code = "OTHER"
        /\ EndOf(ds) <= BufLen + Overflow}
Fits == EndOf(answer) <= BufLen

Init ==
    /\ answer \in Answers /\ versionOk \in BOOLEAN
    /\ pc = "recv" /\ offset = 0 /\ index = 0
    /\ info = NoInfo /\ device = NoDevice

\* Mutant: the walk starts inside the header.
RecvEarly ==
    /\ pc = "recv" /\ versionOk
    /\ pc' = "walk" /\ offset' = FirstOffset - 4 /\ index' = 1
    /\ UNCHANGED <<answer, versionOk, info, device>>

\* secure_recv and the check of the version.
Recv ==
    /\ pc = "recv" /\ versionOk
    /\ pc' = "walk" /\ offset' = FirstOffset /\ index' = 1
    /\ UNCHANGED <<answer, versionOk, info, device>>

RecvFails ==
    /\ pc = "recv"
    /\ \/ pc' = "Io"
       \/ ~versionOk /\ pc' = "IncompatibleVersion"
    /\ UNCHANGED <<answer, versionOk, offset, index, info, device>>

Here == IF index <= Len(answer) THEN answer[index] ELSE Padding

\* LockingFlags::from_bits knows nothing of a byte with a bit it has no name for.
FromBits(flags) == IF flags \subseteq Known THEN flags ELSE None

\* The last byte of the buffer that is read when the loop looks at a descriptor.
Needs(d) == IF d.code \in {"ENTERPRISE", "OPAL_V2"} THEN offset + 7 ELSE offset + 1

\* Mutant: a descriptor that ends with the buffer is not looked at.
MoreBeforeEnd == offset + Here.len + 4 < BufLen

\* The loop runs while the code of a descriptor is inside the buffer.
More == offset < BufLen - 1

\* Mutant: a feature the driver does not know goes on without the increment.
AdvanceKnown ==
    IF Here.code = "OTHER" THEN UNCHANGED <<offset, index>>
    ELSE offset' = offset + Here.len + 4 /\ index' = index + 1

Advance == offset' = offset + Here.len + 4 /\ index' = index + 1

\* The last byte of the buffer that has to be there for the loop to go on.
Wants(d) == IF d.code = "LOCKING" THEN offset + 4 ELSE offset + 3

\* What is remembered of a descriptor.
Noting(d) ==
    IF d.code = "LOCKING" THEN [info EXCEPT !.locking = FromBits(d.data)]
    ELSE IF d.code = "ENTERPRISE" THEN [info EXCEPT !.enterprise = d.data]
    ELSE IF d.code = "OPAL_V2" THEN [info EXCEPT !.opal_v2 = d.data]
    ELSE info

\* One turn of the loop: note the feature, go to the next descriptor.
Walk ==
    /\ pc = "walk" /\ More /\ Needs(Here) < BufLen
    /\ IF Wants(Here) < BufLen
       THEN info' = Noting(Here) /\ pc' = pc /\ Advance
       ELSE /\ info' = IF Here.code = "LOCKING" THEN info ELSE Noting(Here)
            /\ pc' = "new" /\ UNCHANGED <<offset, index>>
    /\ UNCHANGED <<answer, versionOk, device>>

\* get_com_id indexes past the buffer.
WalkPanics ==
    /\ pc = "walk" /\ More /\ Needs(Here) >= BufLen
    /\ pc' = "panic"
    /\ UNCHANGED <<answer, versionOk, offset, index, info, device>>

WalkEnds ==
    /\ pc = "walk" /\ ~More
    /\ pc' = "new"
    /\ UNCHANGED <<answer, versionOk, offset, index, info, device>>

\* Mutant: the ComID of OPAL 2 comes first.
ComIdOpalFirst == IF info.opal_v2 # None THEN info.opal_v2 ELSE info.enterprise

\* The ComID of an Enterprise drive comes first.
ComId == IF info.enterprise # None THEN info.enterprise ELSE info.opal_v2

\* The rest of new.
New ==
    /\ pc = "new"
    /\ IF info.enterprise = None /\ info.opal_v2 = None
       THEN pc' = "Unsupported" /\ UNCHANGED device
       ELSE /\ pc' = "ready"
            /\ device' = [com_id |-> ComId,
                          is_eprise |-> info.enterprise # None,
                          was_locked |-> info.locking # None /\ "LOCKED" \in info.locking]
    /\ UNCHANGED <<answer, versionOk, offset, index, info>>

Next == Recv \/ RecvFails \/ Walk \/ WalkPanics \/ WalkEnds \/ New

Spec == Init /\ [][Next]_vars /\ WF_vars(Next)

-------------------------------------------------------------------------------
(* Correctness. *)

TypeOK ==
    /\ pc \in {"recv", "walk", "new", "ready", "panic", "Io", "IncompatibleVersion",
               "Unsupported"}
    /\ offset \in {0} \cup FirstOffset..(BufLen + 258) /\ index \in Nat
    /\ device.is_eprise \in BOOLEAN /\ device.was_locked \in BOOLEAN

Offered(code) == {answer[i].data : i \in {j \in 1..Len(answer) : answer[j].code = code}}

\* was_locked() is true of a drive exactly if the drive says so in its Locking
\* feature, wherever in the answer that is: unlock_opal leaves any other drive alone.
LockedIsSeen ==
    pc = "ready" /\ Fits =>
        (device.was_locked <=> \E flags \in Offered("LOCKING") : "LOCKED" \in flags)

\* The driver talks to a ComID the drive offered, and to the Enterprise one if
\* there is one; only a drive that offers neither is Unsupported.
ComIdIsOffered ==
    /\ pc = "ready" /\ Fits =>
          /\ device.is_eprise <=> Offered("ENTERPRISE") # {}
          /\ device.com_id \in Offered(IF device.is_eprise THEN "ENTERPRISE" ELSE "OPAL_V2")
    /\ pc = "Unsupported" /\ Fits => Offered("ENTERPRISE") \cup Offered("OPAL_V2") = {}

\* The walk comes to an end, with a device or an error, also over descriptors
\* without data and a buffer that is full to the last byte; it indexes past the
\* buffer only if the last descriptor does.
DiscoveryEnds ==
    <>(pc \in {"ready", "Io", "IncompatibleVersion", "Unsupported"} \/ (~Fits /\ pc = "panic"))
===============================================================================
