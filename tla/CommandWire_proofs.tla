-------------------------- MODULE CommandWire_proofs --------------------------
(***************************************************************************)
(* Both implementations of SecureProtocol keep its contract, for every     *)
(* protocol and ComID, buffers of every length and whatever the drive says;*)
(* and what send_raw_command sends and receives through them is what was   *)
(* built and what was answered.                                            *)
(*                                                                         *)
(* What the contract needs of the Spec of CommandWire is when calls begin   *)
(* and when the drive speaks; what the wire needs is the contract, and that *)
(* tokens are cut where they were written.                                 *)
(***************************************************************************)
EXTENDS CommandWire, OpalCommand_proofs

PassNext ==
  PassStep \/ (\E c, bytes : Begin(c, bytes)) \/ (\E block : DriveSays(block))

LEMMA WireStepIsPassStep ==
  ASSUME [Next]_vars
  PROVE  [PassNext]_passVars
<1>1. CASE AskSerial \/ SecureSend \/ SecureRecv
  BY <1>1 DEF AskSerial, SecureSend, SecureRecv, PassNext
<1>2. CASE ReplyNotYet \/ ReplyDone
  BY <1>2 DEF ReplyNotYet, ReplyDone, Reply, PassNext
<1>3. CASE PassStep /\ UNCHANGED <<commandVars, wireVars>>
  BY <1>3 DEF PassNext
<1>4. CASE SerialIsKnown \/ BuildCommand \/ ReadResponse \/ CallFails
  BY <1>4 DEF SerialIsKnown, BuildCommand, ReadResponse, CallFails
<1>5. CASE UNCHANGED vars
  BY <1>5 DEF vars
<1> QED
  BY <1>1, <1>2, <1>3, <1>4, <1>5 DEF Next

-------------------------------------------------------------------------------
(* Types, and what a packet and the data behind it mean at each point of a call. *)

Calls   == [op : Ops, protocol : Octet, com_id : ComId]
Blocks  == [protocol : Nat, com_id : Nat, block : Seq(Octet)]

PassTypes ==
  /\ bus \in {"nvme", "ata"}
  /\ pc \in {"idle", "build", "pass", "copy", "return"}
  /\ status \in {"SUCCESS", "DEVICE_ERROR"}
  /\ call \in Calls
  /\ buffer \in Seq(Octet)
  /\ call.op = "recv" => Len(buffer) <= ReturnLen
  /\ return_data \in Seq(Octet \cup {Uninit})
  /\ inbox \in Blocks /\ outbox \in Blocks
  /\ serial \in SerialNumbers \cup {None}

\* The buffer of Identify before the drive has written to it.
Unwritten == [i \in 1..4096 |-> Uninit]

InCall ==
  /\ pc = "pass" =>
        /\ packet = IF bus = "nvme" THEN NvmeCommand ELSE AtaPacket
        /\ return_data = IF bus = "ata" THEN ReturnData
                         ELSE IF call.op = "identify" THEN Unwritten ELSE <<>>
  /\ pc = "copy" =>
        /\ CopiesBack
        /\ call.op = "identify" => SerialNum = DriveSerial
        /\ call.op = "recv" => /\ outbox.protocol = call.protocol /\ outbox.com_id = call.com_id
                               /\ return_data = Transferred(ReturnData, outbox.block)

\* A function on 1..n is a sequence of n elements.
LEMMA TransferredSeq ==
  ASSUME NEW S, NEW memory \in Seq(S), NEW T, NEW data \in Seq(T)
  PROVE  /\ Transferred(memory, data) \in Seq(S \cup T)
         /\ Len(Transferred(memory, data)) = Len(memory)
<1>1. \A i \in 1..Len(memory) : (IF i <= Len(data) THEN data[i] ELSE memory[i]) \in S \cup T
  OBVIOUS
<1>2. Len(memory) \in Nat
  OBVIOUS
<1> QED
  BY <1>1, <1>2 DEF Transferred

LEMMA TransferredFront ==
  ASSUME NEW S, NEW memory \in Seq(S), NEW T, NEW data \in Seq(T), Len(data) <= Len(memory)
  PROVE  \A i \in 1..Len(data) : Transferred(memory, data)[i] = data[i]
<1>1. Len(memory) \in Nat /\ Len(data) \in Nat
  OBVIOUS
<1>2. \A i \in 1..Len(data) : i \in 1..Len(memory) /\ i <= Len(data)
  BY <1>1
<1> QED
  BY <1>2 DEF Transferred

LEMMA ReturnDataSeq ==
  ReturnData \in Seq(Octet) /\ Len(ReturnData) = ReturnLen /\ \A i \in 1..ReturnLen : ReturnData[i] = 0
<1>1. ReturnLen \in Nat
  BY DEF ReturnLen
<1>2. 0 \in Octet
  BY DEF Octet
<1> QED
  BY <1>1, <1>2 DEF ReturnData

LEMMA DwordFields ==
  ASSUME NEW p \in Nat, NEW c \in Nat, c < 65536
  PROVE  /\ ((p * 16777216) + (c * 256)) \div 16777216 = p
         /\ (((p * 16777216) + (c * 256)) \div 256) % 65536 = c
<1>1. ((p * 16777216) + (c * 256)) \div 16777216 = p
  OBVIOUS
<1> DEFINE q == ((p * 16777216) + (c * 256)) \div 256
           r == (p * 65536) + c
<1>2. q = r
  OBVIOUS
<1>3. r % 65536 = c
  OBVIOUS
<1> HIDE DEF q, r
<1>4. q % 65536 = c
  BY <1>2, <1>3
<1> QED
  BY <1>1, <1>4 DEF q

LEMMA CallTypes ==
  ASSUME NEW c \in Calls
  PROVE  /\ c.op \in Ops
         /\ c.protocol \in Nat /\ c.protocol < 256
         /\ c.com_id \in Nat /\ c.com_id < 65536
<1>1. c.op \in Ops /\ c.protocol \in Octet /\ c.com_id \in ComId
  BY DEF Calls
<1>2. \A m \in Octet : m \in Nat /\ m < 256
  BY DEF Octet
<1>3. \A m \in ComId : m \in Nat /\ m < 65536
  <2> DEFINE last == 65535
  <2>1. ComId = 0..last
    BY DEF ComId
  <2>2. last \in Nat /\ last < 65536
    OBVIOUS
  <2> HIDE DEF last
  <2> QED
    BY <2>1, <2>2
<1> QED
  BY <1>1, <1>2, <1>3

\* What the builders of a command set, field by field.
Commands == [opcode : Nat, nsid : Nat, flags : SUBSET {"CDW_10", "CDW_11"},
             cdw_10 : Int, cdw_11 : Int]

LEMMA CommandFields ==
  ASSUME NEW opcode \in Nat
  PROVE  /\ Command(opcode) \in Commands
         /\ Command(opcode).opcode = opcode
BY DEF Command, Commands

LEMMA Cdw10Fields ==
  ASSUME NEW c \in Commands, NEW dword \in Int
  PROVE  /\ Cdw10(c, dword) \in Commands
         /\ Cdw10(c, dword).opcode = c.opcode /\ Cdw10(c, dword).cdw_10 = dword
         /\ Cdw10(c, dword).flags = c.flags \cup {"CDW_10"}
         /\ Cdw10(c, dword).cdw_11 = c.cdw_11
BY DEF Cdw10, Commands

LEMMA Cdw11Fields ==
  ASSUME NEW c \in Commands, NEW dword \in Int
  PROVE  /\ Cdw11(c, dword) \in Commands
         /\ Cdw11(c, dword).opcode = c.opcode /\ Cdw11(c, dword).cdw_11 = dword
         /\ Cdw11(c, dword).flags = c.flags \cup {"CDW_11"}
         /\ Cdw11(c, dword).cdw_10 = c.cdw_10
BY DEF Cdw11, Commands

LEMMA NvmeCommandFields ==
  ASSUME call \in Calls, buffer \in Seq(Octet)
  PROVE  /\ call.op = "identify" => NvmeCommand.opcode = 6
         /\ call.op # "identify" =>
               /\ NvmeCommand.opcode = Direction(call.op)
               /\ NvmeCommand.cdw_10 = (call.protocol * 16777216) + (call.com_id * 256)
               /\ NvmeCommand.cdw_11 = Len(buffer)
               /\ {"CDW_10", "CDW_11"} \subseteq NvmeCommand.flags
<1>1. CASE call.op = "identify"
  <2>1. 6 \in Nat /\ 1 \in Int
    OBVIOUS
  <2>2. Command(6) \in Commands /\ Command(6).opcode = 6
    BY <2>1, CommandFields, Zenon
  <2>3. Cdw10(Command(6), 1).opcode = 6
    BY <2>1, <2>2, Cdw10Fields, Zenon
  <2> QED
    BY <1>1, <2>3 DEF NvmeCommand
<1>2. CASE call.op # "identify"
  <2> DEFINE dword == (call.protocol * 16777216) + (call.com_id * 256)
             c0 == Command(Direction(call.op))
             c1 == Cdw10(c0, dword)
             c2 == Cdw11(c1, Len(buffer))
  <2>1. dword \in Int /\ Len(buffer) \in Int /\ Direction(call.op) \in Nat
    BY CallTypes DEF Direction
  <2>2. c0 \in Commands /\ c0.opcode = Direction(call.op)
    BY <2>1, CommandFields
  <2> HIDE DEF dword, c0
  <2>3. c1 \in Commands /\ c1.opcode = Direction(call.op) /\ c1.cdw_10 = dword
        /\ "CDW_10" \in c1.flags
    BY <2>1, <2>2, Cdw10Fields
  <2> HIDE DEF c1, c2
  <2>4. c2.opcode = c1.opcode /\ c2.cdw_10 = c1.cdw_10 /\ c2.cdw_11 = Len(buffer)
    BY <2>1, <2>3, Cdw11Fields DEF c2
  <2>5. c2.flags = c1.flags \cup {"CDW_11"}
    BY <2>1, <2>3, Cdw11Fields DEF c2
  <2>6. NvmeCommand = c2
    BY <1>2 DEF NvmeCommand, c0, c1, c2, dword
  <2> QED
    BY <1>2, <2>3, <2>4, <2>5, <2>6 DEF dword
<1> QED
  BY <1>1, <1>2

\* The registers and dwords mean the call they were made of.
LEMMA RequestIsTheCall ==
  ASSUME PassTypes, InCall, pc = "pass"
  PROVE  /\ Request.op = call.op
         /\ call.op # "identify" => Request.protocol = call.protocol /\ Request.com_id = call.com_id
<1>0. call \in Calls /\ buffer \in Seq(Octet) /\ bus \in {"nvme", "ata"}
  BY Zenon DEF PassTypes
<1>1. /\ call.op \in Ops
      /\ call.protocol \in Nat /\ call.protocol < 256
      /\ call.com_id \in Nat /\ call.com_id < 65536
  BY <1>0, CallTypes
<1>2. CASE bus = "nvme" /\ call.op = "identify"
  <2>1. packet.opcode = 6
    BY <1>2, NvmeCommandFields DEF InCall, PassTypes
  <2> QED
    BY <1>2, <2>1 DEF Request, NvmeRequest, OpOf
<1>3. CASE bus = "nvme" /\ call.op # "identify"
  <2> DEFINE dword == (call.protocol * 16777216) + (call.com_id * 256)
  <2>1. /\ packet.opcode = Direction(call.op)
        /\ packet.cdw_10 = dword /\ "CDW_10" \in packet.flags
    BY <1>3, NvmeCommandFields DEF InCall, PassTypes
  <2>2. dword \div 16777216 = call.protocol /\ (dword \div 256) % 65536 = call.com_id
    <3> DEFINE p == call.protocol
               c == call.com_id
    <3>1. p \in Nat /\ c \in Nat /\ c < 65536
      BY <1>1
    <3> HIDE DEF p, c
    <3>2. /\ ((p * 16777216) + (c * 256)) \div 16777216 = p
          /\ (((p * 16777216) + (c * 256)) \div 256) % 65536 = c
      BY <3>1, DwordFields
    <3> QED
      BY <3>2 DEF p, c
  <2>3. Request.protocol = call.protocol /\ Request.com_id = call.com_id
    BY <1>3, <2>1, <2>2 DEF Request, NvmeRequest, Dword
  <2>4. Request.op = call.op
    BY <1>1, <1>3, <2>1 DEF Request, NvmeRequest, OpOf, Direction, Ops
  <2> QED
    BY <2>3, <2>4
<1>4. CASE bus = "ata"
  <2>1. CASE call.op = "send"
    BY <1>1, <1>4, <2>1 DEF InCall, AtaPacket, AtaCommandBlock, Request, AtaRequest, OpOf
  <2>2. CASE call.op = "recv"
    BY <1>1, <1>4, <2>2 DEF InCall, AtaPacket, AtaCommandBlock, Request, AtaRequest, OpOf
  <2>3. CASE call.op = "identify"
    BY <1>1, <1>4, <2>3 DEF InCall, AtaPacket, AtaCommandBlock, Request, AtaRequest, OpOf
  <2> QED
    BY <1>1, <2>1, <2>2, <2>3 DEF Ops
<1> QED
  BY <1>0, <1>2, <1>3, <1>4
-------------------------------------------------------------------------------
(* The buffers. *)

\* What goes to the drive is the data of a send, and zeroes behind it at most.
LEMMA OutBufferSeq ==
  ASSUME NEW data \in Seq(Octet)
  PROVE  OutBuffer(data) \in Seq(Octet) /\ Contract!Whole(OutBuffer(data), data)
<1> DEFINE n == RoundedLen(Len(data))
<1>1. n \in Nat /\ Len(data) <= n
  BY DEF RoundedLen, Sector
<1>2. 0 \in Octet
  BY DEF Octet
<1> HIDE DEF n
<1>3. \A i \in 1..n : (IF i <= Len(data) THEN data[i] ELSE 0) \in Octet
  BY <1>1, <1>2
<1>4. OutBuffer(data) = [i \in 1..n |-> IF i <= Len(data) THEN data[i] ELSE 0]
  BY DEF OutBuffer, n
<1>5. OutBuffer(data) \in Seq(Octet)
  BY <1>1, <1>3, <1>4
<1>6. Len(OutBuffer(data)) = n
  BY <1>1, <1>4
<1> QED
  BY <1>1, <1>4, <1>5, <1>6 DEF Contract!Whole

LEMMA OutgoingIsWhole ==
  ASSUME PassTypes, InCall, pc = "pass", call.op = "send"
  PROVE  Outgoing \in Seq(Octet) /\ Contract!Whole(Outgoing, buffer)
<1>1. call \in Calls /\ buffer \in Seq(Octet) /\ bus \in {"nvme", "ata"}
  BY Zenon DEF PassTypes
<1>2. CASE bus = "ata"
  <2>1. Outgoing = OutBuffer(buffer)
    BY <1>2 DEF Outgoing, InCall, AtaPacket
  <2> QED
    BY <1>1, <2>1, OutBufferSeq
<1>3. CASE bus = "nvme"
  <2>1. packet = NvmeCommand
    BY <1>3 DEF InCall
  <2>2. packet.cdw_11 = Len(buffer) /\ "CDW_11" \in packet.flags
    BY <1>1, <2>1, NvmeCommandFields
  <2>3. Outgoing = SubSeq(buffer, 1, Len(buffer))
    BY <1>3, <2>2 DEF Outgoing, Dword
  <2>4. SubSeq(buffer, 1, Len(buffer)) = buffer
    BY <1>1
  <2> QED
    BY <1>1, <2>3, <2>4 DEF Contract!Whole
<1> QED
  BY <1>1, <1>2, <1>3

\* What a receive of an NVMe drive leaves in the caller's buffer.
LEMMA NvmeFills ==
  ASSUME PassTypes, InCall, pc = "pass", bus = "nvme", call.op = "recv"
  PROVE  /\ Transferred(buffer, Allowed(outbox.block)) \in Seq(Octet)
         /\ Len(Transferred(buffer, Allowed(outbox.block))) = Len(buffer)
         /\ Contract!Filled(Transferred(buffer, Allowed(outbox.block)), buffer, outbox.block)
<1> DEFINE answer == outbox.block
           n == Lesser(Len(answer), Len(buffer))
           new == Transferred(buffer, SubSeq(answer, 1, n))
<1>1. call \in Calls /\ buffer \in Seq(Octet) /\ outbox \in Blocks
  BY Zenon DEF PassTypes
<1>2. answer \in Seq(Octet)
  BY <1>1 DEF Blocks
<1>3. packet = NvmeCommand
  BY DEF InCall
<1>4. packet.cdw_11 = Len(buffer) /\ "CDW_11" \in packet.flags
  BY <1>1, <1>3, NvmeCommandFields
<1>5. Allowed(answer) = SubSeq(answer, 1, n)
  BY <1>4 DEF Allowed, Dword
<1> HIDE DEF answer
<1>6. n \in Nat /\ n <= Len(answer) /\ n <= Len(buffer) /\ (n = Len(answer) \/ n = Len(buffer))
  BY <1>1, <1>2 DEF Lesser
<1> HIDE DEF n
<1>7. SubSeq(answer, 1, n) \in Seq(Octet)
  BY <1>2, <1>6
<1>8. Len(SubSeq(answer, 1, n)) = n /\ \A i \in 1..n : SubSeq(answer, 1, n)[i] = answer[i]
  BY <1>2, <1>6
<1>9. /\ new \in Seq(Octet) /\ Len(new) = Len(buffer)
      /\ \A i \in 1..Len(buffer) :
            new[i] = IF i <= n THEN SubSeq(answer, 1, n)[i] ELSE buffer[i]
  <2>1. new \in Seq(Octet \cup Octet)
    BY <1>1, <1>7, TransferredSeq
  <2>2. Octet \cup Octet = Octet
    OBVIOUS
  <2>3. Len(new) = Len(buffer)
    BY <1>1, <1>7, TransferredSeq
  <2>4. \A i \in 1..Len(buffer) :
            new[i] = IF i <= n THEN SubSeq(answer, 1, n)[i] ELSE buffer[i]
    BY <1>8 DEF Transferred
  <2> QED
    BY <2>1, <2>2, <2>3, <2>4
<1> HIDE DEF new
<1>10. Contract!Filled(new, buffer, answer)
  BY <1>1, <1>2, <1>6, <1>8, <1>9 DEF Contract!Filled
<1> QED
  BY <1>5, <1>9, <1>10 DEF new, answer

\* What do_io copies of its zeroed buffer fills the caller's.
LEMMA AtaFills ==
  ASSUME NEW old \in Seq(Octet), Len(old) <= ReturnLen, NEW answer \in Seq(Octet),
         NEW from, from = Transferred(ReturnData, answer),
         NEW new, new = [i \in 1..Len(old) |->
                            IF i <= Lesser(Len(from), Len(old)) THEN from[i] ELSE old[i]]
  PROVE  new \in Seq(Octet) /\ Len(new) = Len(old) /\ Contract!Filled(new, old, answer)
<1>1. /\ from \in Seq(Octet) /\ Len(from) = ReturnLen
      /\ \A i \in 1..ReturnLen : from[i] = IF i <= Len(answer) THEN answer[i] ELSE 0
  <2>1. from \in Seq(Octet \cup Octet)
    BY ReturnDataSeq, TransferredSeq
  <2>2. Octet \cup Octet = Octet
    OBVIOUS
  <2>3. Len(from) = ReturnLen
    BY ReturnDataSeq, TransferredSeq
  <2>4. \A i \in 1..ReturnLen : from[i] = IF i <= Len(answer) THEN answer[i] ELSE ReturnData[i]
    BY ReturnDataSeq DEF Transferred
  <2> QED
    BY <2>1, <2>2, <2>3, <2>4, ReturnDataSeq
<1>2. Len(old) \in Nat /\ \A i \in 1..Len(old) : i \in 1..ReturnLen
  BY DEF ReturnLen
<1>3. Lesser(Len(from), Len(old)) = Len(old)
  <2> DEFINE m == Len(from)
             n == Len(old)
  <2>1. m \in Nat /\ n \in Nat /\ n <= m
    <3>1. m = ReturnLen
      BY <1>1
    <3>2. ReturnLen \in Nat
      BY DEF ReturnLen
    <3> QED
      BY <1>2, <3>1, <3>2
  <2> HIDE DEF m, n
  <2>2. Lesser(m, n) = n
    BY <2>1 DEF Lesser
  <2> QED
    BY <2>2 DEF m, n
<1>4. new = [i \in 1..Len(old) |-> from[i]]
  BY <1>3, <1>2
<1>5. \A i \in 1..Len(old) : from[i] \in Octet
  BY <1>1, <1>2
<1>6. new \in Seq(Octet) /\ Len(new) = Len(old)
  BY <1>2, <1>4, <1>5
<1> QED
  BY <1>1, <1>2, <1>4, <1>6 DEF Contract!Filled

\* The serial number is cut out of what Identify left in memory.
LEMMA SwappedTwice == \A i \in 1..20 : Swapped(i) \in 1..20 /\ Swapped(Swapped(i)) = i
BY DEF Swapped

LEMMA SerialIsSeq == \A i \in 1..20 : DriveSerial[i] \in Octet
BY SerialAssumption DEF SerialNumbers

LEMMA IdentifyDataIsSeq ==
  /\ IdentifyData \in Seq(Octet) /\ Len(IdentifyData) = 40
  /\ bus = "nvme" => \A i \in 1..20 : IdentifyData[i + 4] = DriveSerial[i]
  /\ bus # "nvme" => \A i \in 1..20 : IdentifyData[20 + i] = DriveSerial[Swapped(i)]
<1>0. 0 \in Octet
  BY DEF Octet
<1>1. CASE bus = "nvme"
  <2>1. IdentifyData = [i \in 1..40 |-> IF i \in 5..24 THEN DriveSerial[i - 4] ELSE 0]
    BY <1>1 DEF IdentifyData
  <2>2. \A i \in 5..24 : DriveSerial[i - 4] \in Octet
    BY SerialIsSeq
  <2> QED
    BY <1>0, <1>1, <2>1, <2>2
<1>2. CASE bus # "nvme"
  <2>1. IdentifyData = [i \in 1..40 |-> IF i \in 21..40 THEN DriveSerial[Swapped(i - 20)] ELSE 0]
    BY <1>2 DEF IdentifyData
  <2>2. \A i \in 21..40 : DriveSerial[Swapped(i - 20)] \in Octet
    BY SerialIsSeq, SwappedTwice
  <2> QED
    BY <1>0, <1>2, <2>1, <2>2
<1> QED
  BY <1>1, <1>2

\* The first bytes of the data are the first of the memory afterwards.
LEMMA FrontIs ==
  ASSUME NEW S, NEW memory \in Seq(S), NEW T, NEW data \in Seq(T),
         Len(data) <= Len(memory), NEW i \in Nat, 1 <= i, i <= Len(data)
  PROVE  Transferred(memory, data)[i] = data[i]
BY TransferredFront

LEMMA FourFurther ==
  ASSUME NEW i \in 1..20, NEW n \in Nat, 40 <= n
  PROVE  i + 4 \in Nat /\ 1 <= i + 4 /\ i + 4 <= n
OBVIOUS

LEMMA NvmeSerial ==
  ASSUME NEW S, NEW memory \in Seq(S), NEW data \in Seq(Octet),
         Len(data) <= Len(memory), 40 <= Len(data),
         \A i \in 1..20 : data[i + 4] = DriveSerial[i]
  PROVE  SubSeq(Transferred(memory, data), 5, 24) = DriveSerial
<1> DEFINE after == Transferred(memory, data)
<1>1. after \in Seq(S \cup Octet) /\ Len(after) = Len(memory)
  BY TransferredSeq
<1>2. \A i \in 1..20 : after[i + 4] = data[i + 4]
  <2> TAKE i \in 1..20
  <2>1. Len(data) \in Nat
    OBVIOUS
  <2>2. i + 4 \in Nat /\ 1 <= i + 4 /\ i + 4 <= Len(data)
    BY <2>1, FourFurther
  <2> QED
    BY <2>2, FrontIs
<1> HIDE DEF after
<1>3. SubSeq(after, 5, 24) = [i \in 1..20 |-> after[i + 4]]
  BY <1>1
<1>4. \A i \in 1..20 : after[i + 4] = DriveSerial[i]
  BY <1>2
<1>5. DriveSerial = [i \in 1..20 |-> DriveSerial[i]]
  BY SerialAssumption DEF SerialNumbers
<1> QED
  BY <1>3, <1>4, <1>5 DEF after

LEMMA WordsFit ==
  ASSUME NEW j \in 1..20, NEW n \in Nat, 40 <= n
  PROVE  20 + j \in Nat /\ 1 <= 20 + j /\ 20 + j <= n
OBVIOUS

LEMMA AtaSerial ==
  ASSUME NEW data \in Seq(Octet), 40 <= Len(data), Len(data) <= ReturnLen,
         \A i \in 1..20 : data[20 + i] = DriveSerial[Swapped(i)]
  PROVE  [i \in 1..20 |-> Transferred(ReturnData, data)[20 + Swapped(i)]] = DriveSerial
<1>1. ReturnData \in Seq(Octet) /\ Len(data) <= Len(ReturnData)
  BY ReturnDataSeq
<1> DEFINE after == Transferred(ReturnData, data)
<1>2. \A i \in 1..20 : after[20 + Swapped(i)] = DriveSerial[i]
  <2> TAKE i \in 1..20
  <2> DEFINE j == Swapped(i)
  <2>1. j \in 1..20 /\ Swapped(j) = i
    BY SwappedTwice
  <2> HIDE DEF j
  <2>2. 20 + j \in Nat /\ 1 <= 20 + j /\ 20 + j <= Len(data)
    <3>1. Len(data) \in Nat
      OBVIOUS
    <3> QED
      BY <2>1, <3>1, WordsFit
  <2>3. after[20 + j] = data[20 + j]
    BY <1>1, <2>2, FrontIs
  <2>4. data[20 + j] = DriveSerial[i]
    BY <2>1
  <2> QED
    BY <2>3, <2>4 DEF j
<1>3. DriveSerial = [i \in 1..20 |-> DriveSerial[i]]
  BY SerialAssumption DEF SerialNumbers
<1> QED
  BY <1>2, <1>3

-------------------------------------------------------------------------------
(* The invariant: one lemma per action, with the step of the contract it is. *)

LEMMA BeginStep ==
  ASSUME PassTypes, InCall, NEW c, NEW bytes, Begin(c, bytes)
  PROVE  PassTypes' /\ InCall' /\ Contract!Begin
<1>1. pc = "idle" /\ pc' = "build" /\ call' = c /\ buffer' = bytes /\ result' = None
  BY DEF Begin
<1>2. c \in Calls /\ bytes \in Seq(Octet) /\ (c.op = "recv" => Len(bytes) <= ReturnLen)
  BY DEF Begin, Calls
<1>3. UNCHANGED <<bus, status, return_data, inbox, outbox, serial>>
  BY DEF Begin, driveVars
<1>4. PassTypes'
  BY <1>1, <1>2, <1>3 DEF PassTypes
<1>5. InCall'
  BY <1>1 DEF InCall
<1>6. Contract!Begin
  BY <1>1, <1>3 DEF Contract!Begin, Phase
<1> QED
  BY <1>4, <1>5, <1>6

LEMMA DriveSaysStep ==
  ASSUME PassTypes, InCall, NEW block, DriveSays(block)
  PROVE  PassTypes' /\ InCall' /\ Contract!DriveSpeaks
<1>1. pc = "idle" /\ pc' = "idle"
  BY DEF DriveSays
<1>2. UNCHANGED <<bus, status, return_data, call, buffer, inbox, serial, result>>
  BY DEF DriveSays
<1>3. outbox' \in Blocks
  BY DEF DriveSays, PassTypes, Blocks
<1>4. PassTypes'
  BY <1>1, <1>2, <1>3 DEF PassTypes
<1>5. InCall'
  BY <1>1 DEF InCall
<1>6. Contract!DriveSpeaks
  BY <1>1, <1>2 DEF Contract!DriveSpeaks, Phase
<1> QED
  BY <1>4, <1>5, <1>6

LEMMA BuildStep ==
  ASSUME PassTypes, InCall, BuildNvme \/ BuildAta
  PROVE  PassTypes' /\ InCall' /\ UNCHANGED Contract!vars
<1>1. pc = "build" /\ pc' = "pass"
  BY DEF BuildNvme, BuildAta
<1>2. UNCHANGED <<bus, status, call, buffer, inbox, outbox, serial, result>>
  BY DEF BuildNvme, BuildAta, driveVars
<1>3. UNCHANGED Contract!vars
  BY <1>1, <1>2 DEF Contract!vars, Phase
<1>4. CASE BuildNvme
  <2>1. packet' = NvmeCommand' /\ bus' = "nvme"
    BY <1>2, <1>4 DEF BuildNvme, NvmeCommand
  <2>2. return_data' = IF call'.op = "identify" THEN Unwritten ELSE <<>>
    BY <1>2, <1>4 DEF BuildNvme, Unwritten
  <2>3. return_data' \in Seq(Octet \cup {Uninit})
    <3>1. Unwritten \in Seq(Octet \cup {Uninit})
      BY DEF Unwritten
    <3>2. <<>> \in Seq(Octet \cup {Uninit})
      OBVIOUS
    <3>3. CASE call'.op = "identify"
      BY <2>2, <3>1, <3>3
    <3>4. CASE call'.op # "identify"
      BY <2>2, <3>2, <3>4
    <3> QED
      BY <3>3, <3>4
  <2>4. PassTypes'
    BY <1>1, <1>2, <2>3 DEF PassTypes
  <2>5. InCall'
    BY <1>1, <2>1, <2>2 DEF InCall
  <2> QED
    BY <1>3, <2>4, <2>5
<1>5. CASE BuildAta
  <2>1. packet' = AtaPacket' /\ bus' = "ata"
    BY <1>2, <1>5 DEF BuildAta, AtaPacket, AtaCommandBlock
  <2>2. return_data' = ReturnData
    BY <1>5 DEF BuildAta
  <2>3. return_data' \in Seq(Octet \cup {Uninit})
    BY <2>2, ReturnDataSeq
  <2>4. PassTypes'
    BY <1>1, <1>2, <2>3 DEF PassTypes
  <2>5. ReturnData' = ReturnData
    BY DEF ReturnData
  <2>6. InCall'
    BY <1>1, <2>1, <2>2, <2>5 DEF InCall
  <2> QED
    BY <1>3, <2>4, <2>6
<1> QED
  BY <1>4, <1>5

\* Where a call goes on when pass_thru comes back.
LEMMA CompleteGoesOn ==
  ASSUME PassTypes, Complete
  PROVE  /\ pc = "pass" /\ pc' \in {"copy", "return"} /\ (pc' = "copy" => CopiesBack)
         /\ status' \in {"SUCCESS", "DEVICE_ERROR"}
         /\ Phase = "asked" /\ Phase' \in {"asked", "done"}
         /\ CopiesBack => Phase' = "asked"
         /\ UNCHANGED <<bus, call, packet, outbox, serial, result>>
<1>1. /\ pc = "pass" /\ status' \in {"SUCCESS", "DEVICE_ERROR"}
      /\ pc' = IF status' = "SUCCESS" /\ CopiesBack THEN "copy" ELSE "return"
  BY DEF Complete
<1>2. UNCHANGED <<bus, call, packet, outbox, serial, result>>
  BY DEF Complete
<1>3. Phase = "asked"
  BY <1>1 DEF Phase
<1>4. Phase' \in {"asked", "done"}
  BY <1>1 DEF Phase
<1>5. CopiesBack => Phase' = "asked"
  BY <1>1 DEF Phase
<1> QED
  BY <1>1, <1>2, <1>3, <1>4, <1>5

LEMMA DriveTakesStep ==
  ASSUME PassTypes, InCall, DriveTakes
  PROVE  PassTypes' /\ InCall' /\ Contract!Deliver
<1>1. Complete /\ Request.op = "send"
  BY DEF DriveTakes
<1>2. inbox' = [protocol |-> Request.protocol, com_id |-> Request.com_id, block |-> Outgoing]
  BY DEF DriveTakes
<1>3. UNCHANGED <<buffer, return_data>>
  BY DEF DriveTakes
<1>4. /\ pc = "pass" /\ pc' \in {"copy", "return"} /\ (pc' = "copy" => CopiesBack)
      /\ status' \in {"SUCCESS", "DEVICE_ERROR"}
      /\ Phase = "asked" /\ Phase' \in {"asked", "done"}
  BY <1>1, CompleteGoesOn
<1>5. UNCHANGED <<bus, call, packet, outbox, serial, result>>
  BY <1>1, CompleteGoesOn
<1>6. /\ call.op = "send"
      /\ Request.protocol = call.protocol /\ Request.com_id = call.com_id
  BY <1>1, <1>4, RequestIsTheCall
<1>7. Outgoing \in Seq(Octet) /\ Contract!Whole(Outgoing, buffer)
  BY <1>4, <1>6, OutgoingIsWhole
<1>8. inbox'.protocol = call.protocol /\ inbox'.com_id = call.com_id /\ inbox'.block = Outgoing
  BY <1>2, <1>6
<1>9. PassTypes'
  <2>1. call \in Calls
    BY DEF PassTypes
  <2>2. call.protocol \in Nat /\ call.com_id \in Nat
    BY <2>1, CallTypes
  <2>3. inbox' \in Blocks
    BY <1>2, <1>6, <1>7, <2>2 DEF Blocks
  <2> QED
    BY <1>3, <1>4, <1>5, <2>3 DEF PassTypes
<1>10. pc' = "return"
  BY <1>4, <1>6 DEF CopiesBack
<1>11. InCall'
  BY <1>10 DEF InCall
<1>12. Contract!Deliver
  BY <1>3, <1>4, <1>5, <1>6, <1>7, <1>8 DEF Contract!Deliver, Contract!Happened
<1> QED
  BY <1>9, <1>11, <1>12

LEMMA DriveGivesStep ==
  ASSUME PassTypes, InCall, DriveGives
  PROVE  PassTypes' /\ InCall' /\ (Contract!Receive \/ UNCHANGED Contract!vars)
<1>1. /\ Complete /\ Request.op = "recv" /\ inbox' = inbox
      /\ outbox.protocol = Request.protocol /\ outbox.com_id = Request.com_id
  BY DEF DriveGives
<1>2. /\ pc = "pass" /\ pc' \in {"copy", "return"} /\ (pc' = "copy" => CopiesBack)
      /\ status' \in {"SUCCESS", "DEVICE_ERROR"}
      /\ Phase = "asked" /\ Phase' \in {"asked", "done"}
  BY <1>1, CompleteGoesOn
<1>3. UNCHANGED <<bus, call, packet, outbox, serial, result>>
  BY <1>1, CompleteGoesOn
<1>4. /\ call.op = "recv"
      /\ outbox.protocol = call.protocol /\ outbox.com_id = call.com_id
  BY <1>1, <1>2, RequestIsTheCall
<1>5. /\ bus \in {"nvme", "ata"} /\ call \in Calls /\ buffer \in Seq(Octet)
      /\ outbox \in Blocks /\ return_data \in Seq(Octet \cup {Uninit})
  BY DEF PassTypes
<1>6. CASE bus = "nvme"
  <2>1. buffer' = Transferred(buffer, Allowed(outbox.block)) /\ return_data' = return_data
    BY <1>6 DEF DriveGives
  <2>2. buffer' \in Seq(Octet) /\ Len(buffer') = Len(buffer)
    BY <1>2, <1>4, <1>6, <2>1, NvmeFills
  <2>3. Contract!Filled(buffer', buffer, outbox.block)
    BY <1>2, <1>4, <1>6, <2>1, NvmeFills
  <2>4. PassTypes'
    BY <1>1, <1>2, <1>3, <2>1, <2>2 DEF PassTypes
  <2>5. pc' = "return"
    BY <1>2, <1>4, <1>6 DEF CopiesBack
  <2>6. InCall'
    BY <2>5 DEF InCall
  <2>7. Contract!Receive
    BY <1>1, <1>2, <1>3, <1>4, <2>3 DEF Contract!Receive, Contract!Happened, Contract!At
  <2> QED
    BY <2>4, <2>6, <2>7
<1>7. CASE bus = "ata"
  <2>1. return_data' = Transferred(return_data, Allowed(outbox.block)) /\ buffer' = buffer
    BY <1>7 DEF DriveGives
  <2>2. return_data = ReturnData
    BY <1>2, <1>7 DEF InCall
  <2>3. Allowed(outbox.block) = outbox.block
    BY <1>7 DEF Allowed
  <2>4. return_data' = Transferred(ReturnData, outbox.block)
    BY <2>1, <2>2, <2>3
  <2>5. return_data' \in Seq(Octet \cup {Uninit})
    <3>1. outbox.block \in Seq(Octet)
      BY <1>5 DEF Blocks
    <3>2. return_data' \in Seq(Octet \cup Octet)
      BY <2>4, <3>1, ReturnDataSeq, TransferredSeq
    <3>3. Octet \cup Octet = Octet
      OBVIOUS
    <3> QED
      BY <3>2, <3>3
  <2>6. PassTypes'
    BY <1>1, <1>2, <1>3, <2>1, <2>5 DEF PassTypes
  <2>7. pc' = "copy" => InCall'
    <3> SUFFICES ASSUME pc' = "copy" PROVE InCall'
      BY <1>2 DEF InCall
    <3>1. CopiesBack'
      BY <1>2, <1>3 DEF CopiesBack
    <3>2. return_data' = Transferred(ReturnData', outbox'.block)
      BY <1>3, <2>4 DEF ReturnData
    <3> QED
      BY <1>3, <1>4, <3>1, <3>2 DEF InCall
  <2>8. pc' # "copy" => InCall'
    BY <1>2 DEF InCall
  <2>9. CopiesBack
    BY <1>4, <1>7 DEF CopiesBack
  <2>10. Phase' = "asked"
    BY <1>1, <2>9 DEF Complete, Phase
  <2>11. UNCHANGED Contract!vars
    BY <1>1, <1>2, <1>3, <2>1, <2>10 DEF Contract!vars
  <2> QED
    BY <2>6, <2>7, <2>8, <2>11
<1> QED
  BY <1>5, <1>6, <1>7

LEMMA DriveIdentifiesStep ==
  ASSUME PassTypes, InCall, DriveIdentifies
  PROVE  PassTypes' /\ InCall' /\ UNCHANGED Contract!vars
<1>1. Complete /\ Request.op = "identify" /\ UNCHANGED <<buffer, inbox>>
  BY DEF DriveIdentifies
<1>2. /\ pc = "pass" /\ pc' \in {"copy", "return"} /\ (pc' = "copy" => CopiesBack)
      /\ status' \in {"SUCCESS", "DEVICE_ERROR"}
      /\ Phase = "asked" /\ Phase' \in {"asked", "done"}
  BY <1>1, CompleteGoesOn
<1>3. UNCHANGED <<bus, call, packet, outbox, serial, result>>
  BY <1>1, CompleteGoesOn
<1>4. call.op = "identify"
  BY <1>1, <1>2, RequestIsTheCall
<1>5. return_data' = Transferred(return_data, IdentifyData)
  BY DEF DriveIdentifies
<1>6. return_data \in Seq(Octet \cup {Uninit}) /\ bus \in {"nvme", "ata"}
  BY DEF PassTypes
<1>7. return_data' \in Seq(Octet \cup {Uninit})
  <2>1. return_data' \in Seq((Octet \cup {Uninit}) \cup Octet)
    BY <1>5, <1>6, IdentifyDataIsSeq, TransferredSeq
  <2>2. (Octet \cup {Uninit}) \cup Octet = Octet \cup {Uninit}
    OBVIOUS
  <2> QED
    BY <2>1, <2>2
<1>8. SerialNum' = DriveSerial
  <2>1. CASE bus = "nvme"
    <3>1. return_data = Unwritten
      BY <1>2, <1>4, <2>1 DEF InCall
    <3>2. Len(return_data) = 4096
      <4> DEFINE n == 4096
      <4>1. Unwritten = [i \in 1..n |-> Uninit]
        BY DEF Unwritten
      <4>2. n \in Nat
        OBVIOUS
      <4> HIDE DEF n
      <4>3. Len(return_data) = n
        BY <3>1, <4>1, <4>2
      <4> QED
        BY <4>3 DEF n
    <3>3. Len(IdentifyData) <= Len(return_data) /\ 40 <= Len(IdentifyData)
      BY <3>2, IdentifyDataIsSeq
    <3>4. SubSeq(return_data', 5, 24) = DriveSerial
      BY <1>5, <1>6, <2>1, <3>3, IdentifyDataIsSeq, NvmeSerial
    <3> QED
      BY <1>3, <2>1, <3>4 DEF SerialNum
  <2>2. CASE bus = "ata"
    <3>1. return_data = ReturnData
      BY <1>2, <2>2 DEF InCall
    <3>2. 40 <= Len(IdentifyData) /\ Len(IdentifyData) <= ReturnLen
      BY IdentifyDataIsSeq DEF ReturnLen
    <3>3. [i \in 1..20 |-> return_data'[20 + Swapped(i)]] = DriveSerial
      BY <1>5, <2>2, <3>1, <3>2, IdentifyDataIsSeq, AtaSerial
    <3> QED
      BY <1>3, <2>2, <3>3 DEF SerialNum
  <2> QED
    BY <1>6, <2>1, <2>2
<1>9. PassTypes'
  BY <1>1, <1>2, <1>3, <1>7 DEF PassTypes
<1>10. InCall'
  <2>1. CopiesBack' = CopiesBack
    BY <1>3 DEF CopiesBack
  <2>2. call'.op = "identify"
    BY <1>3, <1>4
  <2> QED
    BY <1>2, <1>8, <2>1, <2>2 DEF InCall
<1>11. CopiesBack
  BY <1>4 DEF CopiesBack
<1>12. Phase' = "asked"
  BY <1>1, <1>11 DEF Complete, Phase
<1>13. UNCHANGED Contract!vars
  BY <1>1, <1>2, <1>3, <1>12 DEF Contract!vars
<1> QED
  BY <1>9, <1>10, <1>13

LEMMA PassThruFailsStep ==
  ASSUME PassTypes, InCall, PassThruFails
  PROVE  PassTypes' /\ InCall' /\ UNCHANGED Contract!vars
<1>1. pc = "pass" /\ pc' = "return" /\ status' = "DEVICE_ERROR"
  BY DEF PassThruFails
<1>2. UNCHANGED <<bus, call, buffer, return_data, inbox, outbox, serial, result>>
  BY DEF PassThruFails, driveVars
<1>3. PassTypes'
  BY <1>1, <1>2 DEF PassTypes
<1>4. InCall'
  BY <1>1 DEF InCall
<1>5. UNCHANGED Contract!vars
  BY <1>1, <1>2 DEF Contract!vars, Phase
<1> QED
  BY <1>3, <1>4, <1>5

LEMMA CopyBackStep ==
  ASSUME PassTypes, InCall, CopyBack
  PROVE  PassTypes' /\ InCall' /\ (Contract!Receive \/ Contract!Identify)
<1>1. pc = "copy" /\ pc' = "return"
  BY DEF CopyBack
<1>2. UNCHANGED <<bus, call, return_data, status, inbox, outbox, result>>
  BY DEF CopyBack, driveVars
<1>3. CopiesBack
  BY <1>1 DEF InCall
<1>4. Phase = "asked" /\ Phase' \in {"asked", "done"}
  BY <1>1 DEF Phase
<1>5. InCall'
  BY <1>1 DEF InCall
<1>6. CASE call.op = "identify"
  <2>1. serial' = DriveSerial
    BY <1>1, <1>6 DEF CopyBack, InCall
  <2>2. buffer' = buffer
    BY <1>6 DEF CopyBack
  <2>3. serial' \in SerialNumbers
    BY <2>1, SerialAssumption
  <2>4. PassTypes'
    BY <1>1, <1>2, <2>2, <2>3 DEF PassTypes
  <2>5. Contract!Identify
    BY <1>2, <1>4, <1>6, <2>1, <2>2 DEF Contract!Identify, Contract!Happened
  <2> QED
    BY <1>5, <2>4, <2>5
<1>7. CASE call.op # "identify"
  <2>1. call.op = "recv"
    BY <1>3, <1>7 DEF CopiesBack
  <2>2. /\ outbox.protocol = call.protocol /\ outbox.com_id = call.com_id
        /\ return_data = Transferred(ReturnData, outbox.block)
    BY <1>1, <2>1 DEF InCall
  <2>3. /\ serial' = serial
        /\ buffer' = [i \in 1..Len(buffer) |->
                        IF i <= Lesser(Len(return_data), Len(buffer))
                        THEN return_data[i] ELSE buffer[i]]
    BY <1>7 DEF CopyBack
  <2>4. buffer \in Seq(Octet) /\ Len(buffer) <= ReturnLen /\ outbox.block \in Seq(Octet)
    BY <2>1 DEF PassTypes, Blocks
  <2>5. buffer' \in Seq(Octet)
    BY <2>2, <2>3, <2>4, AtaFills
  <2>6. Len(buffer') = Len(buffer)
    BY <2>3, <2>4
  <2>7. Contract!Filled(buffer', buffer, outbox.block)
    BY <2>2, <2>3, <2>4, AtaFills
  <2>8. PassTypes'
    BY <1>1, <1>2, <2>3, <2>5, <2>6 DEF PassTypes
  <2>9. Contract!Receive
    BY <1>2, <1>4, <2>1, <2>2, <2>3, <2>7
       DEF Contract!Receive, Contract!Happened, Contract!At
  <2> QED
    BY <1>5, <2>8, <2>9
<1> QED
  BY <1>6, <1>7

LEMMA ReturnStep ==
  ASSUME PassTypes, InCall, Return
  PROVE  PassTypes' /\ InCall' /\ (Contract!Succeed \/ Contract!Fail)
<1>1. pc = "return" /\ pc' = "idle" /\ result' = IF status = "SUCCESS" THEN "Ok" ELSE "Err"
  BY DEF Return
<1>2. UNCHANGED <<bus, call, buffer, return_data, status, inbox, outbox, serial>>
  BY DEF Return, driveVars
<1>3. PassTypes'
  BY <1>1, <1>2 DEF PassTypes
<1>4. InCall'
  BY <1>1 DEF InCall
<1>5. CASE status = "SUCCESS"
  BY <1>1, <1>2, <1>3, <1>4, <1>5 DEF Phase, Contract!Succeed
<1>6. CASE status # "SUCCESS"
  BY <1>1, <1>2, <1>3, <1>4, <1>6 DEF Phase, Contract!Fail
<1> QED
  BY <1>5, <1>6

LEMMA PassNextStep ==
  ASSUME PassTypes, InCall, [PassNext]_passVars
  PROVE  PassTypes' /\ InCall' /\ [Contract!Next]_(Contract!vars)
<1>1. CASE \E c, bytes : Begin(c, bytes)
  BY <1>1, BeginStep DEF Contract!Next
<1>2. CASE \E block : DriveSays(block)
  BY <1>2, DriveSaysStep DEF Contract!Next
<1>3. CASE BuildNvme \/ BuildAta
  BY <1>3, BuildStep
<1>4. CASE DriveTakes
  BY <1>4, DriveTakesStep DEF Contract!Next
<1>5. CASE DriveGives
  BY <1>5, DriveGivesStep DEF Contract!Next
<1>6. CASE DriveIdentifies
  BY <1>6, DriveIdentifiesStep
<1>7. CASE PassThruFails
  BY <1>7, PassThruFailsStep
<1>8. CASE CopyBack
  BY <1>8, CopyBackStep DEF Contract!Next
<1>9. CASE Return
  BY <1>9, ReturnStep DEF Contract!Next
<1>10. CASE UNCHANGED passVars
  <2>1. UNCHANGED <<bus, pc, call, buffer, packet, return_data>>
    BY <1>10 DEF passVars
  <2>2. UNCHANGED <<status, inbox, outbox, serial, result>>
    BY <1>10 DEF passVars, driveVars
  <2>3. PassTypes'
    BY <2>1, <2>2 DEF PassTypes
  <2>4. NvmeCommand' = NvmeCommand /\ AtaPacket' = AtaPacket /\ ReturnData' = ReturnData
    BY <2>1 DEF NvmeCommand, AtaPacket, AtaCommandBlock, ReturnData
  <2>5. CopiesBack' = CopiesBack /\ SerialNum' = SerialNum
    BY <2>1 DEF CopiesBack, SerialNum
  <2>6. InCall'
    BY <2>1, <2>2, <2>4, <2>5 DEF InCall
  <2>7. UNCHANGED Contract!vars
    BY <2>1, <2>2 DEF Contract!vars, Phase
  <2> QED
    BY <2>3, <2>6, <2>7
<1> QED
  BY <1>1, <1>2, <1>3, <1>4, <1>5, <1>6, <1>7, <1>8, <1>9, <1>10 DEF PassNext, PassStep

LEMMA InitIsRight ==
  ASSUME Init
  PROVE  PassTypes /\ InCall /\ Contract!Init
<1>1. PassInit
  BY DEF Init
<1>2. call \in Calls
  <2>1. 0 \in Octet /\ 0 \in ComId /\ "identify" \in Ops
    BY DEF Octet, ComId, Ops
  <2> QED
    BY <1>1, <2>1 DEF PassInit, Call, Calls
<1>3. call.op = "identify"
  BY <1>1 DEF PassInit, Call
<1>4. inbox \in Blocks /\ outbox \in Blocks
  BY <1>1 DEF PassInit, Blocks
<1>5. PassTypes
  BY <1>1, <1>2, <1>3, <1>4 DEF PassInit, PassTypes
<1>6. InCall
  BY <1>1 DEF PassInit, InCall
<1>7. Contract!Init
  BY <1>1 DEF PassInit, Contract!Init, Phase
<1> QED
  BY <1>5, <1>6, <1>7

-------------------------------------------------------------------------------
(* Headers. *)

\* Big-endian lengths.
LEMMA BeLength == ASSUME NEW n \in Nat PROVE FromBe(ToBe(n)) = n
<1> DEFINE a == n \div 256
           b == n \div 65536
           c == n \div 16777216
<1>1. a \in Nat /\ b \in Nat /\ c \in Nat
  OBVIOUS
<1>2. n = (a * 256) + (n % 256)
  OBVIOUS
<1>3. a = (b * 256) + (a % 256)
  OBVIOUS
<1>4. b = (c * 256) + (b % 256)
  OBVIOUS
<1>5. n % 256 \in Nat /\ a % 256 \in Nat /\ b % 256 \in Nat
  OBVIOUS
<1>6. ToBe(n) = <<c, b % 256, a % 256, n % 256>>
  BY DEF ToBe
<1>7. FromBe(ToBe(n)) = (c * 16777216) + ((b % 256) * 65536) + ((a % 256) * 256) + (n % 256)
  BY <1>6 DEF FromBe
<1> DEFINE x == n % 256
           y == a % 256
           z == b % 256
<1> HIDE DEF x, y, z, a, b, c
<1>8. (c * 16777216) + (z * 65536) + (y * 256) + x = n
  BY <1>1, <1>2, <1>3, <1>4, <1>5 DEF x, y, z
<1> QED
  BY <1>7, <1>8 DEF x, y, z

LEMMA BeIsSeq == ASSUME NEW n \in Nat PROVE ToBe(n) \in Seq(Nat) /\ Len(ToBe(n)) = 4
<1>1. n \div 16777216 \in Nat /\ (n \div 65536) % 256 \in Nat /\ (n \div 256) % 256 \in Nat
  OBVIOUS
<1>2. n % 256 \in Nat
  OBVIOUS
<1> QED
  BY <1>1, <1>2 DEF ToBe

LEMMA ZerosSeq ==
  ASSUME NEW n \in Nat
  PROVE  /\ Zeros(n) \in Seq(Nat) /\ Zeros(n) \in Seq(Byte) /\ Len(Zeros(n)) = n
         /\ \A i \in 1..n : Zeros(n)[i] = 0
<1>1. Zeros(n) \in [1..n -> Nat] /\ Zeros(n) \in [1..n -> Byte]
  BY DEF Zeros, Byte
<1>2. \A i \in 1..n : Zeros(n)[i] = 0
  BY DEF Zeros
<1> QED
  BY <1>1, <1>2, FunctionIsSeq

LEMMA BytesAreNats == ASSUME NEW s \in Seq(Byte) PROVE s \in Seq(Nat)
<1>1. \A i \in 1..Len(s) : s[i] \in Byte
  OBVIOUS
<1>2. \A b \in Byte : b \in Nat
  BY DEF Byte
<1>3. \A i \in 1..Len(s) : s[i] \in Nat
  BY <1>1, <1>2
<1> QED
  BY <1>3

LEMMA Extended ==
  ASSUME NEW h \in Seq(Nat), NEW b \in Seq(Nat)
  PROVE  /\ h \o b \in Seq(Nat) /\ Len(h \o b) = Len(h) + Len(b) /\ Holds(h \o b, Len(h), b)
         /\ \A k \in Nat : \A x \in Seq(Nat) : Holds(h, k, x) => Holds(h \o b, k, x)
<1>1. h \o b \in Seq(Nat) /\ Len(h \o b) = Len(h) + Len(b)
  BY ConcatProperties
<1>2. Holds(h \o b, Len(h), b)
  BY HoldsEnd
<1>3. \A k \in Nat : \A x \in Seq(Nat) : Holds(h, k, x) => Holds(h \o b, k, x)
  BY HoldsFront
<1> QED
  BY <1>1, <1>2, <1>3

\* Putting parts behind one another.
Has(h, m, F) ==
    /\ h \in Seq(Nat) /\ Len(h) = m /\ F \in SUBSET (Nat \X Seq(Nat))
    /\ \A k \in Nat, x \in Seq(Nat) : <<k, x>> \in F => Holds(h, k, x)

LEMMA FirstPart ==
  ASSUME NEW b \in Seq(Nat), NEW n \in Nat, Len(b) = n
  PROVE  Has(b, n, {<<0, b>>})
<1>1. Holds(b, 0, b)
  BY DEF Holds
<1> QED
  BY <1>1 DEF Has

LEMMA NextPart ==
  ASSUME NEW m \in Nat, NEW n \in Nat, NEW h, NEW F, Has(h, m, F),
         NEW b \in Seq(Nat), Len(b) = n, NEW l, l = m + n
  PROVE  Has(h \o b, l, F \cup {<<m, b>>})
<1> DEFINE G == F \cup {<<m, b>>}
<1>1. /\ h \in Seq(Nat) /\ Len(h) = m /\ F \in SUBSET (Nat \X Seq(Nat))
      /\ \A k \in Nat, x \in Seq(Nat) : <<k, x>> \in F => Holds(h, k, x)
  BY DEF Has
<1>2. /\ h \o b \in Seq(Nat) /\ Len(h \o b) = m + n /\ Holds(h \o b, m, b)
      /\ \A k \in Nat : \A x \in Seq(Nat) : Holds(h, k, x) => Holds(h \o b, k, x)
  <2>1. /\ h \o b \in Seq(Nat) /\ Len(h \o b) = Len(h) + Len(b) /\ Holds(h \o b, Len(h), b)
        /\ \A k \in Nat : \A x \in Seq(Nat) : Holds(h, k, x) => Holds(h \o b, k, x)
    BY <1>1, Extended
  <2> QED
    BY <1>1, <2>1
<1>3. G \in SUBSET (Nat \X Seq(Nat))
  BY <1>1
<1>4. \A k \in Nat, x \in Seq(Nat) : <<k, x>> \in G => <<k, x>> \in F \/ (k = m /\ x = b)
  OBVIOUS
<1> HIDE DEF G
<1>5. \A k \in Nat, x \in Seq(Nat) : <<k, x>> \in G => Holds(h \o b, k, x)
  BY <1>1, <1>2, <1>4
<1>6. Has(h \o b, l, G)
  BY <1>2, <1>3, <1>5 DEF Has
<1> QED
  BY <1>6 DEF G

LEMMA NextOf ==
  \A m \in Nat, b \in Seq(Nat) : \A h, F, l :
      Has(h, m, F) /\ l = m + Len(b) => Has(h \o b, l, F \cup {<<m, b>>})
<1> SUFFICES ASSUME NEW m \in Nat, NEW b \in Seq(Nat), NEW h, NEW F, NEW l,
                    Has(h, m, F), l = m + Len(b)
             PROVE  Has(h \o b, l, F \cup {<<m, b>>})
  OBVIOUS
<1>1. Len(b) \in Nat
  OBVIOUS
<1> QED
  BY <1>1, NextPart

LEMMA PartOf ==
  ASSUME NEW h, NEW m, NEW F, Has(h, m, F), NEW k \in Nat, NEW x \in Seq(Nat), <<k, x>> \in F
  PROVE  Holds(h, k, x)
BY DEF Has

-------------------------------------------------------------------------------
(* The command and the answer as blocks. *)

LEMMA Padding ==
  ASSUME NEW n \in Nat
  PROVE  /\ (4 - (n % 4)) % 4 \in 0..3
         /\ (n + ((4 - (n % 4)) % 4) + 12) % 4 = 0
<1> DEFINE r == n % 4
           q == n \div 4
           p == (4 - r) % 4
<1>1. r \in 0..3 /\ q \in Nat /\ n = (4 * q) + r
  OBVIOUS
<1> HIDE DEF r, q
<1>2. p \in 0..3 /\ (r + p = 0 \/ r + p = 4)
  BY <1>1
<1> HIDE DEF p
<1>3. (n + p + 12) % 4 = 0
  <2>1. CASE r + p = 0
    <3>1. n + p + 12 = 4 * (q + 3)
      BY <1>1, <1>2, <2>1
    <3>2. (4 * (q + 3)) % 4 = 0
      BY <1>1
    <3> QED
      BY <3>1, <3>2
  <2>2. CASE r + p = 4
    <3>1. n + p + 12 = 4 * (q + 4)
      BY <1>1, <1>2, <2>2
    <3>2. (4 * (q + 4)) % 4 = 0
      BY <1>1
    <3> QED
      BY <3>1, <3>2
  <2> QED
    BY <1>2, <2>1, <2>2
<1> QED
  BY <1>2, <1>3 DEF p, r

LEMMA HoldsInside ==
  ASSUME NEW bytes \in Seq(Nat), NEW k \in Nat, NEW a \in Seq(Nat), Holds(bytes, k, a),
         NEW b \in Seq(Nat), Holds(a, 0, b)
  PROVE  Holds(bytes, k, b)
<1> DEFINE l == Len(bytes)
           m == Len(a)
           n == Len(b)
<1>1. l \in Nat /\ m \in Nat /\ n \in Nat /\ k + m <= l /\ 0 + n <= m
  BY DEF Holds
<1>2. (\A j \in 1..m : bytes[k + j] = a[j]) /\ \A j \in 1..n : a[0 + j] = b[j]
  BY DEF Holds
<1> HIDE DEF l, m, n
<1>3. ASSUME NEW j \in 1..n PROVE bytes[k + j] = b[j]
  <2>1. j \in 1..m /\ 0 + j = j
    BY <1>1
  <2> QED
    BY <1>2, <2>1
<1>4. k + n <= l
  BY <1>1
<1> QED
  BY <1>3, <1>4 DEF Holds, n, l

\* What build makes of a payload.
IsBuilt(c, data, eod) ==
    /\ c.payload \in Seq(Byte) /\ Holds(c.payload, 0, data) /\ c.eod = eod
    /\ c.subpkt = Len(data) /\ c.pkt = Len(c.payload) + 12
    /\ c.cp = Len(c.payload) + 36
    /\ c.pkt % 4 = 0 /\ c.pkt - 12 \in c.subpkt..(c.subpkt + 3)

LEMMA Built ==
  ASSUME NEW bytes, NEW eod, bytes \o Trailer(eod, StatusTrailer) \in Seq(Byte)
  PROVE  IsBuilt(BuildEod(bytes, eod), bytes \o Trailer(eod, StatusTrailer), eod)
<1> DEFINE data == bytes \o Trailer(eod, StatusTrailer)
           c    == BuildEod(bytes, eod)
<1>0. data \in Seq(Byte)
  OBVIOUS
<1>8. c = [subpkt |-> Len(data), pkt |-> Len(data \o Zeros((4 - (Len(data) % 4)) % 4)) + 12,
           cp |-> Len(data \o Zeros((4 - (Len(data) % 4)) % 4)) + 36,
           payload |-> data \o Zeros((4 - (Len(data) % 4)) % 4), eod |-> eod]
  BY DEF BuildEod, Trailer, Zeros
<1> HIDE DEF data, c
<1> DEFINE n == Len(data)
           pad == (4 - (n % 4)) % 4
           padded == data \o Zeros(pad)
           l == Len(padded)
<1>1. n \in Nat
  BY <1>0
<1>2. c = [subpkt |-> n, pkt |-> l + 12, cp |-> l + 36, payload |-> padded, eod |-> eod]
  BY <1>8
<1>3. pad \in 0..3 /\ (n + pad + 12) % 4 = 0
  BY <1>1, Padding
<1> HIDE DEF pad
<1>4. Zeros(pad) \in Seq(Byte) /\ Len(Zeros(pad)) = pad
  BY <1>3, ZerosSeq
<1>5. padded \in Seq(Byte) /\ l = n + pad /\ Holds(padded, 0, data)
  BY <1>0, <1>4, HoldsFirst, ConcatProperties
<1> HIDE DEF n, l, padded
<1>6. /\ c.payload = padded /\ c.subpkt = n /\ c.pkt = l + 12 /\ c.cp = l + 36 /\ c.eod = eod
  BY <1>2
<1>7. (l + 12) % 4 = 0 /\ (l + 12) - 12 \in n..(n + 3)
  BY <1>1, <1>3, <1>5
<1> QED
  BY <1>5, <1>6, <1>7 DEF IsBuilt, n, l, data, c

LEMMA HeaderFields ==
  ASSUME com_id \in ComIds, session \in Sessions,
         command.cp \in Nat, command.pkt \in Nat, command.subpkt \in Nat
  PROVE  /\ HeaderBytes \in Seq(Nat) /\ Len(HeaderBytes) = 56
         /\ Holds(HeaderBytes, 4, <<com_id \div 256, com_id % 256, 0, 0>>)
         /\ <<com_id \div 256, com_id % 256, 0, 0>> \in Seq(Nat)
         /\ Holds(HeaderBytes, 16, ToBe(command.cp))
         /\ session[1] \in Seq(Nat) /\ Len(session[1]) = 4 /\ Holds(HeaderBytes, 20, session[1])
         /\ session[2] \in Seq(Nat) /\ Len(session[2]) = 4 /\ Holds(HeaderBytes, 24, session[2])
         /\ Holds(HeaderBytes, 40, ToBe(command.pkt))
         /\ Holds(HeaderBytes, 52, ToBe(command.subpkt))
<1> DEFINE id == <<com_id \div 256, com_id % 256, 0, 0>>
<1>1. com_id \in Nat /\ session[1] \in U32 /\ session[2] \in U32
  <2>1. com_id \in ComId
    BY WireAssumption
  <2>2. session \in U32 \X U32
    BY WireAssumption
  <2>3. ComId \subseteq Nat
    BY DEF ComId
  <2> QED
    BY <2>1, <2>2, <2>3
<1>2. id \in Seq(Nat) /\ Len(id) = 4
  BY <1>1
<1>3. ASSUME NEW s \in U32 PROVE s \in Seq(Nat) /\ Len(s) = 4
  <2>1. s \in Seq(Byte) /\ Len(s) = 4
    BY FunctionIsSeq DEF U32
  <2> QED
    BY <2>1, BytesAreNats
<1>4. /\ Zeros(4) \in Seq(Nat) /\ Len(Zeros(4)) = 4
      /\ Zeros(8) \in Seq(Nat) /\ Len(Zeros(8)) = 8
      /\ Zeros(12) \in Seq(Nat) /\ Len(Zeros(12)) = 12
  BY ZerosSeq
<1>5. /\ ToBe(command.cp) \in Seq(Nat) /\ Len(ToBe(command.cp)) = 4
      /\ ToBe(command.pkt) \in Seq(Nat) /\ Len(ToBe(command.pkt)) = 4
      /\ ToBe(command.subpkt) \in Seq(Nat) /\ Len(ToBe(command.subpkt)) = 4
  BY BeIsSeq
<1>6. /\ session[1] \in Seq(Nat) /\ Len(session[1]) = 4
      /\ session[2] \in Seq(Nat) /\ Len(session[2]) = 4
  BY <1>1, <1>3
<1> DEFINE z4  == Zeros(4)
           z8  == Zeros(8)
           z12 == Zeros(12)
           cp  == ToBe(command.cp)
           pkt == ToBe(command.pkt)
           sub == ToBe(command.subpkt)
           s1  == session[1]
           s2  == session[2]
<1>7. HeaderBytes = z4 \o id \o z8 \o cp \o s1 \o s2 \o z12 \o pkt \o z8 \o sub
  BY Zenon DEF HeaderBytes
<1> HIDE DEF id
<1>9. /\ z4 \in Seq(Nat) /\ id \in Seq(Nat) /\ z8 \in Seq(Nat) /\ cp \in Seq(Nat)
      /\ s1 \in Seq(Nat) /\ s2 \in Seq(Nat) /\ z12 \in Seq(Nat) /\ pkt \in Seq(Nat)
      /\ sub \in Seq(Nat)
      /\ Len(z4) = 4 /\ Len(id) = 4 /\ Len(z8) = 8 /\ Len(cp) = 4 /\ Len(s1) = 4 /\ Len(s2) = 4
      /\ Len(z12) = 12 /\ Len(pkt) = 4 /\ Len(sub) = 4
  BY <1>2, <1>4, <1>5, <1>6
<1> HIDE DEF z4, z8, z12, cp, pkt, sub, s1, s2
<1> DEFINE h1 == z4 \o id
           h2 == h1 \o z8
           h3 == h2 \o cp
           h4 == h3 \o s1
           h5 == h4 \o s2
           h6 == h5 \o z12
           h7 == h6 \o pkt
           h8 == h7 \o z8
           h9 == h8 \o sub
           F0 == {<<0, z4>>}
           F1 == F0 \cup {<<4, id>>}
           F2 == F1 \cup {<<8, z8>>}
           F3 == F2 \cup {<<16, cp>>}
           F4 == F3 \cup {<<20, s1>>}
           F5 == F4 \cup {<<24, s2>>}
           F6 == F5 \cup {<<28, z12>>}
           F7 == F6 \cup {<<40, pkt>>}
           F8 == F7 \cup {<<44, z8>>}
           F9 == F8 \cup {<<52, sub>>}
<1>10. HeaderBytes = h9
  BY <1>7
<1>11. Has(z4, 4, F0)
  BY <1>9, FirstPart
<1>12. Has(h1, 8, F1)
  <2>1. 4 \in Nat /\ id \in Seq(Nat) /\ 8 = 4 + Len(id)
    BY <1>9
  <2> HIDE DEF F0
  <2> QED
    BY Zenon, <1>11, <2>1, NextOf
<1>13. Has(h2, 16, F2)
  <2>1. 8 \in Nat /\ z8 \in Seq(Nat) /\ 16 = 8 + Len(z8)
    BY <1>9
  <2> HIDE DEF F1, h1
  <2> QED
    BY Zenon, <1>12, <2>1, NextOf
<1>14. Has(h3, 20, F3)
  <2>1. 16 \in Nat /\ cp \in Seq(Nat) /\ 20 = 16 + Len(cp)
    BY <1>9
  <2> HIDE DEF F2, h2
  <2> QED
    BY Zenon, <1>13, <2>1, NextOf
<1>15. Has(h4, 24, F4)
  <2>1. 20 \in Nat /\ s1 \in Seq(Nat) /\ 24 = 20 + Len(s1)
    BY <1>9
  <2> HIDE DEF F3, h3
  <2> QED
    BY Zenon, <1>14, <2>1, NextOf
<1>16. Has(h5, 28, F5)
  <2>1. 24 \in Nat /\ s2 \in Seq(Nat) /\ 28 = 24 + Len(s2)
    BY <1>9
  <2> HIDE DEF F4, h4
  <2> QED
    BY Zenon, <1>15, <2>1, NextOf
<1>17. Has(h6, 40, F6)
  <2>1. 28 \in Nat /\ z12 \in Seq(Nat) /\ 40 = 28 + Len(z12)
    BY <1>9
  <2> HIDE DEF F5, h5
  <2> QED
    BY Zenon, <1>16, <2>1, NextOf
<1>18. Has(h7, 44, F7)
  <2>1. 40 \in Nat /\ pkt \in Seq(Nat) /\ 44 = 40 + Len(pkt)
    BY <1>9
  <2> HIDE DEF F6, h6
  <2> QED
    BY Zenon, <1>17, <2>1, NextOf
<1>19. Has(h8, 52, F8)
  <2>1. 44 \in Nat /\ z8 \in Seq(Nat) /\ 52 = 44 + Len(z8)
    BY <1>9
  <2> HIDE DEF F7, h7
  <2> QED
    BY Zenon, <1>18, <2>1, NextOf
<1>20. Has(h9, 56, F9)
  <2>1. 52 \in Nat /\ sub \in Seq(Nat) /\ 56 = 52 + Len(sub)
    BY <1>9
  <2> HIDE DEF F8, h8
  <2> QED
    BY Zenon, <1>19, <2>1, NextOf
<1> HIDE DEF h1, h2, h3, h4, h5, h6, h7, h8, h9
<1>21. /\ <<4, id>> \in F9
       /\ <<16, cp>> \in F9
       /\ <<20, s1>> \in F9
       /\ <<24, s2>> \in F9
       /\ <<40, pkt>> \in F9
       /\ <<52, sub>> \in F9
  OBVIOUS
<1> HIDE DEF F0, F1, F2, F3, F4, F5, F6, F7, F8, F9
<1>22. /\ Holds(h9, 4, id)
       /\ Holds(h9, 16, cp)
       /\ Holds(h9, 20, s1)
       /\ Holds(h9, 24, s2)
       /\ Holds(h9, 40, pkt)
       /\ Holds(h9, 52, sub)
  BY <1>9, <1>20, <1>21, PartOf
<1>23. h9 \in Seq(Nat) /\ Len(h9) = 56
  BY <1>20 DEF Has
<1> QED
  BY <1>2, <1>6, <1>10, <1>22, <1>23 DEF id, cp, pkt, sub, s1, s2

\* The answer of a drive, which has no fields but the lengths.
LEMMA AnswerFields ==
  ASSUME NEW data \in Seq(Byte), NEW block, block = AnswerBlock(data)
  PROVE  \E l \in Nat :
            /\ block \in Seq(Nat) /\ Len(block) = l + 56
            /\ Holds(block, 0, Zeros(16)) /\ Holds(block, 16, ToBe(l + 36))
            /\ Holds(block, 52, ToBe(Len(data))) /\ Holds(block, 56, data)
<1> DEFINE n == Len(data)
           pad == (4 - (n % 4)) % 4
           padded == data \o Zeros(pad)
           l == Len(padded)
           z16 == Zeros(16)
           z20 == Zeros(20)
           z8  == Zeros(8)
           cp  == ToBe(l + 36)
           pkt == ToBe(l + 12)
           sub == ToBe(n)
           head == z16 \o cp \o z20 \o pkt \o z8 \o sub
<1>1. n \in Nat
  OBVIOUS
<1>2. padded \in Seq(Byte) /\ l \in Nat /\ Holds(padded, 0, data)
  <2>1. pad \in 0..3
    BY <1>1, Padding
  <2> HIDE DEF pad
  <2>2. Zeros(pad) \in Seq(Byte)
    BY <2>1, ZerosSeq
  <2> QED
    BY <2>2, HoldsFirst, ConcatProperties
<1>20. block = head \o padded
  BY Zenon DEF AnswerBlock
<1>3. /\ z16 \in Seq(Nat) /\ cp \in Seq(Nat) /\ z20 \in Seq(Nat) /\ pkt \in Seq(Nat)
      /\ z8 \in Seq(Nat) /\ sub \in Seq(Nat)
      /\ Len(z16) = 16 /\ Len(cp) = 4 /\ Len(z20) = 20 /\ Len(pkt) = 4 /\ Len(z8) = 8
      /\ Len(sub) = 4
  <2> HIDE DEF n, l
  <2>1. l + 36 \in Nat /\ l + 12 \in Nat /\ n \in Nat
    BY <1>1, <1>2
  <2>2. 16 \in Nat /\ 20 \in Nat /\ 8 \in Nat
    OBVIOUS
  <2> QED
    BY <2>1, <2>2, BeIsSeq, ZerosSeq
<1>4. head = z16 \o cp \o z20 \o pkt \o z8 \o sub
  OBVIOUS
<1> HIDE DEF z16, z20, z8, cp, pkt, sub, head, l, padded, n
<1> DEFINE h1 == z16 \o cp
           h2 == h1 \o z20
           h3 == h2 \o pkt
           h4 == h3 \o z8
           h5 == h4 \o sub
           F0 == {<<0, z16>>}
           F1 == F0 \cup {<<16, cp>>}
           F2 == F1 \cup {<<20, z20>>}
           F3 == F2 \cup {<<40, pkt>>}
           F4 == F3 \cup {<<44, z8>>}
           F5 == F4 \cup {<<52, sub>>}
<1>5. head = h5
  BY <1>4
<1>6. Has(z16, 16, F0)
  BY <1>3, FirstPart
<1>7. Has(h1, 20, F1)
  <2>1. 16 \in Nat /\ cp \in Seq(Nat) /\ 20 = 16 + Len(cp)
    BY <1>3
  <2> HIDE DEF F0
  <2> QED
    BY Zenon, <1>6, <2>1, NextOf
<1>8. Has(h2, 40, F2)
  <2>1. 20 \in Nat /\ z20 \in Seq(Nat) /\ 40 = 20 + Len(z20)
    BY <1>3
  <2> HIDE DEF F1, h1
  <2> QED
    BY Zenon, <1>7, <2>1, NextOf
<1>9. Has(h3, 44, F3)
  <2>1. 40 \in Nat /\ pkt \in Seq(Nat) /\ 44 = 40 + Len(pkt)
    BY <1>3
  <2> HIDE DEF F2, h2
  <2> QED
    BY Zenon, <1>8, <2>1, NextOf
<1>10. Has(h4, 52, F4)
  <2>1. 44 \in Nat /\ z8 \in Seq(Nat) /\ 52 = 44 + Len(z8)
    BY <1>3
  <2> HIDE DEF F3, h3
  <2> QED
    BY Zenon, <1>9, <2>1, NextOf
<1>11. Has(h5, 56, F5)
  <2>1. 52 \in Nat /\ sub \in Seq(Nat) /\ 56 = 52 + Len(sub)
    BY <1>3
  <2> HIDE DEF F4, h4
  <2> QED
    BY Zenon, <1>10, <2>1, NextOf
<1> HIDE DEF h1, h2, h3, h4, h5
<1>12. /\ <<0, z16>> \in F5
       /\ <<16, cp>> \in F5
       /\ <<52, sub>> \in F5
  OBVIOUS
<1> HIDE DEF F0, F1, F2, F3, F4, F5
<1>13. /\ Holds(h5, 0, z16)
       /\ Holds(h5, 16, cp)
       /\ Holds(h5, 52, sub)
  BY <1>3, <1>11, <1>12, PartOf
<1>14. h5 \in Seq(Nat) /\ Len(h5) = 56
  BY <1>11 DEF Has
<1>21. /\ head \in Seq(Nat) /\ Len(head) = 56
       /\ Holds(head, 0, z16) /\ Holds(head, 16, cp) /\ Holds(head, 52, sub)
  BY <1>5, <1>13, <1>14
<1>22. padded \in Seq(Nat) /\ data \in Seq(Nat) /\ Len(padded) = l
  BY <1>2, BytesAreNats DEF l
<1>23. /\ head \o padded \in Seq(Nat) /\ Len(head \o padded) = 56 + l
       /\ Holds(head \o padded, 0, z16) /\ Holds(head \o padded, 16, cp)
       /\ Holds(head \o padded, 52, sub) /\ Holds(head \o padded, 56, padded)
  <2>1. /\ head \o padded \in Seq(Nat) /\ Len(head \o padded) = Len(head) + Len(padded)
        /\ Holds(head \o padded, Len(head), padded)
        /\ \A k \in Nat : \A x \in Seq(Nat) : Holds(head, k, x) => Holds(head \o padded, k, x)
    BY <1>21, <1>22, Extended
  <2> QED
    BY <1>3, <1>21, <1>22, <2>1
<1>24. Holds(head \o padded, 56, data)
  BY <1>2, <1>22, <1>23, HoldsInside
<1>25. Len(block) = l + 56
  BY <1>2, <1>20, <1>23
<1>26. ToBe(n) = sub /\ ToBe(l + 36) = cp /\ Zeros(16) = z16
  BY DEF sub, cp, z16
<1> QED
  BY <1>2, <1>20, <1>23, <1>24, <1>25, <1>26 DEF n

-------------------------------------------------------------------------------
(* Commands and answers are read as they were written. *)

LEMMA StatusListIs ==
  ASSUME NEW c \in 0..63
  PROVE  /\ StatusList(c) = <<249, 240, c, 0, 0, 241>>
         /\ StatusList(c) \in Seq(Byte) /\ Split(StatusList(c)) \in Seq(Tokens)
         /\ Len(Split(StatusList(c))) = 6
<1> DEFINE s == <<249, 240, c, 0, 0, 241>>
<1>1. StatusTrailer = <<249, 240, 0, 0, 0, 241>>
  BY DEF StatusTrailer, ENDOFDATA, STARTLIST, ENDLIST
<1>2. StatusList(c) = s
  BY <1>1 DEF StatusList
<1>3. s \in Seq(Byte) /\ Len(s) = 6
  BY DEF Byte
<1>4. \A i \in 1..6 : (s[i] < 128 \/ s[i] >= 240) /\ s[i] # EMPTYATOM
  <2>1. s[1] = 249 /\ s[2] = 240 /\ s[3] = c /\ s[4] = 0 /\ s[5] = 0 /\ s[6] = 241
    OBVIOUS
  <2>2. \A i \in 1..6 : i = 1 \/ i = 2 \/ i = 3 \/ i = 4 \/ i = 5 \/ i = 6
    OBVIOUS
  <2> HIDE DEF s
  <2> QED
    BY <2>1, <2>2 DEF EMPTYATOM
<1> HIDE DEF s
<1>5. Split(s) \in Seq(Tokens) /\ Len(Split(s)) = 6
  BY <1>3, <1>4, SplitIsTokens
<1> QED
  BY <1>2, <1>3, <1>5 DEF s

\* What was sent.
Sent == HeaderBytes \o command.payload

LEMMA WholeHolds ==
  ASSUME NEW block \in Seq(Byte), NEW data \in Seq(Nat), Contract!Whole(block, data)
  PROVE  Holds(block, 0, data)
<1> DEFINE n == Len(data)
           l == Len(block)
<1>1. n \in Nat /\ l \in Nat /\ n <= l
  BY DEF Contract!Whole
<1>2. \A i \in 1..l : block[i] = IF i <= n THEN data[i] ELSE 0
  BY DEF Contract!Whole
<1> HIDE DEF n, l
<1>3. ASSUME NEW j \in 1..n PROVE block[0 + j] = data[j]
  <2>1. 0 + j = j /\ j \in 1..l /\ j <= n
    BY <1>1
  <2> QED
    BY <1>2, <2>1
<1>4. 0 + n <= l
  BY <1>1
<1> QED
  BY <1>3, <1>4 DEF Holds, n, l

LEMMA FieldCut ==
  \A bytes, b \in Seq(Nat), k \in Nat :
      Len(b) = 4 /\ Holds(bytes, k, b) => SubSeq(bytes, k + 1, k + 4) = b
BY HoldsCut

LEMMA HeardIsWritten ==
  ASSUME com_id \in ComIds, session \in Sessions,
         written \in Seq(Tokens), payload \in Seq(Byte), WrittenAs(written, payload),
         NEW eod \in BOOLEAN, command = BuildEod(payload, eod),
         inbox.protocol = PROTOCOL, inbox.com_id = com_id, inbox.block \in Seq(Byte),
         Contract!Whole(inbox.block, Sent)
  PROVE  Heard(inbox) = [session |-> session,
                         tokens  |-> written \o Trailer(eod, Split(StatusTrailer))]
<1> DEFINE block == inbox.block
           body == command.payload
           data == payload \o Trailer(eod, StatusTrailer)
           ts == written \o Trailer(eod, Split(StatusTrailer))
           l == Len(body)
           n == Len(data)
           id == <<com_id \div 256, com_id % 256, 0, 0>>
<1>1. data \in Seq(Byte) /\ ts \in Seq(Tokens) /\ WrittenAs(ts, data)
  BY Zenon, StatusTrailerIs, WithTrailer
<1>0. data = payload \o Trailer(eod, StatusTrailer)
  OBVIOUS
<1> HIDE DEF data
<1>24. /\ command.payload \in Seq(Byte) /\ Holds(command.payload, 0, data)
       /\ command.subpkt = Len(data) /\ command.pkt = Len(command.payload) + 12
       /\ command.cp = Len(command.payload) + 36
       /\ command.pkt % 4 = 0 /\ command.pkt - 12 \in command.subpkt..(command.subpkt + 3)
  <2>1. payload \o Trailer(eod, StatusTrailer) \in Seq(Byte)
    BY <1>0, <1>1
  <2>2. IsBuilt(BuildEod(payload, eod), payload \o Trailer(eod, StatusTrailer), eod)
    BY Zenon, <2>1, Built
  <2>3. IsBuilt(command, data, eod)
    BY Zenon, <1>0, <2>2
  <2> QED
    BY Zenon, <2>3 DEF IsBuilt
<1>2. /\ body \in Seq(Byte) /\ Holds(body, 0, data)
      /\ command.subpkt = n /\ command.pkt = l + 12 /\ command.cp = l + 36
      /\ command.pkt % 4 = 0 /\ command.pkt - 12 \in command.subpkt..(command.subpkt + 3)
  BY <1>24
<1>3. l \in Nat /\ n \in Nat /\ body \in Seq(Nat) /\ block \in Seq(Byte) /\ block \in Seq(Nat)
  BY <1>1, <1>2, BytesAreNats
<1> HIDE DEF l, n, body, block, ts
<1>4. command.cp \in Nat /\ command.pkt \in Nat /\ command.subpkt \in Nat
  BY <1>2, <1>3
<1>5. /\ HeaderBytes \in Seq(Nat) /\ Len(HeaderBytes) = 56
      /\ Holds(HeaderBytes, 4, id) /\ id \in Seq(Nat)
      /\ Holds(HeaderBytes, 16, ToBe(command.cp))
      /\ session[1] \in Seq(Nat) /\ Len(session[1]) = 4 /\ Holds(HeaderBytes, 20, session[1])
      /\ session[2] \in Seq(Nat) /\ Len(session[2]) = 4 /\ Holds(HeaderBytes, 24, session[2])
      /\ Holds(HeaderBytes, 40, ToBe(command.pkt))
      /\ Holds(HeaderBytes, 52, ToBe(command.subpkt))
  BY <1>4, HeaderFields
<1>6. Sent = HeaderBytes \o body
  BY DEF Sent, body
<1>7. /\ Sent \in Seq(Nat) /\ Len(Sent) = 56 + l /\ Holds(Sent, 56, body)
      /\ \A k \in Nat : \A x \in Seq(Nat) : Holds(HeaderBytes, k, x) => Holds(Sent, k, x)
  <2>1. /\ Sent \in Seq(Nat) /\ Len(Sent) = Len(HeaderBytes) + Len(body)
        /\ Holds(Sent, Len(HeaderBytes), body)
        /\ \A k \in Nat : \A x \in Seq(Nat) : Holds(HeaderBytes, k, x) => Holds(Sent, k, x)
    <3> DEFINE h == HeaderBytes \o body
    <3>1. HeaderBytes \in Seq(Nat) /\ body \in Seq(Nat)
      BY <1>3, <1>5
    <3>2. /\ h \in Seq(Nat) /\ Len(h) = Len(HeaderBytes) + Len(body)
          /\ Holds(h, Len(HeaderBytes), body)
          /\ \A k \in Nat : \A x \in Seq(Nat) : Holds(HeaderBytes, k, x) => Holds(h, k, x)
      BY Zenon, <3>1, Extended
    <3> HIDE DEF h
    <3>3. Sent = h
      BY <1>6 DEF h
    <3> QED
      BY <3>2, <3>3
  <2> QED
    BY <1>5, <2>1 DEF l
<1>8. Holds(block, 0, Sent) /\ Len(block) \in Nat
  BY <1>3, <1>7, WholeHolds DEF block
<1>9. \A k \in Nat : \A x \in Seq(Nat) : Holds(Sent, k, x) => Holds(block, k, x)
  BY <1>7, <1>8, HoldsWithin
<1>10. /\ ToBe(command.cp) \in Seq(Nat) /\ Len(ToBe(command.cp)) = 4
       /\ ToBe(command.pkt) \in Seq(Nat) /\ Len(ToBe(command.pkt)) = 4
       /\ ToBe(command.subpkt) \in Seq(Nat) /\ Len(ToBe(command.subpkt)) = 4
  BY <1>4, BeIsSeq
<1>11. Len(id) = 4
  OBVIOUS
<1> HIDE DEF id
<1>12. /\ Holds(block, 4, id) /\ Holds(block, 16, ToBe(command.cp))
       /\ Holds(block, 20, session[1]) /\ Holds(block, 24, session[2])
       /\ Holds(block, 40, ToBe(command.pkt)) /\ Holds(block, 52, ToBe(command.subpkt))
       /\ Holds(block, 56, body)
  BY <1>3, <1>5, <1>7, <1>9, <1>10
<1>13. SubSeq(block, 5, 8) = id
  <2>1. SubSeq(block, 4 + 1, 4 + 4) = id
    <3>1. /\ block \in Seq(Nat) /\ id \in Seq(Nat) /\ 4 \in Nat
          /\ Len(id) = 4 /\ Holds(block, 4, id)
      BY <1>3, <1>5, <1>11, <1>12
    <3> QED
      BY Zenon, <3>1, FieldCut
  <2> QED
    BY <2>1
<1>14. CpLength(block) = command.cp
  <2>1. SubSeq(block, 17, 20) = ToBe(command.cp)
    <3>1. SubSeq(block, 16 + 1, 16 + 4) = ToBe(command.cp)
      <4>1. /\ block \in Seq(Nat) /\ ToBe(command.cp) \in Seq(Nat) /\ 16 \in Nat
            /\ Len(ToBe(command.cp)) = 4 /\ Holds(block, 16, ToBe(command.cp))
        BY <1>3, <1>10, <1>12
      <4> QED
        BY Zenon, <4>1, FieldCut
    <3> QED
      BY <3>1
  <2> QED
    BY Zenon, <1>4, <2>1, BeLength DEF CpLength
<1>15. PktLength(block) = command.pkt
  <2>1. SubSeq(block, 41, 44) = ToBe(command.pkt)
    <3>1. SubSeq(block, 40 + 1, 40 + 4) = ToBe(command.pkt)
      <4>1. /\ block \in Seq(Nat) /\ ToBe(command.pkt) \in Seq(Nat) /\ 40 \in Nat
            /\ Len(ToBe(command.pkt)) = 4 /\ Holds(block, 40, ToBe(command.pkt))
        BY <1>3, <1>10, <1>12
      <4> QED
        BY Zenon, <4>1, FieldCut
    <3> QED
      BY <3>1
  <2> QED
    BY Zenon, <1>4, <2>1, BeLength DEF PktLength
<1>16. SubpktLength(block) = command.subpkt
  <2>1. SubSeq(block, 53, 56) = ToBe(command.subpkt)
    <3>1. SubSeq(block, 52 + 1, 52 + 4) = ToBe(command.subpkt)
      <4>1. /\ block \in Seq(Nat) /\ ToBe(command.subpkt) \in Seq(Nat) /\ 52 \in Nat
            /\ Len(ToBe(command.subpkt)) = 4 /\ Holds(block, 52, ToBe(command.subpkt))
        BY <1>3, <1>10, <1>12
      <4> QED
        BY Zenon, <4>1, FieldCut
    <3> QED
      BY <3>1
  <2> QED
    BY Zenon, <1>4, <2>1, BeLength DEF SubpktLength
<1>17. SubSeq(block, 21, 24) = session[1] /\ SubSeq(block, 25, 28) = session[2]
  <2>1. SubSeq(block, 20 + 1, 20 + 4) = session[1]
    <3>1. /\ block \in Seq(Nat) /\ session[1] \in Seq(Nat) /\ 20 \in Nat
          /\ Len(session[1]) = 4 /\ Holds(block, 20, session[1])
      BY <1>3, <1>5, <1>12
    <3> QED
      BY Zenon, <3>1, FieldCut
  <2>2. SubSeq(block, 24 + 1, 24 + 4) = session[2]
    <3>1. /\ block \in Seq(Nat) /\ session[2] \in Seq(Nat) /\ 24 \in Nat
          /\ Len(session[2]) = 4 /\ Holds(block, 24, session[2])
      BY <1>3, <1>5, <1>12
    <3> QED
      BY Zenon, <3>1, FieldCut
  <2> QED
    BY <2>1, <2>2
<1>18. SubSeq(block, 57, command.cp + 20) = body
  <2>1. SubSeq(block, 56 + 1, 56 + Len(body)) = body
    BY <1>3, <1>12, HoldsCut
  <2>2. 56 + 1 = 57 /\ 56 + Len(body) = command.cp + 20
    BY <1>2, <1>3 DEF l
  <2> QED
    BY <2>1, <2>2
<1>19. Parse(command.subpkt, body) = ts
  BY <1>1, <1>2, ParsePart DEF n
<1>20. Len(block) >= 56 /\ Len(block) >= command.cp + 20
  <2>1. 0 + Len(Sent) <= Len(block)
    BY <1>8 DEF Holds
  <2> QED
    BY <1>2, <1>3, <1>7, <1>8, <2>1
<1>21. session = <<session[1], session[2]>>
  <2>1. session \in U32 \X U32
    BY WireAssumption
  <2> QED
    BY <2>1
<1>22. command.cp = command.pkt + 24
  BY <1>2, <1>3
<1>23. Heard(inbox) = [session |-> <<session[1], session[2]>>, tokens |-> ts]
  <2>1. /\ Len(inbox.block) >= HeaderLen
        /\ inbox.protocol = PROTOCOL
        /\ SubSeq(inbox.block, 5, 8) = <<inbox.com_id \div 256, inbox.com_id % 256, 0, 0>>
        /\ Len(inbox.block) >= CpLength(inbox.block) + 20
        /\ CpLength(inbox.block) = PktLength(inbox.block) + 24
        /\ PktLength(inbox.block) - 12 \in
              SubpktLength(inbox.block)..(SubpktLength(inbox.block) + 3)
        /\ PktLength(inbox.block) % 4 = 0
    BY <1>2, <1>13, <1>14, <1>15, <1>16, <1>20, <1>22 DEF block, HeaderLen, id
  <2>2. Parse(SubpktLength(inbox.block), SubSeq(inbox.block, 57, CpLength(inbox.block) + 20)) = ts
    BY <1>14, <1>16, <1>18, <1>19 DEF block
  <2>3. SubSeq(inbox.block, 21, 24) = session[1] /\ SubSeq(inbox.block, 25, 28) = session[2]
    BY <1>17 DEF block
  <2> QED
    BY <2>1, <2>2, <2>3, Zenon DEF Heard
<1> QED
  BY <1>21, <1>23 DEF ts

LEMMA AnswerIsRead ==
  ASSUME written \in Seq(Tokens), payload \in Seq(Byte), WrittenAs(written, payload),
         NEW c \in 0..63, NEW bytes \in Seq(Byte), Len(bytes) = ReturnLen,
         Holds(bytes, 0, Answer(c))
  PROVE  /\ ~(CpLength(bytes) + 20 > Len(bytes))
         /\ Parse(SubpktLength(bytes), Body(bytes)) =
                written \o Trailer(command.eod, Split(StatusList(c)))
<1> DEFINE list == StatusList(c)
           data == payload \o Trailer(command.eod, list)
           ts == written \o Trailer(command.eod, Split(list))
           n == Len(data)
           block == Answer(c)
           body == Body(bytes)
<1>1. data \in Seq(Byte) /\ ts \in Seq(Tokens) /\ WrittenAs(ts, data)
  <2>1. list \in Seq(Byte) /\ Split(list) \in Seq(Tokens)
    BY StatusListIs
  <2> HIDE DEF list
  <2> QED
    BY Zenon, <2>1, WithTrailer
<1>2. block = AnswerBlock(data)
  BY DEF Answer, Trailer
<1>0. Holds(bytes, 0, block)
  OBVIOUS
<1> HIDE DEF data, ts, block
<1>3. PICK l \in Nat :
            /\ block \in Seq(Nat) /\ Len(block) = l + 56
            /\ Holds(block, 0, Zeros(16)) /\ Holds(block, 16, ToBe(l + 36))
            /\ Holds(block, 52, ToBe(Len(data))) /\ Holds(block, 56, data)
  BY <1>1, <1>2, AnswerFields
<1>4. Len(bytes) \in Nat /\ bytes \in Seq(Nat) /\ n \in Nat /\ data \in Seq(Nat)
  BY <1>1, BytesAreNats
<1>5. /\ ToBe(l + 36) \in Seq(Nat) /\ Len(ToBe(l + 36)) = 4
      /\ ToBe(n) \in Seq(Nat) /\ Len(ToBe(n)) = 4
  <2>1. l + 36 \in Nat
    BY <1>3
  <2> QED
    BY <1>4, <2>1, BeIsSeq
<1>6. /\ Holds(bytes, 16, ToBe(l + 36)) /\ Holds(bytes, 52, ToBe(n)) /\ Holds(bytes, 56, data)
  BY <1>0, <1>3, <1>4, <1>5, HoldsWithin
<1> HIDE DEF n
<1>7. CpLength(bytes) = l + 36
  <2>1. l + 36 \in Nat
    BY <1>3
  <2>2. \A k \in Nat : Holds(bytes, k, ToBe(l + 36)) => SubSeq(bytes, k + 1, k + 4) = ToBe(l + 36)
    BY Zenon, <1>4, <1>5, FieldCut
  <2>3. SubSeq(bytes, 17, 20) = ToBe(l + 36)
    BY <1>6, <2>2
  <2> QED
    BY Zenon, <2>1, <2>3, BeLength DEF CpLength
<1>8. SubpktLength(bytes) = n
  <2>1. \A k \in Nat : Holds(bytes, k, ToBe(n)) => SubSeq(bytes, k + 1, k + 4) = ToBe(n)
    BY Zenon, <1>4, <1>5, FieldCut
  <2>2. SubSeq(bytes, 53, 56) = ToBe(n)
    BY <1>6, <2>1
  <2> QED
    BY Zenon, <1>4, <2>2, BeLength DEF SubpktLength
<1>9. l + 56 <= Len(bytes)
  <2>1. 0 + Len(block) <= Len(bytes)
    BY <1>0 DEF Holds
  <2> QED
    BY <1>3, <1>4, <2>1
<1>10. ~(CpLength(bytes) + 20 > Len(bytes))
  BY <1>3, <1>4, <1>7, <1>9
<1>11. /\ body \in Seq(Byte) /\ Len(body) = Len(bytes) - 56
       /\ \A i \in 1..(Len(bytes) - 56) : body[i] = bytes[i + 56]
  <2>1. 56 \in 1..Len(bytes)
    BY DEF ReturnLen
  <2>2. body = SubSeq(bytes, 56 + 1, Len(bytes))
    BY DEF Body, HeaderLen
  <2> DEFINE rest == SubSeq(bytes, 56 + 1, Len(bytes))
  <2>3. /\ rest \in Seq(Byte) /\ Len(rest) = Len(bytes) - 56
        /\ \A i \in 1..(Len(bytes) - 56) : rest[i] = bytes[i + 56]
    BY Zenon, <2>1, RestIsSeq
  <2> HIDE DEF body, rest
  <2> QED
    BY <2>2, <2>3 DEF rest
<1> HIDE DEF body
<1>12. Holds(body, 0, data)
  <2>1. 56 + n <= Len(bytes) /\ \A j \in 1..n : bytes[56 + j] = data[j]
    BY <1>6 DEF Holds, n
  <2>2. ASSUME NEW j \in 1..n PROVE body[0 + j] = data[j]
    <3>1. j \in 1..(Len(bytes) - 56) /\ 0 + j = j /\ j + 56 = 56 + j
      BY <1>4, <2>1
    <3> QED
      BY <1>11, <2>1, <3>1
  <2>3. 0 + n <= Len(body)
    BY <1>4, <1>11, <2>1
  <2> QED
    BY <2>2, <2>3 DEF Holds, n
<1>13. Parse(n, body) = ts
  BY <1>1, <1>11, <1>12, ParsePart DEF n
<1> QED
  BY <1>8, <1>10, <1>13 DEF body, ts

LEMMA NotYetIsOutstanding ==
  ASSUME buffer \in Seq(Byte), Holds(buffer, 0, NotYet)
  PROVE  Outstanding
<1> DEFINE z8 == Zeros(8)
           out == <<0, 0, 0, 1>>
           z44 == Zeros(44)
           end == [i \in 1..60 |-> ENDOFDATA]
           h1 == z8 \o out
           h2 == h1 \o z44
<1>1. /\ z8 \in Seq(Nat) /\ Len(z8) = 8 /\ z44 \in Seq(Nat) /\ Len(z44) = 44
      /\ \A i \in 1..44 : z44[i] = 0
  BY ZerosSeq
<1>2. out \in Seq(Nat) /\ Len(out) = 4 /\ out[4] = 1
  OBVIOUS
<1>3. end \in Seq(Nat)
  <2>1. end \in [1..60 -> Nat]
    BY DEF ENDOFDATA
  <2> QED
    BY <2>1, FunctionIsSeq
<1>4. NotYet = h2 \o end
  BY Zenon DEF NotYet
<1> HIDE DEF z8, out, z44, end
<1>5. h1 \in Seq(Nat) /\ Len(h1) = 12 /\ Holds(h1, 8, out)
  <2>1. h1 \in Seq(Nat) /\ Len(h1) = Len(z8) + Len(out) /\ Holds(h1, Len(z8), out)
    BY <1>1, <1>2, Extended
  <2> QED
    BY <1>1, <1>2, <2>1
<1> HIDE DEF h1
<1>6. h2 \in Seq(Nat) /\ Holds(h2, 8, out) /\ Holds(h2, 12, z44)
  <2>1. /\ h2 \in Seq(Nat) /\ Holds(h2, Len(h1), z44)
        /\ \A k \in Nat : \A x \in Seq(Nat) : Holds(h1, k, x) => Holds(h2, k, x)
    BY <1>1, <1>5, Extended
  <2> QED
    BY <1>2, <1>5, <2>1
<1> HIDE DEF h2
<1>7. NotYet \in Seq(Nat) /\ Holds(NotYet, 8, out) /\ Holds(NotYet, 12, z44)
  <2>1. /\ NotYet \in Seq(Nat)
        /\ \A k \in Nat : \A x \in Seq(Nat) : Holds(h2, k, x) => Holds(NotYet, k, x)
    BY <1>3, <1>4, <1>6, Extended
  <2> QED
    BY <1>1, <1>2, <1>6, <2>1
<1>8. Holds(buffer, 8, out) /\ Holds(buffer, 12, z44)
  <2>1. /\ Len(buffer) \in Nat /\ Holds(buffer, 0, NotYet) /\ NotYet \in Seq(Nat)
        /\ 8 \in Nat /\ 12 \in Nat /\ out \in Seq(Nat) /\ z44 \in Seq(Nat)
    BY <1>1, <1>2, <1>7
  <2>2. Holds(NotYet, 8, out) /\ Holds(NotYet, 12, z44)
    BY <1>7
  <2> QED
    BY Zenon, <2>1, <2>2, HoldsWithin
<1>9. buffer[12] = 1
  <2>1. 4 \in 1..Len(out) /\ 8 + 4 = 12
    BY <1>2
  <2>2. buffer[8 + 4] = out[4]
    BY <1>8, <2>1 DEF Holds
  <2> QED
    BY <1>2, <2>1, <2>2
<1>10. ASSUME NEW i \in 13..16 PROVE buffer[i] = 0
  <2>1. i - 12 \in 1..44 /\ 12 + (i - 12) = i
    OBVIOUS
  <2>2. buffer[12 + (i - 12)] = z44[i - 12]
    BY <1>1, <1>8, <2>1 DEF Holds
  <2> QED
    BY <1>1, <2>1, <2>2
<1>11. ~IsZero(buffer, 9, 12)
  <2>1. 12 \in 9..12
    OBVIOUS
  <2> QED
    BY <1>9, <2>1 DEF IsZero
<1> QED
  BY <1>10, <1>11 DEF Outstanding, IsZero

LEMMA StatusIsRead ==
  ASSUME NEW ts \in Seq(Tokens), NEW c \in 0..63, NEW all, all = ts \o Split(StatusList(c))
  PROVE  MethodStatus(all, TRUE) = c
<1> DEFINE m == Len(ts)
           list == Split(StatusList(c))
           n == Len(all)
<1>1. StatusList(c) = <<249, 240, c, 0, 0, 241>> /\ list \in Seq(Tokens) /\ Len(list) = 6
  BY StatusListIs
<1>2. list[1] = <<249>> /\ list[2] = <<240>> /\ list[3] = <<c>> /\ list[6] = <<241>>
  BY <1>1 DEF Split
<1>3. m \in Nat /\ all = ts \o list
  OBVIOUS
<1> HIDE DEF list
<1>4. /\ n = m + 6
      /\ \A i \in 1..(m + 6) : all[i] = IF i <= m THEN ts[i] ELSE list[i - m]
  <2>1. /\ Len(ts \o list) = Len(ts) + Len(list)
        /\ \A i \in 1..(Len(ts) + Len(list)) :
              (ts \o list)[i] = IF i <= Len(ts) THEN ts[i] ELSE list[i - Len(ts)]
    BY <1>1, ConcatProperties
  <2> QED
    BY <1>1, <1>3, <2>1
<1> HIDE DEF m
<1>5. /\ all[n - 5] = <<249>> /\ all[n - 4] = <<240>> /\ all[n - 3] = <<c>> /\ all[n] = <<241>>
  <2>1. ASSUME NEW j \in 1..6 PROVE all[m + j] = list[j]
    <3>1. m + j \in 1..(m + 6) /\ ~(m + j <= m) /\ (m + j) - m = j
      BY <1>3
    <3> QED
      BY <1>4, <3>1
  <2>2. n - 5 = m + 1 /\ n - 4 = m + 2 /\ n - 3 = m + 3 /\ n = m + 6
    BY <1>3, <1>4
  <2>3. all[m + 1] = list[1] /\ all[m + 2] = list[2] /\ all[m + 3] = list[3] /\ all[m + 6] = list[6]
    <3>1. 1 \in 1..6 /\ 2 \in 1..6 /\ 3 \in 1..6 /\ 6 \in 1..6
      OBVIOUS
    <3> QED
      BY <2>1, <3>1
  <2>4. /\ all[n - 5] = list[1] /\ all[n - 4] = list[2] /\ all[n - 3] = list[3]
        /\ all[n] = list[6]
    BY <2>2, <2>3, Zenon
  <2> QED
    BY <1>2, <2>4
<1>6. n \in Nat /\ n >= 6 /\ n - 5 \in 1..n /\ n - 4 \in 1..n /\ n \in 1..n
  BY <1>3, <1>4
<1> DEFINE v == [i \in 1..8 |-> IF i = 8 THEN c ELSE 0]
<1>7. GetUint(<<c>>) = v
  <2> DEFINE t == <<c>>
             none == t[1] \in 128..143 \cup 160..175
  <2>1. t[1] = c
    OBVIOUS
  <2>2. GetUint(t) = CASE t[1] < 64 -> [i \in 1..8 |-> IF i = 8 THEN t[1] ELSE 0]
                       [] none /\ Len(t) <= 8 ->
                             [i \in 1..8 |-> IF i > 8 - Len(t) THEN t[i - (8 - Len(t))] ELSE 0]
                       [] none /\ Len(t) = 9 ->
                             [i \in 1..8 |-> IF i = 8 THEN OrHeader(t[1], t[9]) ELSE t[i + 1]]
                       [] OTHER -> Panic
    BY Zenon DEF GetUint
  <2> HIDE DEF t
  <2>3. t[1] < 64 /\ ~none
    BY <2>1
  <2> HIDE DEF none
  <2>4. GetUint(t) = [i \in 1..8 |-> IF i = 8 THEN t[1] ELSE 0]
    BY <2>2, <2>3
  <2> QED
    BY <2>1, <2>4 DEF t
<1>8. v # Panic /\ v[8] = c
  <2>1. v \in [1..8 -> Byte]
    BY DEF Byte
  <2>2. v \in Seq(Byte)
    BY <2>1, FunctionIsSeq
  <2>3. v[8] = c
    <3>1. 8 \in 1..8
      OBVIOUS
    <3> QED
      BY <3>1
  <2> HIDE DEF v
  <2> QED
    BY <2>2, <2>3, PanicAssumption
<1> HIDE DEF v
<1>9. Is(all, n - 5, ENDOFDATA) /\ Is(all, n - 4, STARTLIST) /\ Is(all, n, ENDLIST)
  BY <1>5, <1>6 DEF Is, ENDOFDATA, STARTLIST, ENDLIST
<1>10. GetUint(all[n - 3]) = v
  BY <1>5, <1>7
<1> QED
  BY <1>6, <1>8, <1>9, <1>10 DEF MethodStatus, AsU8

-------------------------------------------------------------------------------
(* The invariant of the wire. *)

\* The payload is the tokens that were written, one after the other, and the command is
\* made of it; a request is written as a whole.
WhatIsBuilt ==
    /\ written \in Seq(Tokens) /\ payload \in Seq(Byte) /\ WrittenAs(written, payload)
    /\ request # NoRequest => request \in Requests /\ written = RequestTokens(request)
    /\ command # NotBuilt =>
          \E eod \in BOOLEAN : /\ command = BuildEod(payload, eod)
                               /\ request # NoRequest => eod = (request.fn # "drop")
    /\ step \in {"sending", "polling", "done"} => command # NotBuilt

\* The call in progress is the one the program is at.
WhatIsAsked ==
    /\ com_id \in ComIds /\ session \in Sessions
    /\ step = "identifying" => call.op = "identify"
    /\ step = "sending" => call = Call("send", PROTOCOL, com_id) /\ buffer = Sent
    /\ step = "polling" => call = Call("recv", PROTOCOL, com_id) /\ Len(buffer) = ReturnLen
    /\ step \notin {"identifying", "sending", "polling"} => pc = "idle"

\* Only the command goes to the drive, and only "not yet" and the answer come from it.
Carried == step \in {"sending", "polling", "done", "failed"} /\ command # NotBuilt
WhatTheDriveHas ==
    inbox.block # <<>> =>
        /\ Carried /\ inbox.protocol = PROTOCOL /\ inbox.com_id = com_id
        /\ Contract!Whole(inbox.block, Sent)
WhatTheDriveSays ==
    /\ code = None \/ (code \in Codes /\ Carried)
    /\ \/ outbox.block = <<>> /\ outbox.com_id = 0
       \/ outbox.block = NotYet
       \/ code \in Codes /\ outbox.block = Answer(code) /\ Len(Answer(code)) <= ReturnLen

\* A receive that did not fail has put one of the two into the buffer.
Answered == Holds(buffer, 0, NotYet) \/ (code \in Codes /\ Holds(buffer, 0, Answer(code)))
WhatIsRead ==
    /\ step = "polling" /\ (Phase = "done" \/ (Phase = "idle" /\ result = "Ok")) => Answered
    /\ step = "done" =>
          code \in Codes /\ tokens = written \o Trailer(command.eod, Split(StatusList(code)))

WireInv == WhatIsBuilt /\ WhatIsAsked /\ WhatTheDriveHas /\ WhatTheDriveSays /\ WhatIsRead

-------------------------------------------------------------------------------
(* The builder. *)

LEMMA PayloadStep ==
  ASSUME WhatIsBuilt, NEW t \in Tokens, Payload(t), UNCHANGED step
  PROVE  WhatIsBuilt'
<1>1. /\ command = NotBuilt /\ request = NoRequest
      /\ written' = Append(written, t) /\ payload' = payload \o t
      /\ request' = request /\ command' = command
  BY DEF Payload
<1>2. written \in Seq(Tokens) /\ payload \in Seq(Byte) /\ WrittenAs(written, payload)
  BY DEF WhatIsBuilt
<1>3. t \in Seq(Byte) /\ written \in Seq(Seq(Byte))
  BY <1>2, TokensAreBytes DEF Tokens
<1>4. Append(written, t) \in Seq(Tokens)
  BY <1>2
<1>5. payload \o t \in Seq(Byte)
  BY <1>2, <1>3, ConcatProperties
<1>6. WrittenAs(Append(written, t), payload \o t)
  BY <1>2, <1>3, AppendIsCut
<1> QED
  BY <1>1, <1>4, <1>5, <1>6 DEF WhatIsBuilt

LEMMA WriteRequestStep ==
  ASSUME WhatIsBuilt, WriteRequest, UNCHANGED step
  PROVE  WhatIsBuilt'
<1>1. /\ command = NotBuilt /\ command' = command /\ request' \in Requests
      /\ written' = RequestTokens(request') /\ payload' = FlattenSeq(written')
  BY DEF WriteRequest
<1>2. RequestTokens(request') \in Seq(Tokens)
  <2>1. \A r \in SessionRequests : RequestTokens(r) \in Seq(Tokens)
    BY RequestIsRead
  <2> QED
    BY <1>1, <2>1, ItemsAssumption
<1>3. written' \in Seq(Tokens) /\ written' \in Seq(Seq(Byte))
  BY <1>1, <1>2, TokensAreBytes
<1>4. payload' \in Seq(Byte) /\ WrittenAs(written', payload')
  BY <1>1, <1>3, FlattenIsCut
<1> QED
  BY <1>1, <1>3, <1>4 DEF WhatIsBuilt

LEMMA CommandStepKeeps ==
  ASSUME WhatIsBuilt, CommandStep, UNCHANGED step
  PROVE  WhatIsBuilt'
<1>1. CASE WriteUint
  <2>1. PICK v \in Uints : Payload(WriteU64(v))
    BY <1>1 DEF WriteUint
  <2>2. WriteU64(v) \in Tokens
    BY ItemsAssumption, IntegerIsToken
  <2> QED
    BY <2>1, <2>2, PayloadStep
<1>2. CASE WriteString
  <2>1. PICK s \in Strings : Payload(WriteBytes(s))
    BY <1>2 DEF WriteString
  <2>2. WriteBytes(s) \in Tokens
    BY ItemsAssumption, StringIsToken
  <2> QED
    BY <2>1, <2>2, PayloadStep
<1>3. CASE WriteControl
  <2>1. PICK c \in Controls : Payload(<<c>>)
    BY <1>3 DEF WriteControl
  <2>2. <<c>> \in Tokens
    <3>1. c \in Byte /\ c >= 240 /\ c # EMPTYATOM
      BY ItemsAssumption DEF STARTLIST, ENDLIST, ENDOFDATA, EMPTYATOM, Byte
    <3> QED
      BY <3>1, OneByteIsToken
  <2> QED
    BY <2>1, <2>2, PayloadStep
<1>4. CASE WriteRequest
  BY <1>4, WriteRequestStep
<1>5. CASE \E eod \in BOOLEAN : Build(eod)
  <2>1. PICK eod \in BOOLEAN : Build(eod)
    BY <1>5
  <2>2. /\ command = NotBuilt /\ command' = BuildEod(payload, eod)
        /\ request # NoRequest => eod = (request.fn # "drop")
        /\ written' = written /\ request' = request /\ payload' = payload
    BY <2>1 DEF Build
  <2>3. step \notin {"sending", "polling", "done"}
    BY <2>2 DEF WhatIsBuilt
  <2> QED
    BY <2>2, <2>3 DEF WhatIsBuilt
<1> QED
  BY <1>1, <1>2, <1>3, <1>4, <1>5 DEF CommandStep

\* Nothing but the builder touches the command.
LEMMA SameCommand ==
  ASSUME UNCHANGED <<commandVars, com_id, session>>
  PROVE  /\ Sent' = Sent /\ \A c : Answer(c)' = Answer(c)
         /\ UNCHANGED <<written, request, payload, command>>
BY DEF commandVars, Sent, HeaderBytes, Answer

-------------------------------------------------------------------------------
(* The steps of the wire. *)

LEMMA StillBuilt ==
  ASSUME WhatIsBuilt, UNCHANGED commandVars,
         step' \in {"sending", "polling", "done"} =>
             step \in {"sending", "polling", "done"} \/ command # NotBuilt
  PROVE  WhatIsBuilt'
<1>1. UNCHANGED <<written, request, payload, command>>
  BY DEF commandVars
<1> QED
  BY <1>1 DEF WhatIsBuilt

LEMMA NotCarried ==
  ASSUME WireInv, step \in {"serial", "identifying", "build"}
  PROVE  inbox.block = <<>> /\ code = None /\ code \notin Codes
         /\ (outbox.block = NotYet \/ (outbox.block = <<>> /\ outbox.com_id = 0))
BY WireAssumption DEF WireInv, WhatTheDriveHas, WhatTheDriveSays, Carried

LEMMA BeforeSending ==
  ASSUME WireInv, PassTypes, AskSerial \/ SerialIsKnown \/ BuildCommand
  PROVE  WireInv'
<1>1. /\ inbox.block = <<>> /\ code = None
      /\ outbox.block = NotYet \/ (outbox.block = <<>> /\ outbox.com_id = 0)
  BY NotCarried DEF AskSerial, SerialIsKnown, BuildCommand
<1>2. UNCHANGED <<inbox, outbox, code, com_id, session>>
  BY DEF AskSerial, SerialIsKnown, BuildCommand, Begin, driveVars, passVars, wireVars
<1>3. step' \in {"identifying", "build"}
  BY DEF AskSerial, SerialIsKnown, BuildCommand, wireVars
<1>4. WhatIsBuilt'
  <2>1. CASE BuildCommand
    BY <2>1, CommandStepKeeps DEF BuildCommand, wireVars, WireInv
  <2>2. CASE AskSerial \/ SerialIsKnown
    <3>1. UNCHANGED commandVars
      BY <2>2 DEF AskSerial, SerialIsKnown
    <3> QED
      BY <1>3, <3>1, StillBuilt DEF WireInv
  <2> QED
    BY <2>1, <2>2
<1>5. WhatIsAsked'
  <2>1. com_id' \in ComIds /\ session' \in Sessions
    BY <1>2 DEF WireInv, WhatIsAsked
  <2>2. step' = "identifying" => call'.op = "identify"
    BY DEF AskSerial, SerialIsKnown, BuildCommand, wireVars, Begin, Call
  <2>3. step' = "build" => pc' = "idle"
    BY DEF AskSerial, SerialIsKnown, BuildCommand, wireVars, passVars, Finished, WireInv, WhatIsAsked
  <2> QED
    BY <1>3, <2>1, <2>2, <2>3 DEF WhatIsAsked
<1>6. WhatTheDriveHas'
  BY <1>1, <1>2 DEF WhatTheDriveHas
<1>7. WhatTheDriveSays'
  <2>1. NotYet' = NotYet
    BY DEF NotYet
  <2> QED
    BY <1>1, <1>2, <2>1 DEF WhatTheDriveSays
<1>8. WhatIsRead'
  BY <1>3 DEF WhatIsRead
<1> QED
  BY <1>4, <1>5, <1>6, <1>7, <1>8 DEF WireInv

LEMMA SecureSendStep ==
  ASSUME WireInv, PassTypes, SecureSend
  PROVE  WireInv'
<1>1. /\ step = "build" /\ step' = "sending" /\ command # NotBuilt
      /\ Begin(Call("send", PROTOCOL, com_id), HeaderBytes \o command.payload)
      /\ UNCHANGED <<commandVars, com_id, session, code, tokens>>
  BY DEF SecureSend
<1>2. /\ inbox.block = <<>> /\ code = None
      /\ outbox.block = NotYet \/ (outbox.block = <<>> /\ outbox.com_id = 0)
  BY <1>1, NotCarried
<1>3. /\ call' = Call("send", PROTOCOL, com_id) /\ buffer' = Sent
      /\ UNCHANGED <<inbox, outbox>>
  BY <1>1 DEF Begin, driveVars, Sent
<1>4. WhatIsBuilt'
  BY <1>1, StillBuilt DEF WireInv
<1>5. WhatIsAsked'
  <2>1. Sent' = Sent
    BY <1>1, SameCommand
  <2>2. Call("send", PROTOCOL, com_id)' = Call("send", PROTOCOL, com_id)
    BY <1>1 DEF Call, PROTOCOL
  <2> QED
    BY <1>1, <1>3, <2>1, <2>2 DEF WireInv, WhatIsAsked
<1>6. WhatTheDriveHas'
  BY <1>2, <1>3 DEF WhatTheDriveHas
<1>7. WhatTheDriveSays'
  BY <1>1, <1>2, <1>3 DEF WhatTheDriveSays, NotYet
<1>8. WhatIsRead'
  BY <1>1 DEF WhatIsRead
<1> QED
  BY <1>4, <1>5, <1>6, <1>7, <1>8 DEF WireInv

\* What the drive has and says is the same while its side is.
LEMMA DriveIsTheSame ==
  ASSUME WireInv, UNCHANGED <<commandVars, com_id, session, code, inbox, outbox>>,
         Carried => step' \in {"sending", "polling", "done", "failed"}
  PROVE  WhatTheDriveHas' /\ WhatTheDriveSays'
<1>1. /\ Sent' = Sent /\ \A c : Answer(c)' = Answer(c)
      /\ UNCHANGED <<written, request, payload, command>>
  BY SameCommand
<1>2. Carried => Carried'
  BY <1>1 DEF Carried, NotBuilt
<1>3. WhatTheDriveHas'
  BY <1>1, <1>2 DEF WireInv, WhatTheDriveHas, Contract!Whole, PROTOCOL
<1>4. WhatTheDriveSays'
  <2>1. Answer(code)' = Answer(code)
    BY <1>1 DEF Answer
  <2> QED
    BY <1>2, <2>1 DEF WireInv, WhatTheDriveSays, NotYet
<1> QED
  BY <1>3, <1>4

LEMMA SecureRecvStep ==
  ASSUME WireInv, PassTypes, SecureRecv
  PROVE  WireInv'
<1>1. /\ step \in {"sending", "polling"} /\ step' = "polling"
      /\ Begin(Call("recv", PROTOCOL, com_id), ReceiveBuffer)
      /\ UNCHANGED <<commandVars, com_id, session, code, tokens>>
  BY DEF SecureRecv
<1>2. /\ call' = Call("recv", PROTOCOL, com_id) /\ buffer' = ReceiveBuffer /\ pc' = "build"
      /\ UNCHANGED <<inbox, outbox>>
  BY <1>1 DEF Begin, driveVars
<1>3. Len(ReceiveBuffer) = ReturnLen
  <2>1. CASE step = "sending"
    <3>1. ReturnLen \in Nat
      BY DEF ReturnLen
    <3>2. Len(Zeros(ReturnLen)) = ReturnLen
      BY <3>1, ZerosSeq
    <3> QED
      BY <2>1, <3>2 DEF ReceiveBuffer
  <2>2. CASE step = "polling"
    BY <2>2 DEF ReceiveBuffer, WireInv, WhatIsAsked
  <2> QED
    BY <1>1, <2>1, <2>2
<1>4. WhatIsBuilt'
  BY <1>1, StillBuilt DEF WireInv
<1>5. WhatIsAsked'
  <2>1. Call("recv", PROTOCOL, com_id)' = Call("recv", PROTOCOL, com_id)
    BY <1>1 DEF Call, PROTOCOL
  <2> QED
    BY <1>1, <1>2, <1>3, <2>1 DEF WireInv, WhatIsAsked, ReturnLen
<1>6. WhatTheDriveHas' /\ WhatTheDriveSays'
  BY <1>1, <1>2, DriveIsTheSame
<1>7. WhatIsRead'
  BY <1>1, <1>2 DEF WhatIsRead, Phase
<1> QED
  BY <1>4, <1>5, <1>6, <1>7 DEF WireInv

LEMMA ReadResponseStep ==
  ASSUME WireInv, PassTypes, ReadResponse
  PROVE  WireInv'
<1>1. /\ step = "polling" /\ step' = "done" /\ pc = "idle" /\ result = "Ok" /\ ~Outstanding
      /\ tokens' = IF CpLength(buffer) + 20 > Len(buffer) THEN Panic
                   ELSE Parse(SubpktLength(buffer), Body(buffer))
      /\ UNCHANGED <<commandVars, passVars, com_id, session, code>>
  BY DEF ReadResponse, Finished
<1>2. buffer \in Seq(Byte) /\ Len(buffer) = ReturnLen
  BY <1>1 DEF PassTypes, Octet, Byte, WireInv, WhatIsAsked
<1>3. Answered
  BY <1>1 DEF WireInv, WhatIsRead, Phase
<1>4. code \in Codes /\ Holds(buffer, 0, Answer(code))
  BY <1>1, <1>2, <1>3, NotYetIsOutstanding DEF Answered
<1>5. written \in Seq(Tokens) /\ payload \in Seq(Byte) /\ WrittenAs(written, payload)
  BY DEF WireInv, WhatIsBuilt
<1>6. code \in 0..63
  BY <1>4, WireAssumption
<1>7. tokens' = written \o Trailer(command.eod, Split(StatusList(code)))
  BY <1>1, <1>2, <1>4, <1>5, <1>6, AnswerIsRead
<1>8. UNCHANGED <<pc, call, buffer, inbox, outbox, result>>
  BY <1>1 DEF passVars, driveVars
<1>9. WhatIsBuilt'
  BY <1>1, StillBuilt DEF WireInv
<1>10. WhatIsAsked'
  BY <1>1, <1>8 DEF WireInv, WhatIsAsked
<1>11. WhatTheDriveHas' /\ WhatTheDriveSays'
  BY <1>1, <1>8, DriveIsTheSame
<1>12. WhatIsRead'
  <2>1. UNCHANGED <<written, command, code>>
    BY <1>1 DEF commandVars
  <2>2. (written \o Trailer(command.eod, Split(StatusList(code))))' =
            written \o Trailer(command.eod, Split(StatusList(code)))
    BY <2>1 DEF Trailer, Split, StatusList
  <2> QED
    BY <1>1, <1>4, <1>7, <2>1, <2>2 DEF WhatIsRead
<1> QED
  BY <1>9, <1>10, <1>11, <1>12 DEF WireInv

LEMMA CallFailsStep ==
  ASSUME WireInv, PassTypes, CallFails
  PROVE  WireInv'
<1>1. /\ step' = "failed" /\ pc = "idle"
      /\ UNCHANGED <<commandVars, passVars, com_id, session, code, tokens>>
  BY DEF CallFails, Finished
<1>2. UNCHANGED <<pc, call, buffer, inbox, outbox, result>>
  BY <1>1 DEF passVars, driveVars
<1>3. WhatIsBuilt'
  BY <1>1, StillBuilt DEF WireInv
<1>4. WhatIsAsked'
  BY <1>1, <1>2 DEF WireInv, WhatIsAsked
<1>5. WhatTheDriveHas' /\ WhatTheDriveSays'
  BY <1>1, <1>2, DriveIsTheSame
<1>6. WhatIsRead'
  BY <1>1 DEF WhatIsRead
<1> QED
  BY <1>3, <1>4, <1>5, <1>6 DEF WireInv

LEMMA FilledHolds ==
  ASSUME NEW new \in Seq(Byte), NEW old \in Seq(Byte), NEW block \in Seq(Byte),
         Contract!Filled(new, old, block), Len(block) <= Len(old)
  PROVE  Holds(new, 0, block)
<1> DEFINE n == Len(block)
           l == Len(new)
<1>1. n \in Nat /\ l \in Nat /\ l = Len(old)
  BY DEF Contract!Filled
<1>2. n <= l
  BY <1>1
<1>3. \A i \in 1..l : i <= n => new[i] = block[i]
  BY DEF Contract!Filled
<1> HIDE DEF n, l
<1>4. \A j \in 1..n : j \in 1..l /\ j <= n /\ 0 + j = j
  BY <1>1, <1>2
<1>5. \A j \in 1..n : new[0 + j] = block[j]
  BY <1>3, <1>4
<1>6. 0 + n <= l
  BY <1>1, <1>2
<1> QED
  BY <1>5, <1>6 DEF Holds, n, l

LEMMA NotYetFits == Len(NotYet) <= ReturnLen
<1> DEFINE z8  == Zeros(8)
           out == <<0, 0, 0, 1>>
           z44 == Zeros(44)
           end == [i \in 1..60 |-> ENDOFDATA]
           h1  == z8 \o out
           h2  == h1 \o z44
<1>1. z8 \in Seq(Nat) /\ Len(z8) = 8 /\ z44 \in Seq(Nat) /\ Len(z44) = 44
  <2>1. \A k \in Nat : Zeros(k) \in Seq(Nat) /\ Len(Zeros(k)) = k
    BY Zenon, ZerosSeq
  <2> QED
    BY <2>1
<1>2. out \in Seq(Nat) /\ Len(out) = 4
  OBVIOUS
<1>3. end \in Seq(Nat) /\ Len(end) = 60
  <2> DEFINE m == 60
  <2>1. end \in [1..m -> Nat] /\ m \in Nat /\ m = 60
    BY DEF ENDOFDATA
  <2> HIDE DEF end, m
  <2>2. end \in Seq(Nat) /\ Len(end) = m
    BY Zenon, <2>1, FunctionIsSeq
  <2> QED
    BY <2>1, <2>2
<1>4. NotYet = h2 \o end
  BY DEF NotYet
<1> HIDE DEF z8, out, z44, end
<1>5. h1 \in Seq(Nat) /\ Len(h1) = Len(z8) + Len(out)
  BY Zenon, <1>1, <1>2, Extended
<1> HIDE DEF h1
<1>6. h2 \in Seq(Nat) /\ Len(h2) = Len(h1) + Len(z44)
  BY Zenon, <1>1, <1>5, Extended
<1> HIDE DEF h2
<1>7. Len(h2 \o end) = Len(h2) + Len(end)
  BY Zenon, <1>3, <1>6, Extended
<1>8. Len(NotYet) = 116
  BY <1>1, <1>2, <1>3, <1>4, <1>5, <1>6, <1>7
<1> QED
  BY <1>8 DEF ReturnLen

\* An operation of the drive or of the firmware, in the course of a call.
LEMMA PassStepKeeps ==
  ASSUME WireInv, PassTypes, InCall, PassStep, UNCHANGED <<commandVars, wireVars>>
  PROVE  WireInv'
<1>1. UNCHANGED <<step, com_id, session, code, tokens>>
  BY DEF wireVars
<1>2. /\ Sent' = Sent /\ \A c : Answer(c)' = Answer(c)
      /\ UNCHANGED <<written, request, payload, command>>
  BY <1>1, SameCommand
<1>3. pc # "idle"
  BY DEF PassStep, BuildNvme, BuildAta, DriveTakes, DriveGives, DriveIdentifies, Complete,
         PassThruFails, CopyBack, Return
<1>4. step \in {"identifying", "sending", "polling"}
  BY <1>3 DEF WireInv, WhatIsAsked
<1>5. Phase # "idle"
  BY <1>3 DEF Phase
<1>6. PassTypes' /\ [Contract!Next]_(Contract!vars)
  BY PassNextStep DEF PassNext
<1>7. WhatIsBuilt'
  BY <1>1, StillBuilt DEF WireInv
<1>8. Carried' = Carried
  BY <1>1, <1>2 DEF Carried, NotBuilt
<1>9. /\ NotYet' = NotYet /\ Answer(code)' = Answer(code)
      /\ Call("send", PROTOCOL, com_id)' = Call("send", PROTOCOL, com_id)
      /\ Call("recv", PROTOCOL, com_id)' = Call("recv", PROTOCOL, com_id)
  BY <1>1, <1>2 DEF NotYet, Answer, Call, PROTOCOL
<1>10. ASSUME UNCHANGED outbox PROVE WhatTheDriveSays'
  BY <1>1, <1>8, <1>9, <1>10 DEF WireInv, WhatTheDriveSays
<1>11. ASSUME UNCHANGED inbox PROVE WhatTheDriveHas'
  BY <1>1, <1>2, <1>8, <1>11 DEF WireInv, WhatTheDriveHas, Contract!Whole, PROTOCOL
<1>12. ASSUME UNCHANGED <<call, buffer>> PROVE WhatIsAsked'
  BY <1>1, <1>2, <1>4, <1>9, <1>12 DEF WireInv, WhatIsAsked
<1>13. ASSUME UNCHANGED buffer PROVE Answered' = Answered
  BY <1>1, <1>9, <1>13 DEF Answered, Holds
<1>14. step # "polling" => WhatIsRead'
  BY <1>1, <1>4 DEF WhatIsRead
<1>15. CASE UNCHANGED Contract!vars
  <2>1. UNCHANGED <<call, buffer, inbox, outbox, result>> /\ Phase' = Phase
    BY <1>15 DEF Contract!vars
  <2>2. WhatIsRead'
    BY <1>1, <1>4, <1>13, <2>1 DEF WireInv, WhatIsRead
  <2> QED
    BY <1>7, <1>10, <1>11, <1>12, <2>1, <2>2 DEF WireInv
<1>16. CASE Contract!Deliver
  <2>1. /\ call.op = "send" /\ UNCHANGED <<call, buffer, outbox>>
        /\ inbox'.protocol = call.protocol /\ inbox'.com_id = call.com_id
        /\ Contract!Whole(inbox'.block, buffer)
    BY <1>16 DEF Contract!Deliver
  <2>2. step = "sending" /\ call = Call("send", PROTOCOL, com_id) /\ buffer = Sent
    BY <1>4, <2>1 DEF WireInv, WhatIsAsked, Call
  <2>3. Carried /\ call.protocol = PROTOCOL /\ call.com_id = com_id
    BY <2>2 DEF Call, Carried, WireInv, WhatIsBuilt
  <2>4. WhatTheDriveHas'
    <3>1. Contract!Whole(inbox'.block, Sent')
      BY <1>2, <2>1, <2>2
    <3> QED
      BY <1>1, <1>8, <2>1, <2>3, <3>1 DEF WhatTheDriveHas, Contract!Whole, PROTOCOL
  <2> QED
    BY <1>7, <1>10, <1>12, <1>14, <2>1, <2>2, <2>4 DEF WireInv
<1>17. CASE Contract!Receive
  <2>1. /\ call.op = "recv" /\ UNCHANGED <<call, inbox, outbox, result>>
        /\ outbox.com_id = call.com_id
        /\ Contract!Filled(buffer', buffer, outbox.block)
    BY <1>17 DEF Contract!Receive, Contract!At
  <2>2. step = "polling" /\ call = Call("recv", PROTOCOL, com_id) /\ Len(buffer) = ReturnLen
    BY <1>4, <2>1 DEF WireInv, WhatIsAsked, Call
  <2>3. com_id # 0 /\ call.com_id = com_id
    BY <2>2, WireAssumption DEF Call, WireInv, WhatIsAsked
  <2>4. \/ outbox.block = NotYet
        \/ code \in Codes /\ outbox.block = Answer(code) /\ Len(Answer(code)) <= ReturnLen
    BY <2>1, <2>3 DEF WireInv, WhatTheDriveSays
  <2>5. /\ buffer \in Seq(Byte) /\ buffer' \in Seq(Byte) /\ outbox.block \in Seq(Byte)
    BY <1>6 DEF PassTypes, Octet, Byte, Blocks
  <2>6. Holds(buffer', 0, outbox.block)
    BY <2>1, <2>2, <2>4, <2>5, NotYetFits, FilledHolds
  <2>7. Answered'
    BY <1>1, <1>9, <2>4, <2>6 DEF Answered, Holds
  <2>8. Len(buffer') = ReturnLen
    BY <2>1, <2>2 DEF Contract!Filled
  <2>9. WhatIsAsked'
    BY <1>1, <1>9, <2>1, <2>2, <2>8 DEF WireInv, WhatIsAsked, ReturnLen
  <2>10. WhatIsRead'
    BY <1>1, <2>2, <2>7 DEF WhatIsRead
  <2> QED
    BY <1>7, <1>10, <1>11, <2>1, <2>9, <2>10 DEF WireInv
<1>18. CASE Contract!Identify
  <2>1. call.op = "identify" /\ UNCHANGED <<call, buffer, inbox, outbox, result>>
    BY <1>18 DEF Contract!Identify
  <2>2. step = "identifying"
    BY <1>4, <2>1 DEF WireInv, WhatIsAsked, Call
  <2> QED
    BY <1>7, <1>10, <1>11, <1>12, <1>14, <2>1, <2>2 DEF WireInv
<1>19. CASE Contract!Succeed
  <2>1. Phase = "done" /\ UNCHANGED <<call, buffer, inbox, outbox>>
    BY <1>19 DEF Contract!Succeed
  <2>2. step = "polling" => Answered'
    BY <1>13, <2>1 DEF WireInv, WhatIsRead
  <2>3. WhatIsRead'
    BY <1>1, <1>4, <2>2 DEF WhatIsRead
  <2> QED
    BY <1>7, <1>10, <1>11, <1>12, <2>1, <2>3 DEF WireInv
<1>20. CASE Contract!Fail
  <2>1. Phase' = "idle" /\ result' = "Err" /\ UNCHANGED <<call, buffer, inbox, outbox>>
    BY <1>20 DEF Contract!Fail
  <2>2. WhatIsRead'
    BY <1>1, <1>4, <2>1 DEF WhatIsRead
  <2> QED
    BY <1>7, <1>10, <1>11, <1>12, <2>1, <2>2 DEF WireInv
<1>21. ~Contract!Begin /\ ~Contract!DriveSpeaks
  BY <1>5 DEF Contract!Begin, Contract!DriveSpeaks
<1> QED
  BY <1>6, <1>15, <1>16, <1>17, <1>18, <1>19, <1>20, <1>21 DEF Contract!Next

LEMMA ReplyStep ==
  ASSUME WireInv, PassTypes, ReplyNotYet \/ ReplyDone
  PROVE  WireInv'
<1>1. /\ pc = "idle" /\ result = "Ok" /\ step \in {"sending", "polling"} /\ code = None
      /\ UNCHANGED <<commandVars, step, com_id, session, tokens>>
  BY DEF ReplyNotYet, ReplyDone, Reply, Finished
<1>2. UNCHANGED <<pc, call, buffer, inbox, result, status>>
  BY DEF ReplyNotYet, ReplyDone, Reply, DriveSays
<1>3. \/ outbox'.block = NotYet /\ code' = code
      \/ \E c \in Codes : /\ code' = c /\ outbox'.block = Answer(c)
                          /\ Len(Answer(c)) <= ReturnLen /\ inbox.block # <<>>
  BY DEF ReplyNotYet, ReplyDone, Reply, DriveSays
<1>4. code \notin Codes
  BY <1>1, WireAssumption
<1>5. /\ Sent' = Sent /\ \A c : Answer(c)' = Answer(c)
      /\ UNCHANGED <<written, request, payload, command>>
  BY <1>1, SameCommand
<1>6. Carried' = Carried
  BY <1>1, <1>5 DEF Carried, NotBuilt
<1>7. WhatIsBuilt'
  BY <1>1, StillBuilt DEF WireInv
<1>8. WhatIsAsked'
  BY <1>1, <1>2, <1>5 DEF WireInv, WhatIsAsked, Call, PROTOCOL, ReturnLen
<1>9. WhatTheDriveHas'
  BY <1>1, <1>2, <1>5, <1>6 DEF WireInv, WhatTheDriveHas, Contract!Whole, PROTOCOL
<1>10. WhatTheDriveSays'
  <2>1. CASE outbox'.block = NotYet /\ code' = code
    BY <1>1, <2>1 DEF WhatTheDriveSays, NotYet
  <2>2. CASE \E c \in Codes : /\ code' = c /\ outbox'.block = Answer(c)
                              /\ Len(Answer(c)) <= ReturnLen /\ inbox.block # <<>>
    <3>1. PICK c \in Codes : /\ code' = c /\ outbox'.block = Answer(c)
                             /\ Len(Answer(c)) <= ReturnLen /\ inbox.block # <<>>
      BY <2>2
    <3>2. Carried
      BY <3>1 DEF WireInv, WhatTheDriveHas
    <3>3. Answer(code)' = Answer(c)
      BY <1>5, <3>1 DEF Answer, StatusList
    <3> QED
      BY <1>6, <3>1, <3>2, <3>3 DEF WhatTheDriveSays, ReturnLen
  <2> QED
    BY <1>3, <2>1, <2>2
<1>11. WhatIsRead'
  <2>1. step = "polling" => Answered
    BY <1>1 DEF WireInv, WhatIsRead, Phase
  <2>2. Holds(buffer, 0, NotYet)' = Holds(buffer, 0, NotYet)
    BY <1>2 DEF Holds, NotYet
  <2>3. step = "polling" => Answered'
    BY <1>4, <2>1, <2>2 DEF Answered
  <2> QED
    BY <1>1, <2>3 DEF WhatIsRead
<1> QED
  BY <1>7, <1>8, <1>9, <1>10, <1>11 DEF WireInv

LEMMA WireInvInit ==
  ASSUME Init
  PROVE  WireInv
<1>1. /\ step = "serial" /\ com_id \in ComIds /\ session \in Sessions /\ code = None
      /\ written = <<>> /\ request = NoRequest /\ payload = <<>> /\ command = NotBuilt
      /\ pc = "idle" /\ inbox = [protocol |-> 0, com_id |-> 0, block |-> <<>>] /\ outbox = inbox
  BY DEF Init, CommandInit, PassInit
<1>2. WhatIsBuilt
  <2>1. written \in Seq(Tokens) /\ payload \in Seq(Byte)
    BY <1>1
  <2>2. WrittenAs(written, payload)
    BY <1>1, NothingIsCut
  <2> QED
    BY <1>1, <2>1, <2>2 DEF WhatIsBuilt
<1>3. WhatIsAsked
  BY <1>1 DEF WhatIsAsked
<1>4. WhatTheDriveHas /\ WhatTheDriveSays
  BY <1>1 DEF WhatTheDriveHas, WhatTheDriveSays
<1>5. WhatIsRead
  BY <1>1 DEF WhatIsRead
<1> QED
  BY <1>2, <1>3, <1>4, <1>5 DEF WireInv

LEMMA WireInvKept ==
  ASSUME WireInv, PassTypes, InCall, [Next]_vars
  PROVE  WireInv'
<1>1. CASE AskSerial \/ SerialIsKnown \/ BuildCommand
  BY <1>1, BeforeSending
<1>2. CASE SecureSend
  BY <1>2, SecureSendStep
<1>3. CASE SecureRecv
  BY <1>3, SecureRecvStep
<1>4. CASE ReadResponse
  BY <1>4, ReadResponseStep
<1>5. CASE CallFails
  BY <1>5, CallFailsStep
<1>6. CASE PassStep /\ UNCHANGED <<commandVars, wireVars>>
  BY <1>6, PassStepKeeps
<1>7. CASE ReplyNotYet \/ ReplyDone
  BY <1>7, ReplyStep
<1>8. CASE UNCHANGED vars
  <2>1. /\ UNCHANGED <<commandVars, step, com_id, session, code, tokens>>
        /\ UNCHANGED <<pc, call, buffer, inbox, outbox, result, status>>
    BY <1>8 DEF vars, passVars, wireVars, driveVars
  <2>2. /\ Sent' = Sent /\ \A c : Answer(c)' = Answer(c)
        /\ UNCHANGED <<written, request, payload, command>>
    BY <2>1, SameCommand
  <2>3. WhatIsBuilt'
    BY <2>1, StillBuilt DEF WireInv
  <2>4. WhatIsAsked'
    BY <2>1, <2>2 DEF WireInv, WhatIsAsked, Call, PROTOCOL, ReturnLen
  <2>5. WhatTheDriveHas' /\ WhatTheDriveSays'
    BY <2>1, DriveIsTheSame DEF Carried
  <2>6. WhatIsRead'
    <3>1. NotYet' = NotYet /\ Answer(code)' = Answer(code)
      BY <2>1, <2>2 DEF NotYet, Answer
    <3>2. Answered' = Answered
      BY <2>1, <3>1 DEF Answered, Holds
    <3>3. Phase' = Phase
      BY <2>1 DEF Phase
    <3>4. (written \o Trailer(command.eod, Split(StatusList(code))))' =
              written \o Trailer(command.eod, Split(StatusList(code)))
      BY <2>1, <2>2 DEF Trailer, Split, StatusList
    <3> QED
      BY <2>1, <3>2, <3>3, <3>4 DEF WireInv, WhatIsRead
  <2> QED
    BY <2>3, <2>4, <2>5, <2>6 DEF WireInv
<1> QED
  BY <1>1, <1>2, <1>3, <1>4, <1>5, <1>6, <1>7, <1>8 DEF Next

\* Where a command is carried, what its trailer is.
LEMMA CommandIsBuilt ==
  ASSUME WireInv, command # NotBuilt
  PROVE  /\ command.eod \in BOOLEAN /\ command = BuildEod(payload, command.eod)
         /\ request # NoRequest => command.eod = (request.fn # "drop")
<1>1. PICK eod \in BOOLEAN : /\ command = BuildEod(payload, eod)
                             /\ request # NoRequest => eod = (request.fn # "drop")
  BY DEF WireInv, WhatIsBuilt
<1>2. command.eod = eod
  BY <1>1 DEF BuildEod
<1> QED
  BY <1>1, <1>2

LEMMA HeardIsTheCommand ==
  ASSUME WireInv, PassTypes, inbox.block # <<>>
  PROVE  /\ command # NotBuilt
         /\ Heard(inbox) = [session |-> session,
                            tokens  |-> written \o Trailer(command.eod, Split(StatusTrailer))]
<1>1. /\ command # NotBuilt /\ inbox.protocol = PROTOCOL /\ inbox.com_id = com_id
      /\ Contract!Whole(inbox.block, Sent)
  BY DEF WireInv, WhatTheDriveHas, Carried
<1>2. com_id \in ComIds /\ session \in Sessions
  BY DEF WireInv, WhatIsAsked
<1>3. written \in Seq(Tokens) /\ payload \in Seq(Byte) /\ WrittenAs(written, payload)
  BY DEF WireInv, WhatIsBuilt
<1>4. command.eod \in BOOLEAN /\ command = BuildEod(payload, command.eod)
  BY <1>1, CommandIsBuilt
<1>5. inbox.block \in Seq(Byte)
  BY DEF PassTypes, Blocks, Octet, Byte
<1> QED
  BY <1>1, <1>2, <1>3, <1>4, <1>5, HeardIsWritten

LEMMA CommandArrivesHolds ==
  ASSUME WireInv, PassTypes
  PROVE  CommandArrives
BY HeardIsTheCommand DEF CommandArrives, Trailer

LEMMA ResponseHolds ==
  ASSUME WireInv
  PROVE  ResponseIsTheAnswer
<1> SUFFICES ASSUME step = "done" PROVE ResponseIsTheAnswer
  BY DEF ResponseIsTheAnswer
<1>1. /\ code \in 0..63 /\ command # NotBuilt
      /\ tokens = written \o Trailer(command.eod, Split(StatusList(code)))
  BY WireAssumption DEF WireInv, WhatIsRead, WhatIsBuilt
<1>2. command.eod \in BOOLEAN
  BY <1>1, CommandIsBuilt
<1>3. written \in Seq(Tokens)
  BY DEF WireInv, WhatIsBuilt
<1>4. CASE command.eod
  <2>1. tokens = written \o Split(StatusList(code))
    BY <1>1, <1>4 DEF Trailer
  <2>2. MethodStatus(tokens, TRUE) = code
    BY <1>1, <1>3, <2>1, StatusIsRead
  <2> QED
    BY <1>2, <1>4, <2>1, <2>2 DEF ResponseIsTheAnswer
<1>5. CASE ~command.eod
  <2>1. tokens = written \o <<>>
    BY <1>1, <1>5 DEF Trailer
  <2>2. MethodStatus(tokens, command.eod) = NoMethodStatus
    BY <1>5 DEF MethodStatus
  <2> QED
    BY <1>5, <2>1, <2>2 DEF ResponseIsTheAnswer
<1> QED
  BY <1>2, <1>4, <1>5

LEMMA RequestHolds ==
  ASSUME WireInv, PassTypes
  PROVE  RequestIsUnderstood
<1> SUFFICES ASSUME inbox.block # <<>>, request # NoRequest
             PROVE  MeansRequest(Heard(inbox).tokens, request)
  BY DEF RequestIsUnderstood
<1>1. /\ command # NotBuilt
      /\ Heard(inbox).tokens = written \o Trailer(command.eod, Split(StatusTrailer))
  BY HeardIsTheCommand
<1>2. command.eod = (request.fn # "drop")
  BY <1>1, CommandIsBuilt
<1>3. request \in SessionRequests /\ written = RequestTokens(request)
  BY ItemsAssumption DEF WireInv, WhatIsBuilt
<1>4. MeansRequest(RequestTokens(request) \o
                       Trailer(request.fn # "drop", Split(StatusTrailer)), request)
  BY <1>3, RequestIsRead
<1> QED
  BY <1>1, <1>2, <1>3, <1>4

LEMMA WireInvariant == Spec => [](PassTypes /\ WireInv)
<1>1. Init => PassTypes /\ InCall /\ WireInv
  BY InitIsRight, WireInvInit
<1>2. PassTypes /\ InCall /\ WireInv /\ [Next]_vars => (PassTypes /\ InCall /\ WireInv)'
  BY WireStepIsPassStep, PassNextStep, WireInvKept
<1> QED
  BY <1>1, <1>2, PTL DEF Spec

-------------------------------------------------------------------------------
(* The theorems. *)

\* A block that is sent reaches the drive whole and at its address, an answer is in
\* the caller's buffer from its first byte on, and the serial number is that of the
\* drive: RestartableNvmeDevice and AtaProtocol both do what the trait is used for.
THEOREM BothBusesKeepTheContract == Spec => KeepsContract
<1>1. Init => PassTypes /\ InCall
  BY InitIsRight
<1>2. PassTypes /\ InCall /\ [Next]_vars => (PassTypes /\ InCall)'
  BY WireStepIsPassStep, PassNextStep
<1>3. PassTypes /\ InCall /\ [Next]_vars => [Contract!Next]_(Contract!vars)
  BY WireStepIsPassStep, PassNextStep
<1>4. Init => Contract!Init
  BY InitIsRight
<1> QED
  BY <1>1, <1>2, <1>3, <1>4, PTL DEF Spec, KeepsContract, Contract!Spec

\* The types of the wire: octets everywhere but in a buffer of Identify that nobody
\* has written yet.
THEOREM WireTypeCorrect == Spec => []TypeOK
<1> DEFINE Steps == step \in {"serial", "identifying", "build", "sending", "polling", "done",
                              "failed"}
<1>1. Init => PassTypes /\ InCall /\ Steps
  BY InitIsRight DEF Init
<1>2. PassTypes /\ InCall /\ Steps /\ [Next]_vars => (PassTypes /\ InCall)'
  BY WireStepIsPassStep, PassNextStep
<1>3. Steps /\ [Next]_vars => Steps'
  BY DEF Next, AskSerial, SerialIsKnown, BuildCommand, SecureSend, SecureRecv, ReadResponse,
         CallFails, ReplyNotYet, ReplyDone, Reply, wireVars, vars
<1>4. PassTypes /\ Steps => TypeOK
  BY DEF PassTypes, TypeOK, Blocks, Octet, Byte
<1> QED
  BY <1>1, <1>2, <1>3, <1>4, PTL DEF Spec

\* The drive finds the command in the block it was sent, under its address, with the
\* session numbers and token for token what the builder wrote: for every ComID, session,
\* payload and padding, and over both buses.
THEOREM CommandsArrive == Spec => []CommandArrives
<1>1. PassTypes /\ WireInv => CommandArrives
  BY CommandArrivesHolds
<1> QED
  BY <1>1, WireInvariant, PTL

\* What the host takes for the response is the answer the drive gave, token for token,
\* and the status is the code in it, however often the drive said "not yet" before and
\* whatever the buffer held.
THEOREM AnswersAreRead == Spec => []ResponseIsTheAnswer
<1>1. PassTypes /\ WireInv => ResponseIsTheAnswer
  BY ResponseHolds
<1> QED
  BY <1>1, WireInvariant, PTL

\* A request is understood as what the function that sent it is for, whatever the
\* challenge, the range, the locking state and the flag are.
THEOREM RequestsAreUnderstood == Spec => []RequestIsUnderstood
<1>1. PassTypes /\ WireInv => RequestIsUnderstood
  BY RequestHolds
<1> QED
  BY <1>1, WireInvariant, PTL
===============================================================================
