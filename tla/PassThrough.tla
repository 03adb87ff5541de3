----------------------------- MODULE PassThrough -----------------------------
(***************************************************************************)
(* The two implementations of SecureProtocol.  RestartableNvmeDevice makes *)
(* an admin command whose dwords say where a transfer goes and lets the    *)
(* firmware transfer right into or out of the caller's buffer; AtaProtocol *)
(* fills the registers of a command block and has buffers of its own.      *)
(*                                                                         *)
(* The firmware takes the packet to the drive, and the drive makes of it   *)
(* what the NVMe and ATA command sets say.  pass_thru fails before or      *)
(* after the drive did something.                                          *)
(***************************************************************************)
EXTENDS Naturals, Sequences

CONSTANTS None,
          Uninit,       \* a byte of memory that nobody wrote yet
          DriveSerial   \* the serial number of the drive, 20 bytes

Octet         == 0..255
ComId         == 0..65535
SerialNumbers == [1..20 -> Octet]

ASSUME SerialAssumption == DriveSerial \in SerialNumbers
ASSUME UninitAssumption == Uninit \notin Octet

VARIABLES
    bus,          \* "nvme" or "ata"
    pc,           \* "idle", or where the call in progress is
    call,         \* its arguments: op, protocol and com_id
    buffer,       \* the slice of the caller
    packet,       \* the CommandPacket
    return_data,  \* the buffer of do_io, or of recv_serial_num
    status,       \* what pass_thru returned
    inbox,        \* the drive: what was last sent to it, and to which address
    outbox,       \* the drive: what it has to say, and at which address
    serial,       \* serial_num(), once it is known
    result        \* of the last call

driveVars == <<inbox, outbox>>
passVars  == <<bus, pc, call, buffer, packet, return_data, status, driveVars, serial, result>>

Sector    == 512
ReturnLen == 2048
Lesser(m, n) == IF m <= n THEN m ELSE n
Ops       == {"send", "recv", "identify"}
Call(op, protocol, com_id) == [op |-> op, protocol |-> protocol, com_id |-> com_id]

\* A caller hands over its buffer, in the types of the signature.  No caller has room
\* for more than an ATA drive can return.
Begin(c, bytes) ==
    /\ pc = "idle"
    /\ c \in [op : Ops, protocol : Octet, com_id : ComId] /\ bytes \in Seq(Octet)
    /\ c.op = "recv" => Len(bytes) <= ReturnLen
    /\ pc' = "build" /\ call' = c /\ buffer' = bytes /\ result' = None
    /\ UNCHANGED <<bus, packet, return_data, status, driveVars, serial>>

-------------------------------------------------------------------------------
(* NVMe: the dwords of a command count only if their flag is set, which the *)
(* functions that set them do.                                              *)

Command(opcode) ==
    [opcode |-> opcode, nsid |-> 0, flags |-> {}, cdw_10 |-> 0, cdw_11 |-> 0]

Cdw10(command, dword) ==
    [command EXCEPT !.cdw_10 = dword, !.flags = @ \cup {"CDW_10"}]
Cdw11(command, dword) ==
    [command EXCEPT !.cdw_11 = dword, !.flags = @ \cup {"CDW_11"}]

Direction(op) == IF op = "send" THEN 129 ELSE 130

\* secure_protocol and recv_serial_num.
NvmeCommand ==
    IF call.op = "identify" THEN Cdw10(Command(6), 1)
    ELSE Cdw11(Cdw10(Command(Direction(call.op)),
                     (call.protocol * 16777216) + (call.com_id * 256)),
               Len(buffer))

BuildNvme ==
    /\ pc = "build" /\ bus = "nvme"
    /\ packet' = NvmeCommand
    /\ return_data' = IF call.op = "identify" THEN [i \in 1..4096 |-> Uninit] ELSE <<>>
    /\ pc' = "pass"
    /\ UNCHANGED <<bus, call, buffer, status, driveVars, serial, result>>

-------------------------------------------------------------------------------
(* ATA: do_io. *)

RoundedLen(n) == ((n + Sector - 1) \div Sector) * Sector

\* Mutant: the two bytes of the ComID the other way round, as in the comment
\* above them.
AtaCommandBlockSwapped(opcode) ==
    [command |-> opcode, features |-> call.protocol,
     cylinder_high |-> call.com_id % 256, cylinder_low |-> call.com_id \div 256]

AtaCommandBlock(opcode) ==
    [command |-> opcode, features |-> call.protocol,
     cylinder_high |-> call.com_id \div 256, cylinder_low |-> call.com_id % 256]

\* The data of a send, in a zeroed buffer of whole sectors.
OutBuffer(data) == [i \in 1..RoundedLen(Len(data)) |-> IF i <= Len(data) THEN data[i] ELSE 0]

AtaPacket ==
    IF call.op = "send" THEN [acb |-> AtaCommandBlock(94), out_data |-> OutBuffer(buffer)]
    ELSE IF call.op = "recv" THEN [acb |-> AtaCommandBlock(92), out_data |-> <<>>]
    ELSE [acb |-> [command |-> 236, features |-> 0, cylinder_high |-> 0, cylinder_low |-> 0],
          out_data |-> <<>>]

\* Mutant: the buffer is allocated as recv_serial_num does it.
ReturnDataUninit == [i \in 1..ReturnLen |-> Uninit]

ReturnData == [i \in 1..ReturnLen |-> 0]

BuildAta ==
    /\ pc = "build" /\ bus = "ata"
    /\ packet' = AtaPacket
    /\ return_data' = ReturnData
    /\ pc' = "pass"
    /\ UNCHANGED <<bus, call, buffer, status, driveVars, serial, result>>

-------------------------------------------------------------------------------
(* The firmware and the drive. *)

\* A dword whose flag is not set is sent as zero.
Dword(flag, dword) == IF flag \in packet.flags THEN dword ELSE 0

\* Besides SECURITY SEND and RECEIVE there is only Identify.
OpOf(code, send, recv) ==
    IF code = send THEN "send" ELSE IF code = recv THEN "recv" ELSE "identify"

NvmeRequest ==
    LET cdw10 == Dword("CDW_10", packet.cdw_10)
    IN  [op       |-> OpOf(packet.opcode, 129, 130),
         protocol |-> cdw10 \div 16777216,
         com_id   |-> (cdw10 \div 256) % 65536]

AtaRequest ==
    [op       |-> OpOf(packet.acb.command, 94, 92),
     protocol |-> packet.acb.features,
     com_id   |-> (packet.acb.cylinder_high * 256) + packet.acb.cylinder_low]

Request == IF bus = "nvme" THEN NvmeRequest ELSE AtaRequest

\* What is transferred to the drive, and what a transfer from it leaves in memory.
Outgoing ==
    IF bus = "ata" THEN packet.out_data
    ELSE SubSeq(buffer, 1, Dword("CDW_11", packet.cdw_11))
Transferred(memory, data) ==
    [i \in 1..Len(memory) |-> IF i <= Len(data) THEN data[i] ELSE memory[i]]

\* As much of an answer as the host has asked for.
Allowed(answer) ==
    IF bus = "ata" THEN answer
    ELSE SubSeq(answer, 1, Lesser(Len(answer), Dword("CDW_11", packet.cdw_11)))

\* The data of Identify as far as it is looked at: the serial number is in bytes 4
\* to 23 of the one, and in words 10 to 19 of the other, each with its first
\* character in the high byte.
Swapped(i) == IF i % 2 = 1 THEN i + 1 ELSE i - 1
IdentifyData ==
    [i \in 1..40 |->
        IF bus = "nvme" THEN IF i \in 5..24 THEN DriveSerial[i - 4] ELSE 0
                        ELSE IF i \in 21..40 THEN DriveSerial[Swapped(i - 20)] ELSE 0]

\* pass_thru comes back; what an ATA drive returned still has to be copied, and a
\* serial number to be cut out.
CopiesBack == call.op = "identify" \/ (bus = "ata" /\ call.op = "recv")
Complete ==
    /\ pc = "pass"
    /\ status' \in {"SUCCESS", "DEVICE_ERROR"}
    /\ pc' = IF status' = "SUCCESS" /\ CopiesBack THEN "copy" ELSE "return"
    /\ UNCHANGED <<bus, call, packet, outbox, serial, result>>

DriveTakes ==
    /\ Complete /\ Request.op = "send"
    /\ inbox' = [protocol |-> Request.protocol, com_id |-> Request.com_id,
                 block |-> Outgoing]
    /\ UNCHANGED <<buffer, return_data>>

DriveGives ==
    /\ Complete /\ Request.op = "recv"
    /\ outbox.protocol = Request.protocol /\ outbox.com_id = Request.com_id
    /\ IF bus = "nvme"
       THEN buffer' = Transferred(buffer, Allowed(outbox.block)) /\ UNCHANGED return_data
       ELSE return_data' = Transferred(return_data, Allowed(outbox.block)) /\ UNCHANGED buffer
    /\ UNCHANGED inbox

\* While no call is in progress the drive may have something to say.
DriveSays(block) ==
    /\ pc = "idle" /\ block \in Seq(Octet)
    /\ outbox' = [protocol |-> inbox.protocol, com_id |-> inbox.com_id, block |-> block]
    /\ UNCHANGED <<bus, pc, call, buffer, packet, return_data, status, inbox, serial, result>>

DriveIdentifies ==
    /\ Complete /\ Request.op = "identify"
    /\ return_data' = Transferred(return_data, IdentifyData)
    /\ UNCHANGED <<buffer, inbox>>

PassThruFails ==
    /\ pc = "pass" /\ pc' = "return" /\ status' = "DEVICE_ERROR"
    /\ UNCHANGED <<bus, call, buffer, packet, return_data, driveVars, serial, result>>

-------------------------------------------------------------------------------
(* Back in the program. *)

\* recv_serial_num, and get_serial_num with byteswap.
SerialNum ==
    IF bus = "nvme" THEN SubSeq(return_data, 5, 24)
    ELSE [i \in 1..20 |-> return_data[20 + Swapped(i)]]

\* All of what do_io returned goes over the caller's buffer, or as much as fits.
CopyBack ==
    /\ pc = "copy"
    /\ IF call.op = "identify" THEN serial' = SerialNum /\ UNCHANGED buffer
       ELSE LET s == Lesser(Len(return_data), Len(buffer))
            IN  /\ buffer' = [i \in 1..Len(buffer) |->
                                 IF i <= s THEN return_data[i] ELSE buffer[i]]
                /\ UNCHANGED serial
    /\ pc' = "return"
    /\ UNCHANGED <<bus, call, packet, return_data, status, driveVars, result>>

Return ==
    /\ pc = "return" /\ pc' = "idle"
    /\ result' = IF status = "SUCCESS" THEN "Ok" ELSE "Err"
    /\ UNCHANGED <<bus, call, buffer, packet, return_data, status, driveVars, serial>>

-------------------------------------------------------------------------------

PassInit ==
    /\ bus \in {"nvme", "ata"} /\ pc = "idle"
    /\ call = Call("identify", 0, 0) /\ buffer = <<>>
    /\ packet = None /\ return_data = <<>> /\ status = "SUCCESS"
    /\ inbox = [protocol |-> 0, com_id |-> 0, block |-> <<>>] /\ outbox = inbox
    /\ serial = None /\ result = None

\* A call from its beginning to its end.
PassStep ==
    \/ BuildNvme \/ BuildAta
    \/ DriveTakes \/ DriveGives \/ DriveIdentifies \/ PassThruFails
    \/ CopyBack \/ Return

-------------------------------------------------------------------------------
(* Correctness. *)

\* How far a call is, as the trait tells it.
Phase == IF pc = "idle" THEN "idle"
         ELSE IF pc = "return" /\ status = "SUCCESS" THEN "done" ELSE "asked"

\* Both implementations keep what the trait promises: what is sent reaches the drive
\* byte for byte and at its address, whatever the transfer is rounded up to;
\* what is received is the drive's answer from its first byte on, also in a buffer
\* that was used before; and the serial number a drive is found by is its own.
Contract == INSTANCE SecureChannel WITH phase <- Phase
KeepsContract == Contract!Spec
===============================================================================
