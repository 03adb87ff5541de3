---------------------------- MODULE SecureChannel ----------------------------
(***************************************************************************)
(* What the opal crate expects of an implementation of SecureProtocol: a   *)
(* block that is sent reaches the drive whole and under the address it was *)
(* sent to; an answer is in the caller's buffer from its first byte on;    *)
(* the serial number is that of the drive.  Ok means that it happened, an  *)
(* error means nothing.                                                    *)
(***************************************************************************)
EXTENDS Naturals, Sequences

CONSTANTS None, DriveSerial

VARIABLES
    phase,   \* "idle", "asked", or "done" as far as the caller can know
    call,    \* the call in progress: op, protocol and com_id
    buffer,  \* the slice of the caller
    inbox,   \* what was last sent to the drive, and to which address
    outbox,  \* what the drive has to say, and at which address
    serial,  \* serial_num(), once it is known
    result   \* of the last call

vars == <<phase, call, buffer, inbox, outbox, serial, result>>

\* Something happened; whether the caller gets to know is another matter.
Happened == phase = "asked" /\ phase' \in {"asked", "done"}

\* The drive gets the block, and zeroes behind it at most.
Whole(block, data) ==
    /\ Len(block) >= Len(data)
    /\ \A i \in 1..Len(block) : block[i] = IF i <= Len(data) THEN data[i] ELSE 0

\* The answer, or as much as there is room for; what is behind it is old or zero.
Filled(new, old, answer) ==
    /\ Len(new) = Len(old)
    /\ \A i \in 1..Len(new) :
          IF i <= Len(answer) THEN new[i] = answer[i] ELSE new[i] \in {old[i], 0}

At(address) == address.protocol = call.protocol /\ address.com_id = call.com_id

\* A caller hands over its buffer.
Begin ==
    /\ phase = "idle" /\ phase' = "asked" /\ result' = None
    /\ UNCHANGED <<inbox, outbox, serial>>

DriveSpeaks ==
    phase = "idle" /\ UNCHANGED <<phase, call, buffer, inbox, serial, result>>

Deliver ==
    /\ Happened /\ call.op = "send"
    /\ inbox'.protocol = call.protocol /\ inbox'.com_id = call.com_id
    /\ Whole(inbox'.block, buffer)
    /\ UNCHANGED <<call, buffer, outbox, serial, result>>

Receive ==
    /\ Happened /\ call.op = "recv" /\ At(outbox)
    /\ Filled(buffer', buffer, outbox.block)
    /\ UNCHANGED <<call, inbox, outbox, serial, result>>

Identify ==
    /\ Happened /\ call.op = "identify" /\ serial' = DriveSerial
    /\ UNCHANGED <<call, buffer, inbox, outbox, result>>

Succeed ==
    /\ phase = "done" /\ phase' = "idle" /\ result' = "Ok"
    /\ UNCHANGED <<call, buffer, inbox, outbox, serial>>

Fail ==
    /\ phase \in {"asked", "done"} /\ phase' = "idle" /\ result' = "Err"
    /\ UNCHANGED <<call, buffer, inbox, outbox, serial>>

Init == phase = "idle" /\ serial = None /\ result = None

Next == Begin \/ DriveSpeaks \/ Deliver \/ Receive \/ Identify \/ Succeed \/ Fail

Spec == Init /\ [][Next]_vars
===============================================================================
