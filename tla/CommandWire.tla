------------------------------ MODULE CommandWire ------------------------------
(***************************************************************************)
(* send_raw_command byte by byte: the command of OpalCommand gets its      *)
(* header, goes through PassThrough to the drive, and the answer of the    *)
(* drive comes back into a buffer that is polled until there is one.       *)
(* Before all that, the serial number of the drive is asked for.           *)
(***************************************************************************)
EXTENDS OpalCommand, PassThrough

CONSTANTS ComIds,     \* ComIDs a drive may have
          Sessions,   \* session numbers <<tsn, hsn>>
          Codes       \* status codes of answers to method calls

ASSUME WireAssumption ==
    /\ ComIds \subseteq ComId \ {0} /\ Sessions \subseteq U32 \X U32
    /\ Codes \subseteq 0..63 /\ None \notin Codes

VARIABLES
    step,      \* where send_raw_command is, and what comes before it
    com_id,    \* SecureDevice.com_id
    session,   \* tsn and hsn
    code,      \* history: the status of the drive's answer, or None
    tokens     \* OpalResponse.tokens

wireVars == <<step, com_id, session, code, tokens>>
vars     == <<commandVars, passVars, wireVars>>

PROTOCOL == 1

Zeros(n) == [i \in 1..n |-> 0]
ToBe(n)  == <<n \div 16777216, (n \div 65536) % 256, (n \div 256) % 256, n % 256>>
FromBe(bytes) ==
    (bytes[1] * 16777216) + (bytes[2] * 65536) + (bytes[3] * 256) + bytes[4]

\* The header of a command in the memory of a little-endian machine, with what
\* set_session puts into it.
HeaderBytes ==
    Zeros(4) \o <<com_id \div 256, com_id % 256, 0, 0>> \o Zeros(8) \o ToBe(command.cp) \o
    session[1] \o session[2] \o Zeros(12) \o ToBe(command.pkt) \o
    Zeros(8) \o ToBe(command.subpkt)

\* The fields of a header that came over the wire.
HeaderLen == 56
CpLength(block)     == FromBe(SubSeq(block, 17, 20))
PktLength(block)    == FromBe(SubSeq(block, 41, 44))
SubpktLength(block) == FromBe(SubSeq(block, 53, 56))
Body(block)         == SubSeq(block, HeaderLen + 1, Len(block))

-------------------------------------------------------------------------------
(* The host. *)

Finished == pc = "idle" /\ result # None

AskSerial ==
    /\ step = "serial" /\ Begin(Call("identify", 0, 0), <<>>)
    /\ step' = "identifying"
    /\ UNCHANGED <<commandVars, com_id, session, code, tokens>>

SerialIsKnown ==
    /\ step = "identifying" /\ Finished /\ result = "Ok"
    /\ step' = "build"
    /\ UNCHANGED <<commandVars, passVars, com_id, session, code, tokens>>

BuildCommand ==
    /\ step = "build" /\ CommandStep
    /\ UNCHANGED <<passVars, wireVars>>

SecureSend ==
    /\ step = "build" /\ command # NotBuilt
    /\ Begin(Call("send", PROTOCOL, com_id), HeaderBytes \o command.payload)
    /\ step' = "sending"
    /\ UNCHANGED <<commandVars, com_id, session, code, tokens>>

\* The buffer is allocated once, for all turns of the loop.
ReceiveBuffer == IF step = "sending" THEN Zeros(ReturnLen) ELSE buffer

\* Mutant: one receive is enough.
OutstandingNever == FALSE

\* The drive has nothing yet if it says that there is something outstanding which
\* it cannot transfer now.
Outstanding == ~IsZero(buffer, 9, 12) /\ IsZero(buffer, 13, 16)

SecureRecv ==
    /\ Finished /\ result = "Ok"
    /\ step = "sending" \/ (step = "polling" /\ Outstanding)
    /\ Begin(Call("recv", PROTOCOL, com_id), ReceiveBuffer)
    /\ step' = "polling"
    /\ UNCHANGED <<commandVars, com_id, session, code, tokens>>

\* dump indexes the buffer by the length of the ComPacket, parse by those of the
\* subpacket and the tokens.
ReadResponse ==
    /\ step = "polling" /\ Finished /\ result = "Ok" /\ ~Outstanding
    /\ tokens' = IF CpLength(buffer) + 20 > Len(buffer) THEN Panic
                 ELSE Parse(SubpktLength(buffer), Body(buffer))
    /\ step' = "done"
    /\ UNCHANGED <<commandVars, passVars, com_id, session, code>>

CallFails ==
    /\ step \in {"identifying", "sending", "polling"} /\ Finished /\ result = "Err"
    /\ step' = "failed"
    /\ UNCHANGED <<commandVars, passVars, com_id, session, code, tokens>>

-------------------------------------------------------------------------------
(* The drive works while no call is in progress. *)

\* What the drive reads in a block, or Refused: the lengths of the three headers
\* must cover one another, and the ComID must be the one the block was sent to.
Heard(message) ==
    LET block == message.block
    IN  IF /\ Len(block) >= HeaderLen
           /\ message.protocol = PROTOCOL
           /\ SubSeq(block, 5, 8) = <<message.com_id \div 256, message.com_id % 256, 0, 0>>
           /\ Len(block) >= CpLength(block) + 20
           /\ CpLength(block) = PktLength(block) + 24
           /\ PktLength(block) - 12 \in SubpktLength(block)..(SubpktLength(block) + 3)
           /\ PktLength(block) % 4 = 0
        THEN [session |-> <<SubSeq(block, 21, 24), SubSeq(block, 25, 28)>>,
              tokens  |-> Parse(SubpktLength(block), SubSeq(block, 57, CpLength(block) + 20))]
        ELSE Refused

Reply(block) ==
    /\ Finished /\ result = "Ok" /\ step \in {"sending", "polling"} /\ code = None
    /\ DriveSays(block)
    /\ UNCHANGED <<commandVars, step, com_id, session, tokens>>

\* Not ready: a ComPacket without packets and with data outstanding.  What is in the
\* transfer behind it means nothing.
NotYet == Zeros(8) \o <<0, 0, 0, 1>> \o Zeros(44) \o [i \in 1..60 |-> ENDOFDATA]
ReplyNotYet == outbox.block = <<>> /\ Reply(NotYet) /\ UNCHANGED code

\* The drive gives back what it heard, with a status list of its own and with
\* lengths that are right, in as much as a host takes.
StatusList(c) == [StatusTrailer EXCEPT ![3] = c]
AnswerBlock(data) ==
    LET padded == data \o Zeros((4 - (Len(data) % 4)) % 4)
    IN  Zeros(16) \o ToBe(Len(padded) + 36) \o Zeros(20) \o ToBe(Len(padded) + 12) \o
        Zeros(8) \o ToBe(Len(data)) \o padded
Answer(c) == AnswerBlock(payload \o (IF command.eod THEN StatusList(c) ELSE <<>>))
ReplyDone ==
    /\ inbox.block # <<>> /\ Heard(inbox) # Refused
    /\ \E c \in Codes :
          /\ code' = c /\ Len(Answer(c)) <= ReturnLen
          /\ Reply(Answer(c))

-------------------------------------------------------------------------------

Init ==
    /\ CommandInit /\ PassInit
    /\ step = "serial" /\ com_id \in ComIds /\ session \in Sessions
    /\ code = None /\ tokens = None

Next ==
    \/ AskSerial \/ SerialIsKnown \/ BuildCommand
    \/ SecureSend \/ SecureRecv \/ ReadResponse \/ CallFails
    \/ PassStep /\ UNCHANGED <<commandVars, wireVars>>
    \/ ReplyNotYet \/ ReplyDone

Spec == Init /\ [][Next]_vars

-------------------------------------------------------------------------------
(* Correctness. *)

TypeOK ==
    /\ step \in {"serial", "identifying", "build", "sending", "polling", "done", "failed"}
    /\ pc \in {"idle", "build", "pass", "copy", "return"}
    /\ serial \in SerialNumbers \cup {None}
    /\ buffer \in Seq(Byte) /\ return_data \in Seq(Byte \cup {Uninit})
    /\ inbox.block \in Seq(Byte)

\* The drive finds the command in the block it was sent: under the address it was
\* sent to, with the session numbers, in lengths it accepts, and token for token what
\* the builder wrote, whatever a transfer was padded or rounded to on the way.
CommandArrives ==
    inbox.block # <<>> =>
        Heard(inbox) =
            [session |-> session,
             tokens  |-> written \o (IF command.eod THEN Split(StatusTrailer) ELSE <<>>)]

\* The tokens of the response are those of the drive's answer, in order, also after
\* the buffer held the answer "not yet": neither padding nor an old byte is one.  The
\* status that is taken from them is the code in the status list of the answer, and the
\* answer to a command without the trailer has none.
ResponseIsTheAnswer ==
    step = "done" =>
        /\ tokens = written \o (IF command.eod THEN Split(StatusList(code)) ELSE <<>>)
        /\ MethodStatus(tokens, command.eod) = IF command.eod THEN code ELSE NoMethodStatus

\* What the drive makes of a request is what the function that sent it is for: the
\* session it starts, the locks of the range and the state it was called with, the
\* flag of the shadow MBR.
RequestIsUnderstood ==
    inbox.block # <<>> /\ request # NoRequest /\ Heard(inbox) # Refused
        => MeansRequest(Heard(inbox).tokens, request)

\* Every integer the crate writes, get_uint reads back: its only bound is the
\* panic "u64 with more than 8 bytes".
UintsSurvive ==
    step = "done" => \A v \in Uints : \A i \in 1..Len(tokens) :
                tokens[i] = WriteU64(v) => GetUint(tokens[i]) = v
===============================================================================
