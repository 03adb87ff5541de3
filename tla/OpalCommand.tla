------------------------------ MODULE OpalCommand ------------------------------
(***************************************************************************)
(* A command is put together by an OpalCommandBuilder, token by token or   *)
(* as one of the requests of a session, and gets its lengths and padding   *)
(* from build or build_no_end_of_data.                                     *)
(***************************************************************************)
EXTENDS OpalRequests

CONSTANTS Uints,      \* integers that may be written, as u64 byte sequences
          Strings,    \* byte strings that may be written
          Controls,   \* control tokens that may be written
          Requests,   \* requests of a session
          MaxTokens   \* bound on the tokens of a payload that is no request

\* A longer byte string is a panic in Token::write, and a range of which nothing may be
\* written but which may be read is none that is ever asked for.
Writable == {s \in Seq(Byte) : Len(s) < 2048}
SessionRequests ==
    [fn : {"start"}, challenge : Writable, eprise : BOOLEAN]
        \cup [fn : {"set_locking_range"}, range : Byte, state : LockingStates \ {"ArchiveLocked"}]
        \cup [fn : {"set_mbr_done"}, done : BOOLEAN]
        \cup [fn : {"drop"}]

ASSUME ItemsAssumption ==
    /\ Uints \subseteq U64 /\ Controls \subseteq {STARTLIST, ENDLIST, ENDOFDATA}
    /\ Strings \subseteq Writable /\ Requests \subseteq SessionRequests
ASSUME BoundsAssumption == MaxTokens \in Nat

VARIABLES written,    \* history: the tokens written, one by one
          request,    \* history: the request they are
          payload,    \* OpalCommandBuilder.payload
          command     \* the OpalCommand that was built

commandVars == <<written, request, payload, command>>

NotBuilt  == [payload |-> <<>>, subpkt |-> 0]
NoRequest == [fn |-> "none"]

CommandInit ==
    written = <<>> /\ request = NoRequest /\ payload = <<>> /\ command = NotBuilt

\* OpalCommandBuilder::payload with one more token.
Payload(token) ==
    /\ command = NotBuilt /\ request = NoRequest /\ Len(written) < MaxTokens
    /\ written' = Append(written, token)
    /\ payload' = payload \o token
    /\ UNCHANGED <<request, command>>

WriteUint    == \E v \in Uints : Payload(WriteU64(v))
WriteString  == \E s \in Strings : Payload(WriteBytes(s))
WriteControl == \E c \in Controls : Payload(<<c>>)

WriteRequest ==
    /\ command = NotBuilt /\ written = <<>>
    /\ request' \in Requests
    /\ written' = RequestTokens(request')
    /\ payload' = FlattenSeq(written')
    /\ UNCHANGED command

\* build and build_no_end_of_data, the one for EndOfSession.
Build(eod) ==
    /\ command = NotBuilt
    /\ request # NoRequest => eod = (request.fn # "drop")
    /\ command' = BuildEod(payload, eod)
    /\ UNCHANGED <<written, request, payload>>

CommandStep ==
    \/ WriteUint \/ WriteString \/ WriteControl \/ WriteRequest
    \/ \E eod \in BOOLEAN : Build(eod)
===============================================================================
