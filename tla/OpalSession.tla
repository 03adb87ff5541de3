------------------------------ MODULE OpalSession ------------------------------
(***************************************************************************)
(* One call of OpalDrive::unlock against one self-encrypting drive.        *)
(*                                                                         *)
(* The host starts a session with the Locking SP, unlocks the global       *)
(* locking range, hides the shadow MBR, closes the session and reconnects  *)
(* the UEFI controller.  Every one of these commands is one                *)
(* send_raw_command: a secure_send, then secure_recv until the drive says  *)
(* that it has no more to wait for.  Any of these firmware calls may fail, *)
(* with or without effect, and the drive executes a command at its own     *)
(* pace, possibly long after the host has given up on it.                  *)
(*                                                                         *)
(* The host half is translated from opal/src/{lib,session,command}.rs; the *)
(* drive half is the environment that code is written against.             *)
(***************************************************************************)
EXTENDS OpalTokens

CONSTANTS None,
          TryLimit,    \* authentication attempts before the drive locks out
          SetErrors,   \* the statuses a Set may fail with
          TSNs,        \* the session numbers the drive hands out
          AtomLen      \* how many data bytes it gives them on the wire

HostHSN == <<0, 0, 0, 105>>
ZeroId  == <<0, 0, 0, 0>>
NoSession == [tsn |-> ZeroId, hsn |-> ZeroId]
Decoded(id) == DecodedId(id, AtomLen)

ASSUME TryLimitAssumption == TryLimit \in Nat \ {0}
ASSUME SetErrorsAssumption ==
    SetErrors \subseteq {"NOT_AUTHORIZED", "SP_FAILED", "NoMethodStatus"}
ASSUME IdsAssumption ==    \* the atoms are long enough for the ids
    /\ AtomLen \in 1..4 /\ TSNs \subseteq U32 \ {ZeroId}
    /\ \A id \in TSNs : IsZero(id, 1, 4 - AtomLen)

Keys      == {"right", "wrong"}        \* a challenge of 32 bytes
SessIds   == [tsn : U32, hsn : U32]
Kinds     == {"StartSession", "SetRange", "SetMbrDone", "EndSession"}
Statuses  == {"SUCCESS", "NOT_AUTHORIZED", "AUTHORITY_LOCKED_OUT",
              "NO_SESSIONS_AVAILABLE", "SP_FAILED", "NoMethodStatus"}
Errors    == {"NotAuthorized", "LockedOut", "Failed", "RawKeyInvalidLength"}
Results   == {"None", "Ok"} \cup Errors

Packets   == [kind : Kinds, to : SessIds, key : Keys \cup {None}]
Answers   == [kind : Kinds, status : Statuses, sess : SessIds]

ASSUME NoneAssumption == None \notin Keys \cup SessIds \cup Packets \cup Answers

VARIABLES
    eprise,      \* SecureDevice.is_eprise: an Enterprise drive
    pc,          \* where the call stands
    cmd,         \* the command it is sending or polling for
    sess,        \* OpalSession.tsn and .hsn
    key,         \* the challenge of this call
    outcome,     \* what the call will return once the session is dropped
    result,      \* what the last call returned
    connected,   \* the drivers of the block device's handle are connected
    locked,      \* drive: the global range is locked
    mbrDone,     \* drive: the shadow MBR is hidden
    tries,       \* drive: failed authentications of Admin1
    open,        \* drive: the session it has open
    inbox,       \* drive: the command it is working on
    reply,       \* drive: the answer waiting to be received
    fault,       \* history: a firmware call failed, or a session timed out
    denied       \* history: the drive refused a Set

hostVars  == <<pc, cmd, sess, key, outcome, result>>
driveVars == <<locked, mbrDone, tries, open, inbox, reply>>
vars == <<eprise, hostVars, connected, driveVars, fault, denied>>

-------------------------------------------------------------------------------
(* The host. *)

\* unlock up to the first secure_send: a raw key of the wrong length is
\* refused before anything is sent, and start begins with ids of zero.
Unlock(k) ==
    /\ pc = "idle"
    /\ IF k \in Keys
       THEN /\ pc' = "send"
            /\ cmd' = "StartSession"
            /\ sess' = NoSession
            /\ key' = k
            /\ outcome' = "Ok"
            /\ result' = "None"
       ELSE /\ result' = "RawKeyInvalidLength"
            /\ UNCHANGED <<pc, cmd, sess, key, outcome>>
    /\ UNCHANGED <<eprise, connected, driveVars, fault, denied>>

\* The packet set_session and start build.  An Enterprise drive is not given
\* the challenge here.
Packet == [kind |-> cmd,
           to   |-> sess,
           key  |-> IF cmd = "StartSession" /\ ~eprise THEN key ELSE None]

\* The call is over once the session is dropped: an error leaves unlock, a
\* success goes on to reconnect_controller.
SessionDropped ==
    IF outcome = "Ok"
    THEN pc' = "reconnect" /\ sess' = NoSession /\ UNCHANGED <<cmd, key, outcome, result>>
    ELSE /\ pc' = "idle" /\ sess' = NoSession /\ result' = outcome
         /\ UNCHANGED <<cmd, key, outcome>>

\* Mutant: the result of set_mbr_done is thrown away.
CommandFailedMbrIgnored(e) ==
    IF cmd = "EndSession"
    THEN SessionDropped
    ELSE /\ pc' = "send" /\ cmd' = "EndSession"
         /\ outcome' = IF cmd = "SetMbrDone" THEN "Ok" ELSE e
         /\ UNCHANGED <<sess, key, result>>

\* Mutant: OpalSession has no Drop.
CommandFailedNoDrop(e) ==
    /\ pc' = "idle" /\ sess' = NoSession /\ result' = e
    /\ UNCHANGED <<cmd, key, outcome>>

\* An Err of send_raw_command.  The `?` of start and unlock drops the session
\* and with it sends EndOfSession under the ids it has so far; an Err of that
\* last command is only logged.
CommandFailed(e) ==
    IF cmd = "EndSession"
    THEN SessionDropped
    ELSE /\ pc' = "send"
         /\ cmd' = "EndSession"
         /\ outcome' = e
         /\ UNCHANGED <<sess, key, result>>

\* secure_send succeeds: the drive has the command, and an answer nobody
\* collected is gone.
SecureSend ==
    /\ pc = "send"
    /\ inbox = None
    /\ inbox' = Packet
    /\ reply' = None
    /\ pc' = "poll"
    /\ UNCHANGED <<eprise, cmd, sess, key, outcome, result, connected>>
    /\ UNCHANGED <<locked, mbrDone, tries, open, fault, denied>>

\* Mutant: the error of secure_send is not looked at.
SecureSendFailsUnnoticed ==
    /\ pc = "send" /\ pc' = "poll"
    /\ fault' = TRUE
    /\ UNCHANGED <<eprise, connected, cmd, sess, key, outcome, result, driveVars, denied>>

\* Mutant: a failed secure_send is tried again.
SecureSendFailsAgain ==
    /\ pc = "send"
    /\ \/ UNCHANGED <<inbox, reply>>
       \/ inbox = None /\ inbox' = Packet /\ reply' = None
    /\ fault' = TRUE
    /\ UNCHANGED <<eprise, hostVars, connected, locked, mbrDone, tries, open, denied>>

\* secure_send fails: the command did not reach the drive, which may still be
\* busy with another one, or it did and only its completion was lost.
SecureSendFails ==
    /\ pc = "send"
    /\ \/ UNCHANGED <<inbox, reply>>
       \/ inbox = None /\ inbox' = Packet /\ reply' = None
    /\ CommandFailed("Failed")
    /\ fault' = TRUE
    /\ UNCHANGED <<eprise, connected, locked, mbrDone, tries, open, denied>>

\* The drive answers secure_recv with outstanding_data # 0 and
\* min_transfer = 0 while it works on the command.
Working == inbox # None /\ reply = None

\* Mutant: the response is received once.
PollDoneAtOnce == pc = "poll"

\* Mutant: the loop waits for an answer that is not empty.
PollDoneAnswered == pc = "poll" /\ reply # None

\* The loop of send_raw_command receives again for as long as that is so; it
\* leaves with an answer, or with none when the drive dropped the command.
PollDone == pc = "poll" /\ ~Working

Outcome(status) ==
    CASE status = "NOT_AUTHORIZED" -> "NotAuthorized"
      [] status = "AUTHORITY_LOCKED_OUT" -> "LockedOut"
      [] OTHER -> "Failed"

\* Mutant: the MBR is hidden first.
NextCommandMbrFirst ==
    CASE cmd = "StartSession" -> "SetMbrDone"
      [] cmd = "SetMbrDone"   -> "SetRange"
      [] cmd = "SetRange"     -> "EndSession"

\* Mutant: the MBR is not hidden.
NextCommandNoMbr == IF cmd = "StartSession" THEN "SetRange" ELSE "EndSession"

\* What the caller of send_raw_command does next with a success status.
NextCommand ==
    CASE cmd = "StartSession" -> "SetRange"
      [] cmd = "SetRange"     -> "SetMbrDone"
      [] cmd = "SetMbrDone"   -> "EndSession"

\* Mutant: the two session numbers are swapped.
StoredSessionSwapped ==
    IF cmd = "StartSession"
    THEN [tsn |-> Decoded(reply.sess.hsn), hsn |-> Decoded(reply.sess.tsn)]
    ELSE sess

\* start reads the two session numbers from the fifth and sixth token.
StoredSession ==
    IF cmd = "StartSession"
    THEN [tsn |-> Decoded(reply.sess.tsn), hsn |-> Decoded(reply.sess.hsn)]
    ELSE sess

\* A success status lets the call go on.  EndOfSession carries no
\* end-of-data trailer, so no answer to it counts as a success.
CommandSucceeds ==
    /\ PollDone
    /\ reply # None
    /\ cmd # "EndSession"
    /\ reply.status = "SUCCESS"
    /\ cmd = "StartSession" => ~eprise
    /\ pc' = "send"
    /\ cmd' = NextCommand
    /\ sess' = StoredSession
    /\ reply' = None
    /\ UNCHANGED <<eprise, key, outcome, result, connected>>
    /\ UNCHANGED <<locked, mbrDone, tries, open, inbox, fault, denied>>

\* Authenticating to an Enterprise drive is unimplemented!().
StartUnimplemented ==
    /\ PollDone
    /\ reply # None
    /\ cmd = "StartSession"
    /\ reply.status = "SUCCESS"
    /\ eprise
    /\ pc' = "panic"
    /\ reply' = None
    /\ UNCHANGED <<eprise, cmd, sess, key, outcome, result, connected>>
    /\ UNCHANGED <<locked, mbrDone, tries, open, inbox, fault, denied>>

\* Any other answer, or an empty one, is an Err.
CommandRejected ==
    /\ PollDone
    /\ \/ reply = None /\ CommandFailed("Failed")
       \/ /\ reply # None
          /\ cmd = "EndSession" \/ reply.status # "SUCCESS"
          /\ CommandFailed(Outcome(reply.status))
    /\ reply' = None
    /\ UNCHANGED <<eprise, connected, locked, mbrDone, tries, open, inbox>>
    /\ UNCHANGED <<fault, denied>>

\* secure_recv fails; the answer, if there is one, may be lost with it.
SecureRecvFails ==
    /\ pc = "poll"
    /\ CommandFailed("Failed")
    /\ reply' \in {reply, None}
    /\ fault' = TRUE
    /\ UNCHANGED <<eprise, connected, locked, mbrDone, tries, open, inbox, denied>>

\* reconnect_controller: disconnect_controller, then connect_controller.
Reconnect ==
    /\ pc = "reconnect"
    /\ pc' = "idle"
    /\ result' = "Ok"
    /\ connected' = TRUE
    /\ UNCHANGED <<eprise, cmd, sess, key, outcome, driveVars, fault, denied>>

ReconnectFails ==
    /\ pc = "reconnect"
    /\ pc' = "idle"
    /\ result' = "Failed"
    /\ connected' \in {connected, FALSE}
    /\ fault' = TRUE
    /\ UNCHANGED <<eprise, cmd, sess, key, outcome, driveVars, denied>>

-------------------------------------------------------------------------------
(* The drive. *)

Answer(status) == [kind |-> inbox.kind, status |-> status, sess |-> NoSession]

\* StartSession: one session at a time, and a failed authentication counts.
\* A success clears the count and answers with the numbers of the session.
TPerStartSession ==
    /\ inbox # None /\ inbox.kind = "StartSession"
    /\ \/ /\ open # None
          /\ reply' = Answer("NO_SESSIONS_AVAILABLE")
          /\ UNCHANGED <<tries, open>>
       \/ /\ open = None /\ inbox.key # None /\ tries = TryLimit
          /\ reply' = Answer("AUTHORITY_LOCKED_OUT")
          /\ UNCHANGED <<tries, open>>
       \/ /\ open = None /\ inbox.key = "wrong" /\ tries < TryLimit
          /\ tries' = tries + 1
          /\ reply' = Answer("NOT_AUTHORIZED")
          /\ UNCHANGED open
       \/ /\ open = None
          /\ inbox.key = None \/ (inbox.key = "right" /\ tries < TryLimit)
          /\ tries' = IF inbox.key = None THEN tries ELSE 0
          /\ \E t \in TSNs :
                /\ open' = [tsn |-> t, hsn |-> HostHSN]
                /\ reply' = [kind |-> "StartSession", status |-> "SUCCESS",
                             sess |-> open']
    /\ inbox' = None
    /\ UNCHANGED <<eprise, hostVars, connected, locked, mbrDone, fault, denied>>

\* Set on the global range or on the MBR control table, in the open session.
TPerSet ==
    /\ inbox # None /\ inbox.kind \in {"SetRange", "SetMbrDone"}
    /\ open # None /\ inbox.to = open
    /\ \/ /\ locked' = IF inbox.kind = "SetRange" THEN FALSE ELSE locked
          /\ mbrDone' = IF inbox.kind = "SetMbrDone" THEN TRUE ELSE mbrDone
          /\ reply' = Answer("SUCCESS")
          /\ UNCHANGED denied
       \/ /\ reply' \in {Answer(s) : s \in SetErrors}
          /\ denied' = TRUE
          /\ UNCHANGED <<locked, mbrDone>>
    /\ inbox' = None
    /\ UNCHANGED <<eprise, hostVars, connected, tries, open, fault>>

TPerEndSession ==
    /\ inbox # None /\ inbox.kind = "EndSession"
    /\ open # None /\ inbox.to = open
    /\ open' = None
    /\ reply' = Answer("NoMethodStatus")
    /\ inbox' = None
    /\ UNCHANGED <<eprise, hostVars, connected, locked, mbrDone, tries>>
    /\ UNCHANGED <<fault, denied>>

\* A packet for a session that is not open is dropped without an answer.
TPerDrop ==
    /\ inbox # None /\ inbox.kind # "StartSession"
    /\ open = None \/ inbox.to # open
    /\ inbox' = None
    /\ UNCHANGED <<eprise, hostVars, connected, locked, mbrDone, tries, open>>
    /\ UNCHANGED <<reply, fault, denied>>

\* The drive times a session out.
TPerAbort ==
    /\ open # None
    /\ open' = None
    /\ fault' = TRUE
    /\ UNCHANGED <<eprise, hostVars, connected, locked, mbrDone, tries>>
    /\ UNCHANGED <<inbox, reply, denied>>

\* Power is cut, or the machine reset: the drive locks itself, and may or may
\* not forget the failed authentications; the host starts again.
PowerCycle ==
    /\ pc' = "idle" /\ cmd' = "EndSession" /\ sess' = NoSession
    /\ key' = "wrong" /\ outcome' = "Ok" /\ result' = "None"
    /\ connected' = TRUE
    /\ locked' = TRUE /\ mbrDone' = FALSE /\ tries' \in {tries, 0}
    /\ open' = None /\ inbox' = None /\ reply' = None
    /\ fault' = FALSE /\ denied' = FALSE
    /\ UNCHANGED eprise

-------------------------------------------------------------------------------

Init ==
    /\ eprise \in BOOLEAN
    /\ pc = "idle" /\ cmd = "EndSession" /\ sess = NoSession
    /\ key = "wrong" /\ outcome = "Ok" /\ result = "None"
    /\ connected = TRUE
    /\ locked = TRUE /\ mbrDone = FALSE /\ tries = 0
    /\ open = None /\ inbox = None /\ reply = None
    /\ fault = FALSE /\ denied = FALSE

\* Steps the host takes when no firmware call fails, and steps that do.
HostStep  == SecureSend \/ CommandSucceeds \/ StartUnimplemented
                \/ CommandRejected \/ Reconnect
FaultStep == SecureSendFails \/ SecureRecvFails \/ ReconnectFails
TPerStep  == TPerStartSession \/ TPerSet \/ TPerEndSession \/ TPerDrop

Next ==
    \/ \E k \in Keys \cup {"malformed"} : Unlock(k)
    \/ HostStep
    \/ FaultStep
    \/ TPerStep
    \/ TPerAbort
    \/ PowerCycle

Spec == Init /\ [][Next]_vars

\* The host is a single thread that runs, and the drive answers in the end.
\* Nothing is assumed of faults, time-outs, power or the caller.
Fairness == WF_vars(HostStep) /\ WF_vars(TPerStep)
FairSpec == Spec /\ Fairness
-------------------------------------------------------------------------------
(* Correctness. *)

\* The type invariant of the host of opal/src/session.rs and of its drive.
TypeOK ==
    /\ eprise \in BOOLEAN
    /\ pc \in {"idle", "send", "poll", "reconnect", "panic"}
    /\ cmd \in Kinds /\ sess \in SessIds /\ key \in Keys
    /\ outcome \in {"Ok"} \cup Errors /\ result \in Results
    /\ connected \in BOOLEAN /\ locked \in BOOLEAN /\ mbrDone \in BOOLEAN
    /\ tries \in 0..TryLimit
    /\ open \in SessIds \cup {None}
    /\ inbox \in Packets \cup {None} /\ reply \in Answers \cup {None}
    /\ fault \in BOOLEAN /\ denied \in BOOLEAN

\* The shadow MBR is hidden only on an unlocked range, also when a Set is
\* executed long after the host gave up on it: a drive left the other way round
\* shows the firmware a disk it cannot read.  It rests on unlock() sending
\* set_mbr_done only after set_locking_range was answered with success.
MbrHiddenOnlyWhenUnlocked == mbrDone => ~locked

\* An answer that is there while the host polls is the answer to the command it
\* polls for, although send_raw_command compares no session or sequence number.
AnswersOwnCommand == pc = "poll" /\ reply # None => reply.kind = cmd

\* Ok from unlock() means that everything it does has been done: the range is
\* open, the MBR hidden, the controller reconnected, and the session is closed
\* unless the firmware lost the closing of it.
SuccessIsComplete ==
    result = "Ok" => /\ ~locked /\ mbrDone /\ connected
                     /\ fault \/ open = None

\* As long as no firmware call fails, no call of unlock(), successful or not,
\* leaves a session, a command or an answer behind that a later call would meet
\* (the Drop of OpalSession).
NothingLeftBehind ==
    pc = "idle" /\ ~fault => open = None /\ inbox = None /\ reply = None

\* unlock() fails in the unspecific way (which resets the machine) only when a
\* firmware call failed or the drive refused a Set: never because it read an
\* answer too early, met its own earlier session or misread a status.
NoSpuriousFailure == result = "Failed" => fault \/ denied

\* A Set reaches the drive under the numbers of the session the drive opened:
\* start() decodes what the drive encoded, whatever number it chose.
AddressesOpenSession ==
    inbox # None /\ inbox.kind \in {"SetRange", "SetMbrDone"} /\ ~fault =>
        open # None /\ inbox.to = open

\* A call of unlock() comes to an end: the polling loop of send_raw_command has
\* no limit of its own, it relies on the drive answering.
CallReturns == pc # "idle" ~> pc \in {"idle", "panic"}

\* The protocol implements the promise of unlock().  An attempt is a
\* StartSession that carries a key and has not been executed.
Holds(m) == IF m # None /\ m.kind = "StartSession" /\ m.key # None THEN 1 ELSE 0
InHand   == IF pc = "send" /\ cmd = "StartSession" THEN 1 ELSE 0

Promise == INSTANCE OpalUnlock
    WITH calling  <- pc # "idle",
         attempts <- InHand + Holds(inbox),
         trusted  <- open # None /\ ~eprise,
         MaxAttempts <- 2

\* Every behaviour of the protocol is one the promise of unlock() allows: one
\* try of the key per call, no effect without an accepted key, Ok only for an
\* open drive, and a lock-out reported only when the tries are used up.
KeepsPromise == Promise!Spec
===============================================================================
