-------------------------- MODULE UnlockOpal_proofs ---------------------------
(***************************************************************************)
(* What holds of every unlock() call whatever the try limit, the session   *)
(* numbers and the errors of the drive are, and that the protocol          *)
(* implements the promise of unlock(); and then of the retry loop of       *)
(* unlock_opal, whatever the drive, the user and the key file do.  The     *)
(* invariants of the protocol carry over: the loop takes steps of the      *)
(* protocol or leaves it alone, but for a discovery that fails.            *)
(***************************************************************************)
EXTENDS UnlockOpal, SequenceTheorems, TLAPS

-------------------------------------------------------------------------------
(* The ids. *)

\* An id is a sequence of bytes.
LEMMA U32IsSeq == U32 \subseteq Seq(Byte)
  BY DEF U32

\* What start() decodes is a 32-bit id again, whatever the width on the wire.
LEMMA DecodedType ==
  ASSUME NEW id \in U32 PROVE Decoded(id) \in U32
<1> DEFINE len == AtomLen
           h == <<128 + len>>
           q == SubSeq(id, 5 - len, 4)
           t == h \o q
<1>1. len \in 1..4
  BY IdsAssumption
<1>2. id \in Seq(Byte) /\ Len(id) = 4
  BY U32IsSeq DEF U32
<1>3. q \in Seq(Byte) /\ Len(q) = len
  <2>1. \A i \in (5 - len)..4 : id[i] \in Byte
    BY <1>1 DEF U32
  <2> QED
    BY <1>1, <1>2, <2>1
<1>4. h \in Seq(Byte) /\ Len(h) = 1 /\ h[1] = 128 + len
  BY <1>1 DEF Byte
<1> HIDE DEF h, q
<1>5. t \in Seq(Byte) /\ Len(t) = len + 1 /\ t[1] = 128 + len
  <2>1. t \in Seq(Byte) /\ Len(t) = Len(h) + Len(q) /\ t[1] = h[1]
    BY <1>1, <1>3, <1>4, ConcatProperties
  <2> QED
    BY <1>1, <1>3, <1>4, <2>1
<1> HIDE DEF t
<1>6. \A i \in 1..(len + 1) : t[i] \in Byte
  BY <1>1, <1>5
<1>7. GetUint(t) = [i \in 1..8 |-> IF i > 8 - Len(t) THEN t[i - (8 - Len(t))] ELSE 0]
  <2>1. ~(t[1] < 64) /\ t[1] \in 128..143 /\ Len(t) <= 8 /\ Len(t) # 9
    BY <1>1, <1>5
  <2> QED
    BY <2>1 DEF GetUint
<1>8. \A i \in 1..8 : GetUint(t)[i] \in Byte
  BY <1>1, <1>5, <1>6, <1>7 DEF Byte
<1>9. Decoded(id) = AsU32(GetUint(t))
  BY DEF Decoded, DecodedId, IdAtom, t, h, q
<1> QED
  BY <1>8, <1>9 DEF AsU32, U32

\* The numbers the host knows beforehand are session numbers.
LEMMA KnownIds == ZeroId \in U32 /\ HostHSN \in U32 /\ NoSession \in SessIds
  BY DEF ZeroId, HostHSN, NoSession, SessIds, U32, Byte

-------------------------------------------------------------------------------
(* Type correctness. *)

\* The types of the host's variables after a command that failed.
LEMMA FailureType ==
  ASSUME TypeOK, NEW e \in Errors, CommandFailed(e)
  PROVE  /\ pc' \in {"idle", "send", "reconnect"} /\ cmd' \in Kinds
         /\ sess' \in SessIds /\ key' \in Keys
         /\ outcome' \in {"Ok"} \cup Errors /\ result' \in Results
  BY KnownIds DEF CommandFailed, SessionDropped, TypeOK, Kinds, Results

\* What the host sends is a packet.
LEMMA PacketType == TypeOK => Packet \in Packets
  BY DEF TypeOK, Packet, Packets

\* What the drive answers is an answer.
LEMMA AnswerType ==
  ASSUME TypeOK, inbox # None, NEW s \in Statuses PROVE Answer(s) \in Answers
  BY KnownIds DEF TypeOK, Answer, Answers, Packets

\* The answer of the drive to a command it executes.
LEMMA AnswerGiven ==
  ASSUME TypeOK, TPerStartSession \/ TPerSet \/ TPerEndSession
  PROVE  reply' \in Answers /\ reply' # None
<1> SUFFICES reply' \in Answers
  BY NoneAssumption
<1>1. inbox # None
  BY DEF TPerStartSession, TPerSet, TPerEndSession
<1>2. CASE TPerStartSession
  <2>1. "StartSession" \in Kinds
        /\ {"SUCCESS", "NO_SESSIONS_AVAILABLE", "AUTHORITY_LOCKED_OUT", "NOT_AUTHORIZED"}
              \subseteq Statuses
    BY DEF Kinds, Statuses
  <2>2. CASE \E s \in Statuses : reply' = Answer(s)
    BY <1>1, <2>2, AnswerType
  <2>3. CASE \E ids \in SessIds :
               reply' = [kind |-> "StartSession", status |-> "SUCCESS", sess |-> ids]
    BY <2>1, <2>3 DEF Answers
  <2>4. \A t \in TSNs : [tsn |-> t, hsn |-> HostHSN] \in SessIds
    BY KnownIds, IdsAssumption DEF SessIds
  <2> QED
    BY <1>2, <2>1, <2>2, <2>3, <2>4 DEF TPerStartSession
<1>3. CASE TPerSet
  BY <1>3, AnswerType, SetErrorsAssumption DEF TPerSet, Statuses
<1>4. CASE TPerEndSession
  BY <1>4, AnswerType DEF TPerEndSession, Statuses
<1> QED
  BY <1>2, <1>3, <1>4

\* The values of a start are of the types they should be.
LEMMA InitialValues ==
  0 \in 0..TryLimit /\ "EndSession" \in Kinds /\ "wrong" \in Keys /\ "None" \in Results
BY TryLimitAssumption DEF Kinds, Keys, Results

\* A step keeps every variable in its type.
LEMMA TypeInductive == TypeOK /\ [Next]_vars => TypeOK'
<1> SUFFICES ASSUME TypeOK, [Next]_vars PROVE TypeOK'
  OBVIOUS
<1>1. ASSUME NEW k \in Keys \cup {"malformed"}, Unlock(k) PROVE TypeOK'
  BY <1>1, KnownIds DEF Unlock, TypeOK, Kinds, Results, Errors, driveVars
<1>2. CASE SecureSend
  BY <1>2, PacketType DEF SecureSend, TypeOK
<1>3. CASE SecureSendFails
  <2>1. CommandFailed("Failed") /\ "Failed" \in Errors
    BY <1>3 DEF SecureSendFails, Errors
  <2>2. inbox' \in Packets \cup {None} /\ reply' \in Answers \cup {None}
    BY <1>3, PacketType DEF SecureSendFails, TypeOK
  <2> QED
    BY <1>3, <2>1, <2>2, FailureType DEF SecureSendFails, TypeOK
<1>4. CASE CommandSucceeds
  <2>1. NextCommand \in Kinds
    BY <1>4 DEF CommandSucceeds, NextCommand, TypeOK, Kinds
  <2>2. StoredSession \in SessIds
    BY <1>4, DecodedType DEF CommandSucceeds, StoredSession, TypeOK, Answers, SessIds
  <2> QED
    BY <1>4, <2>1, <2>2 DEF CommandSucceeds, TypeOK
<1>5. CASE StartUnimplemented
  BY <1>5 DEF StartUnimplemented, TypeOK
<1>6. CASE CommandRejected
  <2>1. "Failed" \in Errors /\ \A s : Outcome(s) \in Errors
    BY DEF Outcome, Errors
  <2>2. PICK e \in Errors : CommandFailed(e)
    BY <1>6, <2>1 DEF CommandRejected
  <2> QED
    BY <1>6, <2>2, FailureType DEF CommandRejected, TypeOK
<1>7. CASE SecureRecvFails
  <2>1. CommandFailed("Failed") /\ "Failed" \in Errors
    BY <1>7 DEF SecureRecvFails, Errors
  <2> QED
    BY <1>7, <2>1, FailureType DEF SecureRecvFails, TypeOK
<1>8. CASE Reconnect
  BY <1>8 DEF Reconnect, TypeOK, Results, driveVars
<1>9. CASE ReconnectFails
  <2>1. "Failed" \in Results
    BY DEF Results, Errors
  <2> QED
    BY <1>9, <2>1 DEF ReconnectFails, TypeOK, driveVars
<1>10. CASE TPerStartSession
  <2>2. tries' \in 0..TryLimit
    BY <1>10, TryLimitAssumption DEF TPerStartSession, TypeOK
  <2>3. open' \in SessIds \cup {None}
    BY <1>10, KnownIds, IdsAssumption DEF TPerStartSession, TypeOK, SessIds
  <2>4. reply' \in Answers
    BY <1>10, AnswerGiven
  <2> QED
    BY <1>10, <2>2, <2>3, <2>4 DEF TPerStartSession, TypeOK, hostVars
<1>11. CASE TPerSet
  <2>1. reply' \in Answers
    BY <1>11, AnswerGiven
  <2> QED
    BY <1>11, <2>1 DEF TPerSet, TypeOK, hostVars
<1>12. CASE TPerEndSession
  <2>1. reply' \in Answers
    BY <1>12, AnswerGiven
  <2> QED
    BY <1>12, <2>1 DEF TPerEndSession, TypeOK, hostVars
<1>13. CASE TPerDrop
  BY <1>13 DEF TPerDrop, TypeOK, hostVars
<1>14. CASE TPerAbort
  BY <1>14 DEF TPerAbort, TypeOK, hostVars
<1>15. CASE PowerCycle
  BY <1>15, InitialValues, KnownIds DEF PowerCycle, TypeOK
<1>16. CASE UNCHANGED vars
  BY <1>16 DEF vars, hostVars, driveVars, TypeOK
<1> QED
  BY <1>1, <1>2, <1>3, <1>4, <1>5, <1>6, <1>7, <1>8, <1>9, <1>10, <1>11, <1>12,
     <1>13, <1>14, <1>15, <1>16 DEF Next, HostStep, FaultStep, TPerStep

\* Every variable keeps its type.
THEOREM TypeCorrect == Spec => []TypeOK
<1>1. Init => TypeOK
  BY InitialValues, KnownIds DEF Init, TypeOK
<1> QED
  BY <1>1, TypeInductive, PTL DEF Spec

-------------------------------------------------------------------------------
(* The order of the two Sets. *)

\* MbrHiddenOnlyWhenUnlocked is not inductive: the step that hides the MBR is
\* the drive's, and may come when the host has long left the call.  So it must
\* be known that the range is open from the moment the host was told so, as long
\* as a command to hide the MBR is being sent, on its way or answered.
Ordered ==
    /\ MbrHiddenOnlyWhenUnlocked
    /\ inbox # None /\ inbox.kind = "SetMbrDone" => ~locked
    /\ pc \in {"send", "poll"} /\ cmd = "SetMbrDone" => ~locked
    /\ reply # None /\ reply.kind = "SetRange" /\ reply.status = "SUCCESS" => ~locked

\* What the host polls for is what the drive works on or has answered.
InStep ==
    /\ pc = "poll" /\ inbox # None => inbox.kind = cmd
    /\ AnswersOwnCommand

\* Where a command that failed leaves the call: out of it, or closing the session.
LEMMA AfterFailure ==
  ASSUME NEW e, CommandFailed(e)
  PROVE  /\ pc' \in {"idle", "send", "reconnect"}
         /\ pc' = "send" => cmd' = "EndSession" /\ cmd # "EndSession" /\ outcome' = e
         /\ pc' # "send" => cmd = "EndSession" /\ outcome' = outcome
         /\ pc' = "reconnect" => outcome = "Ok"
         /\ pc' = "idle" => result' = outcome /\ outcome # "Ok"
         /\ pc' # "idle" => result' = result
  BY DEF CommandFailed, SessionDropped

\* A packet carries the command and the session of the host.
LEMMA PacketIsOfCommand == Packet.kind = cmd /\ Packet.to = sess
  BY DEF Packet

\* The first two commands of a call are not confused with the third.
LEMMA MbrIsNext ==
  ASSUME cmd \in Kinds \ {"EndSession"}
  PROVE  /\ NextCommand \in Kinds \ {"StartSession"}
         /\ NextCommand = "SetRange" <=> cmd = "StartSession"
         /\ NextCommand = "SetMbrDone" <=> cmd = "SetRange"
         /\ NextCommand = "EndSession" <=> cmd = "SetMbrDone"
  BY DEF Kinds, NextCommand

\* What the drive answers to a Set, and that it says SUCCESS only for one it did.
LEMMA SetAnswer ==
  ASSUME TPerSet
  PROVE  /\ inbox # None /\ inbox' = None /\ UNCHANGED hostVars /\ UNCHANGED open
         /\ reply'.kind = inbox.kind
         /\ \/ /\ reply'.status = "SUCCESS" /\ UNCHANGED denied
               /\ locked' = IF inbox.kind = "SetRange" THEN FALSE ELSE locked
               /\ mbrDone' = IF inbox.kind = "SetMbrDone" THEN TRUE ELSE mbrDone
            \/ reply'.status # "SUCCESS" /\ denied' /\ UNCHANGED <<locked, mbrDone>>
<1>1. inbox # None /\ inbox' = None /\ UNCHANGED hostVars /\ UNCHANGED open
  BY DEF TPerSet
<1>2. CASE reply' = Answer("SUCCESS") /\ UNCHANGED denied
            /\ locked' = (IF inbox.kind = "SetRange" THEN FALSE ELSE locked)
            /\ mbrDone' = (IF inbox.kind = "SetMbrDone" THEN TRUE ELSE mbrDone)
  BY <1>1, <1>2 DEF Answer
<1>3. CASE reply' \in {Answer(s) : s \in SetErrors} /\ denied' = TRUE
            /\ UNCHANGED <<locked, mbrDone>>
  <2>1. PICK s \in SetErrors : reply' = Answer(s)
    BY <1>3
  <2>2. s # "SUCCESS" /\ reply'.kind = inbox.kind /\ reply'.status = s
    BY <2>1, SetErrorsAssumption DEF Answer
  <2> QED
    BY <1>1, <1>3, <2>2
<1> QED
  BY <1>2, <1>3 DEF TPerSet

\* Polls and answers stay in step.
LEMMA InStepInductive == TypeOK /\ InStep /\ [Next]_vars => InStep'
<1> SUFFICES ASSUME TypeOK, InStep, [Next]_vars PROVE InStep'
  OBVIOUS
<1> USE DEF InStep, AnswersOwnCommand
<1>1. ASSUME NEW k \in Keys \cup {"malformed"}, Unlock(k) PROVE InStep'
  BY <1>1 DEF Unlock, driveVars
<1>2. CASE SecureSend
  BY <1>2, PacketIsOfCommand DEF SecureSend
<1>3. CASE SecureSendFails \/ CommandRejected \/ SecureRecvFails
  BY <1>3, AfterFailure DEF SecureSendFails, CommandRejected, SecureRecvFails
<1>4. CASE CommandSucceeds \/ StartUnimplemented \/ Reconnect \/ ReconnectFails
  BY <1>4 DEF CommandSucceeds, StartUnimplemented, Reconnect, ReconnectFails
<1>5. CASE TPerStartSession
  <2>1. inbox' = None /\ reply'.kind = inbox.kind /\ UNCHANGED <<pc, cmd>> /\ inbox # None
    BY <1>5 DEF TPerStartSession, Answer, hostVars
  <2> QED
    BY <2>1
<1>6. CASE TPerSet
  BY <1>6, SetAnswer DEF hostVars
<1>7. CASE TPerEndSession
  BY <1>7 DEF TPerEndSession, Answer, hostVars
<1>8. CASE TPerDrop \/ TPerAbort
  BY <1>8 DEF TPerDrop, TPerAbort, hostVars
<1>9. CASE PowerCycle
  BY <1>9 DEF PowerCycle
<1>10. CASE UNCHANGED vars
  BY <1>10 DEF vars, hostVars, driveVars
<1> QED
  BY <1>1, <1>2, <1>3, <1>4, <1>5, <1>6, <1>7, <1>8, <1>9, <1>10
     DEF Next, HostStep, FaultStep, TPerStep

\* The MBR stays behind the range.
LEMMA OrderedInductive == TypeOK /\ InStep /\ Ordered /\ [Next]_vars => Ordered'
<1> SUFFICES ASSUME TypeOK, InStep, Ordered, [Next]_vars PROVE Ordered'
  OBVIOUS
<1> USE DEF Ordered, MbrHiddenOnlyWhenUnlocked
<1>1. ASSUME NEW k \in Keys \cup {"malformed"}, Unlock(k) PROVE Ordered'
  BY <1>1 DEF Unlock, driveVars
<1>2. CASE SecureSend
  BY <1>2, PacketIsOfCommand DEF SecureSend
<1>3. CASE SecureSendFails
  <2>1. pc = "send" /\ (inbox' = inbox \/ inbox' = Packet) /\ reply' \in {reply, None}
         /\ UNCHANGED <<locked, mbrDone>>
    BY <1>3 DEF SecureSendFails
  <2>2. ~(pc' \in {"send", "poll"} /\ cmd' = "SetMbrDone")
    BY <1>3, AfterFailure DEF SecureSendFails
  <2> QED
    BY <2>1, <2>2, PacketIsOfCommand
<1>4. CASE CommandRejected \/ SecureRecvFails
  <2>1. reply' \in {reply, None} /\ UNCHANGED <<inbox, locked, mbrDone>>
    BY <1>4 DEF CommandRejected, SecureRecvFails
  <2>2. ~(pc' \in {"send", "poll"} /\ cmd' = "SetMbrDone")
    BY <1>4, AfterFailure DEF CommandRejected, SecureRecvFails
  <2> QED
    BY <2>1, <2>2
<1>5. CASE CommandSucceeds
  \* the range is open before the host goes on to the MBR
  <2>1. reply # None /\ reply.kind = cmd /\ reply.status = "SUCCESS"
    BY <1>5 DEF CommandSucceeds, PollDone, InStep, AnswersOwnCommand
  <2>2. cmd' = "SetMbrDone" => cmd = "SetRange"
    BY <1>5, MbrIsNext DEF CommandSucceeds, TypeOK
  <2> QED
    BY <1>5, <2>1, <2>2 DEF CommandSucceeds
<1>6. CASE StartUnimplemented
  BY <1>6 DEF StartUnimplemented
<1>13. CASE Reconnect \/ ReconnectFails
  <2>1. UNCHANGED <<locked, mbrDone, inbox, reply>> /\ pc' = "idle"
    BY <1>13 DEF Reconnect, ReconnectFails, driveVars
  <2> QED
    BY <2>1
<1>7. CASE TPerStartSession
  <2>1. reply'.kind # "SetRange"
    BY <1>7 DEF TPerStartSession, Answer
  <2> QED
    BY <1>7, <2>1 DEF TPerStartSession, hostVars
<1>8. CASE TPerSet
  <2>1. inbox # None /\ inbox' = None /\ UNCHANGED <<pc, cmd>> /\ reply'.kind = inbox.kind
    BY <1>8, SetAnswer DEF hostVars
  <2>2. CASE /\ locked' = IF inbox.kind = "SetRange" THEN FALSE ELSE locked
             /\ mbrDone' = IF inbox.kind = "SetMbrDone" THEN TRUE ELSE mbrDone
    BY <2>1, <2>2
  <2>3. CASE reply'.status # "SUCCESS" /\ UNCHANGED <<locked, mbrDone>>
    BY <2>1, <2>3
  <2> QED
    BY <1>8, <2>2, <2>3, SetAnswer
<1>9. CASE TPerEndSession
  BY <1>9 DEF TPerEndSession, Answer, hostVars
<1>10. CASE TPerDrop \/ TPerAbort
  BY <1>10 DEF TPerDrop, TPerAbort, hostVars
<1>11. CASE PowerCycle
  BY <1>11 DEF PowerCycle
<1>12. CASE UNCHANGED vars
  BY <1>12 DEF vars, hostVars, driveVars
<1> QED
  BY <1>1, <1>2, <1>3, <1>4, <1>5, <1>6, <1>7, <1>8, <1>9, <1>10, <1>11, <1>12, <1>13
     DEF Next, HostStep, FaultStep, TPerStep

\* Every answer the host looks at belongs to its command.
THEOREM AnswersMatch == Spec => []AnswersOwnCommand
<1>1. Init => InStep
  BY DEF Init, InStep, AnswersOwnCommand
<1>2. InStep => AnswersOwnCommand
  BY DEF InStep
<1> QED
  BY <1>1, <1>2, TypeCorrect, InStepInductive, PTL DEF Spec

\* The MBR is never hidden from a locked range.
THEOREM MbrHiddenAfterUnlock == Spec => []MbrHiddenOnlyWhenUnlocked
<1>1. Init => InStep /\ Ordered
  BY DEF Init, InStep, AnswersOwnCommand, Ordered, MbrHiddenOnlyWhenUnlocked
<1>2. Ordered => MbrHiddenOnlyWhenUnlocked
  BY DEF Ordered
<1> QED
  BY <1>1, <1>2, TypeCorrect, InStepInductive, OrderedInductive, PTL DEF Spec

-------------------------------------------------------------------------------
(* What Ok means, and what a call leaves behind. *)

\* A success has been earned: the MBR is hidden once the drive said so, and the
\* call goes on to its Ok only then.
Earnt ==
    /\ reply # None /\ reply.kind = "SetMbrDone" /\ reply.status = "SUCCESS" => mbrDone
    /\ pc \in {"send", "poll"} /\ cmd = "EndSession" /\ outcome = "Ok" => mbrDone
    /\ pc = "reconnect" => mbrDone
    /\ result = "Ok" => /\ pc = "idle" \/ (pc = "panic" /\ fault)
                        /\ mbrDone /\ connected

\* Without a fault the drive holds the session of the host, and nothing else:
\* none before it was started and after it was closed.
Opened == CASE cmd = "StartSession" -> open = None
            [] cmd \in {"SetRange", "SetMbrDone"} -> open = sess
            [] cmd = "EndSession" -> open \in {None, sess}

Answered == CASE cmd = "StartSession" ->
                    IF reply.status = "SUCCESS"
                    THEN open = reply.sess
                    ELSE open = None /\ reply.status \in {"NOT_AUTHORIZED", "AUTHORITY_LOCKED_OUT"}
              [] cmd \in {"SetRange", "SetMbrDone"} ->
                    open = sess /\ (reply.status # "SUCCESS" => denied)
              [] cmd = "EndSession" -> open = None

\* The three states of a command that is polled for: the drive works on it, has
\* answered it, or has dropped it, which only EndOfSession may be.
Worked   == inbox # None /\ reply = None /\ inbox.to = sess /\ Opened
Finished == inbox = None /\ reply # None /\ Answered
Dropped  == inbox = None /\ reply = None /\ cmd = "EndSession" /\ open = None

Clean ==
    ~fault =>
        /\ pc \in {"idle", "reconnect"} => open = None /\ inbox = None /\ reply = None
        /\ pc = "send" => inbox = None /\ reply = None /\ Opened
        /\ pc = "poll" => Worked \/ Finished \/ Dropped
        /\ pc = "panic" => inbox = None
        /\ pc \in {"send", "poll"} /\ outcome = "Failed" => denied
        /\ result = "Failed" => denied

\* An error outcome is never Ok.
LEMMA OutcomeIsError == \A s : Outcome(s) \in Errors /\ Outcome(s) # "Ok"
  BY DEF Outcome, Errors

\* How the call goes on after an error, and which error it is.
LEMMA Rejected ==
  ASSUME CommandRejected
  PROVE  \E e \in Errors \ {"Ok"} :
            /\ CommandFailed(e)
            /\ \/ reply = None /\ e = "Failed"
               \/ reply # None /\ e = Outcome(reply.status)
                  /\ (cmd = "EndSession" \/ reply.status # "SUCCESS")
<1>1. "Failed" \in Errors \ {"Ok"}
  BY DEF Errors
<1> QED
  BY <1>1, OutcomeIsError DEF CommandRejected

\* An Ok and an error are earned.
LEMMA EarntInductive == TypeOK /\ InStep /\ Earnt /\ [Next]_vars => Earnt'
<1> SUFFICES ASSUME TypeOK, InStep, Earnt, [Next]_vars PROVE Earnt'
  OBVIOUS
<1> USE DEF Earnt
<1>1. ASSUME NEW k \in Keys \cup {"malformed"}, Unlock(k) PROVE Earnt'
  BY <1>1 DEF Unlock, driveVars
<1>2. CASE SecureSend
  BY <1>2 DEF SecureSend
<1>3. ASSUME NEW e \in Errors \ {"Ok"}, CommandFailed(e), pc \in {"send", "poll"},
             reply' \in {reply, None}, UNCHANGED <<mbrDone, connected>>
      PROVE  Earnt'
  <2>1. cmd = "EndSession" /\ outcome = "Ok" => mbrDone
    BY <1>3
  <2>2. result # "Ok"
    BY <1>3
  <2>3. pc' = "send" => outcome' # "Ok" /\ result' # "Ok"
    BY <1>3, <2>2, AfterFailure
  <2>4. pc' = "reconnect" => mbrDone' /\ result' # "Ok"
    BY <1>3, <2>1, <2>2, AfterFailure
  <2>5. pc' = "idle" => result' # "Ok"
    BY <1>3, AfterFailure
  <2> QED
    BY <1>3, <2>3, <2>4, <2>5, AfterFailure
<1>4. CASE SecureSendFails
  <2>1. "Failed" \in Errors \ {"Ok"}
    BY DEF Errors
  <2> QED
    BY <1>3, <1>4, <2>1 DEF SecureSendFails
<1>5. CASE CommandRejected
  <2>1. PICK e \in Errors \ {"Ok"} : CommandFailed(e)
    BY <1>5, Rejected
  <2> QED
    BY <1>3, <1>5, <2>1 DEF CommandRejected, PollDone
<1>6. CASE SecureRecvFails
  <2>1. "Failed" \in Errors \ {"Ok"}
    BY DEF Errors
  <2> QED
    BY <1>3, <1>6, <2>1 DEF SecureRecvFails
<1>7. CASE CommandSucceeds
  \* the drive has hidden the MBR before the host closes the session
  <2>1. reply # None /\ reply.kind = cmd /\ reply.status = "SUCCESS" /\ pc = "poll"
    BY <1>7 DEF CommandSucceeds, PollDone, InStep, AnswersOwnCommand
  <2>2. cmd' = "EndSession" => cmd = "SetMbrDone"
    BY <1>7, MbrIsNext DEF CommandSucceeds, TypeOK
  <2>3. cmd' = "EndSession" => mbrDone
    BY <2>1, <2>2
  <2> QED
    BY <1>7, <2>1, <2>3 DEF CommandSucceeds
<1>8. CASE StartUnimplemented
  BY <1>8 DEF StartUnimplemented, PollDone
<1>9. CASE Reconnect
  <2>1. UNCHANGED <<mbrDone, reply>> /\ pc' = "idle" /\ connected' /\ mbrDone
    BY <1>9 DEF Reconnect, driveVars
  <2> QED
    BY <2>1
<1>10. CASE ReconnectFails
  <2>1. UNCHANGED <<mbrDone, reply>> /\ pc' = "idle" /\ result' = "Failed"
    BY <1>10 DEF ReconnectFails, driveVars
  <2> QED
    BY <2>1
<1>11. CASE TPerStartSession
  <2>1. reply'.kind # "SetMbrDone"
    BY <1>11 DEF TPerStartSession, Answer
  <2>2. UNCHANGED <<pc, cmd, outcome, result, mbrDone, connected, fault>>
    BY <1>11 DEF TPerStartSession, hostVars
  <2> QED
    BY <2>1, <2>2
<1>12. CASE TPerSet
  <2>1. UNCHANGED <<pc, cmd, outcome, result, connected, fault>>
    BY <1>12 DEF TPerSet, hostVars
  <2>2. mbrDone => mbrDone'
    BY <1>12, SetAnswer
  <2>3. reply'.kind = "SetMbrDone" /\ reply'.status = "SUCCESS" => mbrDone'
    BY <1>12, SetAnswer
  <2> QED
    BY <2>1, <2>2, <2>3
<1>13. CASE TPerEndSession
  BY <1>13 DEF TPerEndSession, Answer, hostVars
<1>14. CASE TPerDrop \/ TPerAbort
  BY <1>14 DEF TPerDrop, TPerAbort, hostVars
<1>15. CASE PowerCycle
  BY <1>15 DEF PowerCycle
<1>16. CASE UNCHANGED vars
  BY <1>16 DEF vars, hostVars, driveVars
<1> QED
  BY <1>1, <1>2, <1>4, <1>5, <1>6, <1>7, <1>8, <1>9, <1>10, <1>11, <1>12, <1>13,
     <1>14, <1>15, <1>16 DEF Next, HostStep, FaultStep, TPerStep

\* A 32-bit atom is read back as it was written: the header byte get_uint ORs in
\* is cut off by `as u32`.
LEMMA DecodedIsId ==
  ASSUME AtomLen = 4, NEW id \in U32 PROVE Decoded(id) = id
<1> DEFINE h == <<132>>
           q == SubSeq(id, 1, 4)
           t == h \o q
<1>1. id \in Seq(Byte) /\ Len(id) = 4
  BY U32IsSeq DEF U32
<1>2. q \in Seq(Byte) /\ Len(q) = 4
  <2>1. \A i \in 1..4 : id[i] \in Byte
    BY DEF U32
  <2> QED
    BY <1>1, <2>1
<1>8. \A i \in 1..4 : q[i] = id[i]
  BY <1>1
<1>3. h \in Seq(Byte) /\ Len(h) = 1 /\ h[1] = 132
  BY DEF Byte
<1> HIDE DEF h, q
<1>4. Len(t) = 5 /\ t[1] = 132 /\ \A i \in 1..4 : t[i + 1] = id[i]
  <2>1. /\ Len(t) = Len(h) + Len(q)
        /\ \A i \in 1..(Len(h) + Len(q)) :
              t[i] = IF i <= Len(h) THEN h[i] ELSE q[i - Len(h)]
    <3>1. h \in Seq(Byte) /\ q \in Seq(Byte)
      BY <1>2, <1>3
    <3> QED
      BY <3>1, ConcatProperties
  <2> HIDE DEF t
  <2>2. Len(t) = 5 /\ t[1] = h[1]
    BY <1>2, <1>3, <2>1
  <2>3. ASSUME NEW i \in 1..4 PROVE t[i + 1] = q[i]
    <3>1. i + 1 \in 1..(Len(h) + Len(q)) /\ ~(i + 1 <= Len(h)) /\ (i + 1) - Len(h) = i
      BY <1>2, <1>3
    <3> QED
      BY <2>1, <3>1
  <2> QED
    BY <1>3, <1>8, <2>2, <2>3
<1> HIDE DEF t
<1>5. GetUint(t) = [i \in 1..8 |-> IF i > 8 - Len(t) THEN t[i - (8 - Len(t))] ELSE 0]
  <2>1. ~(t[1] < 64) /\ t[1] \in 128..143 /\ Len(t) <= 8 /\ Len(t) # 9
    BY <1>4
  <2> QED
    BY <2>1 DEF GetUint
<1>6. \A i \in 1..4 : GetUint(t)[i + 4] = id[i]
  <2> SUFFICES ASSUME NEW i \in 1..4 PROVE GetUint(t)[i + 4] = id[i]
    OBVIOUS
  <2>1. GetUint(t)[i + 4] = t[(i + 4) - 3]
    BY <1>4, <1>5
  <2> QED
    BY <1>4, <2>1
<1>7. Decoded(id) = [i \in 1..4 |-> GetUint(t)[i + 4]]
  <2>1. Decoded(id) = AsU32(GetUint(<<128 + 4>> \o SubSeq(id, 5 - 4, 4)))
    BY DEF Decoded, DecodedId, IdAtom
  <2>2. <<128 + 4>> \o SubSeq(id, 5 - 4, 4) = t
    BY DEF t, h, q
  <2> QED
    BY <2>1, <2>2 DEF AsU32
<1> QED
  BY <1>6, <1>7 DEF U32

\* A command the drive has not executed is the one the host polls for.
LEMMA Polling ==
  ASSUME TypeOK, InStep, Clean, ~fault, inbox # None
  PROVE  pc = "poll" /\ Worked /\ inbox.kind = cmd
<1>1. pc = "poll"
  BY DEF TypeOK, Clean
<1>2. Worked
  BY <1>1 DEF Clean, Finished, Dropped
<1> QED
  BY <1>1, <1>2 DEF InStep

\* A call of unlock() that meets no fault tidies up.
LEMMA CleanInductive ==
  ASSUME AtomLen = 4
  PROVE  TypeOK /\ InStep /\ Clean /\ [Next]_vars => Clean'
<1> SUFFICES ASSUME TypeOK, InStep, Clean, [Next]_vars, ~fault' PROVE Clean'
  BY DEF Clean
<1>1. ASSUME NEW k \in Keys \cup {"malformed"}, Unlock(k) PROVE Clean'
  <2>1. ~fault /\ pc = "idle" /\ open = None /\ inbox = None /\ reply = None
        /\ UNCHANGED <<driveVars, denied>>
    BY <1>1 DEF Unlock, Clean
  <2>2. CASE pc' = "send" /\ cmd' = "StartSession" /\ outcome' = "Ok" /\ result' = "None"
    BY <2>1, <2>2 DEF Clean, Opened, driveVars
  <2>3. CASE pc' = "idle" /\ result' = "RawKeyInvalidLength"
    BY <2>1, <2>3 DEF Clean, driveVars
  <2> QED
    BY <1>1, <2>1, <2>2, <2>3 DEF Unlock
<1>2. CASE SecureSend
  <2>1. ~fault /\ pc = "send" /\ Opened
    BY <1>2 DEF SecureSend, Clean
  <2>2. Packet # None /\ Packet.to = sess
    BY PacketType, PacketIsOfCommand, NoneAssumption
  <2>3. Worked'
    BY <1>2, <2>1, <2>2 DEF SecureSend, Worked, Opened
  <2>4. (outcome = "Failed" => denied) /\ (result = "Failed" => denied)
    BY <2>1 DEF Clean
  <2> QED
    BY <1>2, <2>3, <2>4 DEF SecureSend, Clean
<1>3. CASE SecureSendFails \/ SecureRecvFails \/ ReconnectFails \/ TPerAbort
  BY <1>3 DEF SecureSendFails, SecureRecvFails, ReconnectFails, TPerAbort
<1>4. CASE CommandSucceeds
  \* the session the host stores is the one the drive opened
  <2>1. ~fault /\ pc = "poll" /\ Finished /\ reply # None /\ cmd # "EndSession"
        /\ reply.status = "SUCCESS"
    BY <1>4 DEF CommandSucceeds, PollDone, Clean, Worked, Dropped
  <2>2. cmd = "StartSession" => StoredSession = open
    <3>1. reply.sess \in SessIds
      BY <2>1 DEF TypeOK, Answers
    <3>2. cmd = "StartSession" => open = reply.sess
      BY <2>1 DEF Finished, Answered
    <3>3. cmd = "StartSession" =>
            StoredSession = [tsn |-> reply.sess.tsn, hsn |-> reply.sess.hsn]
      BY <3>1, DecodedIsId DEF StoredSession, SessIds
    <3> QED
      BY <3>1, <3>2, <3>3 DEF SessIds
  <2>3. cmd # "StartSession" => StoredSession = sess /\ open = sess
    BY <2>1 DEF StoredSession, Finished, Answered, TypeOK, Kinds
  <2>4. Opened'
    <3>1. sess' = open /\ open' = open
      BY <1>4, <2>2, <2>3 DEF CommandSucceeds
    <3>2. cmd' \in Kinds \ {"StartSession"}
      BY <1>4, MbrIsNext DEF CommandSucceeds, TypeOK
    <3> QED
      BY <3>1, <3>2 DEF Opened, Kinds
  <2>5. inbox' = None /\ reply' = None /\ pc' = "send"
    BY <1>4, <2>1 DEF CommandSucceeds, Finished
  <2> QED
    BY <1>4, <2>1, <2>4, <2>5 DEF CommandSucceeds, Clean
<1>5. CASE StartUnimplemented
  BY <1>5 DEF StartUnimplemented, PollDone, Clean, Worked, Finished, Dropped
<1>6. CASE CommandRejected
  <2>1. ~fault /\ pc = "poll" /\ ~Working /\ reply' = None
        /\ UNCHANGED <<open, inbox, denied>>
    BY <1>6 DEF CommandRejected, PollDone
  <2>2. PICK e \in Errors \ {"Ok"} :
            /\ CommandFailed(e)
            /\ \/ reply = None /\ e = "Failed"
               \/ reply # None /\ e = Outcome(reply.status)
                  /\ (cmd = "EndSession" \/ reply.status # "SUCCESS")
    BY <1>6, Rejected
  <2>3. Finished \/ Dropped
    BY <2>1 DEF Clean, Worked, Working
  <2>4. (outcome = "Failed" => denied) /\ (result = "Failed" => denied)
    BY <2>1 DEF Clean
  <2>5. CASE cmd = "EndSession"
    <3>1. open = None /\ inbox = None
      BY <2>3, <2>5 DEF Finished, Dropped, Answered
    <3>2. pc' \in {"idle", "reconnect"} /\ result' \in {outcome, result}
      BY <2>2, <2>5 DEF CommandFailed, SessionDropped
    <3> QED
      BY <2>1, <2>4, <3>1, <3>2 DEF Clean
  <2>6. CASE cmd # "EndSession"
    <3>1. Finished /\ reply # None /\ reply.status # "SUCCESS" /\ e = Outcome(reply.status)
      BY <2>2, <2>3, <2>6 DEF Finished, Dropped
    <3>2. pc' = "send" /\ cmd' = "EndSession" /\ outcome' = e /\ UNCHANGED <<sess, result>>
      BY <2>2, <2>6 DEF CommandFailed
    <3>3. open \in {None, sess} /\ (e = "Failed" => denied)
      BY <2>6, <3>1 DEF Finished, Answered, Outcome, TypeOK, Kinds
    <3>4. Opened'
      BY <2>1, <3>2, <3>3 DEF Opened
    <3> QED
      BY <2>1, <2>4, <3>1, <3>2, <3>3, <3>4 DEF Clean, Finished
  <2> QED
    BY <2>5, <2>6
<1>7. CASE Reconnect
  <2>1. ~fault /\ pc = "reconnect" /\ pc' = "idle" /\ result' = "Ok"
        /\ UNCHANGED <<open, inbox, reply>>
    BY <1>7 DEF Reconnect, driveVars
  <2> QED
    BY <2>1 DEF Clean
<1>8. CASE TPerStartSession
  <2>1. ~fault /\ pc = "poll" /\ Worked /\ cmd = "StartSession" /\ open = None
    BY <1>8, Polling DEF TPerStartSession, Worked, Opened
  <2>2. inbox' = None /\ UNCHANGED <<hostVars, denied>>
    BY <1>8 DEF TPerStartSession
  <2>3. \/ reply'.status = "SUCCESS" /\ open' = reply'.sess
        \/ /\ reply'.status \in {"NOT_AUTHORIZED", "AUTHORITY_LOCKED_OUT"}
           /\ open' = None
    BY <1>8, <2>1 DEF TPerStartSession, Answer
  <2>4. reply' # None
    BY <1>8, AnswerGiven
  <2>5. Finished'
    BY <2>1, <2>2, <2>3, <2>4 DEF Finished, Answered, hostVars
  <2> QED
    BY <2>1, <2>2, <2>5 DEF Clean, hostVars
<1>9. CASE TPerSet
  <2>1. ~fault /\ pc = "poll" /\ Worked /\ inbox.kind = cmd
        /\ cmd \in {"SetRange", "SetMbrDone"}
    BY <1>9, Polling DEF TPerSet
  <2>2. open = sess
    BY <2>1 DEF Worked, Opened
  <2>3. reply' # None
    BY <1>9, AnswerGiven
  <2>4. Finished'
    BY <1>9, <2>1, <2>2, <2>3, SetAnswer DEF Finished, Answered, hostVars
  <2>5. (outcome = "Failed" => denied') /\ (result = "Failed" => denied')
    BY <1>9, <2>1, SetAnswer DEF Clean
  <2> QED
    BY <1>9, <2>1, <2>4, <2>5, SetAnswer DEF Clean, hostVars
<1>10. CASE TPerEndSession
  <2>1. ~fault /\ pc = "poll" /\ cmd = "EndSession"
    BY <1>10, Polling DEF TPerEndSession
  <2>2. open' = None /\ inbox' = None /\ UNCHANGED <<hostVars, denied>>
    BY <1>10 DEF TPerEndSession
  <2>3. reply' # None
    BY <1>10, AnswerGiven
  <2>4. Finished'
    BY <2>1, <2>2, <2>3 DEF Finished, Answered, hostVars
  <2> QED
    BY <2>1, <2>2, <2>4 DEF Clean, hostVars
<1>11. CASE TPerDrop
  <2>1. ~fault /\ pc = "poll" /\ Worked /\ inbox.kind = cmd /\ cmd # "StartSession"
        /\ (open = None \/ inbox.to # open)
    BY <1>11, Polling DEF TPerDrop
  \* a Set would have been for the session that is open
  <2>2. cmd = "EndSession" /\ open = None
    BY <2>1, NoneAssumption DEF Worked, Opened, TypeOK, Kinds
  <2>3. inbox' = None /\ UNCHANGED <<hostVars, open, reply, denied>>
    BY <1>11 DEF TPerDrop
  <2>4. Dropped'
    BY <2>1, <2>2, <2>3 DEF Dropped, Worked, hostVars
  <2> QED
    BY <2>1, <2>3, <2>4 DEF Clean, hostVars
<1>12. CASE PowerCycle
  BY <1>12 DEF PowerCycle, Clean
<1>13. CASE UNCHANGED vars
  <2>1. UNCHANGED <<hostVars, open, inbox, reply, fault, denied>>
    BY <1>13 DEF vars, driveVars
  <2> QED
    BY <2>1 DEF hostVars, Clean, Worked, Finished, Dropped, Opened, Answered
<1> QED
  BY <1>1, <1>2, <1>3, <1>4, <1>5, <1>6, <1>7, <1>8, <1>9, <1>10, <1>11, <1>12,
     <1>13 DEF Next, HostStep, FaultStep, TPerStep

\* The inductive invariant of a call of unlock().
Inv == TypeOK /\ InStep /\ Ordered /\ Earnt /\ Clean

\* Inv holds in every state.
LEMMA Invariance == ASSUME AtomLen = 4 PROVE Spec => []Inv
<1>1. Init => InStep /\ Ordered /\ Earnt /\ Clean
  BY DEF Init, InStep, AnswersOwnCommand, Ordered, MbrHiddenOnlyWhenUnlocked, Earnt, Clean
<1>2. TypeOK /\ InStep /\ Clean /\ [Next]_vars => Clean'
  BY CleanInductive
<1> QED
  BY <1>1, <1>2, TypeCorrect, InStepInductive, OrderedInductive, EarntInductive, PTL
     DEF Spec, Inv

\* Ok from unlock() is earned by both Sets, and leaves no session open that the
\* firmware was asked to close.
THEOREM OkIsComplete == ASSUME AtomLen = 4 PROVE Spec => []SuccessIsComplete
<1>1. Inv => SuccessIsComplete
  BY DEF Inv, Ordered, MbrHiddenOnlyWhenUnlocked, Earnt, Clean, SuccessIsComplete
<1> QED
  BY <1>1, Invariance, PTL

\* The next call finds no session, no command and no answer of an earlier one.
THEOREM SessionsAreClosed == ASSUME AtomLen = 4 PROVE Spec => []NothingLeftBehind
<1>1. Inv => NothingLeftBehind
  BY DEF Inv, Clean, NothingLeftBehind
<1> QED
  BY <1>1, Invariance, PTL

\* The error that resets the machine has a cause outside of the protocol.
THEOREM FailuresHaveACause == ASSUME AtomLen = 4 PROVE Spec => []NoSpuriousFailure
<1>1. Inv => NoSpuriousFailure
  BY DEF Inv, Clean, NoSpuriousFailure
<1> QED
  BY <1>1, Invariance, PTL

\* Every Set arrives under the numbers of the session that is open.
THEOREM SetsAddressTheSession == ASSUME AtomLen = 4 PROVE Spec => []AddressesOpenSession
<1>1. Inv => AddressesOpenSession
  <2> SUFFICES ASSUME Inv, ~fault, inbox # None, inbox.kind \in {"SetRange", "SetMbrDone"}
               PROVE  open # None /\ inbox.to = open
    BY DEF AddressesOpenSession
  <2>1. Worked /\ inbox.kind = cmd /\ sess \in SessIds
    BY Polling DEF Inv, TypeOK
  <2> QED
    BY <2>1, NoneAssumption DEF Worked, Opened
<1> QED
  BY <1>1, Invariance, PTL

-------------------------------------------------------------------------------
(* The refinement: OpalSession implements OpalUnlock.  Every step of the   *)
(* protocol, faults and late drives included, is a step of the promise of  *)
(* unlock() or changes nothing the promise speaks of.                      *)
(*                                                                         *)
(* What the mapping needs beside the invariants of the protocol.           *)

Sets == {"SetRange", "SetMbrDone"}

\* An Enterprise drive is given no key and never gets as far as a Set; any other
\* drive is given the key with StartSession.
KeyIsForOpal ==
    /\ eprise => cmd \notin Sets /\ (inbox # None => inbox.kind \notin Sets)
    /\ inbox # None /\ inbox.kind = "StartSession" => (inbox.key = None <=> eprise)

\* A lock-out is reported only of a drive whose tries are used up.
LockOutIsTrue ==
    /\ reply # None /\ reply.status = "AUTHORITY_LOCKED_OUT" => tries = TryLimit
    /\ pc \in {"send", "poll"} /\ outcome = "LockedOut" => tries = TryLimit

\* A packet carries a key exactly if it is to start a session with an OPAL drive.
LEMMA PacketKey ==
  ASSUME TypeOK
  PROVE  Packet.kind = cmd /\ (cmd = "StartSession" => (Packet.key = None <=> eprise))
BY NoneAssumption DEF Packet, TypeOK

\* Keys go only to drives that are asked for one.
LEMMA KeyIsForOpalInductive == TypeOK /\ KeyIsForOpal /\ [Next]_vars => KeyIsForOpal'
<1> SUFFICES ASSUME TypeOK, KeyIsForOpal, [Next]_vars PROVE KeyIsForOpal'
  OBVIOUS
<1> USE DEF KeyIsForOpal, Sets
<1>1. ASSUME NEW k \in Keys \cup {"malformed"}, Unlock(k) PROVE KeyIsForOpal'
  BY <1>1 DEF Unlock, driveVars
<1>2. CASE SecureSend
  <2>1. inbox' = Packet /\ cmd' = cmd /\ eprise' = eprise
    BY <1>2 DEF SecureSend
  <2> QED
    BY <2>1, PacketKey
<1>3. ASSUME NEW e, CommandFailed(e), eprise' = eprise, inbox' = inbox \/ inbox' = Packet
      PROVE  KeyIsForOpal'
  <2>1. cmd' \in {cmd, "EndSession"}
    BY <1>3 DEF CommandFailed, SessionDropped
  <2> QED
    BY <1>3, <2>1, PacketKey
<1>4. CASE SecureSendFails
  BY <1>3, <1>4 DEF SecureSendFails
<1>5. CASE CommandRejected
  <2>1. PICK e : CommandFailed(e)
    BY <1>5 DEF CommandRejected
  <2> QED
    BY <1>3, <1>5, <2>1 DEF CommandRejected
<1>6. CASE SecureRecvFails
  BY <1>3, <1>6 DEF SecureRecvFails
<1>7. CASE CommandSucceeds
  <2>1. cmd \in Kinds \ {"EndSession"} /\ cmd' = NextCommand /\ UNCHANGED <<eprise, inbox>>
        /\ (cmd = "StartSession" => ~eprise)
    BY <1>7 DEF CommandSucceeds, TypeOK
  <2> QED
    BY <2>1, MbrIsNext DEF Kinds
<1>8. CASE StartUnimplemented \/ Reconnect \/ ReconnectFails
  <2>1. UNCHANGED <<eprise, cmd, inbox>>
    BY <1>8 DEF StartUnimplemented, Reconnect, ReconnectFails, driveVars
  <2> QED
    BY <2>1
<1>9. CASE TPerStep \/ TPerAbort
  <2>1. UNCHANGED <<eprise, cmd>> /\ inbox' \in {inbox, None}
    BY <1>9 DEF TPerStep, TPerStartSession, TPerSet, TPerEndSession, TPerDrop, TPerAbort, hostVars
  <2> QED
    BY <2>1
<1>10. CASE PowerCycle
  BY <1>10 DEF PowerCycle
<1>11. CASE UNCHANGED vars
  BY <1>11 DEF vars, hostVars, driveVars
<1> QED
  BY <1>1, <1>2, <1>4, <1>5, <1>6, <1>7, <1>8, <1>9, <1>10, <1>11
     DEF Next, HostStep, FaultStep

\* The drive's answer to a StartSession, and what it makes of the tries.
LEMMA StartAnswer ==
  ASSUME TypeOK, TPerStartSession
  PROVE  /\ tries = TryLimit => tries' = tries
         /\ reply'.status = "AUTHORITY_LOCKED_OUT" => tries' = TryLimit
<1>1. tries \in Nat /\ TryLimit \in Nat
  BY TryLimitAssumption DEF TypeOK
<1>2. tries = TryLimit => tries' = tries
  BY <1>1 DEF TPerStartSession
<1>3. reply'.status = "AUTHORITY_LOCKED_OUT" => tries = TryLimit
  BY DEF TPerStartSession, Answer
<1> QED
  BY <1>2, <1>3

\* A lock-out stays true while it is reported.
LEMMA LockOutIsTrueInductive == TypeOK /\ LockOutIsTrue /\ [Next]_vars => LockOutIsTrue'
<1> SUFFICES ASSUME TypeOK, LockOutIsTrue, [Next]_vars PROVE LockOutIsTrue'
  OBVIOUS
<1> USE DEF LockOutIsTrue
<1>1. ASSUME NEW k \in Keys \cup {"malformed"}, Unlock(k) PROVE LockOutIsTrue'
  BY <1>1 DEF Unlock, driveVars
<1>2. CASE SecureSend
  BY <1>2 DEF SecureSend
<1>3. ASSUME NEW e, CommandFailed(e), UNCHANGED tries, reply' \in {reply, None},
             pc \in {"send", "poll"}, e = "LockedOut" => tries = TryLimit
      PROVE  LockOutIsTrue'
  BY <1>3, AfterFailure
<1>4. CASE SecureSendFails \/ SecureRecvFails
  BY <1>3, <1>4 DEF SecureSendFails, SecureRecvFails
<1>5. CASE CommandRejected
  <2>1. PICK e \in Errors : /\ CommandFailed(e)
                            /\ \/ reply = None /\ e = "Failed"
                               \/ reply # None /\ e = Outcome(reply.status)
    BY <1>5, Rejected
  <2>2. e = "LockedOut" => tries = TryLimit
    BY <2>1 DEF Outcome
  <2> QED
    BY <1>3, <1>5, <2>1, <2>2 DEF CommandRejected, PollDone
<1>6. CASE CommandSucceeds
  BY <1>6 DEF CommandSucceeds, PollDone
<1>7. CASE StartUnimplemented \/ Reconnect \/ ReconnectFails
  BY <1>7 DEF StartUnimplemented, Reconnect, ReconnectFails, driveVars
<1>8. CASE TPerStartSession
  BY <1>8, StartAnswer DEF TPerStartSession, hostVars
<1>9. CASE TPerSet
  <2>1. UNCHANGED <<pc, outcome, tries>>
    BY <1>9 DEF TPerSet, hostVars
  <2>2. reply'.status # "AUTHORITY_LOCKED_OUT"
    <3>1. CASE reply' = Answer("SUCCESS")
      BY <3>1 DEF Answer
    <3>2. CASE reply' \in {Answer(s) : s \in SetErrors}
      BY <3>2, SetErrorsAssumption DEF Answer
    <3> QED
      BY <1>9, <3>1, <3>2 DEF TPerSet
  <2> QED
    BY <2>1, <2>2
<1>10. CASE TPerEndSession \/ TPerDrop \/ TPerAbort
  BY <1>10 DEF TPerEndSession, TPerDrop, TPerAbort, Answer, hostVars
<1>11. CASE PowerCycle
  BY <1>11 DEF PowerCycle
<1>12. CASE UNCHANGED vars
  BY <1>12 DEF vars, hostVars, driveVars
<1> QED
  BY <1>1, <1>2, <1>4, <1>5, <1>6, <1>7, <1>8, <1>9, <1>10, <1>11, <1>12
     DEF Next, HostStep, FaultStep, TPerStep

-------------------------------------------------------------------------------
(* The steps of the protocol as steps of the promise. *)

\* What a step has to be.
Kept == Promise!Next \/ UNCHANGED Promise!vars

\* An attempt more or less.
LEMMA AttemptsAreFew ==
  /\ InHand \in {0, 1} /\ \A m : Holds(m) \in {0, 1}
  /\ Holds(None) = 0
BY DEF InHand, Holds

\* A call begins with one attempt in hand, or is refused.
LEMMA UnlockKeeps ==
  ASSUME TypeOK, NEW k \in Keys \cup {"malformed"}, Unlock(k) PROVE Kept
<1>1. pc = "idle" /\ UNCHANGED <<eprise, locked, mbrDone, tries, open, inbox>> /\ InHand = 0
  BY DEF Unlock, driveVars, InHand
<1>2. CASE k \in Keys
  <2>1. pc' = "send" /\ result' = "None" /\ InHand' = 1
    BY <1>2 DEF Unlock, InHand
  <2>2. InHand + Holds(inbox) < 2 /\ InHand' + Holds(inbox') = InHand + Holds(inbox) + 1
    BY <1>1, <2>1, AttemptsAreFew
  <2>3. Promise!Call
    BY <1>1, <2>1, <2>2 DEF Promise!Call
  <2> QED
    BY <2>3 DEF Kept, Promise!Next
<1>3. CASE k \notin Keys
  <2>1. pc' = pc /\ cmd' = cmd /\ result' = "RawKeyInvalidLength"
    BY <1>3 DEF Unlock
  <2>2. Promise!Refuse
    BY <1>1, <2>1 DEF Promise!Refuse, InHand
  <2> QED
    BY <2>2 DEF Kept, Promise!Next
<1> QED
  BY <1>2, <1>3

\* What goes on in the host's half of a call, beside the attempts.
HostGoesOn == /\ pc # "idle" /\ pc' # "idle" /\ result' = result
              /\ UNCHANGED <<eprise, locked, mbrDone, tries, open>>

\* Such a step is nothing to the promise, or an attempt that is given up.
LEMMA GoingOnKeeps ==
  ASSUME HostGoesOn, InHand' + Holds(inbox') \in
                        {InHand + Holds(inbox), InHand + Holds(inbox) - 1}
  PROVE  Kept
<1>1. CASE InHand' + Holds(inbox') = InHand + Holds(inbox)
  BY <1>1 DEF HostGoesOn, Kept, Promise!vars
<1>2. CASE InHand' + Holds(inbox') = InHand + Holds(inbox) - 1
  <2>1. /\ InHand \in {0, 1} /\ InHand' \in {0, 1}
        /\ Holds(inbox) \in {0, 1} /\ Holds(inbox') \in {0, 1}
    BY DEF InHand, Holds
  <2>2. /\ (pc' # "idle") = (pc # "idle")
        /\ (open' # None /\ ~eprise') = (open # None /\ ~eprise)
        /\ UNCHANGED <<result, locked, mbrDone, tries>>
    BY DEF HostGoesOn
  <2>3. Promise!Forget
    BY <1>2, <2>1, <2>2 DEF Promise!Forget
  <2> QED
    BY <2>3 DEF Kept, Promise!Next
<1> QED
  BY <1>1, <1>2

\* A command that is sent takes the attempt with it.
LEMMA SendKeeps == ASSUME TypeOK, SecureSend PROVE Kept
<1>1. HostGoesOn /\ inbox = None /\ inbox' = Packet /\ InHand' = 0
  BY DEF SecureSend, HostGoesOn, InHand
<1>2. Holds(Packet) \in {InHand, 0}
  BY PacketIsOfCommand, AttemptsAreFew DEF Holds, InHand, SecureSend
<1>3. Holds(Packet) = InHand \/ (Holds(Packet) = 0 /\ InHand = 1)
  BY <1>2, AttemptsAreFew
<1> QED
  BY <1>1, <1>3, AttemptsAreFew, GoingOnKeeps

\* A command that fails ends the call, or goes on to close its session.
LEMMA FailureKeeps ==
  ASSUME TypeOK, LockOutIsTrue, NEW e, CommandFailed(e), pc \in {"send", "poll"},
         UNCHANGED <<eprise, locked, mbrDone, tries, open>>,
         inbox' = inbox \/ (pc = "send" /\ inbox = None /\ inbox' = Packet)
  PROVE  Kept
<1>1. InHand' = 0
  BY AfterFailure DEF InHand
<1>2. InHand' + Holds(inbox') \in {InHand + Holds(inbox), InHand + Holds(inbox) - 1}
  <2>1. CASE inbox' = inbox
    BY <1>1, <2>1, AttemptsAreFew
  <2>2. CASE pc = "send" /\ inbox = None /\ inbox' = Packet
    <3>1. Holds(Packet) = InHand \/ (Holds(Packet) = 0 /\ InHand = 1)
      BY <2>2, PacketIsOfCommand, AttemptsAreFew DEF Holds, InHand
    <3> QED
      BY <1>1, <2>2, <3>1, AttemptsAreFew
  <2> QED
    BY <2>1, <2>2
<1>3. CASE pc' # "idle"
  <2>1. HostGoesOn
    BY <1>3, AfterFailure DEF HostGoesOn
  <2> QED
    BY <1>2, <2>1, GoingOnKeeps
<1>4. CASE pc' = "idle"
  \* the call returns the error it has kept since the first failure
  <2>1. cmd = "EndSession" /\ result' = outcome /\ outcome # "Ok"
    BY <1>4, AfterFailure
  <2>2. InHand = 0 /\ Holds(inbox') = Holds(inbox)
    BY <2>1, PacketIsOfCommand, AttemptsAreFew DEF InHand, Holds
  <2>3. outcome \in Errors /\ (outcome = "LockedOut" => tries = TryLimit)
    BY <2>1 DEF TypeOK, LockOutIsTrue
  <2>4. Promise!Return
    BY <1>1, <1>4, <2>1, <2>2, <2>3 DEF Promise!Return
  <2> QED
    BY <2>4 DEF Kept, Promise!Next
<1> QED
  BY <1>3, <1>4

\* The drive tries a key that it holds, or drops it.
LEMMA StartSessionKeeps ==
  ASSUME TypeOK, KeyIsForOpal, TPerStartSession PROVE Kept
<1>1. /\ inbox # None /\ inbox.kind = "StartSession" /\ inbox' = None
      /\ UNCHANGED <<eprise, pc, cmd, result, locked, mbrDone>>
      /\ (inbox.key = None <=> eprise)
  BY DEF TPerStartSession, hostVars, KeyIsForOpal
<1>2. InHand' = InHand /\ Holds(inbox') = 0
  BY <1>1 DEF InHand, Holds
<1>3. CASE eprise
  <2>1. Holds(inbox) = 0 /\ tries' = tries /\ inbox.key = None
    BY <1>1, <1>3, NoneAssumption DEF Holds, TPerStartSession, Keys
  <2> QED
    BY <1>1, <1>2, <1>3, <2>1 DEF Kept, Promise!vars
<1>4. CASE ~eprise
  <2>1. Holds(inbox) = 1 /\ InHand \in {0, 1}
    BY <1>1, <1>4 DEF Holds, InHand
  <2>2. CASE tries' = tries /\ open' = open
    <3>1. Promise!Forget
      BY <1>1, <1>2, <2>1, <2>2 DEF Promise!Forget
    <3> QED
      BY <3>1 DEF Kept, Promise!Next
  <2>3. CASE open = None /\ tries < TryLimit /\ tries' = tries + 1 /\ open' = open
    <3>1. Promise!Reject
      BY <1>1, <1>2, <2>1, <2>3 DEF Promise!Reject
    <3> QED
      BY <3>1 DEF Kept, Promise!Next
  <2>4. CASE open = None /\ tries < TryLimit /\ tries' = 0 /\ open' # None
    <3>1. Promise!Accept
      BY <1>1, <1>2, <1>4, <2>1, <2>4 DEF Promise!Accept
    <3> QED
      BY <3>1 DEF Kept, Promise!Next
  <2>5. \A t \in TSNs : [tsn |-> t, hsn |-> HostHSN] # None
    BY KnownIds, IdsAssumption, NoneAssumption DEF SessIds
  <2>6. CASE open = None /\ tries < TryLimit /\ tries' = 0
             /\ \E t \in TSNs : open' = [tsn |-> t, hsn |-> HostHSN]
    BY <2>4, <2>5, <2>6
  <2> QED
    BY <1>1, <1>4, <2>2, <2>3, <2>6 DEF TPerStartSession
<1> QED
  BY <1>3, <1>4

\* The drive carries out a Set only for an OPAL host in its session.
LEMMA SetKeeps == ASSUME TypeOK, KeyIsForOpal, Ordered, TPerSet PROVE Kept
<1>1. /\ inbox # None /\ inbox.kind \in Sets /\ inbox' = None /\ open # None
      /\ UNCHANGED <<eprise, pc, cmd, result, tries, open>>
  BY DEF TPerSet, hostVars, Sets
<1>2. ~eprise /\ UNCHANGED InHand /\ Holds(inbox) = 0 /\ Holds(inbox') = 0
  BY <1>1 DEF KeyIsForOpal, InHand, Holds, Sets
<1>3. CASE UNCHANGED <<locked, mbrDone>>
  BY <1>1, <1>2, <1>3 DEF Kept, Promise!vars
<1>4. CASE inbox.kind = "SetRange" /\ locked' = FALSE /\ mbrDone' = mbrDone
  <2>1. Promise!OpenRange
    BY <1>1, <1>2, <1>4 DEF Promise!OpenRange
  <2> QED
    BY <2>1 DEF Kept, Promise!Next
<1>5. CASE inbox.kind = "SetMbrDone" /\ locked' = locked /\ mbrDone' = TRUE
  <2>1. ~locked
    BY <1>1, <1>5 DEF Ordered
  <2>2. Promise!HideMbr
    BY <1>1, <1>2, <1>5, <2>1 DEF Promise!HideMbr
  <2> QED
    BY <2>2 DEF Kept, Promise!Next
<1> QED
  BY <1>1, <1>3, <1>4, <1>5 DEF TPerSet, Sets

\* The drive leaves a session, or drops a command nobody has a session for.
LEMMA LeavingKeeps == ASSUME TPerEndSession \/ TPerDrop \/ TPerAbort PROVE Kept
<1>1. UNCHANGED <<eprise, pc, cmd, result, locked, mbrDone, tries>>
  BY DEF TPerEndSession, TPerDrop, TPerAbort, hostVars
<1>2. InHand' + Holds(inbox') = InHand + Holds(inbox)
  BY <1>1 DEF TPerEndSession, TPerDrop, TPerAbort, InHand, Holds
<1>3. CASE open' = open
  BY <1>1, <1>2, <1>3 DEF Kept, Promise!vars
<1>4. CASE open' = None
  <2>1. Promise!Distrust
    BY <1>1, <1>2, <1>4 DEF Promise!Distrust
  <2> QED
    BY <2>1 DEF Kept, Promise!Next
<1> QED
  BY <1>3, <1>4 DEF TPerEndSession, TPerDrop, TPerAbort

\* A call that has come to reconnecting returns.
LEMMA ReconnectKeeps ==
  ASSUME TypeOK, Ordered, Earnt, Reconnect \/ ReconnectFails PROVE Kept
<1>1. /\ pc = "reconnect" /\ pc' = "idle" /\ result' \in {"Ok", "Failed"}
      /\ UNCHANGED <<eprise, cmd, locked, mbrDone, tries, open, inbox>>
  BY DEF Reconnect, ReconnectFails, driveVars
<1>2. ~locked /\ mbrDone
  BY <1>1 DEF Earnt, Ordered, MbrHiddenOnlyWhenUnlocked
<1>3. UNCHANGED InHand /\ "Failed" \in Errors
  BY <1>1 DEF InHand, Errors
<1>4. Promise!Return
  BY <1>1, <1>2, <1>3 DEF Promise!Return
<1> QED
  BY <1>4 DEF Kept, Promise!Next

\* Every step keeps the promise.
LEMMA StepKeeps ==
  TypeOK /\ Ordered /\ Earnt /\ KeyIsForOpal /\ LockOutIsTrue /\ [Next]_vars => Kept
<1> SUFFICES ASSUME TypeOK, Ordered, Earnt, KeyIsForOpal, LockOutIsTrue, [Next]_vars
             PROVE  Kept
  OBVIOUS
<1>1. ASSUME NEW k \in Keys \cup {"malformed"}, Unlock(k) PROVE Kept
  BY <1>1, UnlockKeeps
<1>2. CASE SecureSend
  BY <1>2, SendKeeps
<1>3. CASE SecureSendFails \/ SecureRecvFails
  BY <1>3, FailureKeeps DEF SecureSendFails, SecureRecvFails
<1>4. CASE CommandRejected
  <2>1. PICK e : CommandFailed(e)
    BY <1>4 DEF CommandRejected
  <2> QED
    BY <1>4, <2>1, FailureKeeps DEF CommandRejected, PollDone
<1>5. CASE CommandSucceeds \/ StartUnimplemented
  <2>1. HostGoesOn /\ inbox' = inbox /\ InHand = 0
    BY <1>5 DEF CommandSucceeds, StartUnimplemented, PollDone, HostGoesOn, InHand
  <2>2. InHand' = 0
    BY <1>5, MbrIsNext DEF CommandSucceeds, StartUnimplemented, InHand, TypeOK
  <2> QED
    BY <2>1, <2>2, GoingOnKeeps, AttemptsAreFew
<1>6. CASE Reconnect \/ ReconnectFails
  BY <1>6, ReconnectKeeps
<1>7. CASE TPerStartSession
  BY <1>7, StartSessionKeeps
<1>8. CASE TPerSet
  BY <1>8, SetKeeps
<1>9. CASE TPerEndSession \/ TPerDrop \/ TPerAbort
  BY <1>9, LeavingKeeps
<1>10. CASE PowerCycle
  <2>1. Promise!PowerCycle
    BY <1>10 DEF PowerCycle, Promise!PowerCycle, InHand, Holds
  <2> QED
    BY <2>1 DEF Kept, Promise!Next
<1>11. CASE UNCHANGED vars
  BY <1>11 DEF vars, hostVars, driveVars, Kept, Promise!vars, InHand, Holds
<1> QED
  BY <1>1, <1>2, <1>3, <1>4, <1>5, <1>6, <1>7, <1>8, <1>9, <1>10, <1>11
     DEF Next, HostStep, FaultStep, TPerStep

\* unlock() keeps its promise, for every drive and whatever fails: one try of the
\* key per call, no effect without an accepted key, Ok only for an open drive, and
\* a lock-out reported only of a drive out of tries.
THEOREM PromiseKept == Spec => KeepsPromise
<1>1. Init => InStep /\ Ordered /\ Earnt /\ KeyIsForOpal /\ LockOutIsTrue
  BY DEF Init, InStep, AnswersOwnCommand, Ordered, MbrHiddenOnlyWhenUnlocked, Earnt,
         KeyIsForOpal, Sets, LockOutIsTrue
<1>2. Init => Promise!Init
  BY DEF Init, Promise!Init, InHand, Holds
<1>3. TypeOK /\ Ordered /\ Earnt /\ KeyIsForOpal /\ LockOutIsTrue /\ [Next]_vars
          => [Promise!Next]_(Promise!vars)
  BY StepKeeps DEF Kept
<1> QED
  BY <1>1, <1>2, <1>3, TypeCorrect, InStepInductive, OrderedInductive, EarntInductive,
     KeyIsForOpalInductive, LockOutIsTrueInductive, PTL DEF Spec, KeepsPromise, Promise!Spec

-------------------------------------------------------------------------------
(* The loop and the protocol. *)

\* Every step of the loop is one of the protocol, or a failed discovery.
LEMMA LoopStepIsProtocolStep ==
  ASSUME password \in Passwords, [LoopNext]_allVars
  PROVE  [Next]_vars \/ ProbeFails
<1>1. CASE Probe \/ UseBuffered \/ AskUser \/ ReadFile \/ ReadFileFails \/ Judge \/ UsedElsewhere
  BY <1>1 DEF Probe, UseBuffered, AskUser, ReadFile, Obtain, ReadFileFails, Judge, UsedElsewhere
<1>2. CASE TryUnlock
  BY <1>2 DEF TryUnlock, Next, Passwords
<1>3. CASE Protocol
  BY <1>3 DEF Protocol, Next
<1>4. CASE Reset
  BY <1>4 DEF Reset, Next
<1>5. CASE UNCHANGED allVars
  BY <1>5 DEF allVars
<1> QED
  BY <1>1, <1>2, <1>3, <1>4, <1>5 DEF LoopNext, LoopStep, ColdReset

\* What the host does, it does in a call, and only the end of one changes its result.
LEMMA HostSteps ==
  ASSUME HostStep \/ FaultStep
  PROVE  /\ pc \in {"send", "poll", "reconnect"}
         /\ result' = result \/ pc' = "idle"
         /\ UNCHANGED <<locked, mbrDone, tries, open>>
<1>1. CASE SecureSend \/ CommandSucceeds \/ StartUnimplemented
  BY <1>1 DEF SecureSend, CommandSucceeds, PollDone, StartUnimplemented
<1>2. CASE CommandRejected \/ SecureSendFails \/ SecureRecvFails
  <2>1. PICK e : CommandFailed(e)
    BY <1>2 DEF CommandRejected, SecureSendFails, SecureRecvFails
  <2>2. result' = result \/ pc' = "idle"
    BY <2>1, AfterFailure
  <2> QED
    BY <1>2, <2>2 DEF CommandRejected, PollDone, SecureSendFails, SecureRecvFails
<1>3. CASE Reconnect \/ ReconnectFails
  BY <1>3 DEF Reconnect, ReconnectFails, driveVars
<1> QED
  BY <1>1, <1>2, <1>3 DEF HostStep, FaultStep

\* What the drive does, it does without the host, and it locks itself only when
\* it loses its power.
LEMMA DriveSteps ==
  ASSUME TPerStep \/ TPerAbort
  PROVE  UNCHANGED <<hostVars, connected>> /\ locked' \in {locked, FALSE} /\ fault' \in {fault, TRUE}
<1>1. CASE TPerSet
  BY <1>1, SetAnswer DEF TPerSet
<1>2. CASE TPerStartSession \/ TPerEndSession \/ TPerDrop \/ TPerAbort
  BY <1>2 DEF TPerStartSession, TPerEndSession, TPerDrop, TPerAbort
<1> QED
  BY <1>1, <1>2 DEF TPerStep

-------------------------------------------------------------------------------
(* Type correctness. *)

\* A step of the loop keeps the types of its variables.
LEMMA LoopTypeInductive == LoopTypeOK /\ [LoopNext]_allVars => LoopTypeOK'
<1> SUFFICES ASSUME LoopTypeOK, [LoopNext]_allVars PROVE LoopTypeOK'
  OBVIOUS
<1> USE DEF LoopTypeOK
<1>1. TypeOK'
  <2>1. CASE [Next]_vars
    BY <2>1, TypeInductive
  <2>2. CASE ProbeFails
    BY <2>2 DEF ProbeFails, TypeOK, driveVars
  <2> QED
    BY <2>1, <2>2, LoopStepIsProtocolStep
<1>2. Earned \in 0..CreditBound
  BY DEF Earned, CreditBound
<1>3. CASE Probe
  BY <1>1, <1>2, <1>3 DEF Probe
<1>4. CASE ProbeFails
  BY <1>1, <1>4 DEF ProbeFails
<1>5. CASE UseBuffered
  BY <1>1, <1>5 DEF UseBuffered, BufferHit
<1>6. ASSUME NEW p \in Passwords, Obtain(p) PROVE LoopTypeOK'
  BY <1>1, <1>2, <1>6 DEF Obtain
<1>7. CASE AskUser \/ ReadFile
  BY <1>6, <1>7 DEF AskUser, ReadFile, Passwords
<1>8. CASE ReadFileFails
  BY <1>1, <1>8 DEF ReadFileFails
<1>9. CASE TryUnlock
  BY <1>1, <1>9 DEF TryUnlock
<1>10. CASE Judge
  BY <1>1, <1>10 DEF Judge, Verdict
<1>11. CASE UsedElsewhere
  <2>1. buffer' \in Passwords
    BY <1>11 DEF UsedElsewhere, Passwords
  <2> QED
    BY <1>1, <1>11, <2>1 DEF UsedElsewhere
<1>12. CASE Protocol
  <2>1. credit' \in 0..CreditBound
    BY <1>12 DEF Protocol, Waits, CreditBound
  <2> QED
    BY <1>1, <1>12, <2>1 DEF Protocol, Waits
<1>13. CASE Reset
  BY <1>1, <1>13 DEF Reset, Passwords, Keys, CreditBound
<1>14. CASE UNCHANGED allVars
  BY <1>1, <1>14 DEF allVars, loopVars
<1> QED
  BY <1>3, <1>4, <1>5, <1>7, <1>8, <1>9, <1>10, <1>11, <1>12, <1>13, <1>14
     DEF LoopNext, LoopStep, ColdReset

\* Every variable of the loop, of the host and of the drive keeps its type.
THEOREM LoopTypeCorrect == LoopSpec => []LoopTypeOK
<1>1. LoopInit => LoopTypeOK
  <2> SUFFICES ASSUME LoopInit PROVE LoopTypeOK
    OBVIOUS
  <2>1. TypeOK
    BY InitialValues, KnownIds DEF LoopInit, Init, TypeOK
  <2>2. "wrong" \in Passwords
    BY DEF Passwords, Keys
  <2> QED
    BY <2>1, <2>2 DEF LoopInit, LoopTypeOK, CreditBound
<1> QED
  BY <1>1, LoopTypeInductive, PTL DEF LoopSpec

-------------------------------------------------------------------------------
(* The protocol below the loop. *)

\* The parts of the protocol's invariant that need no assumption on the drive.
Protected == TypeOK /\ InStep /\ Ordered /\ Earnt

\* The loop does not disturb the protocol.
LEMMA ProtectedInductive ==
  LoopTypeOK /\ Protected /\ [LoopNext]_allVars => Protected'
<1> SUFFICES ASSUME LoopTypeOK, Protected, [LoopNext]_allVars PROVE Protected'
  OBVIOUS
<1> USE DEF Protected
<1>1. CASE [Next]_vars
  BY <1>1, TypeInductive, InStepInductive, OrderedInductive, EarntInductive
<1>2. CASE ProbeFails
  <2>1. TypeOK'
    BY LoopTypeInductive DEF LoopTypeOK
  <2>2. UNCHANGED <<cmd, outcome, result, connected, driveVars>> /\ fault'
        /\ pc = "idle" /\ pc' \in {"idle", "panic"}
    BY <1>2 DEF ProbeFails
  <2>3. InStep' /\ Ordered'
    BY <2>2 DEF InStep, AnswersOwnCommand, Ordered, MbrHiddenOnlyWhenUnlocked, driveVars
  <2>4. Earnt'
    BY <2>2 DEF Earnt, driveVars
  <2> QED
    BY <2>1, <2>3, <2>4
<1> QED
  BY <1>1, <1>2, LoopStepIsProtocolStep DEF LoopTypeOK

\* Where the loop stands while the protocol runs: unlock() runs in the judging
\* of its result only, and a lock-out is not left again.
Stage ==
    /\ at # "judge" => pc \in {"idle", "panic"}
    /\ result = "LockedOut" => pc = "idle" /\ at \in {"judge", "lockedOut"}
    /\ ret = "Ok" => pc = "idle" /\ at = "menu"

\* The protocol's own steps keep the loop where it is.
LEMMA StageOfProtocol ==
  ASSUME LoopTypeOK, Stage, Protocol
  PROVE  Stage'
<1>1. UNCHANGED <<at, ret>>
  BY DEF Protocol, Waits
<1>2. CASE HostStep \/ FaultStep
  BY <1>1, <1>2, HostSteps DEF Stage
<1>3. CASE TPerStep \/ TPerAbort
  BY <1>1, <1>3, DriveSteps DEF Stage, hostVars
<1> QED
  BY <1>2, <1>3 DEF Protocol

\* Every step leads from stage to stage.
LEMMA StageInductive == LoopTypeOK /\ Stage /\ [LoopNext]_allVars => Stage'
<1> SUFFICES ASSUME LoopTypeOK, Stage, [LoopNext]_allVars PROVE Stage'
  OBVIOUS
<1>1. CASE Probe
  BY <1>1 DEF Stage, Probe, vars, hostVars
<1>2. CASE ProbeFails
  BY <1>2 DEF Stage, ProbeFails
<1>3. CASE UseBuffered \/ AskUser \/ ReadFile
  BY <1>3 DEF Stage, UseBuffered, AskUser, ReadFile, Obtain, vars, hostVars
<1>4. CASE ReadFileFails
  BY <1>4 DEF Stage, ReadFileFails, vars, hostVars
<1>5. CASE TryUnlock
  <2>1. at = "unlock" /\ at' = "judge" /\ ret' = ret /\ result' # "LockedOut"
    BY <1>5 DEF Stage, TryUnlock, Unlock
  <2> QED
    BY <2>1 DEF Stage
<1>6. CASE Judge
  BY <1>6 DEF Stage, Judge, Verdict, vars, hostVars
<1>7. CASE UsedElsewhere
  BY <1>7 DEF Stage, UsedElsewhere, vars, hostVars
<1>8. CASE Protocol
  BY <1>8, StageOfProtocol
<1>9. CASE Reset
  BY <1>9 DEF Stage, Reset, PowerCycle
<1>10. CASE UNCHANGED allVars
  BY <1>10 DEF Stage, allVars, vars, hostVars, loopVars
<1> QED
  BY <1>1, <1>2, <1>3, <1>4, <1>5, <1>6, <1>7, <1>8, <1>9, <1>10
     DEF LoopNext, LoopStep, ColdReset

-------------------------------------------------------------------------------
(* What the caller of unlock_opal may rely on. *)

\* An Ok stays true until the machine is reset.
LEMMA ReadableInductive ==
  LoopTypeOK /\ Protected /\ Stage /\ OkMeansUnlocked /\ [LoopNext]_allVars => OkMeansUnlocked'
<1> SUFFICES ASSUME LoopTypeOK, Protected, Stage, OkMeansUnlocked, [LoopNext]_allVars
             PROVE  OkMeansUnlocked'
  OBVIOUS
<1>1. CASE Probe
  BY <1>1 DEF OkMeansUnlocked, Probe, vars, driveVars
<1>2. CASE ProbeFails
  BY <1>2 DEF OkMeansUnlocked, ProbeFails
<1>3. CASE UseBuffered \/ AskUser \/ ReadFile \/ ReadFileFails \/ UsedElsewhere
  BY <1>3 DEF OkMeansUnlocked, UseBuffered, AskUser, ReadFile, Obtain, ReadFileFails,
              UsedElsewhere, vars, driveVars
<1>4. CASE TryUnlock
  BY <1>4 DEF OkMeansUnlocked, TryUnlock, Unlock, driveVars
<1>5. CASE Judge
  \* Ok from unlock() has been earned
  <2>1. UNCHANGED locked /\ (ret' = "Ok" => result = "Ok" \/ ret = "Ok")
    BY <1>5 DEF Judge, Verdict, vars, driveVars
  <2>2. result = "Ok" => ~locked
    BY DEF Protected, Earnt, Ordered, MbrHiddenOnlyWhenUnlocked
  <2> QED
    BY <2>1, <2>2 DEF OkMeansUnlocked
<1>6. CASE Protocol
  <2>1. ret' = ret /\ locked' \in {locked, FALSE}
    BY <1>6, HostSteps, DriveSteps DEF Protocol, Waits
  <2> QED
    BY <2>1 DEF OkMeansUnlocked
<1>7. CASE Reset
  BY <1>7 DEF OkMeansUnlocked, Reset
<1>8. CASE UNCHANGED allVars
  BY <1>8 DEF OkMeansUnlocked, allVars, vars, driveVars, loopVars
<1> QED
  BY <1>1, <1>2, <1>3, <1>4, <1>5, <1>6, <1>7, <1>8 DEF LoopNext, LoopStep, ColdReset

\* The inductive invariant of the loop.
LoopInv == LoopTypeOK /\ Protected /\ Stage /\ OkMeansUnlocked

\* LoopInv holds in every state.
LEMMA LoopInvariance == LoopSpec => []LoopInv
<1>1. LoopInit => Protected /\ Stage /\ OkMeansUnlocked
  <2> SUFFICES ASSUME LoopInit PROVE Protected /\ Stage /\ OkMeansUnlocked
    OBVIOUS
  <2>1. TypeOK
    BY InitialValues, KnownIds DEF LoopInit, Init, TypeOK
  <2> QED
    BY <2>1 DEF LoopInit, Init, Protected, InStep, AnswersOwnCommand, Ordered,
                MbrHiddenOnlyWhenUnlocked, Earnt, Stage, OkMeansUnlocked
<1> QED
  BY <1>1, LoopTypeCorrect, ProtectedInductive, StageInductive, ReadableInductive, PTL
     DEF LoopSpec, LoopInv

\* unlock_opal returns Ok only for a drive that can be read, whatever went wrong
\* before, and it stays readable until the machine is reset.
THEOREM OkIsReadable == LoopSpec => []OkMeansUnlocked
<1>1. LoopInv => OkMeansUnlocked
  BY DEF LoopInv
<1> QED
  BY <1>1, LoopInvariance, PTL

\* After a lock-out nothing but a reset follows.
THEOREM LockOutIsTheEnd == LoopSpec => LockoutIsFinal
<1>1. LoopInv /\ [LoopNext]_allVars
          => [result = "LockedOut" /\ result' # "LockedOut" => Reset]_allVars
  <2> SUFFICES ASSUME LoopInv, LoopNext, result = "LockedOut", result' # "LockedOut"
               PROVE  Reset
    OBVIOUS
  <2>1. pc = "idle" /\ at \in {"judge", "lockedOut"}
    BY DEF LoopInv, Stage
  <2>2. ~Probe /\ ~ProbeFails /\ ~UsedElsewhere
    BY <2>1 DEF Probe, ProbeFails, UsedElsewhere
  <2>3. ~UseBuffered /\ ~AskUser /\ ~ReadFile /\ ~ReadFileFails /\ ~TryUnlock
    BY <2>1 DEF UseBuffered, AskUser, ReadFile, Obtain, ReadFileFails, TryUnlock
  <2>4. ~Judge
    BY DEF Judge, vars, hostVars
  <2>5. ~Protocol
    BY <2>1, HostSteps, DriveSteps DEF Protocol, hostVars
  <2> QED
    BY <2>2, <2>3, <2>4, <2>5 DEF LoopNext, LoopStep, ColdReset
<1> QED
  BY <1>1, LoopInvariance, PTL DEF LoopSpec, LockoutIsFinal

-------------------------------------------------------------------------------
(* Who pays for a try. *)

\* A StartSession the drive has not executed, and a password that the loop has got
\* hold of and not sent yet.
Waiting == IF inbox # None /\ inbox.kind = "StartSession" THEN 1 ELSE 0
Hand == IF \/ pc = "send" /\ cmd = "StartSession"
           \/ at = "unlock" \/ (at = "password" /\ BufferHit)
        THEN 1 ELSE 0

\* Both have been paid for.
Paid == credit >= Hand + Waiting

\* Sending the password moves it from the hand to the drive, and nothing in a
\* call takes another.
LEMMA HostSpendsHand ==
  ASSUME TypeOK, HostStep \/ FaultStep
  PROVE  /\ ~(pc' = "send" /\ cmd' = "StartSession")
         /\ \/ inbox' = inbox
            \/ inbox = None /\ inbox'.kind = cmd /\ pc = "send"
<1>1. CASE SecureSend
  BY <1>1, PacketIsOfCommand DEF SecureSend
<1>2. CASE SecureSendFails
  <2>1. CommandFailed("Failed")
    BY <1>2 DEF SecureSendFails
  <2>2. ~(pc' = "send" /\ cmd' = "StartSession")
    BY <2>1, AfterFailure
  <2>3. inbox' = inbox \/ (inbox = None /\ inbox' = Packet /\ pc = "send")
    BY <1>2 DEF SecureSendFails
  <2> QED
    BY <2>2, <2>3, PacketIsOfCommand
<1>3. CASE CommandRejected \/ SecureRecvFails
  <2>1. PICK e : CommandFailed(e)
    BY <1>3 DEF CommandRejected, SecureRecvFails
  <2> QED
    BY <1>3, <2>1, AfterFailure DEF CommandRejected, SecureRecvFails
<1>4. CASE CommandSucceeds
  BY <1>4, MbrIsNext DEF CommandSucceeds, TypeOK
<1>5. CASE StartUnimplemented \/ Reconnect \/ ReconnectFails
  BY <1>5 DEF StartUnimplemented, Reconnect, ReconnectFails, driveVars
<1> QED
  BY <1>1, <1>2, <1>3, <1>4, <1>5 DEF HostStep, FaultStep

\* The drive tries a key, or opens a session, only for a StartSession it has.
LEMMA DriveSpendsWaiting ==
  ASSUME TPerStep \/ TPerAbort, LoopTypeOK
  PROVE  \/ Waiting = 1 /\ inbox' = None
         \/ /\ inbox' \in {inbox, None} /\ tries' = tries
            /\ open' # None => open # None
<1>1. CASE TPerStartSession
  BY <1>1 DEF TPerStartSession, Waiting
<1>2. CASE TPerSet \/ TPerEndSession \/ TPerDrop \/ TPerAbort
  BY <1>2 DEF TPerSet, TPerEndSession, TPerDrop, TPerAbort
<1> QED
  BY <1>1, <1>2 DEF TPerStep

\* A password that is got hold of is paid for, next to the one that may still
\* wait in the drive.
LEMMA EarnedPays ==
  ASSUME LoopTypeOK, Paid
  PROVE  Earned >= 1 + Waiting /\ Earned \in Nat /\ credit \in Nat /\ Waiting \in {0, 1}
BY DEF LoopTypeOK, Earned, CreditBound, Paid, Hand, Waiting

\* The protocol spends what has been paid for.
LEMMA PaidByProtocol == ASSUME LoopTypeOK, Stage, Paid, Protocol PROVE Paid'
<1>1. UNCHANGED <<at, cached, buffer>> /\ credit \in Nat
  BY DEF Protocol, Waits, LoopTypeOK, CreditBound
<1>2. CASE HostStep \/ FaultStep
  <2>1. at = "judge"
    BY <1>2, HostSteps DEF Stage
  <2>2. credit' = credit
    BY <1>2, HostSteps DEF Protocol, Waits, LoopTypeOK, TypeOK
  <2>3. Hand' = 0
    BY <1>1, <1>2, <2>1, HostSpendsHand DEF Hand, LoopTypeOK
  <2>4. Waiting' <= Hand + Waiting
    BY <1>2, HostSpendsHand DEF Hand, Waiting, LoopTypeOK
  <2> QED
    BY <1>1, <2>2, <2>3, <2>4 DEF Paid, Hand, Waiting
<1>3. CASE TPerStep \/ TPerAbort
  <2>1. Hand' = Hand
    BY <1>1, <1>3, DriveSteps DEF Hand, BufferHit, hostVars
  <2>2. CASE Waiting = 1 /\ inbox' = None
    <3>1. Waiting' = 0 /\ credit' >= credit - 1
      BY <1>1, <2>2 DEF Waiting, Protocol, Waits
    <3> QED
      BY <1>1, <2>1, <2>2, <3>1 DEF Paid, Hand, Protocol, Waits
  <2>3. CASE inbox' \in {inbox, None} /\ tries' = tries /\ (open' # None => open # None)
    <3>1. credit' = credit /\ Waiting' <= Waiting
      BY <1>1, <2>3 DEF Waiting, Protocol, Waits, LoopTypeOK, TypeOK
    <3> QED
      BY <1>1, <2>1, <3>1 DEF Paid, Hand, Waiting
  <2> QED
    BY <1>3, <2>2, <2>3, DriveSpendsWaiting
<1> QED
  BY <1>2, <1>3 DEF Protocol

\* No step takes a password that is not paid for.
LEMMA PaidInductive == LoopTypeOK /\ Stage /\ Paid /\ [LoopNext]_allVars => Paid'
<1> SUFFICES ASSUME LoopTypeOK, Stage, Paid, [LoopNext]_allVars PROVE Paid'
  OBVIOUS
<1>0. credit \in Nat /\ Hand \in {0, 1} /\ Waiting \in {0, 1} /\ credit >= Hand + Waiting
  BY EarnedPays DEF Hand, Paid
<1>1. CASE Probe
  <2>1. UNCHANGED <<pc, cmd, inbox, buffer>> /\ pc = "idle" /\ at' # "unlock"
    BY <1>1 DEF Probe, vars, hostVars, driveVars
  <2>2. Waiting' = Waiting
    BY <2>1 DEF Waiting
  <2>3. CASE locked /\ buffer # None
    BY <1>0, <1>1, <2>2, <2>3, EarnedPays DEF Probe, Paid, Hand
  <2>4. CASE ~(locked /\ buffer # None)
    <3>1. Hand' = 0 /\ credit' = credit
      BY <1>1, <2>1, <2>4 DEF Probe, Hand, BufferHit
    <3> QED
      BY <1>0, <2>2, <3>1 DEF Paid
  <2> QED
    BY <2>3, <2>4
<1>2. CASE ProbeFails
  BY <1>0, <1>2 DEF ProbeFails, Paid, Hand, Waiting, driveVars
<1>3. CASE UseBuffered
  <2>1. Hand = 1 /\ UNCHANGED <<credit, inbox>>
    BY <1>3 DEF UseBuffered, Hand, vars, driveVars
  <2> QED
    BY <1>0, <2>1 DEF Paid, Hand, Waiting
<1>4. CASE AskUser \/ ReadFile
  <2>1. credit' = Earned /\ inbox' = inbox
    BY <1>4 DEF AskUser, ReadFile, Obtain, vars, driveVars
  <2> QED
    BY <2>1, EarnedPays DEF Paid, Hand, Waiting
<1>5. CASE ReadFileFails \/ Judge \/ UsedElsewhere
  <2>1. UNCHANGED <<credit, inbox, pc, cmd>> /\ at' # "unlock" /\ ~(at' = "password" /\ BufferHit')
    BY <1>5 DEF ReadFileFails, Judge, Verdict, UsedElsewhere, BufferHit, vars, hostVars, driveVars
  <2>2. Waiting' = Waiting /\ Hand' <= Hand
    BY <2>1 DEF Waiting, Hand
  <2> QED
    BY <1>0, <2>1, <2>2 DEF Paid, Hand
<1>6. CASE TryUnlock
  <2>1. Hand = 1 /\ UNCHANGED <<credit, inbox>>
    BY <1>6 DEF TryUnlock, Unlock, Hand, driveVars
  <2> QED
    BY <1>0, <2>1 DEF Paid, Hand, Waiting
<1>7. CASE Protocol
  BY <1>7, PaidByProtocol
<1>8. CASE Reset
  BY <1>8 DEF Reset, PowerCycle, Paid, Hand, Waiting
<1>9. CASE UNCHANGED allVars
  BY <1>9 DEF allVars, vars, hostVars, driveVars, loopVars, Paid, Hand, Waiting, BufferHit
<1> QED
  BY <1>1, <1>2, <1>3, <1>4, <1>5, <1>6, <1>7, <1>8, <1>9 DEF LoopNext, LoopStep, ColdReset

\* The drive counts no try that was not paid for with a password: the loop never
\* presents a rejected one again, and no StartSession is repeated.
THEOREM TriesArePaid == LoopSpec => EveryTryIsPaid
<1>1. LoopInit => Paid
  BY DEF LoopInit, Init, Paid, Hand, Waiting
<1>2. LoopInv /\ Paid /\ [LoopNext]_allVars => Paid'
  BY PaidInductive DEF LoopInv
<1>3. LoopInv /\ Paid /\ [LoopNext]_allVars => [tries' > tries => credit > 0]_allVars
  <2> SUFFICES ASSUME LoopInv, Paid, LoopNext, tries' > tries PROVE credit > 0
    OBVIOUS
  <2>1. credit \in Nat /\ tries \in Nat /\ LoopTypeOK
    BY DEF LoopInv, LoopTypeOK, TypeOK, CreditBound
  <2>2. tries' # tries /\ tries' # 0
    BY <2>1, LoopTypeInductive DEF LoopTypeOK, TypeOK
  <2>3. Protocol
    BY <2>2 DEF LoopNext, LoopStep, ColdReset, Reset, PowerCycle, Probe, ProbeFails, UseBuffered,
                AskUser, ReadFile, Obtain, ReadFileFails, TryUnlock, Unlock, Judge,
                UsedElsewhere, vars, driveVars
  <2>4. Waiting = 1
    BY <2>1, <2>2, <2>3, HostSteps, DriveSpendsWaiting DEF Protocol
  <2> QED
    BY <2>1, <2>4 DEF Paid, Hand
<1> QED
  BY <1>1, <1>2, <1>3, LoopInvariance, PTL DEF LoopSpec, EveryTryIsPaid

-------------------------------------------------------------------------------
(* What Ok means when nothing failed. *)

\* Without a fault and a refusal the range is open only together with the MBR, or
\* in a call that is about to hide it, and the controller stays connected.
Whole ==
    /\ ~fault => connected
    /\ ~fault /\ ~denied /\ ~locked =>
          mbrDone \/ (pc \in {"send", "poll"} /\ cmd \in {"SetRange", "SetMbrDone"})

\* A Set that fails was refused.
LEMMA WholeAfterRejection ==
  ASSUME TypeOK, InStep, Clean, Whole, CommandRejected PROVE Whole'
<1>1. UNCHANGED <<fault, denied, connected, locked, mbrDone>> /\ pc = "poll" /\ ~Working
  BY DEF CommandRejected, PollDone
<1>2. ASSUME ~fault, cmd \in {"SetRange", "SetMbrDone"} PROVE denied
  <2>1. Finished
    BY <1>1, <1>2 DEF Clean, Worked, Dropped, Working
  <2> QED
    BY <1>2, <2>1 DEF Finished, Answered, CommandRejected
<1> QED
  BY <1>1, <1>2 DEF Whole

\* Whole is kept by the protocol.
LEMMA WholeInductive ==
  TypeOK /\ InStep /\ Earnt /\ Clean /\ Whole /\ [Next]_vars => Whole'
<1> SUFFICES ASSUME TypeOK, InStep, Earnt, Clean, Whole, [Next]_vars PROVE Whole'
  OBVIOUS
<1>1. ASSUME NEW k \in Keys \cup {"malformed"}, Unlock(k) PROVE Whole'
  BY <1>1 DEF Whole, Unlock, driveVars
<1>2. CASE SecureSend
  BY <1>2 DEF Whole, SecureSend
<1>3. CASE SecureSendFails \/ SecureRecvFails \/ ReconnectFails \/ TPerAbort
  BY <1>3 DEF Whole, SecureSendFails, SecureRecvFails, ReconnectFails, TPerAbort
<1>4. CASE CommandSucceeds
  <2>1. cmd \in Kinds \ {"EndSession"} /\ reply # None /\ reply.kind = cmd
        /\ reply.status = "SUCCESS" /\ pc' = "send" /\ cmd' = NextCommand
        /\ UNCHANGED <<fault, denied, connected, locked, mbrDone>>
    BY <1>4 DEF CommandSucceeds, PollDone, InStep, AnswersOwnCommand, TypeOK
  <2>2. cmd = "SetMbrDone" => mbrDone
    BY <2>1 DEF Earnt
  <2> QED
    BY <2>1, <2>2, MbrIsNext DEF Whole, Kinds
<1>5. CASE StartUnimplemented \/ Reconnect
  BY <1>5 DEF Whole, StartUnimplemented, Reconnect, driveVars
<1>6. CASE CommandRejected
  BY <1>6, WholeAfterRejection
<1>7. CASE TPerSet
  <2>1. ~fault => pc = "poll" /\ inbox.kind = cmd
    BY <1>7, Polling DEF TPerSet
  <2>2. UNCHANGED <<pc, cmd, connected, fault>> /\ inbox.kind \in {"SetRange", "SetMbrDone"}
    BY <1>7 DEF TPerSet, hostVars
  <2> QED
    BY <1>7, <2>1, <2>2, SetAnswer DEF Whole
<1>8. CASE TPerStartSession \/ TPerEndSession \/ TPerDrop
  BY <1>8 DEF Whole, TPerStartSession, TPerEndSession, TPerDrop, hostVars
<1>9. CASE PowerCycle
  BY <1>9 DEF Whole, PowerCycle
<1>10. CASE UNCHANGED vars
  BY <1>10 DEF Whole, vars, hostVars, driveVars
<1> QED
  BY <1>1, <1>2, <1>3, <1>4, <1>5, <1>6, <1>7, <1>8, <1>9, <1>10
     DEF Next, HostStep, FaultStep, TPerStep

\* If no firmware call failed and the drive refused nothing, an Ok from
\* unlock_opal means that everything has been done: also one that comes from a
\* drive that was found open.
THEOREM OkIsWhole == ASSUME AtomLen = 4 PROVE LoopSpec => []OkMeansComplete
<1>1. LoopInit => Clean /\ Whole
  BY DEF LoopInit, Init, Clean, Whole
<1>2. LoopInv /\ Clean /\ Whole /\ [LoopNext]_allVars => Clean' /\ Whole'
  <2> SUFFICES ASSUME LoopInv, Clean, Whole, [LoopNext]_allVars PROVE Clean' /\ Whole'
    OBVIOUS
  <2> USE DEF LoopInv, LoopTypeOK, Protected
  <2>1. CASE [Next]_vars
    BY <2>1, CleanInductive, WholeInductive
  <2>2. CASE ProbeFails
    BY <2>2 DEF ProbeFails, Clean, Whole
  <2> QED
    BY <2>1, <2>2, LoopStepIsProtocolStep
<1>3. LoopInv /\ Clean /\ Whole => OkMeansComplete
  BY DEF LoopInv, Stage, OkMeansUnlocked, Clean, Whole, OkMeansComplete
<1> QED
  BY <1>1, <1>2, <1>3, LoopInvariance, PTL DEF LoopSpec
===============================================================================
