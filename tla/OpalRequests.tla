----------------------------- MODULE OpalRequests -----------------------------
(***************************************************************************)
(* The requests of an OpalSession as token streams: sequences of tokens,   *)
(* each the sequence of its bytes.  The second half is the drive's side of *)
(* it, what the TCG core specification makes of such a stream.             *)
(***************************************************************************)
EXTENDS OpalTokens, SequencesExt

CONSTANT Refused   \* what a drive makes of a stream that is none of its language

ASSUME RefusedAssumption == Refused \notin Seq(Seq(Byte))

Token(byte)  == <<<<byte>>>>
BS8(bytes)   == <<<<168>> \o bytes>>
Uint(v)      == <<WriteU64(v)>>
Bytes(s)     == <<WriteBytes(s)>>

STARTNAME    == 242
ENDNAME      == 243
CALL         == 248
ENDOFSESSION == 250
VALUES       == 1
READLOCKED   == 7
WRITELOCKED  == 8
MBRDONE      == 2
OPAL_TRUE    == 1
OPAL_FALSE   == 0

OPAL_SMUID               == <<0, 0, 0, 0, 0, 0, 0, 255>>
OPAL_LOCKINGSP           == <<0, 0, 2, 5, 0, 0, 0, 2>>
OPAL_ADMIN1              == <<0, 0, 0, 9, 0, 1, 0, 1>>
OPAL_LOCKINGRANGE_GLOBAL == <<0, 0, 8, 2, 0, 0, 0, 1>>
OPAL_MBRCONTROL          == <<0, 0, 8, 3, 0, 0, 0, 1>>
StartSessionMethod       == <<0, 0, 0, 0, 0, 0, 255, 2>>
SetMethod                == <<0, 0, 0, 6, 0, 0, 0, 23>>

\* Mutant: a name is not closed.
TokenNameOpen(k, v) == Token(STARTNAME) \o k \o v

TokenName(k, v)       == Token(STARTNAME) \o k \o v \o Token(ENDNAME)
BareTokenList(tokens) == FlattenSeq(tokens)
TokenList(tokens)     == Token(STARTLIST) \o BareTokenList(tokens) \o Token(ENDLIST)

New(invoking_uid, method) == Token(CALL) \o BS8(invoking_uid) \o BS8(method)

\* OpalSession::start, for an Enterprise drive without the challenge.
StartSession(challenge, eprise) ==
    New(OPAL_SMUID, StartSessionMethod) \o
    TokenList(<<
        Uint(<<0, 0, 0, 0, 0, 0, 0, 105>>), BS8(OPAL_LOCKINGSP), Token(1),
        IF eprise THEN <<>>
        ELSE BareTokenList(<<TokenName(Token(0), Bytes(challenge)),
                             TokenName(Token(3), BS8(OPAL_ADMIN1))>>),
        IF eprise
        THEN TokenName(Bytes(<<83, 101, 115, 115, 105, 111, 110, 84, 105, 109, 101, 111, 117, 116>>),
                       Uint(<<0, 0, 0, 0, 0, 0, 234, 96>>))
        ELSE <<>> >>)

LockingStates == {"ReadWrite", "ReadOnly", "Locked", "ArchiveLocked", "ArchiveUnlocked"}

LockingRange(n) ==
    IF n # 0 THEN [OPAL_LOCKINGRANGE_GLOBAL EXCEPT ![6] = 3, ![8] = n]
    ELSE OPAL_LOCKINGRANGE_GLOBAL

ReadLock(state)  == IF state = "Locked" THEN OPAL_TRUE ELSE OPAL_FALSE
WriteLock(state) == IF state \in {"Locked", "ReadOnly"} THEN OPAL_TRUE ELSE OPAL_FALSE

\* set_locking_range; the archive states have nothing to say of writing.
SetLockingRange(range, state) ==
    New(LockingRange(range), SetMethod) \o
    TokenList(<<TokenName(Token(VALUES),
        TokenList(<<
            TokenName(Token(READLOCKED), Token(ReadLock(state))),
            IF state \in {"ArchiveLocked", "ArchiveUnlocked"} THEN <<>>
            ELSE TokenName(Token(WRITELOCKED), Token(WriteLock(state))) >>))>>)

\* set_mbr_done
SetMbrDone(done) ==
    New(OPAL_MBRCONTROL, SetMethod) \o
    TokenList(<<TokenName(Token(VALUES),
        TokenList(<<TokenName(Token(MBRDONE),
                              Token(IF done THEN OPAL_TRUE ELSE OPAL_FALSE))>>))>>)

EndOfSession == Token(ENDOFSESSION)

\* The request a record stands for.
RequestTokens(r) ==
    CASE r.fn = "start"             -> StartSession(r.challenge, r.eprise)
      [] r.fn = "set_locking_range" -> SetLockingRange(r.range, r.state)
      [] r.fn = "set_mbr_done"      -> SetMbrDone(r.done)
      [] r.fn = "drop"              -> EndOfSession

-------------------------------------------------------------------------------
(* The drive. *)

\* The named values of a stream  < name value > < name value > ..
AreNamed(ts) ==
    /\ Len(ts) % 4 = 0
    /\ \A i \in 1..(Len(ts) \div 4) : ts[(4 * i) - 3] = <<STARTNAME>> /\ ts[4 * i] = <<ENDNAME>>
NamedValues(ts) == {<<ts[(4 * i) - 2], ts[(4 * i) - 1]>> : i \in 1..(Len(ts) \div 4)}

\* The stream between an opening and a closing part, or Refused.
Between(ts, opening, closing) ==
    IF IsPrefix(opening, ts) /\ IsSuffix(closing, ts)
           /\ Len(opening) + Len(closing) <= Len(ts)
    THEN SubSeq(ts, Len(opening) + 1, Len(ts) - Len(closing))
    ELSE Refused

\* The parameters of a method call, and the columns a Set writes.
Split(bytes) == [i \in 1..Len(bytes) |-> <<bytes[i]>>]
Parameters(ts, object, method) ==
    Between(ts, Token(CALL) \o <<<<168>> \o object>> \o <<<<168>> \o method>> \o Token(STARTLIST),
            Token(ENDLIST) \o Split(StatusTrailer))
Columns(ts, object) ==
    LET parameters == Parameters(ts, object, SetMethod)
        row == IF parameters = Refused THEN Refused
               ELSE Between(parameters, Split(<<STARTNAME, VALUES, STARTLIST>>),
                                        Split(<<ENDLIST, ENDNAME>>))
    IN  IF row = Refused \/ ~AreNamed(row) THEN Refused ELSE row

\* What a request asks of the drive, in the terms of its tables.  A column a Set
\* does not name stays as it is.
Bool(v) == IF v THEN <<1>> ELSE <<0>>
MayRead(state)  == state \in {"ReadWrite", "ReadOnly", "ArchiveUnlocked"}
MayWrite(state) == state = "ReadWrite"
MeansRequest(ts, r) ==
    CASE r.fn = "start" ->
            LET parameters == Parameters(ts, OPAL_SMUID, StartSessionMethod)
                optional   == SubSeq(parameters, 4, Len(parameters))
            IN  /\ parameters # Refused /\ AreNamed(optional)
                /\ SubSeq(parameters, 2, 3) = <<<<168>> \o OPAL_LOCKINGSP, <<1>>>>
                /\ ~r.eprise => NamedValues(optional) = {<<<<0>>, WriteBytes(r.challenge)>>,
                                                         <<<<3>>, <<168>> \o OPAL_ADMIN1>>}
      [] r.fn = "set_locking_range" ->
            LET columns == Columns(ts, IF r.range = 0 THEN OPAL_LOCKINGRANGE_GLOBAL
                                       ELSE <<0, 0, 8, 2, 0, 3, 0, r.range>>)
            IN  /\ columns # Refused
                /\ <<<<READLOCKED>>, Bool(~MayRead(r.state))>> \in NamedValues(columns)
                /\ r.state # "ArchiveUnlocked" =>
                       <<<<WRITELOCKED>>, Bool(~MayWrite(r.state))>> \in NamedValues(columns)
      [] r.fn = "set_mbr_done" ->
            LET columns == Columns(ts, OPAL_MBRCONTROL)
            IN  columns # Refused /\ NamedValues(columns) = {<<<<MBRDONE>>, Bool(r.done)>>}
      [] r.fn = "drop" -> ts = <<<<ENDOFSESSION>>>>
===============================================================================
