------------------------------ MODULE OpalTokens ------------------------------
(***************************************************************************)
(* The byte codec of the opal crate: how integers and token lists become   *)
(* the payload of an OpalCommand, and how the payload of a response is cut *)
(* into tokens and read back.                                              *)
(*                                                                         *)
(* A byte is 0..255.  A u32 is the sequence of its 4 bytes and a u64 the   *)
(* sequence of its 8, most significant first, so that the width of every   *)
(* value is explicit.  Panic stands for a panic! or an index out of range. *)
(***************************************************************************)
EXTENDS Naturals, Sequences

CONSTANTS Panic,           \* the outcome of a function that panics
          NoMethodStatus   \* OpalError::NoMethodStatus

Byte == 0..255
U32  == [1..4 -> Byte]
U64  == [1..8 -> Byte]

ASSUME PanicAssumption == Panic \notin Seq(Byte) \cup Seq(Seq(Byte))

IsZero(v, m, n) == \A i \in m..n : v[i] = 0

\* The atoms and control tokens the framing needs.
STARTLIST == 240
ENDLIST   == 241
ENDOFDATA == 249
EMPTYATOM == 255

-------------------------------------------------------------------------------
(* Writing. *)

\* Token::write for u64: a tiny atom below 64, else the shortest of the four
\* short-atom widths.
WriteU64(v) ==
    CASE IsZero(v, 1, 7) /\ v[8] < 64 -> <<v[8]>>
      [] IsZero(v, 1, 7) /\ v[8] >= 64 -> <<129, v[8]>>
      [] IsZero(v, 1, 6) /\ v[7] # 0 -> <<130, v[7], v[8]>>
      [] IsZero(v, 1, 4) /\ (v[5] # 0 \/ v[6] # 0) -> <<132>> \o SubSeq(v, 5, 8)
      [] ~IsZero(v, 1, 4) -> <<136>> \o v

\* Token::write for a byte string: the null atom, a short one or a medium one.
WriteBytes(s) ==
    CASE Len(s) = 0 -> <<161, 0>>
      [] Len(s) \in 1..15 -> <<160 + Len(s)>> \o s
      [] Len(s) \in 16..2047 -> <<208 + (Len(s) \div 256), Len(s) % 256>> \o s
      [] OTHER -> Panic

\* The trailer build_eod appends to a method call.
StatusTrailer == <<ENDOFDATA, STARTLIST, 0, 0, 0, ENDLIST>>

\* Mutant: the outer lengths are taken before the padding.
BuildEodPaddingForgotten(payload, eod) ==
    LET data   == payload \o (IF eod THEN StatusTrailer ELSE <<>>)
        padded == data \o [i \in 1..((4 - (Len(data) % 4)) % 4) |-> 0]
    IN  [subpkt |-> Len(data), pkt |-> Len(data) + 12, cp |-> Len(data) + 36,
         payload |-> padded, eod |-> eod]

\* build_eod: the payload is padded to a multiple of four bytes, and the
\* subpacket's length is taken before the padding, the packet's (plus its
\* 12-byte subpacket header) and the ComPacket's (plus 24 more) after it.
BuildEod(payload, eod) ==
    LET data   == payload \o (IF eod THEN StatusTrailer ELSE <<>>)
        pad    == (4 - (Len(data) % 4)) % 4
        padded == data \o [i \in 1..pad |-> 0]
    IN  [subpkt  |-> Len(data),
         pkt     |-> Len(padded) + 12,
         cp      |-> Len(padded) + 36,
         payload |-> padded,
         eod     |-> eod]

-------------------------------------------------------------------------------
(* Reading. *)

\* The length of the token that starts with the bytes b1 b2 b3 b4.
TokenLen(b1, b2, b3, b4) ==
    CASE b1 < 128 -> 1                              \* tiny atom
      [] b1 \in 128..191 -> (b1 % 16) + 1             \* short atom
      [] b1 \in 192..223 -> ((b1 % 8) * 256) + b2 + 2 \* medium atom
      [] b1 \in 224..239 -> (b2 * 65536) + (b3 * 256) + b4 + 4 \* long atom
      [] b1 >= 240 -> 1                             \* token

\* OpalResponse::parse: cut the first subpktLen bytes of the receive buffer's
\* payload into tokens, leaving out the empty atoms.  A token may reach past
\* subpktLen, never past the buffer.
Parse(subpktLen, bytes) ==
    LET at(i) == IF i \in 1..Len(bytes) THEN bytes[i] ELSE 0
        size(pos) == TokenLen(at(pos), at(pos + 1), at(pos + 2), at(pos + 3))
        readable(pos) == pos + size(pos) - 1 <= Len(bytes)
        tokensFrom[pos \in Nat] ==
            IF pos > subpktLen THEN <<>>
            ELSE IF ~readable(pos) THEN Panic
            ELSE LET token == SubSeq(bytes, pos, pos + size(pos) - 1)
                     rest  == tokensFrom[pos + size(pos)]
                 IN  IF rest = Panic THEN Panic
                     ELSE IF token = <<EMPTYATOM>> THEN rest ELSE <<token>> \o rest
    IN  tokensFrom[1]

\* OpalResponse::is
Is(tokens, index, token) ==
    index \in 1..Len(tokens) /\ tokens[index] = <<token>>

\* OR-ing the header of an atom of eight bytes into a byte: 0x88, or 0xA8 if it is
\* one of a byte string.
OrHeader(header, b) ==
    LET missing(bit) == IF (b \div bit) % 2 = 0 THEN bit ELSE 0
    IN  128 + (b % 128) + missing(8) + (IF header = 168 THEN missing(32) ELSE 0)

\* OpalResponse::get_uint on one token, in a release build.  The loop ORs in
\* every byte of a short atom, its header byte included; the ninth one, the
\* header of an 8-byte integer, is shifted by 64, that is, not at all.
GetUint(token) ==
    CASE token[1] < 64 -> [i \in 1..8 |-> IF i = 8 THEN token[1] ELSE 0]
      [] token[1] \in 128..143 \cup 160..175 /\ Len(token) <= 8 ->
            [i \in 1..8 |-> IF i > 8 - Len(token)
                            THEN token[i - (8 - Len(token))] ELSE 0]
      [] token[1] \in 128..143 \cup 160..175 /\ Len(token) = 9 ->
            [i \in 1..8 |-> IF i = 8 THEN OrHeader(token[1], token[9]) ELSE token[i + 1]]
      [] OTHER -> Panic

\* Mutant: no truncation.
AsU32Whole(v) == v

\* `as u32`, and `as u8` inside a StatusCode: the low bytes.
AsU32(v) == [i \in 1..4 |-> v[i + 4]]
AsU8(v)  == v[8]

\* The end of send_raw_command: the status code of a response to a method
\* call, which ends with  EndOfData [ code _ _ ].
MethodStatus(tokens, eod) ==
    LET n == Len(tokens)
    IN  IF /\ eod
           /\ n >= 6
           /\ Is(tokens, n - 5, ENDOFDATA)
           /\ Is(tokens, n - 4, STARTLIST)
           /\ Is(tokens, n, ENDLIST)
        THEN LET code == GetUint(tokens[n - 3])
             IN  IF code = Panic THEN Panic ELSE AsU8(code)
        ELSE NoMethodStatus

-------------------------------------------------------------------------------
(* Session ids.  The drive answers StartSession with both session numbers  *)
(* as unsigned short atoms; how many bytes it gives them is its choice.    *)

\* The 32-bit id as a short atom of len data bytes.
IdAtom(id, len) == <<128 + len>> \o SubSeq(id, 5 - len, 4)

\* What start stores in hsn and tsn when it reads that atom.
DecodedId(id, len) == AsU32(GetUint(IdAtom(id, len)))
===============================================================================
