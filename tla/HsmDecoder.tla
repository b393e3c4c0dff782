---------------------------- MODULE HsmDecoder ----------------------------
(***************************************************************************)
(* What -D makes of the bytes of a response: hsm_parse_response and the    *)
(* split of a generated key in hsm_format_analysis (hsm_decoder.c).  The   *)
(* operators return fields; their text is left out.                        *)
(***************************************************************************)
EXTENDS Framing

CONSTANTS
    HeaderCap,      \* what header[64] and trailer[64] hold: 63
    Delimiter,      \* 0x19, the end of the message
    SuccessCode,    \* the error code 00
    KeyResponse,    \* the response code A1
    BlockScheme,    \* the first byte of a key block: S
    KeySchemes,     \* the first bytes of other keys: U T X Z Y M
    KeySizes,       \* their lengths: 17, 33, 49
    Atoi(_)         \* atoi on four characters

ASSUME DecoderAssumption ==
    /\ HeaderCap \in Nat
    /\ Delimiter \in Byte /\ BlockScheme \in Byte
    /\ KeySchemes \subseteq Byte
    /\ KeySizes \subseteq Nat \ {0}

(* The first two bytes are a length if they say so exactly, or roughly: a  *)
(* frame that something follows, or that lacks no more than two bytes.     *)
HasTcpLen_ExactOnly(buf) == Len(buf) >= 2 /\ ExpectedTotal(buf) = Len(buf)

HasTcpLen(buf) ==
    /\ Len(buf) >= 2
    /\ \/ ExpectedTotal(buf) = Len(buf)
       \/ Len(buf) > 4 /\ ExpectedTotal(buf) <= Len(buf) + 2

HeaderStart(buf) == IF HasTcpLen(buf) THEN 2 ELSE 0

(* The message header is left out of a response too short for it.          *)
HeaderEnd(buf, headerLen) ==
    IF Len(buf) - HeaderStart(buf) >= headerLen
    THEN HeaderStart(buf) + headerLen ELSE HeaderStart(buf)

Parses(buf, headerLen) == Len(buf) >= HeaderEnd(buf, headerLen) + 4

(* Where the payload stops: before the first delimiter, or at the end.     *)
DelimiterAt(rest) ==
    CHOOSE i \in 1 .. (Len(rest) + 1) :
        /\ i = Len(rest) + 1 \/ rest[i] = Delimiter
        /\ \A j \in 1 .. (i - 1) : rest[j] # Delimiter

Parse(buf, headerLen) ==
    LET at   == HeaderEnd(buf, headerLen)
        rest == SubSeq(buf, at + 5, Len(buf))
        stop == DelimiterAt(rest)
    IN  [header       |-> Clip(SubSeq(buf, HeaderStart(buf) + 1, at), HeaderCap),
         code         |-> SubSeq(buf, at + 1, at + 2),
         error        |-> SubSeq(buf, at + 3, at + 4),
         payload      |-> SubSeq(rest, 1, stop - 1),
         hasDelimiter |-> stop <= Len(rest),
         trailer      |-> Clip(SubSeq(rest, stop + 1, Len(rest)), HeaderCap)]

(* A key block carries its length in decimal; a wrong one means all of it. *)
(* (size_t) makes a negative length larger than any payload.               *)
BlockLength_Trusting(payload) == IF Len(payload) >= 5 THEN Atoi(SubSeq(payload, 2, 5)) ELSE 0

BlockLength(payload) ==
    LET n == IF Len(payload) >= 5 THEN Atoi(SubSeq(payload, 2, 5)) ELSE 0
    IN  IF n \in 1 .. Len(payload) THEN n ELSE Len(payload)

(* Any other key has the largest of the known lengths the payload reaches. *)
KeyLength(payload) ==
    CHOOSE n \in KeySizes \cup {Len(payload)} :
        /\ n <= Len(payload)
        /\ \A m \in KeySizes : m <= Len(payload) => m <= n /\ n \in KeySizes

(* Where a generated key ends and its check value begins.                  *)
KeyEnd(payload) ==
    IF payload[1] = BlockScheme THEN BlockLength(payload)
    ELSE IF payload[1] \in KeySchemes THEN KeyLength(payload) ELSE Len(payload)

IsKey(r) == r.payload # <<>> /\ r.error = SuccessCode /\ r.code = KeyResponse

(* What is shown of the payload of a response: one field, or a key and its *)
(* check value.                                                            *)
Shown(r) ==
    IF r.payload = <<>> \/ r.error # SuccessCode THEN <<>>
    ELSE IF IsKey(r) /\ KeyEnd(r.payload) < Len(r.payload)
    THEN << SubSeq(r.payload, 1, KeyEnd(r.payload)),
            SubSeq(r.payload, KeyEnd(r.payload) + 1, Len(r.payload)) >>
    ELSE <<r.payload>>
=============================================================================
