------------------------------ MODULE Framing ------------------------------
(***************************************************************************)
(* How one-shot mode turns the payload of -x or -a into the bytes it puts  *)
(* on the wire (mode_oneshot.c), and how -D reads the same length header   *)
(* back.  The source counts in bytes of 256 values, with a 65536-byte      *)
(* buffer and a 16-bit header; here the radix is a parameter, so that a    *)
(* radix of 2 puts every boundary (65534, 65535, 65536) within TLC's reach.*)
(***************************************************************************)
EXTENDS Integers, Sequences

CONSTANTS
    Radix,      \* number of values of a byte: 256 in the source
    Slack,      \* what the buffers hold beyond ONESHOT_BUF_SIZE: 512 there
    TermChar    \* the byte of -T

ASSUME FramingAssumption ==
    /\ Radix \in Nat /\ Radix >= 2
    /\ Slack \in Nat /\ Slack >= 1
    /\ TermChar \in 0 .. (Radix - 1)

Byte == 0 .. (Radix - 1)

(* ONESHOT_BUF_SIZE, the largest length two bytes can carry, and the size  *)
(* of send_buf and hsm_accum_buf.                                          *)
BufSize == Radix * Radix
LenMax  == BufSize - 1
SendCap == BufSize + Slack

Least(a, b) == IF a <= b THEN a ELSE b

Clip(s, n) == SubSeq(s, 1, Least(n, Len(s)))

(* -T: when -L is given too, room is made under the header's limit first;  *)
(* the byte is appended only where the buffer has space left.              *)
WithTerm_NoRoomForHeader(p, addLen) ==
    IF Len(p) < BufSize THEN Append(p, TermChar) ELSE p

WithTerm(p, addLen) ==
    LET kept == IF addLen THEN Clip(p, LenMax - 1) ELSE p
    IN  IF Len(kept) < BufSize THEN Append(kept, TermChar) ELSE kept

Header(n) == << (n \div Radix) % Radix, n % Radix >>

(* -L: a two-byte big-endian length in front of what it counts.            *)
WithLength(p) == LET kept == Clip(p, LenMax) IN Header(Len(kept)) \o kept

Frame(payload, addLen, hasTerm) ==
    LET p == Clip(payload, BufSize)
        t == IF hasTerm THEN WithTerm(p, addLen) ELSE p
    IN  IF addLen THEN WithLength(t) ELSE t

(* What -D expects of a response that starts with the bytes s.             *)
ExpectedTotal(s) == 2 + (s[1] * Radix + s[2])

FrameComplete(s) == Len(s) >= 2 /\ Len(s) >= ExpectedTotal(s)

(* What may be missing from a frame: nothing but a tail of the payload,    *)
(* and that only at the limits of the buffer and of the header.            *)
LosesOnlyATail(payload, framed, addLen, hasTerm) ==
    \E k \in Least(Len(payload), LenMax - 1) .. Len(payload) :
        LET start == IF addLen THEN 3 ELSE 1
            stop  == start + k - 1
        IN  /\ stop <= Len(framed)
            /\ SubSeq(framed, start, stop) = SubSeq(payload, 1, k)
            /\ SubSeq(framed, stop + 1, Len(framed)) \in {<<>>, <<TermChar>>}
            /\ addLen /\ hasTerm => framed[Len(framed)] = TermChar
=============================================================================
