----------------------------- MODULE FrameRead -----------------------------
(***************************************************************************)
(* socket_read_framed of socket_client.c: a caller that reads one message  *)
(* after the other, each behind a two-byte length, from a peer that frames *)
(* as -L does (Framing).  The connection cuts what the peer writes into    *)
(* arbitrary pieces, and the peer may stall, close or reset anywhere, in   *)
(* the middle of a length too.                                             *)
(***************************************************************************)
EXTENDS Framing

CONSTANTS
    Messages,       \* payloads the peer may send
    MaxMessages,    \* bound: how many it sends
    Capacities      \* values of max_len

ASSUME FrameReadAssumption ==
    /\ Messages \subseteq Seq(Byte)
    /\ MaxMessages \in Nat
    /\ Capacities \subseteq Nat

TIMEOUT == -4
IO == -5

VARIABLES
    pc,             \* in the caller, or in one of the two socket_read_exact
    maxLen,         \* max_len
    buf,            \* the bytes of this call so far
    rc,             \* what the last call returned
    frames,         \* history: what the calls returned in buf
    start,          \* history: bytes taken from the stream before this call
    messages,       \* history: what the peer has put into the stream
    stream, bounds, \* the bytes of it, and where each message ends in them
    arrived,        \* how many of them have arrived
    fin, reset

readerVars == <<pc, maxLen, buf, rc, frames, start>>
peerVars   == <<messages, stream, bounds, arrived, fin, reset>>
vars == <<readerVars, peerVars>>

Init ==
    /\ pc = "call" /\ maxLen \in Capacities
    /\ buf = <<>> /\ rc = 0 /\ frames = <<>> /\ start = 0
    /\ messages = <<>> /\ stream = <<>> /\ bounds = <<>>
    /\ arrived = 0 /\ fin = FALSE /\ reset = FALSE

Taken == start + Len(buf)

Nothing == Taken = arrived

-----------------------------------------------------------------------------
(* socket_read_framed                                                      *)

Fail(code) ==
    /\ pc' = "done" /\ rc' = code
    /\ UNCHANGED <<maxLen, frames, start, peerVars>>

Call ==
    /\ pc = "call" /\ maxLen >= 2
    /\ pc' = "header"
    /\ UNCHANGED <<maxLen, buf, rc, frames, start, peerVars>>

NoRoom == pc = "call" /\ maxLen < 2 /\ Fail(IO) /\ UNCHANGED buf

Reading == pc \in {"header", "payload"}

(* How far the socket_read_exact at work has to fill the buffer.           *)
Want_OneMore == IF pc = "header" THEN 2 ELSE ExpectedTotal(buf) + 1
Want == IF pc = "header" THEN 2 ELSE ExpectedTotal(buf)

(* recv: any part of what has arrived, at most what is missing.            *)
Filled(n) == buf \o SubSeq(stream, Taken + 1, Taken + n)

Receivable == 1 .. Least(Want - Len(buf), arrived - Taken)

ReadPart(n) ==
    /\ n \in Receivable /\ Len(buf) + n < Want
    /\ buf' = Filled(n)
    /\ UNCHANGED <<pc, maxLen, rc, frames, start, peerVars>>

(* The first two bytes: a length, which has to fit, and may be zero.       *)
ReadHeader_LengthOnly(n) ==
    /\ pc = "header" /\ n \in Receivable /\ Len(buf) + n = Want
    /\ buf' = Filled(n)
    /\ 2 < ExpectedTotal(buf') /\ ExpectedTotal(buf') - 2 <= maxLen
    /\ pc' = "payload"
    /\ UNCHANGED <<maxLen, rc, frames, start, peerVars>>

ReadHeader(n) ==
    /\ pc = "header" /\ n \in Receivable /\ Len(buf) + n = Want
    /\ buf' = Filled(n)
    /\ 2 < ExpectedTotal(buf') /\ ExpectedTotal(buf') <= maxLen
    /\ pc' = "payload"
    /\ UNCHANGED <<maxLen, rc, frames, start, peerVars>>

Oversized(n) ==
    /\ pc = "header" /\ n \in Receivable /\ Len(buf) + n = Want
    /\ buf' = Filled(n)
    /\ ExpectedTotal(buf') > maxLen
    /\ Fail(IO)

Return(frame) ==
    /\ frames' = Append(frames, frame) /\ rc' = Len(frame)
    /\ start' = start + Len(frame) /\ buf' = <<>>
    /\ pc' = "call"
    /\ UNCHANGED <<maxLen, peerVars>>

ReadEmpty(n) ==
    /\ pc = "header" /\ n \in Receivable /\ Len(buf) + n = Want
    /\ ExpectedTotal(Filled(n)) = 2 /\ maxLen >= 2
    /\ Return(Filled(n))

ReadPayload(n) ==
    /\ pc = "payload" /\ n \in Receivable /\ Len(buf) + n = Want
    /\ Return(Filled(n))

(* recv returns 0: nothing yet is a clean end, anything less than the      *)
(* whole is an error.                                                      *)
StreamEnds_AlwaysClean ==
    /\ Reading /\ Nothing /\ fin /\ ~reset
    /\ Fail(0)
    /\ UNCHANGED buf

StreamEnds ==
    /\ Reading /\ Nothing /\ fin /\ ~reset
    /\ Fail(IF buf = <<>> THEN 0 ELSE IO)
    /\ UNCHANGED buf

ReadFails == Reading /\ Nothing /\ reset /\ Fail(IO) /\ UNCHANGED buf

(* The timeout is one of each read, so that a peer which keeps sending     *)
(* single bytes is waited for longer.                                      *)
TimesOut_Never ==
    /\ Reading /\ Nothing /\ ~fin /\ ~reset /\ pc = "header"
    /\ Fail(TIMEOUT) /\ UNCHANGED buf

TimesOut ==
    Reading /\ Nothing /\ ~fin /\ ~reset /\ Fail(TIMEOUT) /\ UNCHANGED buf

(* A signal while poll waits: EINTR is not EAGAIN.                         *)
Interrupted ==
    Reading /\ Nothing /\ ~fin /\ ~reset /\ Fail(IO) /\ UNCHANGED buf

Receive ==
    /\ Reading
    /\ \E n \in Receivable :
        \/ ReadPart(n) \/ ReadHeader(n) \/ Oversized(n) \/ ReadEmpty(n) \/ ReadPayload(n)

ReaderStep ==
    \/ Call \/ NoRoom \/ Receive
    \/ StreamEnds \/ ReadFails \/ TimesOut

-----------------------------------------------------------------------------
(* The peer and the network                                                *)

Open == ~fin /\ ~reset

PeerWrites(p) ==
    /\ Open /\ Len(messages) < MaxMessages
    /\ messages' = Append(messages, p)
    /\ stream' = stream \o Frame(p, TRUE, FALSE)
    /\ bounds' = Append(bounds, Len(stream'))
    /\ UNCHANGED <<arrived, fin, reset, readerVars>>

Arrives ==
    /\ Open /\ arrived < Len(stream)
    /\ arrived' = arrived + 1
    /\ UNCHANGED <<messages, stream, bounds, fin, reset, readerVars>>

Closes ==
    Open /\ fin' = TRUE /\ UNCHANGED <<messages, stream, bounds, arrived, reset, readerVars>>

Resets ==
    ~reset /\ reset' = TRUE /\ UNCHANGED <<messages, stream, bounds, arrived, fin, readerVars>>

PeerStep == (\E p \in Messages : PeerWrites(p)) \/ Arrives \/ Closes \/ Resets

Stopped == pc = "done" /\ UNCHANGED vars

Next == ReaderStep \/ Interrupted \/ PeerStep \/ Stopped

Spec == Init /\ [][Next]_vars

(* Each read waits for one timeout at most; nothing is asked of the peer.  *)
FairSpec == Spec /\ WF_vars(ReaderStep)

-----------------------------------------------------------------------------
TypeOK ==
    /\ pc \in {"call", "header", "payload", "done"}
    /\ maxLen \in Capacities
    /\ buf \in Seq(Byte) /\ frames \in Seq(Seq(Byte))
    /\ rc \in Nat \cup {TIMEOUT, IO}
    /\ start \in Nat
    /\ messages \in Seq(Messages) /\ stream \in Seq(Byte) /\ bounds \in Seq(Nat)
    /\ arrived \in 0 .. Len(stream)
    /\ fin \in BOOLEAN /\ reset \in BOOLEAN

(* However the stream is cut, the calls return the messages of the peer,   *)
(* whole, unmixed and in order (socket_client.c, 216 to 248).              *)
FramesAreMessages ==
    /\ Len(frames) <= Len(messages)
    /\ \A i \in 1 .. Len(frames) : frames[i] = Frame(messages[i], TRUE, FALSE)

(* Nothing is written behind the caller's buffer, whatever length the peer *)
(* announces: the check of total_frame_len comes before the second read.   *)
BufferFits ==
    /\ Len(buf) <= maxLen
    /\ \A i \in 1 .. Len(frames) : Len(frames[i]) <= maxLen

(* 0, a clean end, is returned only between two messages: a message of     *)
(* which a part has arrived is never taken for the end of the stream.      *)
CleanEndIsBetween ==
    pc = "done" /\ rc = 0 =>
        /\ fin /\ buf = <<>> /\ Nothing
        /\ arrived \in {0} \cup {bounds[i] : i \in 1 .. Len(bounds)}

(* Every call comes back, with a peer that stalls anywhere.                *)
CallReturns == Reading ~> ~Reading
=============================================================================
