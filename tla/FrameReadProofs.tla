-------------------------- MODULE FrameReadProofs --------------------------
(* What socket_read_framed returns and the decoder makes of it, for every  *)
(* set of messages, size of the caller's buffer, and way the connection    *)
(* cuts the stream.                                                        *)
EXTENDS FrameDecode, FramingProofs, WellFoundedInduction

Sent(i) == Frame(messages[i], TRUE, FALSE)

(* Where the first k messages end in the stream.                           *)
EndOf(k) == IF k = 0 THEN 0 ELSE bounds[k]

(* The stream is the frames of the messages, one behind the other.         *)
StreamInv ==
    /\ Len(bounds) = Len(messages)
    /\ Len(stream) = EndOf(Len(messages))
    /\ \A i \in 1 .. Len(messages) :
          /\ bounds[i] = EndOf(i - 1) + Len(Sent(i)) /\ bounds[i] <= Len(stream)
          /\ \A j \in 1 .. Len(Sent(i)) : stream[EndOf(i - 1) + j] = Sent(i)[j]

(* The reader stands at the end of the messages it has returned, and holds *)
(* a part of what follows there.                                           *)
PlaceInv ==
    /\ start = EndOf(Len(frames)) /\ Taken <= arrived
    /\ \A j \in 1 .. Len(buf) : buf[j] = stream[start + j]

(* How much that is, at each step.                                         *)
SizeInv ==
    /\ pc = "call" => buf = <<>>
    /\ pc = "header" => Len(buf) < 2 /\ 2 <= maxLen
    /\ pc = "payload" => 2 <= Len(buf) /\ Len(buf) < ExpectedTotal(buf)
                         /\ ExpectedTotal(buf) <= maxLen

ReadInv ==
    TypeOK /\ StreamInv /\ PlaceInv /\ SizeInv
           /\ FramesAreMessages /\ BufferFits /\ CleanEndIsBetween

-----------------------------------------------------------------------------
LEMMA LeastElement ==
    ASSUME NEW T, T \subseteq Nat, T # {}
    PROVE  \E x \in T : \A y \in T : x <= y
<1> DEFINE R == {ss \in Nat \X Nat : ss[1] < ss[2]}
<1>1. IsWellFoundedOn(R, Nat)  BY NatLessThanWellFounded DEF OpToRel
<1>2. PICK x \in T : \A y \in T : ~ (<<y, x>> \in R)
    BY <1>1, WFMin, Zenon
<1>3. \A y \in T : <<y, x>> \in Nat \X Nat /\ ~ (y < x)  BY <1>2
<1>4. ASSUME NEW y \in T PROVE x <= y
  <2>1. x \in Nat /\ y \in Nat /\ ~ (y < x)  BY <1>3
  <2> QED BY <2>1
<1> QED BY <1>4

LEMMA TotalType ==
    ASSUME NEW b \in Seq(Byte), Len(b) >= 2
    PROVE  ExpectedTotal(b) \in Nat /\ ExpectedTotal(b) >= 2
<1>1. b[1] \in Nat /\ b[2] \in Nat /\ Radix \in Nat  BY FramingAssumption DEF Byte
<1>2. b[1] * Radix \in Nat  BY <1>1
<1> QED BY <1>1, <1>2 DEF ExpectedTotal

LEMMA SentProps ==
    ASSUME TypeOK, NEW i \in 1 .. Len(messages)
    PROVE  /\ Sent(i) \in Seq(Byte) /\ Len(Sent(i)) \in Nat /\ Len(Sent(i)) >= 2
           /\ ExpectedTotal(Sent(i)) = Len(Sent(i))
<1>1. messages[i] \in Seq(Byte)  BY FrameReadAssumption DEF TypeOK
<1>2. TRUE \in BOOLEAN /\ FALSE \in BOOLEAN  OBVIOUS
<1>3. /\ Sent(i) \in Seq(Byte) /\ Len(Sent(i)) >= 2
      /\ ExpectedTotal(Sent(i)) = Len(Sent(i))
    BY <1>1, <1>2, FrameProps DEF Sent
<1> QED BY <1>3

(* What recv adds to the buffer stands next in the stream.                 *)
LEMMA FilledProps ==
    ASSUME TypeOK, StreamInv, PlaceInv, SizeInv, Reading, NEW n \in Receivable
    PROVE  /\ n \in Nat /\ n >= 1 /\ Want \in Nat /\ Len(buf) + n <= Want
           /\ Filled(n) \in Seq(Byte) /\ Len(Filled(n)) = Len(buf) + n
           /\ start + (Len(buf) + n) <= arrived
           /\ \A j \in 1 .. Len(buf) + n : Filled(n)[j] = stream[start + j]
<1>1. /\ buf \in Seq(Byte) /\ stream \in Seq(Byte) /\ start \in Nat
      /\ arrived \in Nat /\ arrived <= Len(stream) /\ Len(buf) \in Nat /\ Taken = start + Len(buf)
    BY DEF TypeOK, Taken
<1>2. Want \in Nat  BY <1>1, TotalType DEF Want, Reading, SizeInv
<1>3. /\ n \in Nat /\ n >= 1 /\ n <= Want - Len(buf) /\ n <= arrived - Taken
    BY <1>1, <1>2 DEF Receivable, Least
<1> DEFINE part == SubSeq(stream, Taken + 1, Taken + n)
<1>4. /\ part \in Seq(Byte) /\ Len(part) = n
      /\ \A i \in 1 .. n : part[i] = stream[Taken + 1 + i - 1]
  <2>1. /\ Taken + 1 \in 1 .. Len(stream) + 1
        /\ Taken + n \in (Taken + 1) - 1 .. Len(stream)
        /\ (Taken + n) - (Taken + 1) + 1 = n
      BY <1>1, <1>3
  <2>2. stream \in Seq(Byte)  BY <1>1
  <2> QED BY <2>1, <2>2, PartProps
<1>5. part \in Seq(Byte) /\ buf \in Seq(Byte)  BY <1>1, <1>4
<1>6. Filled(n) = buf \o part  BY DEF Filled
<1> HIDE DEF part
<1>7. /\ buf \o part \in Seq(Byte) /\ Len(buf \o part) = Len(buf) + Len(part)
      /\ \A i \in 1 .. Len(buf) : (buf \o part)[i] = buf[i]
      /\ \A i \in 1 .. Len(part) : (buf \o part)[Len(buf) + i] = part[i]
    BY <1>5, ConcatProps
<1>8. \A j \in 1 .. Len(buf) + n : Filled(n)[j] = stream[start + j]
  <2> TAKE j \in 1 .. Len(buf) + n
  <2>1. CASE j <= Len(buf)
    <3>1. j \in 1 .. Len(buf)  BY <2>1, <1>1, <1>3
    <3> QED BY <3>1, <1>6, <1>7 DEF PlaceInv
  <2>2. CASE j > Len(buf)
    <3> DEFINE i == j - Len(buf)
    <3>1. i \in 1 .. Len(part) /\ i \in 1 .. n /\ Len(buf) + i = j
          /\ Taken + 1 + i - 1 = start + j
        BY <2>2, <1>1, <1>3, <1>4
    <3> HIDE DEF i
    <3> QED BY <3>1, <1>4, <1>6, <1>7
  <2> QED BY <2>1, <2>2, <1>1, <1>3
<1> QED BY <1>1, <1>2, <1>3, <1>4, <1>6, <1>7, <1>8

(* Two bytes behind the messages returned are the length of the next one,  *)
(* and as many bytes as it says are that message.                          *)
LEMMA NextFrame ==
    ASSUME TypeOK, StreamInv, PlaceInv, FramesAreMessages,
           NEW b \in Seq(Byte), Len(b) >= 2, start + Len(b) <= arrived,
           \A j \in 1 .. Len(b) : b[j] = stream[start + j]
    PROVE  LET next == Len(frames) + 1
           IN  /\ next \in 1 .. Len(messages)
               /\ ExpectedTotal(b) = Len(Sent(next))
               /\ bounds[next] = start + Len(Sent(next))
               /\ Len(b) = ExpectedTotal(b) => b = Sent(next)
<1> DEFINE next == Len(frames) + 1
<1>1. /\ start \in Nat /\ arrived \in Nat /\ arrived <= Len(stream)
      /\ Len(frames) \in Nat /\ Len(messages) \in Nat /\ Len(b) \in Nat
      /\ Len(frames) <= Len(messages)
    BY DEF TypeOK, FramesAreMessages
<1>2. next \in 1 .. Len(messages)
  <2> SUFFICES ASSUME Len(frames) = Len(messages) PROVE FALSE  BY <1>1
  <2>1. Len(stream) = start  BY DEF StreamInv, PlaceInv
  <2> QED BY <1>1, <2>1
<1>3. EndOf(next - 1) = start  BY <1>1 DEF PlaceInv
<1> DEFINE f == Sent(next)
<1>4. /\ f \in Seq(Byte) /\ Len(f) \in Nat /\ Len(f) >= 2 /\ ExpectedTotal(f) = Len(f)
    BY <1>2, SentProps
<1>5. /\ bounds[next] = start + Len(f)
      /\ \A j \in 1 .. Len(f) : stream[start + j] = f[j]
    BY <1>2, <1>3 DEF StreamInv
<1> HIDE DEF f, next
<1>6. b[1] = f[1] /\ b[2] = f[2]
  <2>1. 1 \in 1 .. Len(b) /\ 2 \in 1 .. Len(b) /\ 1 \in 1 .. Len(f) /\ 2 \in 1 .. Len(f)
      BY <1>1, <1>4
  <2> QED BY <2>1, <1>5
<1>7. ExpectedTotal(b) = Len(f)  BY <1>4, <1>6 DEF ExpectedTotal
<1>8. ASSUME Len(b) = ExpectedTotal(b) PROVE b = f
  <2>1. Len(b) = Len(f)  BY <1>7, <1>8
  <2>2. \A j \in 1 .. Len(b) : b[j] = f[j]  BY <2>1, <1>5
  <2>3. f \in Seq(Byte)  BY <1>4
  <2> QED BY <2>1, <2>2, <2>3, SeqEqual
<1> QED BY <1>2, <1>5, <1>7, <1>8 DEF f, next

-----------------------------------------------------------------------------
LEMMA InitRead == Init => ReadInv
<1> SUFFICES ASSUME Init PROVE ReadInv  OBVIOUS
<1>1. /\ <<>> \in Seq(Byte) /\ <<>> \in Seq(Seq(Byte)) /\ <<>> \in Seq(Messages)
      /\ <<>> \in Seq(Nat) /\ Len(<<>>) = 0
    OBVIOUS
<1>2. maxLen \in Nat  BY FrameReadAssumption DEF Init
<1>3. TypeOK
  <2>1. arrived \in 0 .. Len(stream)
    <3>1. Len(stream) = 0  BY <1>1 DEF Init
    <3> QED BY <3>1 DEF Init
  <2> QED BY <1>1, <2>1 DEF Init, TypeOK
<1>4. StreamInv  BY <1>1 DEF Init, StreamInv, EndOf
<1>5. PlaceInv  BY <1>1 DEF Init, PlaceInv, EndOf, Taken
<1>6. SizeInv /\ FramesAreMessages /\ BufferFits /\ CleanEndIsBetween
    BY <1>1, <1>2 DEF Init, SizeInv, FramesAreMessages, BufferFits, CleanEndIsBetween
<1> QED BY <1>3, <1>4, <1>5, <1>6 DEF ReadInv

(* Steps of the reader leave the stream as it is.                          *)
LEMMA StreamStays ==
    ASSUME StreamInv, UNCHANGED <<messages, stream, bounds>>
    PROVE  StreamInv'
BY DEF StreamInv, EndOf, Sent

(* A call that fails keeps what is in the buffer.                          *)
LEMMA FailKeeps ==
    ASSUME ReadInv, NEW code \in {TIMEOUT, IO, 0}, Fail(code), UNCHANGED buf,
           code = 0 => fin /\ buf = <<>> /\ Nothing
    PROVE  ReadInv'
<1> USE DEF ReadInv
<1>1. TypeOK'  BY DEF TypeOK, Fail, peerVars, TIMEOUT, IO
<1>2. StreamInv'  BY StreamStays DEF Fail, peerVars
<1>3. PlaceInv'  BY DEF PlaceInv, Taken, EndOf, Fail, peerVars
<1>4. SizeInv'  BY DEF SizeInv, Fail
<1>5. FramesAreMessages'  BY DEF FramesAreMessages, Fail, peerVars
<1>6. BufferFits'  BY DEF BufferFits, Fail
<1>7. CleanEndIsBetween'
  <2> SUFFICES ASSUME code = 0 PROVE CleanEndIsBetween'
      BY DEF CleanEndIsBetween, Fail, TIMEOUT, IO
  <2>1. Len(buf) = 0 /\ arrived = start
    <3>1. Len(buf) = 0  OBVIOUS
    <3> QED BY <3>1 DEF Nothing, Taken, TypeOK
  <2>2. start \in {0} \cup {bounds[i] : i \in 1 .. Len(bounds)}
    <3>1. Len(frames) \in Nat /\ Len(frames) <= Len(messages) /\ Len(bounds) = Len(messages)
        BY DEF TypeOK, FramesAreMessages, StreamInv
    <3> QED BY <3>1 DEF PlaceInv, EndOf
  <2>3. Nothing'  BY DEF Nothing, Taken, Fail, peerVars
  <2> QED BY <2>1, <2>2, <2>3 DEF CleanEndIsBetween, Fail, peerVars
<1> QED BY <1>1, <1>2, <1>3, <1>4, <1>5, <1>6, <1>7

(* Bytes go into the buffer and the call goes on, or fails for the size.   *)
LEMMA FillKeeps ==
    ASSUME ReadInv, Reading, NEW n \in Receivable, buf' = Filled(n),
           UNCHANGED <<maxLen, frames, start, peerVars>>,
           Len(buf) + n <= maxLen, SizeInv',
           pc' \in {"header", "payload", "done"}, rc' \in {rc, IO},
           pc' = "done" => rc' = IO
    PROVE  ReadInv'
<1> USE DEF ReadInv
<1>1. /\ Filled(n) \in Seq(Byte) /\ Len(Filled(n)) = Len(buf) + n
      /\ start + (Len(buf) + n) <= arrived
      /\ \A j \in 1 .. Len(buf) + n : Filled(n)[j] = stream[start + j]
    BY FilledProps
<1>2. TypeOK'  BY <1>1 DEF TypeOK, peerVars
<1>3. StreamInv'  BY StreamStays DEF peerVars
<1>4. PlaceInv'  BY <1>1 DEF PlaceInv, EndOf, Taken, peerVars
<1>5. FramesAreMessages'  BY DEF FramesAreMessages, peerVars
<1>6. BufferFits'  BY <1>1 DEF BufferFits
<1>7. CleanEndIsBetween'  BY DEF CleanEndIsBetween, IO
<1> QED BY <1>2, <1>3, <1>4, <1>5, <1>6, <1>7

(* The bytes that complete a message are returned.                         *)
LEMMA ReturnKeeps ==
    ASSUME ReadInv, Reading, NEW n \in Receivable, Return(Filled(n)),
           Len(buf) + n >= 2, Len(buf) + n = ExpectedTotal(Filled(n)), Len(buf) + n <= maxLen
    PROVE  ReadInv'
<1> USE DEF ReadInv
<1> DEFINE f == Filled(n)
           next == Len(frames) + 1
<1>1. /\ f \in Seq(Byte) /\ Len(f) = Len(buf) + n /\ start + (Len(buf) + n) <= arrived
      /\ \A j \in 1 .. Len(buf) + n : f[j] = stream[start + j]
    BY FilledProps
<1>2. Return(f) /\ Len(f) >= 2 /\ Len(f) = ExpectedTotal(f) /\ Len(f) <= maxLen /\ Len(f) \in Nat
    BY <1>1
<1>3. f \in Seq(Byte) /\ start + Len(f) <= arrived /\ \A j \in 1 .. Len(f) : f[j] = stream[start + j]
    BY <1>1
<1> HIDE DEF f
<1>4. /\ next \in 1 .. Len(messages) /\ bounds[next] = start + Len(Sent(next))
      /\ ExpectedTotal(f) = Len(Sent(next)) /\ f = Sent(next)
    BY <1>2, <1>3, NextFrame
<1>5. /\ frames \in Seq(Seq(Byte)) /\ frames' = Append(frames, f) /\ frames' \in Seq(Seq(Byte))
      /\ Len(frames') = next /\ frames'[next] = f /\ Len(frames) \in Nat
      /\ \A i \in 1 .. Len(frames) : frames'[i] = frames[i]
    BY <1>2, <1>3 DEF TypeOK, Return
<1>6. /\ start' = start + Len(f) /\ buf' = <<>> /\ pc' = "call" /\ rc' = Len(f)
      /\ <<>> \in Seq(Byte) /\ Len(<<>>) = 0 /\ UNCHANGED maxLen /\ UNCHANGED peerVars
    BY <1>2 DEF Return
<1>7. TypeOK'  BY <1>2, <1>5, <1>6 DEF TypeOK, peerVars
<1>8. StreamInv'  BY <1>6, StreamStays DEF peerVars
<1>9. PlaceInv'
  <2>1. start' = EndOf(Len(frames))'
      BY <1>2, <1>4, <1>5, <1>6 DEF EndOf, peerVars
  <2>2. Taken' <= arrived'  BY <1>3, <1>6 DEF Taken, peerVars, TypeOK
  <2> QED BY <2>1, <2>2, <1>6 DEF PlaceInv
<1>10. SizeInv'  BY <1>6 DEF SizeInv
<1>11. FramesAreMessages'
  <2>1. UNCHANGED messages  BY <1>6 DEF peerVars
  <2>2. ASSUME NEW i \in 1 .. next PROVE frames'[i] = Frame(messages[i], TRUE, FALSE)
    <3>1. CASE i = next  BY <3>1, <1>4, <1>5 DEF Sent
    <3>2. CASE i # next
      <4>1. i \in 1 .. Len(frames)  BY <3>2, <1>5
      <4> QED BY <4>1, <1>5 DEF FramesAreMessages
    <3> QED BY <3>1, <3>2
  <2>3. next <= Len(messages)  BY <1>4
  <2> HIDE DEF next
  <2>4. Len(frames') = next  BY <1>5
  <2>5. \A i \in 1 .. next : frames'[i] = Frame(messages'[i], TRUE, FALSE)  BY <2>1, <2>2
  <2> QED BY <2>1, <2>3, <2>4, <2>5 DEF FramesAreMessages
<1>12. BufferFits'
  <2>1. maxLen \in Nat  BY FrameReadAssumption DEF TypeOK
  <2> QED BY <2>1, <1>2, <1>5, <1>6 DEF BufferFits
<1>13. CleanEndIsBetween'  BY <1>6 DEF CleanEndIsBetween
<1> QED BY <1>7, <1>8, <1>9, <1>10, <1>11, <1>12, <1>13

LEMMA ReceiveKeeps ==
    ASSUME ReadInv, Receive
    PROVE  ReadInv'
<1>1. Reading  BY DEF Receive
<1>2. PICK n \in Receivable :
        ReadPart(n) \/ ReadHeader(n) \/ Oversized(n) \/ ReadEmpty(n) \/ ReadPayload(n)
    BY DEF Receive
<1>3. /\ n \in Nat /\ n >= 1 /\ Want \in Nat /\ Len(buf) + n <= Want
      /\ Filled(n) \in Seq(Byte) /\ Len(Filled(n)) = Len(buf) + n
      /\ \A j \in 1 .. Len(buf) + n : Filled(n)[j] = stream[start + j]
    BY <1>1, FilledProps DEF ReadInv
<1>4. buf \in Seq(Byte) /\ Len(buf) \in Nat /\ maxLen \in Nat
    BY FrameReadAssumption DEF ReadInv, TypeOK
<1>5. pc = "header" => Want = 2 /\ maxLen >= 2  BY DEF Want, ReadInv, SizeInv
<1>6. CASE ReadPart(n)
  <2>1. /\ pc' = pc /\ rc' = rc /\ buf' = Filled(n) /\ Len(buf) + n < Want
        /\ UNCHANGED <<maxLen, frames, start, peerVars>>
      BY <1>6 DEF ReadPart
  <2>2. CASE pc = "header"
    <3>1. SizeInv'  BY <1>3, <1>5, <2>1, <2>2 DEF SizeInv
    <3>2. Len(buf) + n <= maxLen  BY <1>3, <1>4, <1>5, <2>1, <2>2
    <3> QED BY <1>1, <2>1, <2>2, <3>1, <3>2, FillKeeps
  <2>3. CASE pc = "payload"
    <3>1. /\ 2 <= Len(buf) /\ Want = ExpectedTotal(buf) /\ ExpectedTotal(buf) <= maxLen
        BY <2>3 DEF ReadInv, SizeInv, Want
    <3>2. ExpectedTotal(Filled(n)) = ExpectedTotal(buf)
      <4>1. Filled(n)[1] = stream[start + 1] /\ Filled(n)[2] = stream[start + 2]
          BY <1>3, <1>4, <3>1
      <4>2. buf[1] = stream[start + 1] /\ buf[2] = stream[start + 2]
          BY <1>4, <3>1 DEF ReadInv, PlaceInv
      <4> QED BY <4>1, <4>2 DEF ExpectedTotal
    <3>3. SizeInv'  BY <1>3, <1>4, <2>1, <2>3, <3>1, <3>2 DEF SizeInv
    <3>4. Len(buf) + n <= maxLen  BY <1>3, <1>4, <2>1, <3>1
    <3> QED BY <1>1, <2>1, <2>3, <3>3, <3>4, FillKeeps
  <2> QED BY <1>1, <2>2, <2>3 DEF Reading
<1>7. CASE ReadHeader(n)
  <2>1. /\ pc = "header" /\ pc' = "payload" /\ rc' = rc /\ buf' = Filled(n)
        /\ Len(buf) + n = Want /\ 2 < ExpectedTotal(buf') /\ ExpectedTotal(buf') <= maxLen
        /\ UNCHANGED <<maxLen, frames, start, peerVars>>
      BY <1>7 DEF ReadHeader
  <2>2. SizeInv'  BY <1>3, <1>5, <2>1 DEF SizeInv
  <2>3. Len(buf) + n <= maxLen  BY <1>5, <2>1
  <2> QED BY <1>1, <2>1, <2>2, <2>3, FillKeeps
<1>8. CASE Oversized(n)
  <2>1. /\ pc = "header" /\ pc' = "done" /\ rc' = IO /\ buf' = Filled(n)
        /\ Len(buf) + n = Want /\ UNCHANGED <<maxLen, frames, start, peerVars>>
      BY <1>8 DEF Oversized, Fail
  <2>2. SizeInv'  BY <2>1 DEF SizeInv
  <2>3. Len(buf) + n <= maxLen  BY <1>5, <2>1
  <2> QED BY <1>1, <2>1, <2>2, <2>3, FillKeeps
<1>9. CASE ReadEmpty(n)
  <2>1. /\ pc = "header" /\ Len(buf) + n = Want /\ ExpectedTotal(Filled(n)) = 2 /\ maxLen >= 2
        /\ Return(Filled(n))
      BY <1>9 DEF ReadEmpty
  <2>2. Len(buf) + n = 2  BY <2>1, <1>5
  <2> QED BY <1>1, <2>1, <2>2, ReturnKeeps
<1>10. CASE ReadPayload(n)
  <2>1. pc = "payload" /\ Len(buf) + n = Want /\ Return(Filled(n))  BY <1>10 DEF ReadPayload
  <2>2. /\ 2 <= Len(buf) /\ Want = ExpectedTotal(buf) /\ ExpectedTotal(buf) <= maxLen
      BY <2>1 DEF ReadInv, SizeInv, Want
  <2>3. ExpectedTotal(Filled(n)) = ExpectedTotal(buf)
    <3>1. Filled(n)[1] = stream[start + 1] /\ Filled(n)[2] = stream[start + 2]
        BY <1>3, <1>4, <2>2
    <3>2. buf[1] = stream[start + 1] /\ buf[2] = stream[start + 2]
        BY <1>4, <2>2 DEF ReadInv, PlaceInv
    <3> QED BY <3>1, <3>2 DEF ExpectedTotal
  <2>4. /\ Len(buf) + n >= 2 /\ Len(buf) + n = ExpectedTotal(Filled(n)) /\ Len(buf) + n <= maxLen
      BY <1>3, <1>4, <2>1, <2>2, <2>3
  <2> QED BY <1>1, <2>1, <2>4, ReturnKeeps
<1> QED BY <1>2, <1>6, <1>7, <1>8, <1>9, <1>10

(* The peer sends one more message.                                        *)
LEMMA WriteKeeps ==
    ASSUME ReadInv, NEW p \in Messages, PeerWrites(p)
    PROVE  ReadInv'
<1> USE DEF ReadInv
<1> DEFINE f == Frame(p, TRUE, FALSE)
           last == Len(messages) + 1
<1>1. /\ messages \in Seq(Messages) /\ stream \in Seq(Byte) /\ bounds \in Seq(Nat)
      /\ Len(messages) \in Nat /\ Len(bounds) = Len(messages) /\ Len(stream) \in Nat
      /\ Len(stream) = EndOf(Len(messages)) /\ Len(frames) \in Nat /\ Len(frames) <= Len(messages)
    BY DEF TypeOK, StreamInv, FramesAreMessages
<1>2. f \in Seq(Byte) /\ Len(f) \in Nat
  <2>1. p \in Seq(Byte) /\ TRUE \in BOOLEAN /\ FALSE \in BOOLEAN  BY FrameReadAssumption
  <2>2. f \in Seq(Byte)  BY <2>1, FrameProps
  <2> HIDE DEF f
  <2> QED BY <2>2
<1>3. /\ messages' = Append(messages, p) /\ stream' = stream \o f
      /\ bounds' = Append(bounds, Len(stream'))
      /\ UNCHANGED <<arrived, fin, reset>> /\ UNCHANGED readerVars /\ ~fin
    BY DEF PeerWrites, Open
<1>6. /\ messages' \in Seq(Messages) /\ Len(messages') = last /\ messages'[last] = p
      /\ \A i \in 1 .. Len(messages) : messages'[i] = messages[i]
    BY <1>1, <1>3
<1>4. Frame(messages'[last], TRUE, FALSE) = f  BY <1>6
<1> HIDE DEF f
<1>41. f \in Seq(Byte) /\ stream \in Seq(Byte)  BY <1>1, <1>2
<1>5. /\ stream' \in Seq(Byte) /\ Len(stream') = Len(stream) + Len(f)
      /\ \A i \in 1 .. Len(stream) : stream'[i] = stream[i]
      /\ \A i \in 1 .. Len(f) : stream'[Len(stream) + i] = f[i]
    BY <1>3, <1>41, ConcatProps
<1>7. /\ bounds' \in Seq(Nat) /\ Len(bounds') = last /\ bounds'[last] = Len(stream')
      /\ \A i \in 1 .. Len(messages) : bounds'[i] = bounds[i]
  <2>1. Len(stream') \in Nat  BY <1>1, <1>2, <1>5
  <2> QED BY <2>1, <1>1, <1>3
<1>8. \A k \in 0 .. Len(messages) : EndOf(k)' = EndOf(k)  BY <1>1, <1>7 DEF EndOf
<1>9. TypeOK'  BY <1>1, <1>2, <1>3, <1>5, <1>6, <1>7 DEF TypeOK, readerVars
<1>10. StreamInv'
  <2>1. Len(stream') = EndOf(Len(messages))'
    <3>1. last # 0 /\ Len(messages') # 0  BY <1>1, <1>6
    <3> QED BY <3>1, <1>6, <1>7 DEF EndOf
  <2>2. ASSUME NEW i \in 1 .. Len(messages')
        PROVE  (/\ bounds[i] = EndOf(i - 1) + Len(Sent(i)) /\ bounds[i] <= Len(stream)
                /\ \A j \in 1 .. Len(Sent(i)) : stream[EndOf(i - 1) + j] = Sent(i)[j])'
    <3>1. CASE i \in 1 .. Len(messages)
      <4>1. Sent(i)' = Sent(i) /\ Sent(i) \in Seq(Byte) /\ Len(Sent(i)) \in Nat
          BY <3>1, <1>6, SentProps DEF Sent
      <4>2. EndOf(i - 1)' = EndOf(i - 1) /\ EndOf(i - 1) \in Nat
        <5>1. i - 1 \in 0 .. Len(messages)  BY <3>1, <1>1
        <5>2. i - 1 = 0 \/ i - 1 \in 1 .. Len(bounds)  BY <5>1, <1>1
        <5> QED BY <5>1, <5>2, <1>1, <1>8 DEF EndOf
      <4>3. /\ bounds[i] = EndOf(i - 1) + Len(Sent(i)) /\ bounds[i] <= Len(stream)
            /\ \A j \in 1 .. Len(Sent(i)) : stream[EndOf(i - 1) + j] = Sent(i)[j]
          BY <3>1 DEF StreamInv
      <4>4. \A j \in 1 .. Len(Sent(i)) : EndOf(i - 1) + j \in 1 .. Len(stream)
          BY <1>1, <4>1, <4>2, <4>3
      <4>5. bounds'[i] = bounds[i] /\ bounds[i] <= Len(stream')
        <5>1. bounds[i] \in Nat  BY <1>1, <3>1
        <5> QED BY <5>1, <1>1, <1>2, <1>5, <1>7, <3>1, <4>3
      <4> QED BY <4>1, <4>2, <4>3, <4>4, <4>5, <1>5
    <3>2. CASE i = last
      <4>1. EndOf(i - 1)' = Len(stream)  BY <3>2, <1>1, <1>8
      <4>2. bounds'[i] = Len(stream')  BY <3>2, <1>7
      <4>3. Sent(i)' = f  BY <3>2, <1>4 DEF Sent
      <4>4. bounds'[i] = EndOf(i - 1)' + Len(f)  BY <4>1, <4>2, <1>5
      <4>5. bounds'[i] <= Len(stream')  BY <4>2, <1>1, <1>2, <1>5
      <4>6. \A j \in 1 .. Len(f) : stream'[EndOf(i - 1)' + j] = f[j]  BY <4>1, <1>5
      <4> QED BY <4>3, <4>4, <4>5, <4>6
    <3> QED BY <3>1, <3>2, <1>1, <1>6
  <2>3. Len(bounds') = Len(messages')  BY <1>6, <1>7
  <2> QED BY <2>1, <2>2, <2>3 DEF StreamInv
<1>11. PlaceInv'
  <2>1. EndOf(Len(frames))' = EndOf(Len(frames))  BY <1>1, <1>3, <1>8 DEF readerVars
  <2>2. \A j \in 1 .. Len(buf) : start + j \in 1 .. Len(stream)
      BY DEF TypeOK, PlaceInv, Taken
  <2> QED BY <2>1, <2>2, <1>3, <1>5 DEF PlaceInv, Taken, readerVars
<1>12. FramesAreMessages'
  <2>1. UNCHANGED frames /\ Len(frames) <= Len(messages')  BY <1>1, <1>3, <1>6 DEF readerVars
  <2>2. ASSUME NEW i \in 1 .. Len(frames) PROVE frames[i] = Frame(messages'[i], TRUE, FALSE)
    <3>1. i \in 1 .. Len(messages)  BY <1>1
    <3>2. messages'[i] = messages[i]  BY <3>1, <1>6
    <3> QED BY <3>2 DEF FramesAreMessages
  <2> QED BY <2>1, <2>2 DEF FramesAreMessages
<1>13. SizeInv' /\ BufferFits' /\ CleanEndIsBetween'
    BY <1>3 DEF SizeInv, BufferFits, CleanEndIsBetween, readerVars
<1> QED BY <1>9, <1>10, <1>11, <1>12, <1>13

LEMMA NextRead == ReadInv /\ [Next]_vars => ReadInv'
<1> SUFFICES ASSUME ReadInv, [Next]_vars PROVE ReadInv'  OBVIOUS
<1>1. CASE Call
  <2>1. /\ pc = "call" /\ maxLen >= 2 /\ pc' = "header" /\ Len(buf) = 0
        /\ UNCHANGED <<maxLen, buf, rc, frames, start>> /\ UNCHANGED peerVars
      BY <1>1 DEF Call, ReadInv, SizeInv
  <2>2. TypeOK' /\ FramesAreMessages' /\ BufferFits' /\ CleanEndIsBetween'
      BY <2>1 DEF ReadInv, TypeOK, FramesAreMessages, BufferFits, CleanEndIsBetween, peerVars
  <2>3. StreamInv'  BY <2>1, StreamStays DEF ReadInv, peerVars
  <2>4. PlaceInv'  BY <2>1 DEF ReadInv, PlaceInv, Taken, EndOf, peerVars
  <2>5. SizeInv'  BY <2>1 DEF SizeInv
  <2> QED BY <2>2, <2>3, <2>4, <2>5 DEF ReadInv
<1>2. CASE NoRoom
    BY <1>2, FailKeeps DEF NoRoom, TIMEOUT, IO
<1>3. CASE Receive  BY <1>3, ReceiveKeeps
<1>4. CASE StreamEnds
  <2>1. CASE buf = <<>>
      BY <1>4, <2>1, FailKeeps DEF StreamEnds
  <2>2. CASE buf # <<>>
      BY <1>4, <2>2, FailKeeps DEF StreamEnds, IO
  <2> QED BY <2>1, <2>2
<1>5. CASE ReadFails  BY <1>5, FailKeeps DEF ReadFails, IO
<1>6. CASE TimesOut  BY <1>6, FailKeeps DEF TimesOut, TIMEOUT
<1>7. CASE Interrupted  BY <1>7, FailKeeps DEF Interrupted, IO
<1>8. CASE \E p \in Messages : PeerWrites(p)  BY <1>8, WriteKeeps
<1>9. CASE Arrives
  <2>1. /\ arrived' = arrived + 1 /\ arrived < Len(stream) /\ ~fin
        /\ UNCHANGED <<messages, stream, bounds, fin, reset>> /\ UNCHANGED readerVars
      BY <1>9 DEF Arrives, Open
  <2>2. TypeOK'  BY <2>1 DEF ReadInv, TypeOK, readerVars
  <2>3. StreamInv'  BY <2>1, StreamStays DEF ReadInv
  <2>4. PlaceInv'
      BY <2>1 DEF ReadInv, PlaceInv, Taken, EndOf, readerVars, TypeOK
  <2>5. SizeInv' /\ FramesAreMessages' /\ BufferFits' /\ CleanEndIsBetween'
      BY <2>1 DEF ReadInv, SizeInv, FramesAreMessages, BufferFits, CleanEndIsBetween, readerVars
  <2> QED BY <2>2, <2>3, <2>4, <2>5 DEF ReadInv
<1>10. CASE Closes \/ Resets
  <2>1. /\ UNCHANGED <<messages, stream, bounds, arrived>> /\ UNCHANGED readerVars
        /\ fin' \in BOOLEAN /\ reset' \in BOOLEAN /\ (fin => fin')
      BY <1>10 DEF Closes, Resets, ReadInv, TypeOK
  <2>2. TypeOK'  BY <2>1 DEF ReadInv, TypeOK, readerVars
  <2>3. StreamInv'  BY <2>1, StreamStays DEF ReadInv
  <2>4. PlaceInv'  BY <2>1 DEF ReadInv, PlaceInv, Taken, EndOf, readerVars
  <2>5. SizeInv' /\ FramesAreMessages' /\ BufferFits'
      BY <2>1 DEF ReadInv, SizeInv, FramesAreMessages, BufferFits, readerVars
  <2>6. CleanEndIsBetween'
      BY <2>1 DEF ReadInv, CleanEndIsBetween, Nothing, Taken, readerVars
  <2> QED BY <2>2, <2>3, <2>4, <2>5, <2>6 DEF ReadInv
<1>11. CASE UNCHANGED vars
  <2>1. StreamInv'  BY <1>11, StreamStays DEF ReadInv, vars, peerVars
  <2>2. TypeOK' /\ PlaceInv' /\ SizeInv'
      BY <1>11 DEF ReadInv, vars, readerVars, peerVars, TypeOK, PlaceInv, Taken, EndOf, SizeInv
  <2>3. FramesAreMessages' /\ BufferFits' /\ CleanEndIsBetween'
      BY <1>11 DEF ReadInv, vars, readerVars, peerVars, FramesAreMessages, BufferFits,
                   CleanEndIsBetween, Nothing, Taken
  <2> QED BY <2>1, <2>2, <2>3 DEF ReadInv
<1> QED BY <1>1, <1>2, <1>3, <1>4, <1>5, <1>6, <1>7, <1>8, <1>9, <1>10, <1>11
        DEF Next, ReaderStep, PeerStep, Stopped

(* The reader, the stream and what has been returned fit together, for     *)
(* every set of messages and every size of the buffer.                     *)
THEOREM ReadInvariant == Spec => []ReadInv
<1> QED BY InitRead, NextRead, PTL DEF Spec

(* However the stream is cut, the calls return the messages whole, unmixed *)
(* and in order.                                                           *)
THEOREM FramesAlwaysMessages == Spec => []FramesAreMessages
<1>1. ReadInv => FramesAreMessages  BY DEF ReadInv
<1> QED BY <1>1, ReadInvariant, PTL

(* No length a peer announces takes the reader out of the caller's buffer. *)
THEOREM BufferAlwaysFits == Spec => []BufferFits
<1>1. ReadInv => BufferFits  BY DEF ReadInv
<1> QED BY <1>1, ReadInvariant, PTL

(* A clean end is reported between two messages only.                      *)
THEOREM CleanEndAlwaysBetween == Spec => []CleanEndIsBetween
<1>1. ReadInv => CleanEndIsBetween  BY DEF ReadInv
<1> QED BY <1>1, ReadInvariant, PTL

-----------------------------------------------------------------------------
(* s stands in b behind its first k bytes.                                 *)
StandsAt(s, b, k) ==
    /\ s \in Seq(Byte) /\ k + Len(s) <= Len(b)
    /\ \A j \in 1 .. Len(s) : s[j] = b[k + j]

LEMMA PartStands ==
    ASSUME NEW b \in Seq(Byte), NEW m \in 1 .. Len(b) + 1, NEW n \in (m - 1) .. Len(b)
    PROVE  StandsAt(SubSeq(b, m, n), b, m - 1) /\ Len(SubSeq(b, m, n)) = n - m + 1
<1> DEFINE t == SubSeq(b, m, n)
<1>1. /\ t \in Seq(Byte) /\ Len(t) = n - m + 1
      /\ \A j \in 1 .. (n - m + 1) : t[j] = b[m + j - 1]
    BY PartProps
<1> HIDE DEF t
<1>2. \A j \in 1 .. Len(t) : t[j] = b[(m - 1) + j]
  <2> TAKE j \in 1 .. Len(t)
  <2>1. m + j - 1 = (m - 1) + j /\ j \in 1 .. (n - m + 1)  BY <1>1
  <2> QED BY <1>1, <2>1
<1>3. (m - 1) + Len(t) <= Len(b)  BY <1>1
<1>4. StandsAt(t, b, m - 1) /\ Len(t) = n - m + 1  BY <1>1, <1>2, <1>3 DEF StandsAt
<1> QED BY <1>4 DEF t

(* Two parts that stand one behind the other.                              *)
LEMMA JoinStands ==
    ASSUME NEW b \in Seq(Byte), NEW k \in Nat, NEW s, NEW t,
           StandsAt(s, b, k), StandsAt(t, b, k + Len(s))
    PROVE  StandsAt(s \o t, b, k) /\ Len(s \o t) = Len(s) + Len(t)
<1>1. s \in Seq(Byte) /\ t \in Seq(Byte) /\ Len(s) \in Nat /\ Len(t) \in Nat  BY DEF StandsAt
<1>2. /\ s \o t \in Seq(Byte) /\ Len(s \o t) = Len(s) + Len(t)
      /\ \A i \in 1 .. Len(s) : (s \o t)[i] = s[i]
      /\ \A i \in 1 .. Len(t) : (s \o t)[Len(s) + i] = t[i]
    BY <1>1, ConcatProps
<1> DEFINE u == s \o t
<1> HIDE DEF u
<1>3. \A j \in 1 .. Len(u) : u[j] = b[k + j]
  <2> TAKE j \in 1 .. Len(u)
  <2>1. CASE j <= Len(s)
    <3>1. j \in 1 .. Len(s)  BY <2>1, <1>1, <1>2 DEF u
    <3> QED BY <3>1, <1>2 DEF u, StandsAt
  <2>2. CASE j > Len(s)
    <3> DEFINE i == j - Len(s)
    <3>1. i \in 1 .. Len(t) /\ Len(s) + i = j /\ (k + Len(s)) + i = k + j
        BY <2>2, <1>1, <1>2 DEF u
    <3> HIDE DEF i
    <3>2. t[i] = b[k + j]  BY <3>1 DEF StandsAt
    <3> QED BY <3>1, <3>2, <1>2 DEF u
  <2> QED BY <2>1, <2>2, <1>1, <1>2 DEF u
<1>4. k + Len(u) <= Len(b)
  <2>1. (k + Len(s)) + Len(t) <= Len(b)  BY DEF StandsAt
  <2> QED BY <2>1, <1>1, <1>2 DEF u
<1> QED BY <1>2, <1>3, <1>4 DEF u, StandsAt

(* What stands there is that part.                                         *)
LEMMA StandsIsPart ==
    ASSUME NEW b \in Seq(Byte), NEW k \in Nat, NEW s, StandsAt(s, b, k)
    PROVE  SubSeq(b, k + 1, k + Len(s)) = s
<1> DEFINE t == SubSeq(b, k + 1, k + Len(s))
<1>1. s \in Seq(Byte) /\ Len(s) \in Nat /\ k + Len(s) <= Len(b)  BY DEF StandsAt
<1>2. k + 1 \in 1 .. Len(b) + 1 /\ k + Len(s) \in (k + 1) - 1 .. Len(b)  BY <1>1
<1>3. StandsAt(t, b, (k + 1) - 1) /\ Len(t) = (k + Len(s)) - (k + 1) + 1
    BY <1>2, PartStands
<1> HIDE DEF t
<1>4. (k + 1) - 1 = k /\ (k + Len(s)) - (k + 1) + 1 = Len(s)  BY <1>1
<1>5. StandsAt(t, b, k) /\ Len(t) = Len(s)  BY <1>3, <1>4
<1>6. t \in Seq(Byte) /\ s \in Seq(Byte) /\ \A j \in 1 .. Len(t) : t[j] = s[j]
    BY <1>5 DEF StandsAt
<1>7. t = s  BY <1>5, <1>6, SeqEqual
<1> QED BY <1>7 DEF t

(* The delimiter is found, or the end is taken for it.                     *)
LEMMA DelimiterProps ==
    ASSUME NEW rest \in Seq(Byte)
    PROVE  /\ DelimiterAt(rest) \in 1 .. (Len(rest) + 1)
           /\ DelimiterAt(rest) = Len(rest) + 1 \/ rest[DelimiterAt(rest)] = Delimiter
           /\ \A j \in 1 .. (DelimiterAt(rest) - 1) : rest[j] # Delimiter
<1> DEFINE Ends == {i \in 1 .. (Len(rest) + 1) : i = Len(rest) + 1 \/ rest[i] = Delimiter}
<1>1. Ends \subseteq Nat /\ Len(rest) + 1 \in Ends  OBVIOUS
<1>2. PICK i \in Ends : \A j \in Ends : i <= j  BY <1>1, LeastElement
<1>3. i \in 1 .. (Len(rest) + 1) /\ (i = Len(rest) + 1 \/ rest[i] = Delimiter)  OBVIOUS
<1>4. ASSUME NEW j \in 1 .. (i - 1) PROVE rest[j] # Delimiter
  <2>1. j \in 1 .. (Len(rest) + 1) /\ ~ (i <= j)  BY <1>3
  <2> QED BY <2>1, <1>2
<1> QED BY <1>3, <1>4 DEF DelimiterAt

LEMMA HeaderEndType ==
    ASSUME NEW b \in Seq(Byte), NEW n \in Nat
    PROVE  HeaderStart(b) \in 0 .. HeaderEnd(b, n) /\ HeaderEnd(b, n) \in 0 .. Len(b)
<1>1. Len(b) \in Nat /\ HeaderStart(b) \in Nat /\ HeaderStart(b) <= Len(b)
    BY DEF HeaderStart, HasTcpLen
<1> QED BY <1>1 DEF HeaderEnd

(* The fields of whatever has arrived, one behind the other.               *)
LEMMA FieldsStand ==
    ASSUME NEW b \in Seq(Byte), NEW n \in Nat, Parses(b, n)
    PROVE  LET p  == Parse(b, n)
               at == HeaderEnd(b, n)
               em == IF p.hasDelimiter THEN <<Delimiter>> ELSE <<>>
               read == p.code \o p.error \o p.payload \o em \o p.trailer
           IN  /\ StandsAt(read, b, at)
               /\ at + Len(read) = Len(b) \/ Len(p.trailer) = HeaderCap
               /\ p.payload \in Seq(Byte)
<1> DEFINE p  == Parse(b, n)
           at == HeaderEnd(b, n)
           code == SubSeq(b, at + 1, at + 2)
           error == SubSeq(b, at + 3, at + 4)
           rest == SubSeq(b, at + 5, Len(b))
           stop == DelimiterAt(rest)
           payload == SubSeq(rest, 1, stop - 1)
           em == IF stop <= Len(rest) THEN <<Delimiter>> ELSE <<>>
           after == SubSeq(rest, stop + 1, Len(rest))
           trailer == Clip(after, HeaderCap)
           N == Len(b)
           R == Len(rest)
<1>1. /\ p.code = code /\ p.error = error /\ p.payload = payload
      /\ p.hasDelimiter = (stop <= Len(rest)) /\ p.trailer = trailer
    BY DEF Parse
<1>2. N \in Nat /\ at \in Nat /\ at + 4 <= N  BY HeaderEndType DEF Parses
<1>3. HeaderCap \in Nat /\ Delimiter \in Byte  BY DecoderAssumption
<1> HIDE DEF at, p
<1>4. StandsAt(code, b, at) /\ Len(code) = 2
  <2>1. at + 1 \in 1 .. N + 1 /\ at + 2 \in (at + 1) - 1 .. N  BY <1>2
  <2>2. StandsAt(code, b, (at + 1) - 1) /\ Len(code) = (at + 2) - (at + 1) + 1
      BY <2>1, PartStands
  <2> HIDE DEF code
  <2>3. (at + 1) - 1 = at /\ (at + 2) - (at + 1) + 1 = 2  BY <1>2
  <2> QED BY <2>2, <2>3
<1>5. StandsAt(error, b, at + 2) /\ Len(error) = 2
  <2>1. at + 3 \in 1 .. N + 1 /\ at + 4 \in (at + 3) - 1 .. N  BY <1>2
  <2>2. StandsAt(error, b, (at + 3) - 1) /\ Len(error) = (at + 4) - (at + 3) + 1
      BY <2>1, PartStands
  <2> HIDE DEF error
  <2>3. (at + 3) - 1 = at + 2 /\ (at + 4) - (at + 3) + 1 = 2  BY <1>2
  <2> QED BY <2>2, <2>3
<1>6. StandsAt(rest, b, at + 4) /\ R = N - (at + 4)
  <2>1. at + 5 \in 1 .. N + 1 /\ N \in (at + 5) - 1 .. N  BY <1>2
  <2>2. StandsAt(rest, b, (at + 5) - 1) /\ R = N - (at + 5) + 1
      BY <2>1, PartStands
  <2> HIDE DEF rest
  <2>3. (at + 5) - 1 = at + 4 /\ N - (at + 5) + 1 = N - (at + 4)  BY <1>2
  <2> QED BY <2>2, <2>3
<1> HIDE DEF rest, N
<1>7. rest \in Seq(Byte) /\ R \in Nat  BY <1>6 DEF StandsAt
<1>8. stop \in 1 .. (R + 1) /\ (stop = R + 1 \/ rest[stop] = Delimiter)
    BY <1>7, DelimiterProps
<1> HIDE DEF stop
<1>9. ASSUME NEW s, NEW k \in Nat, StandsAt(s, rest, k)
      PROVE  StandsAt(s, b, (at + 4) + k)
  <2>1. /\ s \in Seq(Byte) /\ k + Len(s) <= R /\ Len(s) \in Nat
        /\ \A j \in 1 .. Len(s) : s[j] = rest[k + j]
      BY <1>9 DEF StandsAt
  <2>2. \A j \in 1 .. Len(s) : s[j] = b[((at + 4) + k) + j]
    <3> TAKE j \in 1 .. Len(s)
    <3>1. k + j \in 1 .. R /\ (at + 4) + (k + j) = ((at + 4) + k) + j  BY <2>1, <1>2, <1>7
    <3>2. rest[k + j] = b[(at + 4) + (k + j)]  BY <3>1, <1>6 DEF StandsAt, R
    <3> QED BY <2>1, <3>1, <3>2
  <2>3. ((at + 4) + k) + Len(s) <= N  BY <2>1, <1>2, <1>6, <1>7
  <2> QED BY <2>1, <2>2, <2>3 DEF StandsAt, N
<1>10. StandsAt(payload, rest, 0) /\ Len(payload) = stop - 1
  <2>1. 1 \in 1 .. R + 1 /\ stop - 1 \in 1 - 1 .. R  BY <1>7, <1>8
  <2>2. StandsAt(payload, rest, 1 - 1) /\ Len(payload) = (stop - 1) - 1 + 1
      BY <2>1, <1>7, PartStands
  <2> HIDE DEF payload
  <2> QED BY <2>2, <1>8
<1>11. StandsAt(em, rest, stop - 1) /\ Len(em) = IF stop <= R THEN 1 ELSE 0
  <2>1. CASE stop <= R
    <3>1. <<Delimiter>> \in Seq(Byte) /\ Len(<<Delimiter>>) = 1 /\ <<Delimiter>>[1] = Delimiter
        BY <1>3
    <3>2. (stop - 1) + 1 = stop /\ (stop - 1) + 1 <= R /\ rest[stop] = Delimiter
        BY <2>1, <1>7, <1>8
    <3>3. em = <<Delimiter>>  BY <2>1
    <3> HIDE DEF em
    <3>4. \A j \in 1 .. 1 : <<Delimiter>>[j] = rest[(stop - 1) + j]  BY <3>1, <3>2
    <3> QED BY <2>1, <3>1, <3>2, <3>3, <3>4 DEF StandsAt
  <2>2. CASE ~ (stop <= R)
    <3>1. em = <<>> /\ Len(<<>>) = 0 /\ <<>> \in Seq(Byte)  BY <2>2
    <3>2. (stop - 1) + 0 <= R  BY <1>7, <1>8
    <3> HIDE DEF em
    <3> QED BY <2>2, <3>1, <3>2 DEF StandsAt
  <2> QED BY <2>1, <2>2
<1>12. /\ StandsAt(trailer, rest, (stop - 1) + Len(em))
       /\ (stop - 1) + Len(em) + Len(trailer) = R \/ Len(trailer) = HeaderCap
  <2>1. CASE stop <= R
    <3>1. stop + 1 \in 1 .. R + 1 /\ R \in (stop + 1) - 1 .. R  BY <2>1, <1>7, <1>8
    <3>2. StandsAt(after, rest, (stop + 1) - 1) /\ Len(after) = R - (stop + 1) + 1
        BY <3>1, <1>7, PartStands
    <3> HIDE DEF after
    <3>3. (stop + 1) - 1 = stop /\ R - (stop + 1) + 1 = R - stop /\ (stop - 1) + Len(em) = stop
        BY <2>1, <1>7, <1>8, <1>11
    <3>4. after \in Seq(Byte) /\ Len(after) = R - stop /\ StandsAt(after, rest, stop)
        BY <3>2, <3>3 DEF StandsAt
    <3> DEFINE m == Least(HeaderCap, Len(after))
    <3>5. trailer = SubSeq(after, 1, m) /\ m \in 0 .. Len(after) /\ (m = Len(after) \/ m = HeaderCap)
        BY <3>4, <1>3 DEF Clip, Least
    <3> HIDE DEF m, trailer
    <3>6. /\ trailer \in Seq(Byte) /\ Len(trailer) = m
          /\ \A j \in 1 .. m : trailer[j] = after[j]
        BY <3>4, <3>5
    <3>7. \A j \in 1 .. m : trailer[j] = rest[stop + j]
        BY <3>4, <3>5, <3>6 DEF StandsAt
    <3>8. stop + Len(trailer) <= R  BY <3>4, <3>5, <3>6, <1>7, <1>8
    <3>9. StandsAt(trailer, rest, stop)  BY <3>6, <3>7, <3>8 DEF StandsAt, R
    <3>10. stop + Len(trailer) = R \/ Len(trailer) = HeaderCap
        BY <3>4, <3>5, <3>6, <1>7, <1>8
    <3> HIDE DEF em
    <3> QED BY <3>3, <3>9, <3>10
  <2>2. CASE ~ (stop <= R)
    <3>1. stop = R + 1 /\ Len(em) = 0  BY <2>2, <1>7, <1>8, <1>11
    <3>2. after = <<>>
      <4>1. stop + 1 \in Int /\ R \in Int /\ stop + 1 > R  BY <3>1, <1>7
      <4> QED BY <4>1, <1>7 
    <3>3. trailer = <<>> /\ Len(<<>>) = 0 /\ <<>> \in Seq(Byte)
      <4>1. trailer = Clip(<<>>, HeaderCap)  BY <3>2
      <4>2. Least(HeaderCap, 0) = 0  BY <1>3 DEF Least
      <4>3. Clip(<<>>, HeaderCap) = SubSeq(<<>>, 1, 0)  BY <4>2 DEF Clip
      <4> QED BY <4>1, <4>3
    <3> HIDE DEF trailer, em
    <3>4. (stop - 1) + Len(em) = R  BY <3>1, <1>7
    <3> QED BY <3>3, <3>4, <1>7 DEF StandsAt
  <2> QED BY <2>1, <2>2
<1> HIDE DEF code, error, payload, em, trailer
<1>13. StandsAt(code \o error, b, at) /\ Len(code \o error) = 4
  <2>1. at \in Nat /\ StandsAt(code, b, at) /\ StandsAt(error, b, at + Len(code))
      BY <1>2, <1>4, <1>5
  <2>2. StandsAt(code \o error, b, at) /\ Len(code \o error) = Len(code) + Len(error)
      BY <2>1, JoinStands
  <2> QED BY <2>2, <1>4, <1>5
<1> DEFINE ce == code \o error
<1>14. StandsAt(payload, b, at + 4)
  <2>1. StandsAt(payload, b, (at + 4) + 0)  BY <1>9, <1>10
  <2>2. (at + 4) + 0 = at + 4  BY <1>2
  <2> QED BY <2>1, <2>2
<1>141. StandsAt(ce, b, at) /\ Len(ce) = 4  BY <1>13
<1> HIDE DEF ce
<1>15. StandsAt(ce \o payload, b, at) /\ Len(ce \o payload) = 4 + (stop - 1)
  <2>1. at \in Nat /\ StandsAt(ce, b, at) /\ StandsAt(payload, b, at + Len(ce))
      BY <1>2, <1>141, <1>14
  <2>2. StandsAt(ce \o payload, b, at) /\ Len(ce \o payload) = Len(ce) + Len(payload)
      BY <2>1, JoinStands
  <2> QED BY <2>2, <1>10, <1>141
<1> DEFINE cp == ce \o payload
<1>151. StandsAt(cp, b, at) /\ Len(cp) = 4 + (stop - 1)  BY <1>15
<1> HIDE DEF cp
<1>16. StandsAt(em, b, at + Len(cp))
  <2>1. stop - 1 \in Nat /\ (at + 4) + (stop - 1) = at + Len(cp)  BY <1>2, <1>8, <1>151
  <2>2. StandsAt(em, b, (at + 4) + (stop - 1))  BY <2>1, <1>9, <1>11
  <2> QED BY <2>1, <2>2
<1>17. StandsAt(cp \o em, b, at) /\ Len(cp \o em) = Len(cp) + Len(em)
    BY <1>2, <1>151, <1>16, JoinStands
<1> DEFINE ct == cp \o em
<1>171. StandsAt(ct, b, at) /\ Len(ct) = Len(cp) + Len(em)  BY <1>17
<1> HIDE DEF ct
<1>18. StandsAt(trailer, b, at + Len(ct)) /\ Len(em) \in Nat
  <2>1. Len(em) \in Nat  BY <1>11
  <2>2. (stop - 1) + Len(em) \in Nat
        /\ (at + 4) + ((stop - 1) + Len(em)) = at + Len(ct)
      BY <1>2, <1>8, <2>1, <1>151, <1>171
  <2>3. StandsAt(trailer, b, (at + 4) + ((stop - 1) + Len(em)))  BY <2>2, <1>9, <1>12
  <2> QED BY <2>1, <2>2, <2>3
<1>19. StandsAt(ct \o trailer, b, at) /\ Len(ct \o trailer) = Len(ct) + Len(trailer)
    BY <1>2, <1>171, <1>18, JoinStands
<1>20. at + Len(ct \o trailer) = N \/ Len(trailer) = HeaderCap
  <2>1. Len(trailer) \in Nat  BY <1>12 DEF StandsAt
  <2> QED BY <2>1, <1>2, <1>6, <1>8, <1>12, <1>151, <1>171, <1>18, <1>19
<1>21. payload \in Seq(Byte)  BY <1>10 DEF StandsAt
<1>22. p.code \o p.error \o p.payload \o (IF p.hasDelimiter THEN <<Delimiter>> ELSE <<>>)
         \o p.trailer = ct \o trailer
    BY <1>1 DEF ct, cp, ce, em, R
<1> QED BY <1>1, <1>19, <1>20, <1>21, <1>22 DEF p, at, N

(* The largest known length a payload reaches, or that of the payload.     *)
LEMMA KeyLengthProps ==
    ASSUME NEW pay \in Seq(Byte), pay # <<>>
    PROVE  KeyLength(pay) \in 1 .. Len(pay)
<1> DEFINE Fits == {m \in KeySizes : m <= Len(pay)}
           Good(n) == /\ n <= Len(pay)
                      /\ \A m \in KeySizes : m <= Len(pay) => m <= n /\ n \in KeySizes
<1>1. Len(pay) \in Nat /\ Len(pay) >= 1 /\ \A m \in KeySizes : m \in Nat /\ m >= 1
    BY DecoderAssumption
<1>2. \E n \in KeySizes \cup {Len(pay)} : Good(n)
  <2>1. CASE Fits = {}
      BY <2>1, <1>1
  <2>2. CASE Fits # {}
    <3> DEFINE Gaps == {Len(pay) - m : m \in Fits}
    <3>1. Gaps \subseteq Nat /\ Gaps # {}  BY <2>2, <1>1
    <3> HIDE DEF Gaps
    <3>2. PICK g \in Gaps : \A h \in Gaps : g <= h  BY <3>1, LeastElement
    <3>3. PICK n \in Fits : g = Len(pay) - n  BY <3>2 DEF Gaps
    <3>4. ASSUME NEW m \in KeySizes, m <= Len(pay) PROVE m <= n
      <4>1. Len(pay) - m \in Gaps  BY <3>4 DEF Gaps
      <4>2. Len(pay) - n <= Len(pay) - m  BY <4>1, <3>2, <3>3
      <4> QED BY <4>2, <1>1
    <3>5. Good(n)  BY <3>4
    <3> QED BY <3>5
  <2> QED BY <2>1, <2>2
<1>3. KeyLength(pay) = CHOOSE n \in KeySizes \cup {Len(pay)} : Good(n)  BY DEF KeyLength
<1> HIDE DEF Good
<1>4. KeyLength(pay) \in KeySizes \cup {Len(pay)} /\ Good(KeyLength(pay))  BY <1>2, <1>3
<1> QED BY <1>1, <1>4 DEF Good

LEMMA KeyEndProps ==
    ASSUME NEW pay \in Seq(Byte), pay # <<>>
    PROVE  KeyEnd(pay) \in 1 .. Len(pay)
<1>1. Len(pay) \in 1 .. Len(pay)  OBVIOUS
<1>2. BlockLength(pay) \in 1 .. Len(pay)  BY <1>1 DEF BlockLength
<1> QED BY <1>1, <1>2, KeyLengthProps DEF KeyEnd

(* A payload is shown whole, or as a key and the check value behind it.    *)
LEMMA ShownProps ==
    ASSUME NEW p, p.payload \in Seq(Byte)
    PROVE  /\ IsKey(p) => KeyEnd(p.payload) \in 1 .. Len(p.payload)
           /\ \/ Shown(p) \in {<<>>, <<p.payload>>}
              \/ Shown(p)[1] \o Shown(p)[2] = p.payload
<1> DEFINE pay == p.payload
           k == KeyEnd(pay)
<1>1. IsKey(p) => k \in 1 .. Len(pay)  BY KeyEndProps DEF IsKey
<1>2. CASE IsKey(p) /\ k < Len(pay) /\ ~ (pay = <<>> \/ p.error # SuccessCode)
  <2> DEFINE key == SubSeq(pay, 1, k)
             check == SubSeq(pay, k + 1, Len(pay))
  <2>1. Shown(p) = <<key, check>>  BY <1>2 DEF Shown
  <2> HIDE DEF key, check
  <2>2. Shown(p)[1] = key /\ Shown(p)[2] = check  BY <2>1
  <2> USE DEF key, check
  <2>3. key \o check = pay
    <3>1. k \in 1 .. Len(pay) /\ Len(pay) \in Nat /\ pay \in Seq(Byte)  BY <1>1, <1>2
    <3> HIDE DEF k, pay
    <3>2. 1 \in 1 .. Len(pay) + 1 /\ k \in 1 - 1 .. Len(pay)
          /\ k + 1 \in 1 .. Len(pay) + 1 /\ Len(pay) \in (k + 1) - 1 .. Len(pay)
        BY <3>1
    <3>3. StandsAt(key, pay, 1 - 1) /\ Len(key) = k - 1 + 1  BY <3>1, <3>2, PartStands
    <3>4. StandsAt(check, pay, (k + 1) - 1) /\ Len(check) = Len(pay) - (k + 1) + 1
        BY <3>1, <3>2, PartStands
    <3> HIDE DEF key, check
    <3>5. 0 \in Nat /\ StandsAt(key, pay, 0) /\ Len(key) = k /\ StandsAt(check, pay, 0 + Len(key))
          /\ Len(check) = Len(pay) - k
        BY <3>1, <3>3, <3>4
    <3>6. StandsAt(key \o check, pay, 0) /\ Len(key \o check) = Len(key) + Len(check)
        BY <3>1, <3>5, JoinStands
    <3> DEFINE u == key \o check
    <3>7. u \in Seq(Byte) /\ Len(u) = Len(pay) /\ \A j \in 1 .. Len(u) : u[j] = pay[0 + j]
        BY <3>1, <3>5, <3>6 DEF StandsAt
    <3> HIDE DEF u
    <3>8. \A j \in 1 .. Len(u) : u[j] = pay[j]  BY <3>7
    <3>9. u = pay  BY <3>1, <3>7, <3>8, SeqEqual
    <3> QED BY <3>9 DEF u
  <2> HIDE DEF key, check, k
  <2> QED BY <1>1, <2>2, <2>3 DEF k
<1>3. CASE ~ (IsKey(p) /\ k < Len(pay) /\ ~ (pay = <<>> \/ p.error # SuccessCode))
  <2>1. Shown(p) \in {<<>>, <<pay>>}  BY <1>3 DEF Shown
  <2> QED BY <1>1, <2>1
<1> QED BY <1>2, <1>3

(* Whatever part of a response has arrived, the fields the decoder makes   *)
(* of it neither overlap nor leave a byte out.                             *)
THEOREM FieldsAlwaysTile == Spec => []FieldsTile
<1>1. ReadInv => FieldsTile
  <2> SUFFICES ASSUME ReadInv, NEW headerLen \in {0, 2, 3}, Parses(buf, headerLen)
               PROVE  LET p  == Parse(buf, headerLen)
                          at == HeaderEnd(buf, headerLen)
                          em == IF p.hasDelimiter THEN <<Delimiter>> ELSE <<>>
                          read == p.code \o p.error \o p.payload \o em \o p.trailer
                      IN  /\ SubSeq(buf, at + 1, at + Len(read)) = read
                          /\ at + Len(read) = Len(buf) \/ Len(p.trailer) = HeaderCap
                          /\ IsKey(p) => KeyEnd(p.payload) \in 1 .. Len(p.payload)
                          /\ \/ Shown(p) \in {<<>>, <<p.payload>>}
                             \/ Shown(p)[1] \o Shown(p)[2] = p.payload
      BY DEF FieldsTile
  <2> DEFINE p  == Parse(buf, headerLen)
             at == HeaderEnd(buf, headerLen)
             em == IF p.hasDelimiter THEN <<Delimiter>> ELSE <<>>
             read == p.code \o p.error \o p.payload \o em \o p.trailer
  <2>1. buf \in Seq(Byte) /\ headerLen \in Nat  BY DEF ReadInv, TypeOK
  <2>2. /\ StandsAt(read, buf, at)
        /\ at + Len(read) = Len(buf) \/ Len(p.trailer) = HeaderCap
        /\ p.payload \in Seq(Byte)
      BY <2>1, FieldsStand
  <2>3. at \in Nat  BY <2>1, HeaderEndType
  <2> HIDE DEF read, at, p
  <2>4. SubSeq(buf, at + 1, at + Len(read)) = read  BY <2>1, <2>2, <2>3, StandsIsPart
  <2>5. /\ IsKey(p) => KeyEnd(p.payload) \in 1 .. Len(p.payload)
        /\ \/ Shown(p) \in {<<>>, <<p.payload>>}
           \/ Shown(p)[1] \o Shown(p)[2] = p.payload
      BY <2>2, ShownProps
  <2> QED BY <2>2, <2>4, <2>5 DEF read, at, p
<1> QED BY <1>1, ReadInvariant, PTL

(* Whatever the peer sends, its frames lack a tail of it at most.          *)
THEOREM OnlyATailIsAlwaysLost == Spec => []OnlyATailIsLost
<1>1. ReadInv => OnlyATailIsLost
  <2> SUFFICES ASSUME ReadInv, NEW i \in 1 .. Len(messages),
                      NEW addLen \in BOOLEAN, NEW hasTerm \in BOOLEAN
               PROVE  LosesOnlyATail(messages[i], Frame(messages[i], addLen, hasTerm),
                                     addLen, hasTerm)
      BY DEF OnlyATailIsLost
  <2>1. messages[i] \in Seq(Byte)  BY FrameReadAssumption DEF ReadInv, TypeOK
  <2> QED BY <2>1, OnlyATailIsEverLost
<1> QED BY <1>1, ReadInvariant, PTL

(* Two parts of which one stands behind the other stand each in its place. *)
LEMMA SplitStands ==
    ASSUME NEW b \in Seq(Byte), NEW k \in Nat, NEW s \in Seq(Byte), NEW t \in Seq(Byte),
           StandsAt(s \o t, b, k)
    PROVE  StandsAt(s, b, k) /\ StandsAt(t, b, k + Len(s))
<1> DEFINE u == s \o t
<1>1. /\ Len(u) = Len(s) + Len(t) /\ Len(s) \in Nat /\ Len(t) \in Nat
      /\ \A i \in 1 .. Len(s) : u[i] = s[i]
      /\ \A i \in 1 .. Len(t) : u[Len(s) + i] = t[i]
    BY ConcatProps
<1> HIDE DEF u
<1>2. k + Len(u) <= Len(b) /\ \A j \in 1 .. Len(u) : u[j] = b[k + j]  BY DEF StandsAt, u
<1>3. StandsAt(s, b, k)
  <2>1. \A j \in 1 .. Len(s) : j \in 1 .. Len(u)  BY <1>1
  <2>2. k + Len(s) <= Len(b)  BY <1>1, <1>2
  <2> QED BY <1>1, <1>2, <2>1, <2>2 DEF StandsAt
<1>4. StandsAt(t, b, k + Len(s))
  <2>1. \A j \in 1 .. Len(t) : t[j] = b[(k + Len(s)) + j]
    <3> TAKE j \in 1 .. Len(t)
    <3>1. Len(s) + j \in 1 .. Len(u) /\ k + (Len(s) + j) = (k + Len(s)) + j  BY <1>1
    <3> QED BY <1>1, <1>2, <3>1
  <2>2. (k + Len(s)) + Len(t) <= Len(b)  BY <1>1, <1>2
  <2> QED BY <2>1, <2>2 DEF StandsAt
<1> QED BY <1>3, <1>4

LEMMA ClipWhole ==
    ASSUME NEW s \in Seq(Byte), NEW n \in Nat, Len(s) <= n
    PROVE  Clip(s, n) = s
<1>1. Least(n, Len(s)) = Len(s)  BY DEF Least
<1>2. SubSeq(s, 1, Len(s)) = s  OBVIOUS
<1> QED BY <1>1, <1>2 DEF Clip

LEMMA ResponseProps ==
    ASSUME NEW r \in Responses
    PROVE  /\ r.header \in Seq(Byte) /\ r.code \in Seq(Byte) /\ r.error \in Seq(Byte)
           /\ r.data \in Seq(Byte) /\ r.tail \in Seq(Byte)
           /\ Len(r.header) = 2 /\ Len(r.code) = 2 /\ Len(r.error) = 2
           /\ \A i \in 1 .. Len(r.data) : r.data[i] # Delimiter
           /\ r.tail # <<>> => r.tail[1] = Delimiter
           /\ Bytes(r) \in Seq(Byte) /\ Len(Bytes(r)) <= LenMax
           /\ Len(Bytes(r)) = 6 + Len(r.data) + Len(r.tail)
<1>1. /\ r.header \in Seq(Byte) /\ r.code \in Seq(Byte) /\ r.error \in Seq(Byte)
      /\ r.data \in Seq(Byte) /\ r.tail \in Seq(Byte)
    BY ResponsesAssumption
<1>2. /\ Len(r.header) = 2 /\ Len(r.code) = 2 /\ Len(r.error) = 2
      /\ \A i \in 1 .. Len(r.data) : r.data[i] # Delimiter
      /\ r.tail # <<>> => r.tail[1] = Delimiter
      /\ Len(Bytes(r)) <= LenMax
    BY ResponsesAssumption
<1> DEFINE a == r.header \o r.code
           b == a \o r.error
           c == b \o r.data
<1>3. a \in Seq(Byte) /\ Len(a) = Len(r.header) + Len(r.code)  BY <1>1, ConcatProps
<1> HIDE DEF a
<1>4. b \in Seq(Byte) /\ Len(b) = Len(a) + Len(r.error)  BY <1>1, <1>3, ConcatProps
<1> HIDE DEF b
<1>5. c \in Seq(Byte) /\ Len(c) = Len(b) + Len(r.data)  BY <1>1, <1>4, ConcatProps
<1> HIDE DEF c
<1>6. c \o r.tail \in Seq(Byte) /\ Len(c \o r.tail) = Len(c) + Len(r.tail)
    BY <1>1, <1>5, ConcatProps
<1>7. Bytes(r) = c \o r.tail  BY DEF Bytes, c, b, a
<1>8. Len(c \o r.tail) = 6 + Len(r.data) + Len(r.tail)
    BY <1>2, <1>3, <1>4, <1>5, <1>6
<1> QED BY <1>1, <1>2, <1>6, <1>7, <1>8

Framed(p) == Frame(p, TRUE, FALSE)

(* Where the parts of a framed response stand, whatever follows them.      *)
LEMMA ResponseStands ==
    ASSUME NEW r \in Responses, NEW more \in Seq(Byte), NEW f,
           f = Framed(Bytes(r)) \o more
    PROVE  /\ f \in Seq(Byte) /\ Len(f) = 8 + Len(r.data) + Len(r.tail) + Len(more)
           /\ HasTcpLen(f)
           /\ StandsAt(r.header, f, 2) /\ StandsAt(r.code, f, 4) /\ StandsAt(r.error, f, 6)
           /\ StandsAt(r.data, f, 8) /\ StandsAt(r.tail, f, 8 + Len(r.data))
<1> DEFINE B == Bytes(r)
           h == Header(Len(B))
           w == h \o B
           D == Len(r.data)
           T == Len(r.tail)
<1>1. /\ r.header \in Seq(Byte) /\ r.code \in Seq(Byte) /\ r.error \in Seq(Byte)
      /\ r.data \in Seq(Byte) /\ r.tail \in Seq(Byte)
      /\ Len(r.header) = 2 /\ Len(r.code) = 2 /\ Len(r.error) = 2
      /\ B \in Seq(Byte) /\ Len(B) <= LenMax /\ Len(B) = 6 + D + T
      /\ D \in Nat /\ T \in Nat
  <2>1. /\ r.header \in Seq(Byte) /\ r.code \in Seq(Byte) /\ r.error \in Seq(Byte)
        /\ r.data \in Seq(Byte) /\ r.tail \in Seq(Byte)
        /\ Len(r.header) = 2 /\ Len(r.code) = 2 /\ Len(r.error) = 2
        /\ B \in Seq(Byte) /\ Len(B) <= LenMax /\ Len(B) = 6 + D + T
      BY ResponseProps, Zenon
  <2>2. D \in Nat /\ T \in Nat
    <3>1. r.data \in Seq(Byte) /\ r.tail \in Seq(Byte)  BY <2>1
    <3> QED BY <3>1
  <2> QED BY <2>1, <2>2, Zenon
<1> HIDE DEF B, D, T
<1>2. Framed(B) = w
  <2>1. BufSize \in Nat /\ LenMax \in Nat /\ LenMax <= BufSize  BY BufSizeProps
  <2>2. Len(B) \in Nat /\ Len(B) <= BufSize  BY <1>1, <2>1
  <2>3. Clip(B, BufSize) = B /\ Clip(B, LenMax) = B  BY <1>1, <2>1, <2>2, ClipWhole
  <2> QED BY <2>3 DEF Framed, Frame, WithLength
<1>3. h \in Seq(Byte) /\ Len(h) = 2 /\ h[1] * Radix + h[2] = Len(B)
  <2>1. Len(B) \in Nat /\ Len(B) <= LenMax  BY <1>1
  <2> QED BY <2>1, HeaderDigits
<1> HIDE DEF h
<1>4. w \in Seq(Byte) /\ Len(w) = Len(h) + Len(B)  BY <1>1, <1>3, ConcatProps
<1> HIDE DEF w
<1>5. f \in Seq(Byte) /\ Len(f) = 8 + D + T + Len(more) /\ f = w \o more
  <2>1. f = w \o more  BY <1>2 DEF B
  <2>2. w \o more \in Seq(Byte) /\ Len(w \o more) = Len(w) + Len(more)  BY <1>4, ConcatProps
  <2>3. Len(w) + Len(more) = 8 + D + T + Len(more)  BY <1>1, <1>3, <1>4
  <2> QED BY <2>1, <2>2, <2>3, Zenon
<1>6. StandsAt(f, f, 0)  BY <1>5 DEF StandsAt
<1>7. StandsAt(w, f, 0)  BY <1>4, <1>5, <1>6, SplitStands
<1>8. StandsAt(h, f, 0) /\ StandsAt(B, f, 2)
  <2>1. 0 \in Nat /\ StandsAt(h \o B, f, 0)  BY <1>7 DEF w
  <2>2. StandsAt(h, f, 0) /\ StandsAt(B, f, 0 + Len(h))  BY <1>1, <1>3, <1>5, <2>1, SplitStands
  <2> QED BY <2>2, <1>3
<1>9. HasTcpLen(f)
  <2>1. \A j \in 1 .. 2 : f[0 + j] = h[j]  BY <1>3, <1>8 DEF StandsAt
  <2>2. f[1] = h[1] /\ f[2] = h[2]
    <3>1. 0 + 1 = 1 /\ 0 + 2 = 2 /\ 1 \in 1 .. 2 /\ 2 \in 1 .. 2  OBVIOUS
    <3> QED BY <2>1, <3>1, Zenon
  <2>3. ExpectedTotal(f) = 2 + Len(B)  BY <1>3, <2>2 DEF ExpectedTotal
  <2> QED BY <1>1, <1>5, <2>3 DEF HasTcpLen
<1> DEFINE a == r.header \o r.code
           b == a \o r.error
           c == b \o r.data
<1>10. a \in Seq(Byte) /\ Len(a) = 4
  <2>1. r.header \in Seq(Byte) /\ r.code \in Seq(Byte)  BY <1>1
  <2>2. a \in Seq(Byte) /\ Len(a) = Len(r.header) + Len(r.code)  BY <2>1, ConcatProps
  <2> HIDE DEF a
  <2> QED BY <2>2, <1>1
<1>11. B = c \o r.tail  BY DEF Bytes, B
<1> HIDE DEF a
<1>12. b \in Seq(Byte) /\ Len(b) = 6
  <2>1. b \in Seq(Byte) /\ Len(b) = Len(a) + Len(r.error)  BY <1>1, <1>10, ConcatProps
  <2> HIDE DEF b
  <2> QED BY <2>1, <1>1, <1>10
<1> HIDE DEF b
<1>13. c \in Seq(Byte) /\ Len(c) = 6 + D
  <2>1. c \in Seq(Byte) /\ Len(c) = Len(b) + Len(r.data)  BY <1>1, <1>12, ConcatProps
  <2> HIDE DEF c
  <2> QED BY <2>1, <1>12 DEF D
<1> HIDE DEF c
<1>14. StandsAt(c, f, 2) /\ StandsAt(r.tail, f, 8 + D)
  <2>1. StandsAt(c, f, 2) /\ StandsAt(r.tail, f, 2 + Len(c))
      BY <1>1, <1>5, <1>8, <1>11, <1>13, SplitStands
  <2>2. 2 + Len(c) = 8 + D  BY <1>1, <1>13
  <2> QED BY <2>1, <2>2
<1>15. StandsAt(b, f, 2) /\ StandsAt(r.data, f, 8)
  <2>1. StandsAt(b, f, 2) /\ StandsAt(r.data, f, 2 + Len(b))
      BY <1>1, <1>5, <1>12, <1>14, SplitStands DEF c
  <2> QED BY <2>1, <1>12
<1>16. StandsAt(a, f, 2) /\ StandsAt(r.error, f, 6)
  <2>1. StandsAt(a, f, 2) /\ StandsAt(r.error, f, 2 + Len(a))
      BY <1>1, <1>5, <1>10, <1>15, SplitStands DEF b
  <2> QED BY <2>1, <1>10
<1>17. StandsAt(r.header, f, 2) /\ StandsAt(r.code, f, 4)
  <2>1. StandsAt(r.header, f, 2) /\ StandsAt(r.code, f, 2 + Len(r.header))
      BY <1>1, <1>5, <1>16, SplitStands DEF a
  <2> QED BY <2>1, <1>1
<1> QED BY <1>5, <1>9, <1>14, <1>15, <1>16, <1>17 DEF D, T

(* The decoder makes of a framed response the fields it consists of.       *)
LEMMA ResponseParses ==
    ASSUME NEW r \in Responses, NEW more \in Seq(Byte), NEW f,
           f = Framed(Bytes(r)) \o more
    PROVE  /\ Parses(f, 2)
           /\ Parse(f, 2).code = r.code /\ Parse(f, 2).error = r.error
           /\ Parse(f, 2).header = Clip(r.header, HeaderCap)
           /\ r.tail # <<>> \/ more = <<>> => Parse(f, 2).payload = r.data
<1> DEFINE D == Len(r.data)
           T == Len(r.tail)
           N == Len(f)
           rest == SubSeq(f, 9, N)
           stop == DelimiterAt(rest)
<1>1. /\ r.data \in Seq(Byte) /\ r.tail \in Seq(Byte)
      /\ Len(r.header) = 2 /\ Len(r.code) = 2 /\ Len(r.error) = 2
      /\ D \in Nat /\ T \in Nat /\ Len(more) \in Nat
      /\ \A i \in 1 .. D : r.data[i] # Delimiter
      /\ r.tail # <<>> => T >= 1 /\ r.tail[1] = Delimiter
      /\ r.tail = <<>> => T = 0
  <2>1. /\ r.data \in Seq(Byte) /\ r.tail \in Seq(Byte)
        /\ Len(r.header) = 2 /\ Len(r.code) = 2 /\ Len(r.error) = 2
        /\ \A i \in 1 .. D : r.data[i] # Delimiter
        /\ r.tail # <<>> => r.tail[1] = Delimiter
      BY ResponseProps, Zenon
  <2>2. D \in Nat /\ T \in Nat /\ Len(more) \in Nat /\ (r.tail = <<>> => T = 0)
        /\ (r.tail # <<>> => T >= 1)
      BY <2>1
  <2> QED BY <2>1, <2>2, Zenon
<1>2. /\ f \in Seq(Byte) /\ N = 8 + D + T + Len(more) /\ HasTcpLen(f)
      /\ StandsAt(r.header, f, 2) /\ StandsAt(r.code, f, 4) /\ StandsAt(r.error, f, 6)
      /\ StandsAt(r.data, f, 8) /\ StandsAt(r.tail, f, 8 + D)
    BY ResponseStands
<1> HIDE DEF D, T, N
<1>3. HeaderStart(f) = 2 /\ HeaderEnd(f, 2) = 4
    BY <1>1, <1>2 DEF HeaderStart, HeaderEnd, N
<1>4. Parses(f, 2)  BY <1>1, <1>2, <1>3 DEF Parses, N
<1>5. /\ Parse(f, 2).code = SubSeq(f, 5, 6) /\ Parse(f, 2).error = SubSeq(f, 7, 8)
      /\ Parse(f, 2).header = Clip(SubSeq(f, 3, 4), HeaderCap)
      /\ Parse(f, 2).payload = SubSeq(rest, 1, stop - 1)
  <2> DEFINE at == HeaderEnd(f, 2)
             st == HeaderStart(f)
             rs == SubSeq(f, at + 5, Len(f))
  <2>1. /\ Parse(f, 2).code = SubSeq(f, at + 1, at + 2)
        /\ Parse(f, 2).error = SubSeq(f, at + 3, at + 4)
        /\ Parse(f, 2).header = Clip(SubSeq(f, st + 1, at), HeaderCap)
        /\ Parse(f, 2).payload = SubSeq(rs, 1, DelimiterAt(rs) - 1)
      BY DEF Parse
  <2>2. /\ at + 1 = 5 /\ at + 2 = 6 /\ at + 3 = 7 /\ at + 4 = 8 /\ at + 5 = 9
        /\ st + 1 = 3 /\ at = 4
      BY <1>3
  <2> HIDE DEF at, st
  <2> QED BY <2>1, <2>2, Zenon DEF N
<1>6. SubSeq(f, 5, 6) = r.code
  <2>1. SubSeq(f, 4 + 1, 4 + Len(r.code)) = r.code  BY <1>2, StandsIsPart
  <2>2. 4 + 1 = 5 /\ 4 + Len(r.code) = 6  BY <1>1
  <2> QED BY <2>1, <2>2, Zenon
<1>7. SubSeq(f, 7, 8) = r.error
  <2>1. SubSeq(f, 6 + 1, 6 + Len(r.error)) = r.error  BY <1>2, StandsIsPart
  <2>2. 6 + 1 = 7 /\ 6 + Len(r.error) = 8  BY <1>1
  <2> QED BY <2>1, <2>2, Zenon
<1>8. SubSeq(f, 3, 4) = r.header
  <2>1. SubSeq(f, 2 + 1, 2 + Len(r.header)) = r.header  BY <1>2, StandsIsPart
  <2>2. 2 + 1 = 3 /\ 2 + Len(r.header) = 4  BY <1>1
  <2> QED BY <2>1, <2>2, Zenon
<1>9. ASSUME r.tail # <<>> \/ more = <<>> PROVE SubSeq(rest, 1, stop - 1) = r.data
  <2>1. StandsAt(rest, f, 8) /\ Len(rest) = D + T + Len(more)
    <3>1. 9 \in 1 .. N + 1 /\ N \in 9 - 1 .. N  BY <1>1, <1>2
    <3>2. StandsAt(rest, f, 9 - 1) /\ Len(rest) = N - 9 + 1  BY <1>2, <3>1, PartStands DEF N
    <3>3. 9 - 1 = 8 /\ N - 9 + 1 = D + T + Len(more)  BY <1>1, <1>2
    <3> HIDE DEF rest
    <3> QED BY <3>2, <3>3, Zenon
  <2> HIDE DEF rest, stop
  <2>2. rest \in Seq(Byte) /\ \A j \in 1 .. Len(rest) : rest[j] = f[8 + j]
      BY <2>1 DEF StandsAt
  <2>3. \A j \in 1 .. D : rest[j] = r.data[j]
    <3> TAKE j \in 1 .. D
    <3>1. j \in 1 .. Len(rest)  BY <1>1, <2>1
    <3> QED BY <3>1, <1>2, <2>2 DEF StandsAt, D
  <2>4. /\ stop \in 1 .. (Len(rest) + 1)
        /\ stop = Len(rest) + 1 \/ rest[stop] = Delimiter
        /\ \A j \in 1 .. (stop - 1) : rest[j] # Delimiter
      BY <2>2, DelimiterProps DEF stop
  <2>5. stop > D
    <3> SUFFICES ASSUME ~ (stop > D) PROVE FALSE  OBVIOUS
    <3>1. stop \in 1 .. D /\ stop # Len(rest) + 1  BY <1>1, <2>1, <2>4
    <3> QED BY <3>1, <1>1, <2>3, <2>4
  <2>6. stop = D + 1
    <3>1. CASE r.tail = <<>>
      <4>1. more = <<>> /\ Len(<<>>) = 0  BY <1>9, <3>1
      <4>2. Len(rest) = D  BY <3>1, <4>1, <1>1, <2>1
      <4> QED BY <4>2, <1>1, <2>4, <2>5
    <3>2. CASE r.tail # <<>>
      <4>1. T >= 1 /\ D + 1 \in 1 .. Len(rest)  BY <3>2, <1>1, <2>1
      <4>2. r.tail[1] = f[(8 + D) + 1]
        <5>1. 1 \in 1 .. Len(r.tail)  BY <4>1, <1>1 DEF T
        <5> QED BY <5>1, <1>2 DEF StandsAt
      <4>3. (8 + D) + 1 = 8 + (D + 1)  BY <1>1
      <4>4. rest[D + 1] = Delimiter  BY <3>2, <4>1, <4>2, <4>3, <1>1, <2>2
      <4>5. ~ (D + 1 \in 1 .. (stop - 1))  BY <4>4, <2>4
      <4> QED BY <4>1, <4>5, <1>1, <2>4, <2>5
    <3> QED BY <3>1, <3>2
  <2>7. StandsAt(r.data, rest, 0)
    <3>1. 0 + D <= Len(rest)  BY <1>1, <2>1
    <3>2. \A j \in 1 .. D : r.data[j] = rest[0 + j]  BY <2>3
    <3> QED BY <3>1, <3>2, <1>1 DEF StandsAt, D
  <2>8. SubSeq(rest, 0 + 1, 0 + D) = r.data  BY <2>2, <2>7, StandsIsPart DEF D
  <2>9. 0 + 1 = 1 /\ 0 + D = stop - 1  BY <1>1, <2>6
  <2> QED BY <2>8, <2>9
<1> QED BY <1>4, <1>5, <1>6, <1>7, <1>8, <1>9

(* Whatever the peer sends and however it is cut, a complete response      *)
(* decodes to the fields it was made of.                                   *)
THEOREM AlwaysDecodesBack == Spec => []DecodesBack
<1>1. ReadInv => DecodesBack
  <2> SUFFICES ASSUME ReadInv, NEW i \in 1 .. Len(frames),
                      NEW more \in {<<>>} \cup (Byte \X Byte), NEW r \in Responses,
                      messages[i] = Bytes(r)
               PROVE  /\ Parses(frames[i] \o more, 2)
                      /\ LET p == Parse(frames[i] \o more, 2)
                         IN  /\ p.code = r.code /\ p.error = r.error
                             /\ p.header = Clip(r.header, HeaderCap)
                             /\ r.tail # <<>> \/ more = <<>> => p.payload = r.data
      BY DEF DecodesBack
  <2>1. frames[i] = Framed(Bytes(r))  BY DEF ReadInv, FramesAreMessages, Framed
  <2>2. more \in Seq(Byte)
    <3>1. CASE more = <<>>  BY <3>1
    <3>2. CASE more \in Byte \X Byte
      <4>1. PICK a \in Byte, b \in Byte : more = <<a, b>>  BY <3>2
      <4> QED BY <4>1
    <3> QED BY <3>1, <3>2
  <2> DEFINE f == frames[i] \o more
  <2>3. f = Framed(Bytes(r)) \o more  BY <2>1
  <2> HIDE DEF f
  <2>4. /\ Parses(f, 2)
        /\ Parse(f, 2).code = r.code /\ Parse(f, 2).error = r.error
        /\ Parse(f, 2).header = Clip(r.header, HeaderCap)
        /\ r.tail # <<>> \/ more = <<>> => Parse(f, 2).payload = r.data
      BY <2>2, <2>3, ResponseParses
  <2> QED BY <2>4 DEF f
<1> QED BY <1>1, ReadInvariant, PTL
=============================================================================
