--------------------------- MODULE OneShotProofs ---------------------------
(***************************************************************************)
(* What holds of one-shot mode for every command line, payload, buffer     *)
(* size and behaviour of the peer.                                         *)
(***************************************************************************)
EXTENDS OneShotRefinement, FramingProofs, SequenceTheorems, WellFoundedInduction

LEMMA ByteFacts ==
    /\ BufSize \in Nat /\ SendCap \in Nat /\ SendCap >= BufSize /\ BufSize >= 4
    /\ NetCap \in Nat /\ NetCap >= 1
BY BufSizeProps, FramingAssumption, OneShotAssumption DEF SendCap

LEMMA InputType ==
    ASSUME cfg \in ConfigType
    PROVE  Input \in Seq(Byte) /\ (~FromStdin => Len(Input) <= SendCap)
<1>1. cfg.data \in Seq(Byte) /\ cfg.addLen \in BOOLEAN /\ cfg.hasTerm \in BOOLEAN
    BY DEF ConfigType
<1>2. /\ Frame(cfg.data, cfg.addLen, cfg.hasTerm) \in Seq(Byte)
      /\ Len(Frame(cfg.data, cfg.addLen, cfg.hasTerm)) <= SendCap
    BY <1>1, FrameProps
<1> QED BY <1>1, <1>2 DEF Input

(* A part of a sequence.                                                   *)
LEMMA SubSeqProps ==
    ASSUME NEW S, NEW s \in Seq(S), NEW m \in Nat, NEW n \in Nat,
           m >= 1, n <= Len(s)
    PROVE  /\ SubSeq(s, m, n) \in Seq(S)
           /\ Len(SubSeq(s, m, n)) = IF m <= n THEN n - m + 1 ELSE 0
<1>1. \A i \in m .. n : s[i] \in S  OBVIOUS
<1> QED BY <1>1, SubSeqProperties

(* A set of natural numbers with an element has a least one.               *)
LEMMA LeastElement ==
    ASSUME NEW N, N \subseteq Nat, N # {}
    PROVE  \E x \in N : \A y \in N : x <= y
<1> DEFINE R == {ss \in Nat \X Nat : ss[1] < ss[2]}
<1>1. IsWellFoundedOn(R, Nat)  BY NatLessThanWellFounded DEF OpToRel
<1>2. PICK x \in N : \A y \in N : ~ (<<y, x>> \in R)
    BY <1>1, WFMin, Zenon
<1>3. \A y \in N : <<y, x>> \in Nat \X Nat /\ ~ (y < x)  BY <1>2
<1>4. ASSUME NEW y \in N PROVE x <= y
  <2>1. x \in Nat /\ y \in Nat /\ ~ (y < x)  BY <1>3
  <2> QED BY <2>1
<1> QED BY <1>4

(* What the -T byte leaves of a chunk is a sequence of bytes no longer.    *)
LEMMA ToProcessType ==
    ASSUME NEW s \in Seq(Byte)
    PROVE  ToProcess(s) \in Seq(Byte) /\ Len(ToProcess(s)) <= Len(s)
<1>1. CASE ~TermFound(s)  BY <1>1 DEF ToProcess
<1>2. CASE TermFound(s)
  <2>1. TermAt(s) # {} /\ TermAt(s) \subseteq 1 .. Len(s)
      BY <1>2 DEF TermFound, TermAt
  <2>2. \E i \in TermAt(s) : \A j \in TermAt(s) : i <= j
      BY <2>1, LeastElement
  <2>3. FirstTerm(s) \in TermAt(s)  BY <2>2 DEF FirstTerm
  <2>4. FirstTerm(s) \in 1 .. Len(s)  BY <2>1, <2>3
  <2> QED BY <1>2, <2>4, SubSeqProps DEF ToProcess
<1> QED BY <1>1, <1>2

-----------------------------------------------------------------------------
(* Type correctness.                                                       *)

LEMMA InitType == Init => TypeOK
<1> SUFFICES ASSUME Init PROVE TypeOK  OBVIOUS
<1>1. cfg \in ConfigType  BY OneShotAssumption DEF Init
<1>2. sendBuf \in Seq(Byte)  BY <1>1, InputType DEF Init
<1>3. cfg.data \in Seq(Byte) /\ <<>> \in Seq(Byte)  BY <1>1 DEF ConfigType
<1>4. rev \in Revents  BY DEF Init, NoEvents, Revents
<1>5. Len(sendBuf) \in Nat  BY <1>2
<1>6. stdinEof \in BOOLEAN  BY DEF Init, FromStdin
<1>7. wire \in Seq(Byte) /\ srvSent \in Seq(Byte) /\ Len(wire) = 0 /\ Len(srvSent) = 0
      /\ Len(cfg.data) \in Nat
    BY <1>3 DEF Init
<1>8. hsmAccum \in Seq(Byte) /\ out \in Seq(Byte) /\ shown \in Seq(Byte)
    BY <1>3 DEF Init
<1>9. /\ pc \in {"top", "poll", "sock", "stdin", "send", "done"}
      /\ exitCode \in {-1, 0, 4, 5}
      /\ shutdownDone \in BOOLEAN /\ socketEof \in BOOLEAN /\ interrupted \in BOOLEAN
      /\ stdinClosed \in BOOLEAN /\ finSent \in BOOLEAN
      /\ srvFin \in BOOLEAN /\ srvReset \in BOOLEAN
    BY DEF Init
<1>10. /\ sendPos \in 0 .. Len(sendBuf) /\ avail \in 0 .. Len(cfg.data)
       /\ taken \in Nat /\ srvRead \in 0 .. Len(wire) /\ rcvd \in 0 .. Len(srvSent)
    BY <1>5, <1>7 DEF Init
<1> QED BY <1>1, <1>2, <1>4, <1>6, <1>7, <1>8, <1>9, <1>10 DEF TypeOK

LEMMA ChunkType ==
    ASSUME TypeOK, NEW n \in Nat, n <= Len(srvSent) - rcvd
    PROVE  /\ Chunk(n) \in Seq(Byte)
           /\ ToProcess(Chunk(n)) \in Seq(Byte)
           /\ Len(ToProcess(Chunk(n))) <= Len(Chunk(n))
<1>1. Chunk(n) \in Seq(Byte)
  <2>1. rcvd + 1 \in Nat /\ rcvd + 1 >= 1 /\ rcvd + n \in Nat /\ rcvd + n <= Len(srvSent)
        /\ srvSent \in Seq(Byte)
      BY DEF TypeOK
  <2> QED BY <2>1, SubSeqProps DEF Chunk
<1> QED BY <1>1, ToProcessType

LEMMA UnsentType ==
    ASSUME TypeOK
    PROVE  Unsent \in Seq(Byte) /\ Len(Unsent) = Len(sendBuf) - sendPos
<1>1. sendBuf \in Seq(Byte) /\ sendPos \in Nat /\ sendPos <= Len(sendBuf)
      /\ Len(sendBuf) \in Nat
    BY DEF TypeOK
<1> QED BY <1>1, SubSeqProps DEF Unsent

LEMMA ReportType == ASSUME TypeOK PROVE PollReports \subseteq Revents
<1>1. Ready \in Revents
    BY DEF TypeOK, Ready, Revents, HungUp, PollsIn, Readable, RoomToSend, PollsStdin
<1>2. [Ready EXCEPT !.in = FALSE] \in Revents  BY <1>1 DEF Revents
<1> QED BY <1>1, <1>2 DEF PollReports

LEMMA ReceiveType ==
    ASSUME TypeOK, NEW n \in 1 .. BufSize,
           RecvToDecoder(n) \/ RecvToStdout(n) \/ RecvStdoutFails(n) \/ RecvHexDropped(n)
    PROVE  TypeOK'
<1>1. Takes(n)  BY DEF RecvToDecoder, RecvToStdout, RecvStdoutFails, RecvHexDropped
<1>2. n \in Nat /\ n <= Len(srvSent) - rcvd
    BY <1>1, ByteFacts DEF Takes, Least, TypeOK
<1> DEFINE s == ToProcess(Chunk(n))
<1>3. s \in Seq(Byte)  BY <1>2, ChunkType
<1>4. rcvd' \in 0 .. Len(srvSent')  BY <1>1, <1>2 DEF Takes, TypeOK
<1> HIDE DEF s
<1>5. hsmAccum \o s \in Seq(Byte) /\ out \o s \in Seq(Byte)
    BY <1>3 DEF TypeOK
<1>6. \A k \in 0 .. (Len(s) - 1) : out \o SubSeq(s, 1, k) \in Seq(Byte)
  <2> SUFFICES ASSUME NEW k \in 0 .. (Len(s) - 1) PROVE out \o SubSeq(s, 1, k) \in Seq(Byte)
      OBVIOUS
  <2>1. SubSeq(s, 1, k) \in Seq(Byte)  BY <1>3, SubSeqProps
  <2> QED BY <2>1 DEF TypeOK
<1>7. CASE RecvToDecoder(n)
  <2>1. hsmAccum' \in Seq(Byte)
      BY <1>5, <1>7 DEF RecvToDecoder, Accumulated, s, TypeOK
  <2> QED BY <1>4, <1>7, <2>1
          DEF RecvToDecoder, Takes, TypeOK, DecodeEnds, FrameComplete, TermFound,
              inputVars, upVars, ConfigType
<1>8. CASE RecvToStdout(n)
  <2>1. out' \in Seq(Byte)  BY <1>5, <1>8 DEF RecvToStdout, s
  <2> QED BY <1>4, <1>8, <2>1
          DEF RecvToStdout, Takes, TypeOK, TermFound, inputVars, upVars, ConfigType
<1>9. CASE RecvStdoutFails(n)
  <2>1. out' \in Seq(Byte)  BY <1>6, <1>9 DEF RecvStdoutFails, s
  <2> QED BY <1>4, <1>9, <2>1
          DEF RecvStdoutFails, Takes, TypeOK, Exit, inputVars, upVars
<1>10. CASE RecvHexDropped(n)
  BY <1>4, <1>10
     DEF RecvHexDropped, Takes, TypeOK, TermFound, inputVars, upVars, ConfigType
<1> QED BY <1>7, <1>8, <1>9, <1>10

LEMMA StdinDataType ==
    ASSUME TypeOK, NEW n \in 1 .. SendCap, StdinData(n)
    PROVE  TypeOK'
<1>1. n \in Nat /\ n >= 1 /\ taken \in Nat /\ avail \in Nat /\ taken + n <= avail
      /\ avail <= Len(cfg.data) /\ cfg.data \in Seq(Byte)
    BY ByteFacts DEF StdinData, Least, TypeOK, ConfigType
<1>2. sendBuf' \in Seq(Byte)
  <2>1. sendBuf' = SubSeq(cfg.data, taken + 1, taken + n)  BY DEF StdinData
  <2>2. taken + 1 \in Nat /\ taken + n \in Nat /\ taken + n <= Len(cfg.data)  BY <1>1
  <2> QED BY <1>1, <2>1, <2>2, SubSeqProps
<1>3. sendPos' \in 0 .. Len(sendBuf')  BY <1>2 DEF StdinData
<1> QED BY <1>1, <1>2, <1>3 DEF StdinData, TypeOK, upVars, downVars

LEMMA SendType ==
    ASSUME TypeOK, NEW n \in 1 .. SendCap, Send(n)
    PROVE  TypeOK'
<1>1. n \in Nat /\ n >= 1 /\ n <= Len(Unsent)
    BY ByteFacts, UnsentType DEF Send, Least, TypeOK
<1>2. SubSeq(Unsent, 1, n) \in Seq(Byte)  BY <1>1, UnsentType, SubSeqProps
<1>3. wire' \in Seq(Byte) /\ Len(wire') = Len(wire) + Len(SubSeq(Unsent, 1, n))
  <2>1. wire \in Seq(Byte) /\ wire' = wire \o SubSeq(Unsent, 1, n)  BY DEF TypeOK, Send
  <2> QED BY <1>2, <2>1, ConcatProps
<1>4. srvRead' \in 0 .. Len(wire')  BY <1>2, <1>3 DEF TypeOK, Send
<1>5. sendBuf' \in Seq(Byte) /\ sendPos' \in 0 .. Len(sendBuf')
  <2>1. CASE SentUpTo(n) >= Len(sendBuf)
    <3>1. sendBuf' = <<>> /\ sendPos' = 0  BY <2>1 DEF Send
    <3>2. <<>> \in Seq(Byte) /\ Len(<<>>) = 0  OBVIOUS
    <3> QED BY <3>1, <3>2
  <2>2. CASE ~(SentUpTo(n) >= Len(sendBuf))
    <3>1. sendBuf' = sendBuf /\ sendPos' = sendPos + n  BY <2>2 DEF Send, SentUpTo
    <3> QED BY <1>1, <2>2, <3>1 DEF TypeOK, SentUpTo
  <2> QED BY <2>1, <2>2
<1>6. rev' \in Revents  BY DEF Send, NoEvents, Revents
<1> QED BY <1>3, <1>4, <1>5, <1>6 DEF Send, TypeOK, inputVars, downVars

(* Every action keeps the types.                                           *)
LEMMA NextType == TypeOK /\ [Next]_vars => TypeOK'
<1> SUFFICES ASSUME TypeOK, [Next]_vars PROVE TypeOK'  OBVIOUS
<1> USE DEF clientVars, inputVars, upVars, downVars
<1>1. CASE EnterPoll
    BY <1>1 DEF EnterPoll, TypeOK, HalfCloseDue, MayHalfClose, ConfigType
<1>2. CASE Finish
  <2>1. <<>> \in Seq(Byte) /\ hsmAccum \in Seq(Byte)  BY DEF TypeOK
  <2>2. shown' = <<>> \/ shown' = hsmAccum  BY <1>2 DEF Finish
  <2>3. shown' \in Seq(Byte)  BY <2>1, <2>2
  <2> QED BY <1>2, <2>3
          DEF Finish, Exit, TypeOK, HalfCloseDue, MayHalfClose, ConfigType
<1>3. CASE PollReady
  <2>1. rev' \in Revents  BY <1>3, ReportType DEF PollReady
  <2> QED BY <1>3, <2>1 DEF PollReady, TypeOK
<1>4. CASE PollTimeout \/ PollFails
      BY <1>4 DEF PollTimeout, PollFails, Exit, TypeOK
<1>5. CASE SockErr      BY <1>5 DEF SockErr, Exit, TypeOK
<1>6. CASE SockHup      BY <1>6 DEF SockHup, ServerEnds, Exit, TypeOK
<1>7. CASE SockIdle     BY <1>7 DEF SockIdle, TypeOK
<1>8. CASE RecvEof      BY <1>8 DEF RecvEof, ServerEnds, Exit, TypeOK
<1>9. CASE RecvReset    BY <1>9 DEF RecvReset, Exit, TypeOK
<1>10. CASE Receive     BY <1>10, ReceiveType DEF Receive
<1>11. CASE StdinIdle   BY <1>11 DEF StdinIdle, TypeOK
<1>12. CASE \E n \in 1 .. SendCap : StdinData(n)  BY <1>12, StdinDataType
<1>13. CASE StdinEnd    BY <1>13 DEF StdinEnd, TypeOK
<1>14. CASE StdinFails  BY <1>14 DEF StdinFails, Exit, TypeOK
<1>15. CASE SendIdle
    BY <1>15 DEF SendIdle, TypeOK, NoEvents, Revents
<1>16. CASE \E n \in 1 .. SendCap : Send(n)  BY <1>16, SendType
<1>17. CASE SendFails   BY <1>17 DEF SendFails, Exit, TypeOK
<1>18. CASE StdinWritten
  <2>1. avail' \in 0 .. Len(cfg'.data)
      BY <1>18 DEF StdinWritten, TypeOK, ConfigType
  <2> QED BY <1>18, <2>1 DEF StdinWritten, TypeOK
<1>19. CASE StdinCloses   BY <1>19 DEF StdinCloses, TypeOK
<1>20. CASE Signal        BY <1>20 DEF Signal, TypeOK
<1>21. CASE SignalInPoll  BY <1>21 DEF SignalInPoll, TypeOK
<1>22. CASE SrvReads      BY <1>22 DEF SrvReads, TypeOK
<1>23. CASE \E b \in Byte : SrvSends(b)
  <2> PICK b \in Byte : SrvSends(b)  BY <1>23
  <2>1. srvSent' \in Seq(Byte) /\ Len(srvSent') = Len(srvSent) + 1
      BY DEF SrvSends, TypeOK
  <2>2. rcvd' \in 0 .. Len(srvSent')  BY <2>1 DEF SrvSends, TypeOK
  <2> QED BY <2>1, <2>2 DEF SrvSends, TypeOK
<1>24. CASE SrvCloses   BY <1>24 DEF SrvCloses, TypeOK
<1>25. CASE SrvResets   BY <1>25 DEF SrvResets, TypeOK
<1>26. CASE UNCHANGED vars  BY <1>26 DEF vars, TypeOK
<1> QED BY <1>1, <1>2, <1>3, <1>4, <1>5, <1>6, <1>7, <1>8, <1>9, <1>10, <1>11,
           <1>12, <1>13, <1>14, <1>15, <1>16, <1>17, <1>18, <1>19, <1>20, <1>21,
           <1>22, <1>23, <1>24, <1>25, <1>26
        DEF Next, ClientStep, InputStep, SignalStep, ServerStep, Terminated

(* The state stays within its types, whatever the command line, the sizes  *)
(* of the buffers and the behaviour of the peer.                           *)
THEOREM TypeCorrect == Spec => []TypeOK
BY InitType, NextType, PTL DEF Spec

-----------------------------------------------------------------------------
(***************************************************************************)
(* The loop invariant.                                                     *)
(***************************************************************************)

LEMMA EmptyUnsent ==
    ASSUME sendBuf = <<>>, sendPos = 0
    PROVE  Unsent = <<>>
<1>1. Len(sendBuf) = 0  OBVIOUS
<1>2. 0 + 1 \in Int /\ 0 \in Int /\ 0 < 0 + 1  OBVIOUS
<1> QED BY <1>1, <1>2, SubSeqEmpty DEF Unsent

LEMMA InitLoop == Init => LoopInv
<1> SUFFICES ASSUME Init PROVE LoopInv  OBVIOUS
<1>1. cfg \in ConfigType /\ TypeOK  BY InitType, OneShotAssumption DEF Init
<1>2. Input \in Seq(Byte)  BY <1>1, InputType
<1>3. NothingLost
  <2>1. CASE FromStdin
    <3>1. sendBuf = <<>> /\ taken = 0 /\ wire = <<>> /\ sendPos = 0
        BY <2>1 DEF Init
    <3>2. Unsent = <<>>  BY <3>1, EmptyUnsent
    <3>3. SubSeq(Input, 1, 0) = <<>>  BY SubSeqEmpty
    <3>4. <<>> \o <<>> = <<>>  OBVIOUS
    <3> QED BY <3>1, <3>2, <3>3, <3>4 DEF NothingLost
  <2>2. CASE ~FromStdin
    <3>1. sendBuf = Input /\ taken = Len(Input) /\ wire = <<>> /\ sendPos = 0
        BY <2>2 DEF Init
    <3>2. Unsent = Input  BY <1>2, <3>1, SubSeqFull DEF Unsent
    <3>3. SubSeq(Input, 1, Len(Input)) = Input  BY <1>2, SubSeqFull
    <3>4. <<>> \o Input = Input  BY <1>2, ConcatEmptySeq
    <3> QED BY <3>1, <3>2, <3>3, <3>4 DEF NothingLost
  <2> QED BY <2>1, <2>2
<1>4. InputInv
  <2>1. FromStdin => taken <= avail /\ ~stdinEof
    <3> SUFFICES ASSUME FromStdin PROVE taken <= avail /\ ~stdinEof  OBVIOUS
    <3>1. sendBuf = <<>> /\ taken = Len(sendBuf) /\ avail = 0  BY DEF Init
    <3>2. Len(<<>>) = 0  OBVIOUS
    <3>3. ~stdinEof  BY DEF Init
    <3> QED BY <3>1, <3>2, <3>3
  <2>2. ~FromStdin => stdinEof /\ taken = Len(Input)  BY DEF Init
  <2> QED BY <1>3, <2>1, <2>2 DEF InputInv
<1>5. PollInv  BY DEF Init, PollInv, NoEvents
<1>6. CloseInv  BY DEF Init, CloseInv
<1> QED BY <1>4, <1>5, <1>6 DEF LoopInv

LEMMA BytesAssociate ==
    ASSUME NEW s \in Seq(Byte), NEW t \in Seq(Byte), NEW u \in Seq(Byte)
    PROVE  (s \o t) \o u = s \o (t \o u)
BY ConcatAssociative

(* A send moves bytes from the head of what is unsent to the wire.         *)
LEMMA SendLosesNothing ==
    ASSUME TypeOK, InputInv, NEW n \in 1 .. SendCap, Send(n)
    PROVE  NothingLost'
<1> DEFINE U == Unsent
<1>1. n \in Nat /\ n >= 1 /\ n <= Len(U)
    BY ByteFacts, UnsentType DEF Send, Least, TypeOK
<1>2. U \in Seq(Byte) /\ Len(U) = Len(sendBuf) - sendPos /\ Len(U) \in Nat
    BY UnsentType
<1>3. sendBuf \in Seq(Byte) /\ sendPos \in Nat /\ wire \in Seq(Byte)
      /\ Len(sendBuf) \in Nat
    BY DEF TypeOK
<1>4. Unsent' = SubSeq(U, n + 1, Len(U))
  <2>1. CASE SentUpTo(n) >= Len(sendBuf)
    <3>1. sendBuf' = <<>> /\ sendPos' = 0  BY <2>1 DEF Send
    <3>2. Unsent' = <<>>
      <4>1. Len(sendBuf') = 0  BY <3>1
      <4>2. 0 + 1 \in Int /\ 0 \in Int /\ 0 < 0 + 1  OBVIOUS
      <4> QED BY <3>1, <4>1, <4>2, SubSeqEmpty DEF Unsent
    <3>3. n + 1 \in Int /\ Len(U) \in Int /\ Len(U) < n + 1
        BY <1>1, <1>2, <1>3, <2>1 DEF SentUpTo
    <3>4. SubSeq(U, n + 1, Len(U)) = <<>>
      <4> HIDE DEF U
      <4> QED BY <3>3, SubSeqEmpty
    <3> QED BY <3>2, <3>4
  <2>2. CASE ~(SentUpTo(n) >= Len(sendBuf))
    <3>1. sendBuf' = sendBuf /\ sendPos' = sendPos + n  BY <2>2 DEF Send, SentUpTo
    <3>2. sendPos + n < Len(sendBuf)  BY <1>1, <1>3, <2>2 DEF SentUpTo
    <3>3. Unsent' = SubSeq(sendBuf, sendPos + n + 1, Len(sendBuf))
        BY <3>1 DEF Unsent
    <3> DEFINE i == sendPos + 1
               j == Len(sendBuf)
    <3>4. /\ i \in 1 .. Len(sendBuf) /\ j \in 1 .. Len(sendBuf)
          /\ n + 1 \in 1 .. j - i + 1 /\ Len(U) \in 1 .. j - i + 1
        BY <1>1, <1>2, <1>3, <3>2
    <3>5. SubSeq(SubSeq(sendBuf, i, j), n + 1, Len(U))
            = SubSeq(sendBuf, i + (n + 1) - 1, i + Len(U) - 1)
        BY <1>3, <3>4, SubSeqOfSubSeq
    <3>6. i + (n + 1) - 1 = sendPos + n + 1 /\ i + Len(U) - 1 = Len(sendBuf)
        BY <1>1, <1>2, <1>3
    <3>7. U = SubSeq(sendBuf, i, j)  BY DEF Unsent
    <3> QED BY <3>3, <3>5, <3>6, <3>7
  <2> QED BY <2>1, <2>2
<1> HIDE DEF U
<1>5. SubSeq(U, 1, n) \o SubSeq(U, n + 1, Len(U)) = U
  <2>1. /\ 1 \in 1 .. Len(U) + 1 /\ n \in 1 - 1 .. Len(U) /\ Len(U) \in n .. Len(U)
      BY <1>1, <1>2
  <2>2. SubSeq(U, 1, n) \o SubSeq(U, n + 1, Len(U)) = SubSeq(U, 1, Len(U))
      BY <1>2, <2>1, ConcatAdjacentSubSeq
  <2> QED BY <1>2, <2>2, SubSeqFull
<1>6. /\ SubSeq(U, 1, n) \in Seq(Byte)
      /\ SubSeq(U, n + 1, Len(U)) \in Seq(Byte)
    BY <1>1, <1>2, SubSeqProps
<1>7. wire' = wire \o SubSeq(U, 1, n)  BY DEF Send, U
<1>8. wire' \o Unsent' = wire \o U
  <2> DEFINE a == SubSeq(U, 1, n)
             b == SubSeq(U, n + 1, Len(U))
  <2>1. a \o b = U /\ wire' = wire \o a /\ Unsent' = b  BY <1>4, <1>5, <1>7
  <2>2. a \in Seq(Byte) /\ b \in Seq(Byte) /\ wire \in Seq(Byte)  BY <1>3, <1>6
  <2> HIDE DEF a, b
  <2>3. (wire \o a) \o b = wire \o (a \o b)  BY <2>2, BytesAssociate
  <2> QED BY <2>1, <2>3
<1>9. Input' = Input /\ taken' = taken
    BY DEF Send, Input, FromStdin, inputVars
<1> QED BY <1>8, <1>9 DEF InputInv, NothingLost, U

(* A read of stdin puts the next bytes of the input into the empty buffer. *)
LEMMA StdinDataLosesNothing ==
    ASSUME TypeOK, InputInv, PollInv, NEW n \in 1 .. SendCap, StdinData(n)
    PROVE  NothingLost' /\ taken' <= avail'
<1>1. FromStdin /\ sendBuf = <<>> /\ ~stdinEof
    BY DEF StdinData, PollInv, InputInv
<1>2. sendPos = 0 /\ Unsent = <<>>
  <2>1. sendPos = 0  BY <1>1 DEF TypeOK
  <2> QED BY <1>1, <2>1, EmptyUnsent
<1>3. cfg.data \in Seq(Byte) /\ Input = cfg.data
    BY <1>1 DEF TypeOK, ConfigType, Input
<1>4. n \in Nat /\ n >= 1 /\ taken \in Nat /\ avail \in Nat /\ taken + n <= avail
      /\ avail <= Len(cfg.data)
    BY ByteFacts DEF StdinData, Least, TypeOK
<1>5. wire = SubSeq(cfg.data, 1, taken)
  <2>1. wire \o <<>> = wire  BY ConcatEmptySeq DEF TypeOK
  <2> QED BY <1>2, <1>3, <2>1 DEF InputInv, NothingLost
<1>6. sendBuf' = SubSeq(cfg.data, taken + 1, taken + n) /\ sendPos' = 0
    BY DEF StdinData
<1>7. sendBuf' \in Seq(Byte)
  <2>1. taken + 1 \in Nat /\ taken + 1 >= 1 /\ taken + n \in Nat
        /\ taken + n <= Len(cfg.data)
      BY <1>3, <1>4
  <2> QED BY <1>3, <1>6, <2>1, SubSeqProps
<1>8. Unsent' = sendBuf'
  <2>1. sendPos' + 1 = 1  BY <1>6
  <2>2. Unsent' = SubSeq(sendBuf', 1, Len(sendBuf'))  BY <2>1 DEF Unsent
  <2> QED BY <1>7, <2>2, SubSeqFull
<1>9. SubSeq(cfg.data, 1, taken) \o SubSeq(cfg.data, taken + 1, taken + n)
        = SubSeq(cfg.data, 1, taken + n)
  <2>1. /\ 1 \in 1 .. Len(cfg.data) + 1 /\ taken \in 1 - 1 .. Len(cfg.data)
        /\ taken + n \in taken .. Len(cfg.data)
      BY <1>3, <1>4
  <2> QED BY <1>3, <2>1, ConcatAdjacentSubSeq
<1>10. wire' = wire /\ taken' = taken + n /\ avail' = avail /\ Input' = Input
    BY DEF StdinData, upVars, Input, FromStdin
<1> QED BY <1>3, <1>4, <1>5, <1>6, <1>8, <1>9, <1>10 DEF NothingLost

(* A step that touches neither the input nor the wire.                     *)
LEMMA InputUnchanged ==
    ASSUME InputInv,
           UNCHANGED <<cfg, sendBuf, sendPos, stdinEof, avail, taken, stdinClosed,
                       wire>>
    PROVE  InputInv'
BY DEF InputInv, NothingLost, Unsent, Input, FromStdin

LEMMA InputStepwise ==
    ASSUME TypeOK, LoopInv, [Next]_vars
    PROVE  InputInv'
<1> USE DEF clientVars, inputVars, upVars, downVars
<1>0. InputInv /\ PollInv  BY DEF LoopInv
<1>1. CASE \E n \in 1 .. SendCap : StdinData(n)
  <2> PICK n \in 1 .. SendCap : StdinData(n)  BY <1>1
  <2>1. NothingLost' /\ taken' <= avail'  BY <1>0, StdinDataLosesNothing
  <2>2. FromStdin /\ ~stdinEof  BY <1>0 DEF StdinData, PollInv, InputInv
  <2>3. FromStdin' /\ ~stdinEof'  BY <2>2 DEF StdinData, FromStdin
  <2> QED BY <2>1, <2>3 DEF InputInv
<1>2. CASE \E n \in 1 .. SendCap : Send(n)
  <2> PICK n \in 1 .. SendCap : Send(n)  BY <1>2
  <2>1. NothingLost'  BY <1>0, SendLosesNothing
  <2> QED BY <1>0, <2>1 DEF Send, InputInv, FromStdin, Input
<1>3. CASE StdinEnd
  <2>1. taken = avail /\ stdinClosed /\ FromStdin
      BY <1>0, <1>3 DEF StdinEnd, PollInv, InputInv
  <2>2. UNCHANGED <<cfg, sendBuf, sendPos, avail, taken, stdinClosed, wire>>
      BY <1>3 DEF StdinEnd
  <2>3. NothingLost'
      BY <1>0, <2>2 DEF InputInv, NothingLost, Unsent, Input, FromStdin
  <2> QED BY <1>0, <2>1, <2>2, <2>3 DEF InputInv, FromStdin, Input, TypeOK
<1>4. CASE StdinWritten
  <2>1. UNCHANGED <<cfg, sendBuf, sendPos, stdinEof, taken, stdinClosed, wire>>
        /\ avail' = avail + 1 /\ ~stdinClosed
      BY <1>4 DEF StdinWritten
  <2>2. NothingLost'
      BY <1>0, <2>1 DEF InputInv, NothingLost, Unsent, Input, FromStdin
  <2> QED BY <1>0, <2>1, <2>2 DEF InputInv, FromStdin, Input, TypeOK
<1>5. CASE StdinCloses
  <2>1. UNCHANGED <<cfg, sendBuf, sendPos, stdinEof, avail, taken, wire>> /\ stdinClosed'
      BY <1>5 DEF StdinCloses
  <2>2. NothingLost'
      BY <1>0, <2>1 DEF InputInv, NothingLost, Unsent, Input, FromStdin
  <2> QED BY <1>0, <2>1, <2>2 DEF InputInv, FromStdin, Input
<1>6. CASE UNCHANGED <<cfg, sendBuf, sendPos, stdinEof, avail, taken, stdinClosed, wire>>
    BY <1>0, <1>6, InputUnchanged
<1>7. CASE Receive
  <2>1. PICK n \in 1 .. BufSize : Takes(n)
      BY <1>7 DEF Receive, RecvToDecoder, RecvToStdout, RecvStdoutFails, RecvHexDropped
  <2> QED BY <1>6, <2>1 DEF Takes
<1>8. CASE ClientStep \/ PollTimeout
    BY <1>1, <1>2, <1>3, <1>6, <1>7, <1>8
       DEF ClientStep, EnterPoll, Finish, PollReady, PollTimeout, PollFails, SockErr, SockHup,
           SockIdle, RecvEof, RecvReset, ServerEnds, StdinIdle, StdinFails, SendIdle,
           SendFails
<1>9. CASE InputStep \/ SignalStep \/ ServerStep
    BY <1>4, <1>5, <1>6, <1>9
       DEF InputStep, SignalStep, ServerStep, Signal, SignalInPoll, SrvReads, SrvSends,
           SrvCloses, SrvResets
<1>10. CASE Terminated \/ UNCHANGED vars  BY <1>6, <1>10 DEF Terminated, vars
<1> QED BY <1>8, <1>9, <1>10 DEF Next

(* What poll reports is true at that moment.                               *)
LEMMA ReportIsTrue ==
    ASSUME TypeOK, LoopInv, PollReady
    PROVE  PollInv'
<1>1. pc = "poll" /\ ~socketEof /\ PollsIn
    BY DEF PollReady, LoopInv, PollInv, PollsIn
<1>2. rev' \in PollReports /\ pc' = "sock"  BY DEF PollReady
<1>3. UNCHANGED <<sendBuf, stdinEof, socketEof, finSent, srvSent, rcvd, srvFin, srvReset>>
    BY DEF PollReady, upVars, downVars
<1>4. /\ Ready.err = srvReset /\ Ready.hup = HungUp /\ Ready.in = (PollsIn /\ Readable)
      /\ Ready.stdin = (PollsStdin /\ (taken < avail \/ stdinClosed))
    BY DEF Ready
<1>5. CASE rev' = Ready
  <2>1. rev'.in => Readable  BY <1>4, <1>5
  <2>2. ~rev'.err /\ rev'.hup /\ ~rev'.in => srvFin /\ AllRead
      BY <1>1, <1>4, <1>5 DEF HungUp, Readable
  <2>3. rev'.stdin => ~stdinEof /\ sendBuf = <<>>
      BY <1>4, <1>5 DEF PollsStdin
  <2> QED BY <1>1, <1>2, <1>3, <2>1, <2>2, <2>3 DEF PollInv, Readable, AllRead
<1>6. CASE rev' # Ready
  <2>1. HungUp /\ ~srvReset /\ rcvd = Len(srvSent) /\ rev' = [Ready EXCEPT !.in = FALSE]
      BY <1>2, <1>6 DEF PollReports
  <2>2. rev'.in = FALSE /\ rev'.stdin = Ready.stdin  BY <2>1 DEF Ready
  <2>3. srvFin /\ AllRead  BY <2>1 DEF HungUp, AllRead
  <2>4. rev'.stdin => ~stdinEof /\ sendBuf = <<>>
      BY <1>4, <2>2 DEF PollsStdin
  <2> QED BY <1>1, <1>2, <1>3, <2>2, <2>3, <2>4 DEF PollInv, Readable, AllRead
<1> QED BY <1>5, <1>6

LEMMA PollStepwise ==
    ASSUME TypeOK, LoopInv, [Next]_vars
    PROVE  PollInv'
<1> USE DEF clientVars, inputVars, upVars, downVars
<1>0. PollInv  BY DEF LoopInv
<1>1. CASE PollReady  BY <1>1, ReportIsTrue
<1>2. CASE EnterPoll  BY <1>2 DEF EnterPoll, PollInv
<1>3. CASE Receive
  <2>1. PICK n \in 1 .. BufSize : Takes(n) /\ pc' \in {"stdin", "done"}
      BY <1>3 DEF Receive, RecvToDecoder, RecvToStdout, RecvStdoutFails, RecvHexDropped,
                  Exit
  <2> QED BY <1>0, <2>1 DEF Takes, Receiving, PollInv
<1>4. CASE SockErr \/ SockHup \/ SockIdle \/ RecvEof \/ RecvReset
    BY <1>0, <1>4 DEF SockErr, SockHup, SockIdle, RecvEof, RecvReset, Receiving,
                      ServerEnds, Exit, PollInv
<1>5. CASE pc' \in {"top", "send", "done"}  BY <1>5 DEF PollInv
<1>6. CASE \/ Finish \/ PollTimeout \/ PollFails \/ StdinIdle \/ StdinEnd \/ StdinFails \/ SendIdle
           \/ SendFails \/ (\E n \in 1 .. SendCap : StdinData(n))
           \/ (\E n \in 1 .. SendCap : Send(n)) \/ SignalInPoll
    BY <1>5, <1>6 DEF Finish, PollTimeout, PollFails, StdinIdle, StdinData, StdinEnd, StdinFails,
                      SendIdle, Send, SendFails, SignalInPoll, Exit
<1>7. CASE UNCHANGED <<pc, rev, stdinEof, sendBuf, socketEof, srvSent, rcvd, srvFin, srvReset>>
    BY <1>0, <1>7 DEF PollInv, Readable, AllRead
<1>8. CASE StdinWritten \/ StdinCloses \/ Signal \/ SrvReads \/ Terminated
           \/ UNCHANGED vars
    BY <1>7, <1>8 DEF StdinWritten, StdinCloses, Signal, SrvReads, Terminated, vars
<1>9. CASE \E b \in Byte : SrvSends(b)
  <2> PICK b \in Byte : SrvSends(b)  BY <1>9
  <2>1. ~srvFin /\ Len(srvSent') = Len(srvSent) + 1
      BY DEF SrvSends, TypeOK
  <2>2. UNCHANGED <<pc, rev, stdinEof, sendBuf, socketEof, rcvd, srvFin, srvReset>>
      BY DEF SrvSends
  <2>3. Readable => Readable'  BY <2>1, <2>2 DEF Readable, TypeOK
  <2> QED BY <1>0, <2>1, <2>2, <2>3 DEF PollInv
<1>10. CASE SrvCloses
    BY <1>0, <1>10 DEF SrvCloses, PollInv, Readable, AllRead
<1>11. CASE SrvResets
    BY <1>0, <1>11 DEF SrvResets, PollInv, Readable, AllRead
<1> QED BY <1>1, <1>2, <1>3, <1>4, <1>6, <1>8, <1>9, <1>10, <1>11
        DEF Next, ClientStep, InputStep, SignalStep, ServerStep

-----------------------------------------------------------------------------
LEMMA CloseStepwise ==
    ASSUME TypeOK, LoopInv, [Next]_vars
    PROVE  CloseInv'
<1> USE DEF clientVars, inputVars, upVars, downVars
<1>0. PollInv /\ CloseInv /\ InputInv  BY DEF LoopInv
<1>1. CASE EnterPoll
    BY <1>0, <1>1 DEF EnterPoll, CloseInv, HalfCloseDue, MayHalfClose, TypeOK, AllRead
<1>2. CASE Finish
    BY <1>0, <1>2 DEF Finish, CloseInv, HalfCloseDue, MayHalfClose, TypeOK, AllRead, Exit
<1>3. CASE SockHup \/ RecvEof
  <2>1. srvFin /\ AllRead
      BY <1>0, <1>3 DEF SockHup, RecvEof, Receiving, PollInv, Readable, AllRead, TypeOK
  <2>2. pc = "sock" /\ ServerEnds  BY <1>3 DEF SockHup, RecvEof, Receiving
  <2>3. ~Unfinished => sendBuf = <<>> /\ stdinEof
      BY <1>0 DEF Unfinished, InputInv
  <2> QED BY <1>0, <2>1, <2>2, <2>3 DEF ServerEnds, Exit, CloseInv, AllRead
<1>4. CASE Receive
  <2> DEFINE Ends(n) ==
               /\ \/ pc' = "stdin" /\ UNCHANGED exitCode
                  \/ pc' = "done" /\ exitCode' = 5
               /\ socketEof' => socketEof \/ cfg.decode \/ cfg.hasTerm
  <2>1. PICK n \in 1 .. BufSize : Takes(n) /\ Ends(n)
    <3> PICK n \in 1 .. BufSize :
            RecvToDecoder(n) \/ RecvToStdout(n) \/ RecvStdoutFails(n) \/ RecvHexDropped(n)
        BY <1>4 DEF Receive
    <3>1. CASE RecvToDecoder(n)    BY <3>1 DEF RecvToDecoder
    <3>2. CASE RecvToStdout(n)     BY <3>2 DEF RecvToStdout, TermFound
    <3>3. CASE RecvStdoutFails(n)  BY <3>3 DEF RecvStdoutFails, Exit
    <3>4. CASE RecvHexDropped(n)   BY <3>4 DEF RecvHexDropped, TermFound
    <3> QED BY <3>1, <3>2, <3>3, <3>4
  <2>2. ~socketEof  BY <1>0, <2>1 DEF Takes, Receiving, PollInv
  <2>3. UNCHANGED <<cfg, sendBuf, stdinEof, shutdownDone, finSent, interrupted>>
      BY <2>1 DEF Takes
  <2> QED BY <1>0, <2>1, <2>2, <2>3 DEF CloseInv, Takes, Receiving
<1>5. CASE SockErr \/ RecvReset \/ StdinFails \/ SendFails \/ PollTimeout \/ PollFails
    BY <1>0, <1>5 DEF SockErr, RecvReset, StdinFails, SendFails, PollTimeout, PollFails, Exit,
                      CloseInv, AllRead
<1>6. CASE \E n \in 1 .. SendCap : StdinData(n)
    BY <1>0, <1>6 DEF StdinData, PollInv, CloseInv, AllRead
<1>7. CASE StdinEnd
    BY <1>0, <1>7 DEF StdinEnd, PollInv, CloseInv, AllRead
<1>8. CASE \E n \in 1 .. SendCap : Send(n)
    BY <1>0, <1>8 DEF Send, MaySend, CloseInv, AllRead
<1>9. CASE PollReady \/ SockIdle \/ StdinIdle \/ SendIdle \/ SignalInPoll \/ Signal
           \/ StdinWritten \/ StdinCloses \/ SrvReads \/ SrvCloses \/ SrvResets
           \/ Terminated \/ UNCHANGED vars
  <2>1. CASE PollReady      BY <1>0, <2>1 DEF PollReady, CloseInv, AllRead
  <2>2. CASE SockIdle       BY <1>0, <2>2 DEF SockIdle, CloseInv, AllRead
  <2>3. CASE StdinIdle      BY <1>0, <2>3 DEF StdinIdle, CloseInv, AllRead
  <2>4. CASE SendIdle       BY <1>0, <2>4 DEF SendIdle, CloseInv, AllRead
  <2>5. CASE SignalInPoll   BY <1>0, <2>5 DEF SignalInPoll, CloseInv, AllRead
  <2>6. CASE Signal         BY <1>0, <2>6 DEF Signal, CloseInv, AllRead
  <2>7. CASE StdinWritten   BY <1>0, <2>7 DEF StdinWritten, CloseInv, AllRead
  <2>8. CASE StdinCloses    BY <1>0, <2>8 DEF StdinCloses, CloseInv, AllRead
  <2>9. CASE SrvReads       BY <1>0, <2>9 DEF SrvReads, CloseInv, AllRead
  <2>10. CASE SrvCloses     BY <1>0, <2>10 DEF SrvCloses, CloseInv, AllRead
  <2>11. CASE SrvResets     BY <1>0, <2>11 DEF SrvResets, CloseInv, AllRead
  <2>12. CASE Terminated \/ UNCHANGED vars
      BY <1>0, <2>12 DEF Terminated, vars, CloseInv, AllRead
  <2> QED BY <1>9, <2>1, <2>2, <2>3, <2>4, <2>5, <2>6, <2>7, <2>8, <2>9, <2>10,
             <2>11, <2>12
<1>10. CASE \E b \in Byte : SrvSends(b)
    BY <1>0, <1>10 DEF SrvSends, CloseInv, AllRead
<1> QED BY <1>1, <1>2, <1>3, <1>4, <1>5, <1>6, <1>7, <1>8, <1>9, <1>10
        DEF Next, ClientStep, InputStep, SignalStep, ServerStep

-----------------------------------------------------------------------------
(* The loop invariant holds throughout: Init establishes its three parts   *)
(* and every step keeps each of them.                                      *)
THEOREM LoopInvariant == Spec => [](TypeOK /\ LoopInv)
<1>1. Init => TypeOK /\ LoopInv  BY InitType, InitLoop
<1>2. TypeOK /\ LoopInv /\ [Next]_vars => (TypeOK /\ LoopInv)'
  <2> SUFFICES ASSUME TypeOK, LoopInv, [Next]_vars PROVE (TypeOK /\ LoopInv)'
      OBVIOUS
  <2>1. TypeOK'  BY NextType
  <2>2. InputInv' /\ PollInv' /\ CloseInv'
      BY InputStepwise, PollStepwise, CloseStepwise
  <2> QED BY <2>1, <2>2 DEF LoopInv
<1> QED BY <1>1, <1>2, PTL DEF Spec

(* Partial sends, refused sends and reads of stdin in between never lose,  *)
(* repeat or reorder a byte of the input.                                  *)
THEOREM NothingEverLost == Spec => []NothingLost
<1>1. LoopInv => NothingLost  BY DEF LoopInv, InputInv
<1> QED BY <1>1, LoopInvariant, PTL

(* Once everything taken has been sent, the wire holds all of the supply.  *)
LEMMA AllSent ==
    ASSUME TypeOK, LoopInv, stdinEof, sendBuf = <<>>
    PROVE  wire = Supplied /\ (FromStdin => stdinClosed)
<1>1. sendPos = 0  BY DEF TypeOK
<1>2. Unsent = <<>>  BY <1>1, EmptyUnsent
<1>3. wire \in Seq(Byte)  BY DEF TypeOK
<1>4. wire = SubSeq(Input, 1, taken)
    BY <1>2, <1>3, ConcatEmptySeq DEF LoopInv, InputInv, NothingLost
<1>5. CASE FromStdin
  <2>1. taken = avail /\ stdinClosed /\ Input = cfg.data
      BY <1>5 DEF LoopInv, InputInv, Input
  <2> QED BY <1>4, <1>5, <2>1 DEF Supplied
<1>6. CASE ~FromStdin
  <2>1. taken = Len(Input) /\ Supplied = Input
      BY <1>6 DEF LoopInv, InputInv, Supplied
  <2>2. Input \in Seq(Byte)  BY InputType DEF TypeOK
  <2> QED BY <1>4, <1>6, <2>1, <2>2, SubSeqFull
<1> QED BY <1>5, <1>6

(* shutdown(SHUT_WR) comes behind the last byte of the input, and never    *)
(* with -D or -T.                                                          *)
THEOREM HalfCloseComesLast == Spec => []HalfCloseIsLast
<1>1. TypeOK /\ LoopInv => HalfCloseIsLast
  <2> SUFFICES ASSUME TypeOK, LoopInv, finSent
               PROVE  stdinEof /\ ~cfg.decode /\ ~cfg.hasTerm /\ wire = Supplied
      BY DEF HalfCloseIsLast
  <2>1. stdinEof /\ sendBuf = <<>> /\ ~cfg.decode /\ ~cfg.hasTerm
      BY DEF LoopInv, CloseInv
  <2> QED BY <2>1, AllSent
<1> QED BY <1>1, LoopInvariant, PTL

(* Exit code 0 without a signal, -T or -D: everything was sent, half-closed*)
(* and answered, and the answer was received to its end.                   *)
THEOREM CleanExitIsComplete == Spec => []CleanExit
<1>1. TypeOK /\ LoopInv => CleanExit
  <2> SUFFICES ASSUME TypeOK, LoopInv, exitCode = 0, ~interrupted,
                      ~cfg.decode, ~cfg.hasTerm
               PROVE  /\ wire = Supplied /\ (FromStdin => stdinClosed) /\ finSent
                      /\ srvFin /\ rcvd = Len(srvSent)
      BY DEF CleanExit
  <2>1. finSent /\ srvFin /\ AllRead  BY DEF LoopInv, CloseInv
  <2>2. stdinEof /\ sendBuf = <<>>  BY <2>1 DEF LoopInv, CloseInv
  <2> QED BY <2>1, <2>2, AllSent DEF AllRead
<1> QED BY <1>1, LoopInvariant, PTL

-----------------------------------------------------------------------------
LEMMA BuffersStepwise ==
    ASSUME TypeOK, BuffersFit, [Next]_vars
    PROVE  BuffersFit'
<1> USE DEF clientVars, inputVars, upVars, downVars
<1>1. CASE \E n \in 1 .. SendCap : StdinData(n)
  <2> PICK n \in 1 .. SendCap : StdinData(n)  BY <1>1
  <2>1. n \in Nat /\ n >= 1 /\ n <= SendCap /\ taken \in Nat /\ avail \in Nat
        /\ taken + n <= avail /\ avail <= Len(cfg.data) /\ cfg.data \in Seq(Byte)
      BY ByteFacts DEF StdinData, Least, TypeOK, ConfigType
  <2>2. sendBuf' = SubSeq(cfg.data, taken + 1, taken + n) /\ hsmAccum' = hsmAccum
      BY DEF StdinData
  <2>3. Len(sendBuf') = n
    <3>1. /\ taken + 1 \in Nat /\ taken + 1 >= 1 /\ taken + n \in Nat
          /\ taken + n <= Len(cfg.data) /\ taken + 1 <= taken + n
        BY <2>1
    <3>2. Len(sendBuf') = (taken + n) - (taken + 1) + 1
        BY <2>1, <2>2, <3>1, SubSeqProps
    <3> QED BY <2>1, <3>2
  <2> QED BY <2>1, <2>2, <2>3 DEF BuffersFit
<1>2. CASE \E n \in 1 .. SendCap : Send(n)
  <2>1. (sendBuf' = sendBuf \/ sendBuf' = <<>>) /\ hsmAccum' = hsmAccum
      BY <1>2 DEF Send
  <2>2. Len(<<>>) = 0 /\ 0 <= SendCap  BY ByteFacts
  <2> QED BY <2>1, <2>2 DEF BuffersFit
<1>3. CASE Receive
  <2> PICK n \in 1 .. BufSize :
          RecvToDecoder(n) \/ RecvToStdout(n) \/ RecvStdoutFails(n) \/ RecvHexDropped(n)
      BY <1>3 DEF Receive
  <2>1. sendBuf' = sendBuf
      BY DEF RecvToDecoder, RecvToStdout, RecvStdoutFails, RecvHexDropped, Takes
  <2>2. CASE hsmAccum' = hsmAccum  BY <2>1, <2>2 DEF BuffersFit
  <2>3. CASE RecvToDecoder(n)
    <3> DEFINE s == ToProcess(Chunk(n))
    <3>1. n \in Nat /\ n <= Len(srvSent) - rcvd
        BY <2>3, ByteFacts DEF RecvToDecoder, Takes, Least, TypeOK
    <3>2. s \in Seq(Byte) /\ hsmAccum \in Seq(Byte)  BY <3>1, ChunkType DEF TypeOK
    <3>3. hsmAccum' = Accumulated(s)  BY <2>3 DEF RecvToDecoder
    <3> HIDE DEF s
    <3>4. Len(hsmAccum \o s) = Len(hsmAccum) + Len(s)  BY <3>2, ConcatProps
    <3> QED BY <2>1, <3>3, <3>4 DEF Accumulated, BuffersFit
  <2> QED BY <2>2, <2>3 DEF RecvToStdout, RecvStdoutFails, RecvHexDropped
<1>4. CASE UNCHANGED <<sendBuf, hsmAccum>>  BY <1>4 DEF BuffersFit
<1>5. CASE ClientStep \/ PollTimeout
    BY <1>1, <1>2, <1>3, <1>4, <1>5
       DEF ClientStep, EnterPoll, Finish, PollReady, PollTimeout, PollFails, SockErr, SockHup,
           SockIdle, RecvEof, RecvReset, ServerEnds, StdinIdle, StdinEnd, StdinFails,
           SendIdle, SendFails
<1>6. CASE InputStep \/ SignalStep \/ ServerStep
    BY <1>4, <1>6
       DEF InputStep, SignalStep, ServerStep, StdinWritten, StdinCloses, Signal,
           SignalInPoll, SrvReads, SrvSends, SrvCloses, SrvResets
<1>7. CASE Terminated \/ UNCHANGED vars  BY <1>4, <1>7 DEF Terminated, vars
<1> QED BY <1>5, <1>6, <1>7 DEF Next

(* send_buf and hsm_accum_buf are never overrun: not by a framed payload,  *)
(* not by a read of stdin, not by a response of any length under -D.       *)
THEOREM BuffersNeverOverrun == Spec => []BuffersFit
<1>1. Init => BuffersFit
  <2> SUFFICES ASSUME Init PROVE BuffersFit  OBVIOUS
  <2>1. cfg \in ConfigType  BY OneShotAssumption DEF Init
  <2>2. Len(<<>>) = 0 /\ 0 <= SendCap  BY ByteFacts
  <2>3. Len(sendBuf) <= SendCap  BY <2>1, <2>2, InputType DEF Init
  <2> QED BY <2>2, <2>3 DEF Init, BuffersFit
<1>2. TypeOK /\ BuffersFit /\ [Next]_vars => BuffersFit'  BY BuffersStepwise
<1> QED BY <1>1, <1>2, TypeCorrect, PTL DEF Spec

-----------------------------------------------------------------------------
(***************************************************************************)
(* What is made of the response.                                           *)
(***************************************************************************)

(* Why the wait for a response under -T or -D is over.                     *)
WaitOver ==
    \/ TermFound(Received)
    \/ cfg.decode /\ (FrameComplete(Received) \/ Len(Received) > SendCap)
    \/ srvFin /\ AllRead

(* What has been made of the response so far: it is on stdout or in the    *)
(* buffer of -D, and the loop goes on only when more of it is wanted.      *)
OutputInv ==
    /\ OutputIsResponse
    /\ pc # "done" /\ ~socketEof =>
          /\ ~TermFound(Received)
          /\ cfg.decode => hsmAccum = Received /\ ~FrameComplete(Received)
    /\ socketEof /\ (cfg.decode \/ cfg.hasTerm) => WaitOver

LEMMA ConcatOfBytes ==
    ASSUME NEW s \in Seq(Byte), NEW t \in Seq(Byte)
    PROVE  /\ s \o t \in Seq(Byte) /\ Len(s \o t) = Len(s) + Len(t)
           /\ Len(s) \in Nat /\ Len(t) \in Nat
           /\ \A i \in 1 .. Len(s) : (s \o t)[i] = s[i]
           /\ \A i \in 1 .. Len(t) : (s \o t)[Len(s) + i] = t[i]
OBVIOUS

(* A part of a sequence, with another behind it.                           *)
LEMMA PartOfConcat ==
    ASSUME NEW s \in Seq(Byte), NEW t \in Seq(Byte), NEW k \in 0 .. Len(t)
    PROVE  s \o SubSeq(t, 1, k) = SubSeq(s \o t, 1, Len(s) + k)
<1>1. /\ s \o t \in Seq(Byte) /\ Len(s \o t) = Len(s) + Len(t)
      /\ Len(s) \in Nat /\ Len(t) \in Nat
    BY ConcatOfBytes
<1>2. SubSeq(s \o t, 1, Len(s)) = s  BY <1>1, ConcatProps
<1>3. CASE k = 0
  <2>1. SubSeq(t, 1, 0) = <<>>  BY SubSeqEmpty
  <2>2. s \o <<>> = s  BY ConcatEmptySeq
  <2> QED BY <1>1, <1>2, <1>3, <2>1, <2>2
<1>4. CASE k # 0
  <2>1. /\ 1 \in 1 .. Len(s \o t) + 1 /\ Len(s) \in (1 - 1) .. Len(s \o t)
        /\ Len(s) + k \in Len(s) .. Len(s \o t)
      BY <1>1
  <2>2. SubSeq(s \o t, 1, Len(s)) \o SubSeq(s \o t, Len(s) + 1, Len(s) + k)
          = SubSeq(s \o t, 1, Len(s) + k)
      BY <1>1, <2>1, ConcatAdjacentSubSeq
  <2>3. /\ Len(s) + 1 \in Len(s) + 1 .. Len(s) + Len(t)
        /\ Len(s) + k \in Len(s) + 1 .. Len(s) + Len(t)
        /\ Len(s) + 1 - Len(s) = 1 /\ Len(s) + k - Len(s) = k
      BY <1>1, <1>4
  <2>4. SubSeq(s \o t, Len(s) + 1, Len(s) + k)
          = SubSeq(t, Len(s) + 1 - Len(s), Len(s) + k - Len(s))
      BY <2>3, SubSeqOfConcat2
  <2> QED BY <1>2, <2>2, <2>3, <2>4
<1> QED BY <1>3, <1>4

LEMMA PartOfAppend ==
    ASSUME NEW s \in Seq(Byte), NEW b \in Byte, NEW k \in 0 .. Len(s)
    PROVE  SubSeq(Append(s, b), 1, k) = SubSeq(s, 1, k)
<1>1. Append(s, b) = s \o <<b>> /\ <<b>> \in Seq(Byte)  BY AppendIsConcat
<1>2. Len(s) \in Nat  OBVIOUS
<1>3. CASE k = 0
  <2>1. SubSeq(Append(s, b), 1, 0) = <<>> /\ SubSeq(s, 1, 0) = <<>>  BY SubSeqEmpty
  <2> QED BY <1>3, <2>1
<1>4. CASE k # 0
  <2>1. 1 \in 1 .. Len(s) /\ k \in 1 .. Len(s)  BY <1>2, <1>4
  <2> QED BY <1>1, <2>1, SubSeqOfConcat1
<1> QED BY <1>3, <1>4

(* The first -T byte of a sequence, where it has one.                      *)
LEMMA FirstTermIs ==
    ASSUME NEW s \in Seq(Byte), TermAt(s) # {}
    PROVE  /\ FirstTerm(s) \in TermAt(s) /\ FirstTerm(s) \in 1 .. Len(s)
           /\ \A j \in TermAt(s) : FirstTerm(s) <= j
<1>1. TermAt(s) \subseteq Nat /\ TermAt(s) \subseteq 1 .. Len(s)  BY DEF TermAt
<1>2. \E i \in TermAt(s) : \A j \in TermAt(s) : i <= j  BY <1>1, LeastElement
<1>3. FirstTerm(s) \in TermAt(s) /\ \A j \in TermAt(s) : FirstTerm(s) <= j
    BY <1>2 DEF FirstTerm
<1> QED BY <1>1, <1>3

(* The -T byte is looked for in each chunk; that finds the first of all.   *)
LEMMA TermOfConcat ==
    ASSUME NEW s \in Seq(Byte), NEW t \in Seq(Byte), ~TermFound(s)
    PROVE  /\ TermFound(s \o t) <=> TermFound(t)
           /\ ToProcess(s \o t) = s \o ToProcess(t)
<1>1. /\ s \o t \in Seq(Byte) /\ Len(s \o t) = Len(s) + Len(t)
      /\ Len(s) \in Nat /\ Len(t) \in Nat
      /\ \A i \in 1 .. Len(s) : (s \o t)[i] = s[i]
      /\ \A i \in 1 .. Len(t) : (s \o t)[Len(s) + i] = t[i]
    BY ConcatOfBytes
<1>2. CASE ~cfg.hasTerm  BY <1>2 DEF TermFound, ToProcess
<1>3. CASE cfg.hasTerm
  <2>1. \A i \in 1 .. Len(s) : s[i] # TermChar
      BY <1>3 DEF TermFound, TermAt
  <2>2. ASSUME NEW i \in 1 .. Len(t), t[i] = TermChar PROVE Len(s) + i \in TermAt(s \o t)
      BY <1>1, <2>2 DEF TermAt
  <2>3. ASSUME NEW i \in TermAt(s \o t)
        PROVE  i - Len(s) \in TermAt(t) /\ i \in Nat
    <3>1. i \in 1 .. Len(s) + Len(t) /\ (s \o t)[i] = TermChar  BY <1>1 DEF TermAt
    <3>2. i > Len(s)
      <4> SUFFICES ASSUME i <= Len(s) PROVE FALSE  BY <1>1, <3>1
      <4>1. i \in 1 .. Len(s)  BY <1>1, <3>1
      <4> QED BY <1>1, <2>1, <3>1, <4>1
    <3>3. i - Len(s) \in 1 .. Len(t) /\ Len(s) + (i - Len(s)) = i  BY <1>1, <3>1, <3>2
    <3>4. t[i - Len(s)] = TermChar  BY <1>1, <3>1, <3>3
    <3> QED BY <3>1, <3>3, <3>4 DEF TermAt
  <2>4. TermAt(s \o t) # {} <=> TermAt(t) # {}
    <3>1. ASSUME NEW i \in TermAt(t) PROVE TermAt(s \o t) # {}
        BY <2>2 DEF TermAt
    <3> QED BY <2>3, <3>1
  <2>5. CASE TermAt(t) = {}
    <3>1. ToProcess(s \o t) = s \o t /\ ToProcess(t) = t
        BY <2>4, <2>5 DEF ToProcess, TermFound
    <3> QED BY <2>4, <3>1 DEF TermFound
  <2>6. CASE TermAt(t) # {}
    <3> DEFINE f == FirstTerm(t)
               g == FirstTerm(s \o t)
    <3>1. f \in TermAt(t) /\ f \in 1 .. Len(t) /\ \A j \in TermAt(t) : f <= j
        BY <2>6, FirstTermIs
    <3>2. g \in TermAt(s \o t) /\ \A j \in TermAt(s \o t) : g <= j
        BY <1>1, <2>4, <2>6, FirstTermIs
    <3> HIDE DEF f, g
    <3>3. Len(s) + f \in TermAt(s \o t)
        BY <2>2, <3>1 DEF TermAt
    <3>4. g - Len(s) \in TermAt(t) /\ g \in Nat  BY <2>3, <3>2
    <3>5. g = Len(s) + f
      <4>1. g <= Len(s) + f  BY <3>2, <3>3
      <4>2. f <= g - Len(s)  BY <3>1, <3>4
      <4> QED BY <1>1, <3>1, <3>4, <4>1, <4>2
    <3>6. ToProcess(s \o t) = SubSeq(s \o t, 1, g)
        BY <1>3, <2>4, <2>6 DEF ToProcess, TermFound, g
    <3>7. ToProcess(t) = SubSeq(t, 1, f)
        BY <1>3, <2>6 DEF ToProcess, TermFound, f
    <3>8. SubSeq(s \o t, 1, Len(s) + f) = s \o SubSeq(t, 1, f)
        BY <1>1, <3>1, PartOfConcat
    <3> QED BY <1>3, <2>4, <2>6, <3>5, <3>6, <3>7, <3>8 DEF TermFound
  <2> QED BY <2>5, <2>6
<1> QED BY <1>2, <1>3

(* A frame that is complete stays so, whatever follows it.                 *)
LEMMA CompleteStays ==
    ASSUME NEW s \in Seq(Byte), NEW t \in Seq(Byte), FrameComplete(s)
    PROVE  FrameComplete(s \o t)
<1>1. /\ s \o t \in Seq(Byte) /\ Len(s \o t) = Len(s) + Len(t)
      /\ Len(s) \in Nat /\ Len(t) \in Nat
      /\ \A i \in 1 .. Len(s) : (s \o t)[i] = s[i]
    BY ConcatOfBytes
<1>2. Len(s) >= 2 /\ Len(s) >= ExpectedTotal(s)  BY DEF FrameComplete
<1>3. ExpectedTotal(s \o t) = ExpectedTotal(s) /\ ExpectedTotal(s) \in Int
  <2>1. (s \o t)[1] = s[1] /\ (s \o t)[2] = s[2]  BY <1>1, <1>2
  <2>2. s[1] \in Byte /\ s[2] \in Byte  BY <1>1, <1>2
  <2>3. s[1] * Radix \in Int /\ s[2] \in Int
      BY <2>2, FramingAssumption DEF Byte
  <2> QED BY <2>1, <2>3 DEF ExpectedTotal
<1> QED BY <1>1, <1>2, <1>3 DEF FrameComplete

(* What the loop keeps of a chunk, and what is left of it.                 *)
LEMMA ToProcessIsPrefix ==
    ASSUME NEW s \in Seq(Byte)
    PROVE  /\ ToProcess(s) \in Seq(Byte) /\ Len(ToProcess(s)) <= Len(s)
           /\ Len(ToProcess(s)) \in Nat
           /\ \E rest \in Seq(Byte) : s = ToProcess(s) \o rest
<1>1. CASE ~TermFound(s)
  <2>1. ToProcess(s) = s  BY <1>1 DEF ToProcess
  <2>2. s \o <<>> = s /\ <<>> \in Seq(Byte)  BY ConcatEmptySeq
  <2>3. Len(s) \in Nat /\ Len(s) <= Len(s)  OBVIOUS
  <2>4. \E rest \in Seq(Byte) : s = ToProcess(s) \o rest
    <3>1. s = ToProcess(s) \o <<>>  BY <2>1, <2>2
    <3> QED BY <2>2, <3>1
  <2> QED BY <2>1, <2>3, <2>4
<1>2. CASE TermFound(s)
  <2> DEFINE f == FirstTerm(s)
  <2>1. f \in 1 .. Len(s)  BY <1>2, FirstTermIs DEF TermFound
  <2>2. ToProcess(s) = SubSeq(s, 1, f)  BY <1>2 DEF ToProcess
  <2> HIDE DEF f
  <2>3. Len(s) \in Nat  OBVIOUS
  <2>4. /\ 1 \in 1 .. Len(s) + 1 /\ f \in (1 - 1) .. Len(s) /\ Len(s) \in f .. Len(s)
      BY <2>1, <2>3
  <2>5. SubSeq(s, 1, f) \o SubSeq(s, f + 1, Len(s)) = SubSeq(s, 1, Len(s))
      BY <2>4, ConcatAdjacentSubSeq
  <2>6. SubSeq(s, 1, f) \in Seq(Byte) /\ SubSeq(s, f + 1, Len(s)) \in Seq(Byte)
        /\ Len(SubSeq(s, 1, f)) = f
    <3>1. f \in Nat /\ f + 1 \in Nat /\ f + 1 >= 1 /\ 1 <= f /\ f <= Len(s)  BY <2>1, <2>3
    <3>2. f - 1 + 1 = f  BY <3>1
    <3> QED BY <2>3, <3>1, <3>2, SubSeqProps
  <2>7. SubSeq(s, 1, Len(s)) = s  BY SubSeqFull
  <2>8. \E rest \in Seq(Byte) : s = ToProcess(s) \o rest
    <3>1. s = ToProcess(s) \o SubSeq(s, f + 1, Len(s))  BY <2>2, <2>5, <2>7
    <3> QED BY <2>6, <3>1
  <2>9. Len(ToProcess(s)) = f  BY <2>2, <2>6
  <2> QED BY <2>1, <2>2, <2>3, <2>6, <2>8, <2>9
<1> QED BY <1>1, <1>2

-----------------------------------------------------------------------------
LEMMA ReceivedType ==
    ASSUME TypeOK
    PROVE  /\ Received \in Seq(Byte) /\ Len(Received) = rcvd /\ rcvd \in Nat
           /\ Len(srvSent) \in Nat /\ rcvd <= Len(srvSent)
           /\ AllRead => Received = srvSent
<1>1. srvSent \in Seq(Byte) /\ rcvd \in 0 .. Len(srvSent) /\ Len(srvSent) \in Nat
    BY DEF TypeOK
<1>2. Received \in Seq(Byte) /\ Len(Received) = IF 1 <= rcvd THEN rcvd - 1 + 1 ELSE 0
    BY <1>1, SubSeqProps DEF Received
<1>3. AllRead => Received = srvSent  BY <1>1, SubSeqFull DEF AllRead, Received
<1> QED BY <1>1, <1>2, <1>3

(* recv puts its chunk behind what was received.                           *)
LEMMA TakesAppends ==
    ASSUME TypeOK, NEW n \in 1 .. BufSize, Takes(n)
    PROVE  /\ Chunk(n) \in Seq(Byte) /\ Chunk(n) # <<>>
           /\ Received' = Received \o Chunk(n)
           /\ n <= Len(srvSent) - rcvd
<1>1. n \in Nat /\ n >= 1 /\ n <= Len(srvSent) - rcvd
    BY ByteFacts DEF Takes, Least, TypeOK
<1>2. srvSent \in Seq(Byte) /\ rcvd \in Nat /\ Len(srvSent) \in Nat  BY DEF TypeOK
<1>3. Chunk(n) \in Seq(Byte)  BY <1>1, ChunkType
<1>4. Received' = SubSeq(srvSent, 1, rcvd + n)  BY DEF Takes, Received
<1>5. Received' = Received \o Chunk(n)
  <2>1. /\ 1 \in 1 .. Len(srvSent) + 1 /\ rcvd \in (1 - 1) .. Len(srvSent)
        /\ rcvd + n \in rcvd .. Len(srvSent)
      BY <1>1, <1>2
  <2>2. SubSeq(srvSent, 1, rcvd) \o SubSeq(srvSent, rcvd + 1, rcvd + n)
          = SubSeq(srvSent, 1, rcvd + n)
      BY <1>2, <2>1, ConcatAdjacentSubSeq
  <2> QED BY <1>4, <2>2 DEF Received, Chunk
<1>6. Chunk(n) # <<>>
  <2>1. rcvd + 1 \in Nat /\ rcvd + n \in Nat /\ rcvd + 1 >= 1 /\ rcvd + 1 <= rcvd + n
        /\ rcvd + n <= Len(srvSent)
      BY <1>1, <1>2
  <2>2. Len(Chunk(n)) = (rcvd + n) - (rcvd + 1) + 1
      BY <1>2, <2>1, SubSeqProps DEF Chunk
  <2>3. Len(Chunk(n)) = n  BY <1>1, <1>2, <2>2
  <2> QED BY <1>1, <2>3
<1> QED BY <1>1, <1>3, <1>5, <1>6

(* A step that neither receives nor prints.                                *)
LEMMA OutputUnchanged ==
    ASSUME TypeOK, LoopInv, OutputInv, pc # "done",
           UNCHANGED <<cfg, hsmAccum, out>>, Received' = Received,
           exitCode' \in {-1, 0, 4, 5},
           srvFin /\ AllRead => srvFin' /\ AllRead',
           socketEof => socketEof',
           socketEof' => socketEof \/ (srvFin /\ AllRead)
    PROVE  OutputInv'
<1>1. exitCode = -1  BY DEF LoopInv, CloseInv
<1>2. Wanted' = Wanted
    BY DEF Wanted, TermFound, TermAt, FirstTerm
<1>3. OutputIsResponse'
  <2> SUFFICES ASSUME ~cfg.decode, ~cfg.hexOut
               PROVE  IF exitCode' = 5
                      THEN \E k \in 0 .. Len(Received) : out = SubSeq(Wanted, 1, k)
                      ELSE out = Wanted
      BY <1>2 DEF OutputIsResponse
  <2>1. out = Wanted  BY <1>1 DEF OutputInv, OutputIsResponse
  <2>2. Wanted = ToProcess(Received)  BY DEF Wanted, ToProcess
  <2>3. Wanted \in Seq(Byte) /\ Len(Wanted) <= Len(Received) /\ Len(Wanted) \in Nat
        /\ Len(Received) \in Nat
      BY <2>2, ReceivedType, ToProcessIsPrefix
  <2>4. Wanted = SubSeq(Wanted, 1, Len(Wanted))  BY <2>3, SubSeqFull
  <2>5. Len(Wanted) \in 0 .. Len(Received)  BY <2>3
  <2> QED BY <2>1, <2>4, <2>5
<1>4. TermFound(Received)' = TermFound(Received) /\ FrameComplete(Received)' = FrameComplete(Received)
    BY DEF TermFound, TermAt, FrameComplete, ExpectedTotal
<1>5. pc' # "done" /\ ~socketEof' =>
          /\ ~TermFound(Received)'
          /\ cfg'.decode => hsmAccum' = Received' /\ ~FrameComplete(Received)'
    BY <1>4 DEF OutputInv
<1>6. WaitOver => WaitOver'  BY <1>4 DEF WaitOver
<1>7. srvFin /\ AllRead => WaitOver'  BY DEF WaitOver
<1>8. socketEof' /\ (cfg'.decode \/ cfg'.hasTerm) => WaitOver'
    BY <1>6, <1>7 DEF OutputInv
<1> QED BY <1>3, <1>5, <1>8 DEF OutputInv

(* A chunk that was taken for stdout.                                      *)
LEMMA StdoutKeeps ==
    ASSUME TypeOK, LoopInv, OutputInv, NEW n \in 1 .. BufSize,
           RecvToStdout(n) \/ RecvStdoutFails(n) \/ RecvHexDropped(n)
    PROVE  OutputInv'
<1> DEFINE c == Chunk(n)
           s == ToProcess(c)
<1>1. Takes(n) /\ ~cfg.decode /\ cfg' = cfg
    BY DEF RecvToStdout, RecvStdoutFails, RecvHexDropped, Takes
<1>2. pc = "sock" /\ ~socketEof /\ exitCode = -1
    BY <1>1 DEF Takes, Receiving, LoopInv, PollInv, CloseInv
<1>3. /\ c \in Seq(Byte) /\ Received' = Received \o c
      /\ Received \in Seq(Byte) /\ ~TermFound(Received)
    BY <1>1, <1>2, TakesAppends, ReceivedType DEF OutputInv
<1>4. /\ TermFound(Received)' <=> TermFound(c)
      /\ Wanted' = Received \o s
  <2>1. /\ TermFound(Received \o c) <=> TermFound(c)
        /\ ToProcess(Received \o c) = Received \o s
      BY <1>3, TermOfConcat
  <2>2. Wanted' = ToProcess(Received \o c)
      BY <1>1, <1>3 DEF Wanted, ToProcess, TermFound, TermAt, FirstTerm
  <2>3. TermFound(Received)' <=> TermFound(Received \o c)
      BY <1>1, <1>3 DEF TermFound, TermAt
  <2> QED BY <2>1, <2>2, <2>3
<1>5. Wanted = Received  BY <1>3 DEF Wanted
<1>6. s \in Seq(Byte) /\ Len(s) <= Len(c) /\ Len(s) \in Nat  BY <1>3, ToProcessIsPrefix
<1> HIDE DEF c, s
<1>7. Len(Received \o c) = Len(Received) + Len(c) /\ Len(Received) \in Nat /\ Len(c) \in Nat
    BY <1>3, ConcatOfBytes
<1>8. OutputIsResponse'
  <2> SUFFICES ASSUME ~cfg.hexOut
               PROVE  IF exitCode' = 5
                      THEN \E k \in 0 .. Len(Received') : out' = SubSeq(Wanted', 1, k)
                      ELSE out' = Wanted'
      BY <1>1 DEF OutputIsResponse
  <2>1. out = Received  BY <1>1, <1>2, <1>5 DEF OutputInv, OutputIsResponse
  <2>2. CASE RecvToStdout(n)
    <3>1. out' = out \o s /\ exitCode' = exitCode  BY <2>2 DEF RecvToStdout, c, s
    <3> QED BY <1>2, <1>4, <2>1, <3>1
  <2>3. CASE RecvStdoutFails(n)
    <3>1. PICK k \in 0 .. (Len(s) - 1) : out' = out \o SubSeq(s, 1, k)
        BY <2>3 DEF RecvStdoutFails, c, s
    <3>2. exitCode' = 5  BY <2>3 DEF RecvStdoutFails, Exit
    <3>3. Received \o SubSeq(s, 1, k) = SubSeq(Received \o s, 1, Len(Received) + k)
        BY <1>3, <1>6, <3>1, PartOfConcat
    <3>4. Len(Received) + k \in 0 .. Len(Received')  BY <1>3, <1>6, <1>7, <3>1
    <3>5. out' = SubSeq(Wanted', 1, Len(Received) + k)  BY <1>4, <2>1, <3>1, <3>3
    <3> QED BY <3>2, <3>4, <3>5
  <2>4. CASE RecvHexDropped(n)  BY <2>4 DEF RecvHexDropped
  <2> QED BY <2>2, <2>3, <2>4
<1>9. pc' # "done" => (socketEof' <=> TermFound(Received)')
    BY <1>4 DEF RecvToStdout, RecvStdoutFails, RecvHexDropped, Exit, c
<1>10. pc' = "done" => ~socketEof'
    BY <1>2 DEF RecvToStdout, RecvStdoutFails, RecvHexDropped, Exit
<1>11. socketEof' => WaitOver'  BY <1>9, <1>10 DEF WaitOver
<1> QED BY <1>1, <1>8, <1>9, <1>11 DEF OutputInv

(* A chunk that was taken for the analysis of -D.                          *)
LEMMA DecoderKeeps ==
    ASSUME TypeOK, LoopInv, OutputInv, NEW n \in 1 .. BufSize, RecvToDecoder(n)
    PROVE  OutputInv'
<1> DEFINE c == Chunk(n)
           s == ToProcess(c)
<1>1. Takes(n) /\ cfg.decode /\ cfg' = cfg  BY DEF RecvToDecoder, Takes
<1>2. pc = "sock" /\ ~socketEof /\ pc' = "stdin"
    BY <1>1 DEF RecvToDecoder, Takes, Receiving, LoopInv, PollInv
<1>3. /\ c \in Seq(Byte) /\ Received' = Received \o c
      /\ Received \in Seq(Byte) /\ ~TermFound(Received) /\ hsmAccum = Received
    BY <1>1, <1>2, TakesAppends, ReceivedType DEF OutputInv
<1>4. TermFound(Received)' <=> TermFound(c)
  <2>1. TermFound(Received \o c) <=> TermFound(c)  BY <1>3, TermOfConcat
  <2>2. TermFound(Received)' <=> TermFound(Received \o c)
      BY <1>1, <1>3 DEF TermFound, TermAt
  <2> QED BY <2>1, <2>2
<1>5. PICK rest \in Seq(Byte) : c = s \o rest  BY <1>3, ToProcessIsPrefix
<1>6. s \in Seq(Byte) /\ Len(s) <= Len(c) /\ Len(s) \in Nat /\ Len(c) \in Nat
    BY <1>3, ToProcessIsPrefix
<1>7. ~TermFound(c) => s = c  BY DEF ToProcess
<1>8. /\ hsmAccum' = Accumulated(s)
      /\ socketEof' = (DecodeEnds(s) \/ TermFound(c))
    BY DEF RecvToDecoder
<1> HIDE DEF c, s
<1>9. /\ Received \o s \in Seq(Byte) /\ Len(Received \o s) = Len(Received) + Len(s)
      /\ Len(Received \o c) = Len(Received) + Len(c) /\ Len(Received) \in Nat
    BY <1>3, <1>6, ConcatOfBytes
<1>10. Received \o c = (Received \o s) \o rest
    BY <1>3, <1>5, <1>6, BytesAssociate
<1>11. ASSUME socketEof' PROVE WaitOver'
  <2>1. CASE TermFound(c)  BY <1>4, <2>1 DEF WaitOver
  <2>2. CASE Len(hsmAccum) + Len(s) > SendCap
    <3>1. Len(Received') > SendCap
        BY <1>3, <1>6, <1>9, <2>2, ByteFacts
    <3> QED BY <1>1, <3>1 DEF WaitOver
  <2>3. CASE FrameComplete(hsmAccum \o s)
    <3>1. FrameComplete((Received \o s) \o rest)
        BY <1>3, <1>9, <2>3, CompleteStays
    <3>2. FrameComplete(Received')  BY <1>3, <1>10, <3>1
    <3>3. FrameComplete(Received)'  BY <3>2 DEF FrameComplete, ExpectedTotal
    <3> QED BY <1>1, <3>3 DEF WaitOver
  <2> QED BY <1>8, <1>11, <2>1, <2>2, <2>3 DEF DecodeEnds
<1>12. ASSUME ~socketEof'
       PROVE  /\ ~TermFound(Received)'
              /\ hsmAccum' = Received' /\ ~FrameComplete(Received)'
  <2>1. ~TermFound(c) /\ ~DecodeEnds(s)  BY <1>8, <1>12
  <2>2. hsmAccum' = hsmAccum \o s
    <3>1. ~(Len(hsmAccum) + Len(s) > SendCap)  BY <2>1 DEF DecodeEnds
    <3>2. Len(hsmAccum) \in Nat  BY DEF TypeOK
    <3>3. Len(hsmAccum) + Len(s) <= SendCap  BY <1>6, <3>1, <3>2, ByteFacts
    <3> QED BY <1>8, <3>3 DEF Accumulated
  <2>3. hsmAccum' = Received'  BY <1>3, <1>7, <2>1, <2>2
  <2>4. ~FrameComplete(Received')  BY <2>1, <2>2, <2>3 DEF DecodeEnds
  <2> QED BY <1>4, <2>1, <2>3, <2>4 DEF FrameComplete, ExpectedTotal
<1>13. OutputIsResponse'  BY <1>1 DEF OutputIsResponse
<1> QED BY <1>1, <1>11, <1>12, <1>13 DEF OutputInv

LEMMA OutputStepwise ==
    ASSUME TypeOK, LoopInv, OutputInv, [Next]_vars
    PROVE  OutputInv'
<1> USE DEF clientVars, inputVars, upVars, downVars
<1>0. PollInv /\ CloseInv  BY DEF LoopInv
<1>1. CASE Receive
  <2>1. PICK n \in 1 .. BufSize :
            RecvToDecoder(n) \/ RecvToStdout(n) \/ RecvStdoutFails(n) \/ RecvHexDropped(n)
      BY <1>1 DEF Receive
  <2>2. CASE RecvToDecoder(n)  BY <2>2, DecoderKeeps
  <2>3. CASE RecvToStdout(n) \/ RecvStdoutFails(n) \/ RecvHexDropped(n)
      BY <2>3, StdoutKeeps
  <2> QED BY <2>1, <2>2, <2>3
<1>2. CASE SockHup \/ RecvEof
  <2>1. srvFin /\ AllRead
      BY <1>0, <1>2 DEF SockHup, RecvEof, Receiving, PollInv, Readable, AllRead, TypeOK
  <2>2. /\ UNCHANGED <<cfg, hsmAccum, out, srvSent, rcvd, srvFin>> /\ pc # "done"
        /\ exitCode' \in {exitCode, 5} /\ (socketEof => socketEof')
      BY <1>2 DEF SockHup, RecvEof, Receiving, ServerEnds, Exit
  <2>3. Received' = Received /\ exitCode' \in {-1, 0, 4, 5}
        /\ srvFin' /\ AllRead'
      BY <1>0, <2>1, <2>2 DEF Received, CloseInv, AllRead
  <2> QED BY <2>1, <2>2, <2>3, OutputUnchanged
<1>3. CASE \E b \in Byte : SrvSends(b)
  <2>1. PICK b \in Byte : SrvSends(b)  BY <1>3
  <2>2. /\ pc # "done" /\ ~srvFin /\ srvSent' = Append(srvSent, b)
        /\ UNCHANGED <<cfg, hsmAccum, out, rcvd, exitCode, socketEof>>
      BY <2>1 DEF SrvSends, Running
  <2>3. srvSent \in Seq(Byte) /\ rcvd \in Nat /\ rcvd <= Len(srvSent)  BY DEF TypeOK
  <2>4. SubSeq(Append(srvSent, b), 1, rcvd) = SubSeq(srvSent, 1, rcvd)
      BY <2>3, PartOfAppend
  <2>5. Received' = Received  BY <2>2, <2>4 DEF Received
  <2>6. exitCode' \in {-1, 0, 4, 5}  BY <2>2 DEF TypeOK
  <2> QED BY <2>2, <2>5, <2>6, OutputUnchanged
<1>4. CASE /\ pc # "done" /\ exitCode' \in {exitCode, 0, 4, 5}
           /\ UNCHANGED <<cfg, hsmAccum, out, srvSent, rcvd, socketEof>>
           /\ srvFin => srvFin'
  <2>1. Received' = Received /\ (srvFin /\ AllRead => srvFin' /\ AllRead')
      BY <1>4 DEF Received, AllRead
  <2>2. exitCode' \in {-1, 0, 4, 5}  BY <1>4 DEF TypeOK
  <2> QED BY <1>4, <2>1, <2>2, OutputUnchanged
<1>5. CASE EnterPoll     BY <1>4, <1>5 DEF EnterPoll
<1>6. CASE Finish        BY <1>4, <1>6 DEF Finish, Exit
<1>7. CASE PollReady     BY <1>4, <1>7 DEF PollReady
<1>8. CASE PollTimeout \/ PollFails
      BY <1>4, <1>8 DEF PollTimeout, PollFails, Exit
<1>9. CASE SockErr       BY <1>4, <1>9 DEF SockErr, Exit
<1>10. CASE SockIdle     BY <1>4, <1>10 DEF SockIdle
<1>11. CASE RecvReset    BY <1>4, <1>11 DEF RecvReset, Receiving, Exit
<1>12. CASE StdinIdle    BY <1>4, <1>12 DEF StdinIdle
<1>13. CASE \E n \in 1 .. SendCap : StdinData(n)  BY <1>4, <1>13 DEF StdinData
<1>14. CASE StdinEnd     BY <1>4, <1>14 DEF StdinEnd
<1>15. CASE StdinFails   BY <1>4, <1>15 DEF StdinFails, Exit
<1>16. CASE SendIdle     BY <1>4, <1>16 DEF SendIdle
<1>17. CASE \E n \in 1 .. SendCap : Send(n)  BY <1>4, <1>17 DEF Send
<1>18. CASE SendFails    BY <1>4, <1>18 DEF SendFails, Exit
<1>19. CASE StdinWritten \/ StdinCloses \/ Signal
    BY <1>4, <1>19 DEF StdinWritten, StdinCloses, Signal, Running
<1>20. CASE SignalInPoll BY <1>4, <1>20 DEF SignalInPoll
<1>21. CASE SrvReads \/ SrvCloses \/ SrvResets
    BY <1>4, <1>21 DEF SrvReads, SrvCloses, SrvResets, Running
<1>22. CASE UNCHANGED vars
    BY <1>22 DEF vars, OutputInv, OutputIsResponse, Received, Wanted, TermFound, TermAt,
                 FirstTerm, FrameComplete, ExpectedTotal, WaitOver, AllRead
<1> QED BY <1>1, <1>2, <1>3, <1>5, <1>6, <1>7, <1>8, <1>9, <1>10, <1>11, <1>12, <1>13,
           <1>14, <1>15, <1>16, <1>17, <1>18, <1>19, <1>20, <1>21, <1>22
        DEF Next, ClientStep, InputStep, SignalStep, ServerStep, Terminated

LEMMA InitOutput == Init => OutputInv
<1> SUFFICES ASSUME Init PROVE OutputInv  OBVIOUS
<1>1. /\ srvSent = <<>> /\ rcvd = 0 /\ out = <<>> /\ hsmAccum = <<>> /\ exitCode = -1
      /\ socketEof = FALSE
    BY DEF Init
<1>2. Received = <<>>  BY <1>1, SubSeqEmpty DEF Received
<1>3. Len(<<>>) = 0  OBVIOUS
<1>4. ~TermFound(Received) /\ ~FrameComplete(Received)
    BY <1>2, <1>3 DEF TermFound, TermAt, FrameComplete
<1>5. OutputIsResponse  BY <1>1, <1>2, <1>4 DEF OutputIsResponse, Wanted
<1> QED BY <1>1, <1>2, <1>4, <1>5 DEF OutputInv

(* The loop and what it has made of the response.                          *)
THEOREM OutputInvariant == Spec => [](TypeOK /\ LoopInv /\ OutputInv)
<1>1. Init => TypeOK /\ LoopInv /\ OutputInv  BY InitType, InitLoop, InitOutput
<1>2. TypeOK /\ LoopInv /\ OutputInv /\ [Next]_vars => OutputInv'  BY OutputStepwise
<1> QED BY <1>1, <1>2, LoopInvariant, PTL DEF Spec

(* stdout is the response, up to the -T byte, at every moment; a failed    *)
(* write leaves a prefix of it.                                            *)
THEOREM OutputAlwaysResponse == Spec => []OutputIsResponse
<1>1. OutputInv => OutputIsResponse  BY DEF OutputInv
<1> QED BY <1>1, OutputInvariant, PTL

(* -D and -T never wait for more than they were promised, and end well for *)
(* no other reason.                                                        *)
THEOREM FrameAlwaysEndsWait == Spec => []FrameEndsWait
<1>1. TypeOK /\ LoopInv /\ OutputInv => FrameEndsWait
  <2> SUFFICES ASSUME TypeOK, LoopInv, OutputInv PROVE FrameEndsWait  OBVIOUS
  <2>1. pc = "poll" => ~socketEof  BY DEF LoopInv, PollInv
  <2>2. exitCode = 0 /\ ~interrupted => socketEof  BY DEF LoopInv, CloseInv
  <2> QED BY <2>1, <2>2 DEF OutputInv, FrameEndsWait, WaitOver
<1> QED BY <1>1, OutputInvariant, PTL

-----------------------------------------------------------------------------
(***************************************************************************)
(* One-shot mode implements Transfer: the initial states map to initial    *)
(* states, and every step maps to a step or a stutter.                     *)
(***************************************************************************)

(* The command lines of Transfer.                                          *)
Plain(c) == ~c.decode /\ ~c.hasTerm /\ ~c.hexOut

LEMMA CfgStays == [Next]_vars => cfg' = cfg
BY DEF Next, vars, ClientStep, InputStep, SignalStep, ServerStep, Terminated, EnterPoll,
       Finish, PollReady, PollTimeout, PollFails, SockErr, SockHup, SockIdle, RecvEof, RecvReset,
       ServerEnds, Receive, RecvToDecoder, RecvToStdout, RecvStdoutFails, RecvHexDropped,
       Takes, StdinIdle, StdinData, StdinEnd, StdinFails, SendIdle, Send, SendFails,
       StdinWritten, StdinCloses, Signal, SignalInPoll, SrvReads, SrvSends, SrvCloses,
       SrvResets

(* What Transfer sees of a state.                                          *)
LEMMA Stutters ==
    ASSUME UNCHANGED <<cfg, avail, stdinClosed, wire, finSent, srvSent, srvFin, out>>,
           Outcome' = Outcome
    PROVE  UNCHANGED T!vars
BY DEF T!vars, Supplied, FromStdin, Input

LEMMA RunsOn ==
    /\ pc # "done" => Outcome = "running"
    /\ pc' # "done" => Outcome' = "running"
    /\ pc' = "done" /\ exitCode' # 0 => Outcome' = "failed"
    /\ pc' = "done" /\ exitCode' = 0 => Outcome' = IF interrupted' THEN "stopped" ELSE "ok"
BY DEF Outcome

(* What is on stdout is the beginning of what the server sent.             *)
PrintedIsPrefix ==
    /\ out \in Seq(Byte) /\ Len(out) \in Nat /\ Len(out) <= Len(srvSent)
    /\ out = SubSeq(srvSent, 1, Len(out))

LEMMA PartOfPart ==
    ASSUME NEW s \in Seq(Byte), NEW m \in 0 .. Len(s), NEW k \in 0 .. m
    PROVE  /\ SubSeq(SubSeq(s, 1, m), 1, k) = SubSeq(s, 1, k)
           /\ Len(SubSeq(s, 1, k)) = k
<1>1. Len(s) \in Nat /\ m \in Nat /\ k \in Nat /\ k <= Len(s)  OBVIOUS
<1>2. SubSeq(s, 1, k) \in Seq(Byte) /\ Len(SubSeq(s, 1, k)) = IF 1 <= k THEN k - 1 + 1 ELSE 0
    BY <1>1, SubSeqProps
<1>3. Len(SubSeq(s, 1, k)) = k  BY <1>1, <1>2
<1>4. CASE k = 0
  <2>1. SubSeq(SubSeq(s, 1, m), 1, 0) = <<>> /\ SubSeq(s, 1, 0) = <<>>  BY SubSeqEmpty
  <2> QED BY <1>3, <1>4, <2>1
<1>5. CASE k # 0
  <2> DEFINE i == 1
  <2>1. SubSeq(s, 1, m) \in Seq(Byte)  BY <1>1, SubSeqProps
  <2>2. /\ i \in 1 .. Len(s) /\ m \in 1 .. Len(s)
        /\ i \in 1 .. m - i + 1 /\ k \in 1 .. m - i + 1
      BY <1>1, <1>5
  <2>3. SubSeq(SubSeq(s, i, m), i, k) = SubSeq(s, i + i - 1, i + k - 1)
      BY <2>1, <2>2, SubSeqOfSubSeq
  <2>4. i + i - 1 = 1 /\ i + k - 1 = k  BY <1>1
  <2> QED BY <1>3, <2>3, <2>4
<1> QED BY <1>4, <1>5

LEMMA Printed == TypeOK /\ OutputInv /\ Plain(cfg) => PrintedIsPrefix
<1> SUFFICES ASSUME TypeOK, OutputInv, Plain(cfg) PROVE PrintedIsPrefix  OBVIOUS
<1>1. Wanted = Received  BY DEF Wanted, TermFound, Plain
<1>2. /\ srvSent \in Seq(Byte) /\ Len(srvSent) \in Nat /\ rcvd \in 0 .. Len(srvSent)
      /\ out \in Seq(Byte) /\ Received \in Seq(Byte) /\ Len(Received) = rcvd
    BY ReceivedType DEF TypeOK
<1>3. PICK k \in 0 .. rcvd : out = SubSeq(Received, 1, k)
  <2>1. CASE exitCode = 5
      BY <1>1, <1>2, <2>1 DEF OutputInv, OutputIsResponse, Plain
  <2>2. CASE exitCode # 5
    <3>1. out = Received  BY <1>1, <2>2 DEF OutputInv, OutputIsResponse, Plain
    <3>2. SubSeq(Received, 1, rcvd) = Received  BY <1>2, SubSeqFull
    <3>3. rcvd \in 0 .. rcvd  BY <1>2
    <3> QED BY <3>1, <3>2, <3>3
  <2> QED BY <2>1, <2>2
<1>4. out = SubSeq(srvSent, 1, k) /\ Len(SubSeq(srvSent, 1, k)) = k
    BY <1>2, <1>3, PartOfPart DEF Received
<1> QED BY <1>2, <1>3, <1>4 DEF PrintedIsPrefix

(* Every way to give up is a failure of Transfer.                          *)
LEMMA GivingUpFails ==
    ASSUME TypeOK, OutputInv, Plain(cfg), pc # "done", pc' = "done", exitCode' # 0,
           UNCHANGED <<cfg, avail, stdinClosed, wire, finSent, srvSent, srvFin, out>>
    PROVE  T!Next
<1>1. PrintedIsPrefix  BY Printed
<1>2. T!Advances(out, out', srvSent)
    BY <1>1 DEF PrintedIsPrefix, T!Advances
<1>3. Outcome = "running" /\ Outcome' = "failed"  BY RunsOn
<1>4. T!Fail
    BY <1>2, <1>3 DEF T!Fail, Supplied, FromStdin, Input
<1> QED BY <1>3, <1>4 DEF T!Next

LEMMA EnterPollRefines ==
    ASSUME TypeOK, LoopInv, Plain(cfg), EnterPoll
    PROVE  [T!Next]_(T!vars)
<1>1. /\ UNCHANGED <<cfg, avail, stdinClosed, wire, srvSent, srvFin, out>>
      /\ finSent' = (finSent \/ (HalfCloseDue /\ MayHalfClose))
      /\ pc = "top" /\ pc' = "poll"
    BY DEF EnterPoll, inputVars, downVars
<1>2. Outcome = "running" /\ Outcome' = "running"  BY <1>1, RunsOn
<1>3. CASE finSent' = finSent  BY <1>1, <1>2, <1>3, Stutters
<1>4. CASE finSent' # finSent
  <2>1. ~finSent /\ finSent' = TRUE /\ HalfCloseDue
      BY <1>1, <1>4 DEF TypeOK
  <2>2. wire = Supplied /\ (FromStdin => stdinClosed)
      BY <2>1, AllSent DEF HalfCloseDue
  <2>3. T!MayClose  BY <2>2 DEF T!MayClose
  <2>4. T!HalfClose
      BY <1>1, <1>2, <2>1, <2>3 DEF T!HalfClose, Supplied, FromStdin, Input
  <2> QED BY <1>2, <2>4 DEF T!Next
<1> QED BY <1>3, <1>4

LEMMA FinishRefines ==
    ASSUME TypeOK, LoopInv, OutputInv, Plain(cfg), Finish
    PROVE  T!Next
<1>1. /\ UNCHANGED <<cfg, avail, stdinClosed, wire, srvSent, srvFin, out, interrupted>>
      /\ finSent' = (finSent \/ (HalfCloseDue /\ MayHalfClose))
      /\ pc = "top" /\ pc' = "done" /\ exitCode' = 0 /\ (interrupted \/ socketEof)
    BY DEF Finish, Exit, inputVars, downVars
<1>2. Outcome = "running" /\ Outcome' = IF interrupted THEN "stopped" ELSE "ok"
    BY <1>1, RunsOn
<1>3. finSent \in BOOLEAN /\ HalfCloseDue \in BOOLEAN /\ MayHalfClose = TRUE
    BY DEF TypeOK, HalfCloseDue, MayHalfClose, Plain
<1>4. CASE interrupted
  <2>1. finSent' \in {finSent, finSent \/ T!MayClose}
    <3>1. CASE HalfCloseDue
      <4>1. wire = Supplied /\ (FromStdin => stdinClosed)
          BY <3>1, AllSent DEF HalfCloseDue
      <4>2. T!MayClose  BY <4>1 DEF T!MayClose
      <4> QED BY <1>1, <1>3, <3>1, <4>2
    <3>2. CASE ~HalfCloseDue  BY <1>1, <1>3, <3>2
    <3> QED BY <3>1, <3>2
  <2>2. T!Stop
      BY <1>1, <1>2, <1>4, <2>1 DEF T!Stop, Supplied, FromStdin, Input
  <2> QED BY <1>2, <2>2 DEF T!Next
<1>5. CASE ~interrupted
  <2>1. finSent /\ srvFin /\ AllRead
      BY <1>1, <1>5 DEF LoopInv, CloseInv, Plain
  <2>2. finSent' = finSent  BY <1>1, <1>3, <2>1
  <2>3. out = srvSent
    <3>1. exitCode = -1  BY <1>1 DEF LoopInv, CloseInv
    <3>2. out = Received
        BY <3>1 DEF OutputInv, OutputIsResponse, Wanted, TermFound, Plain
    <3> QED BY <2>1, <3>2, ReceivedType
  <2>4. T!Succeed
      BY <1>1, <1>2, <1>5, <2>1, <2>2, <2>3 DEF T!Succeed, Supplied, FromStdin, Input
  <2> QED BY <1>2, <2>4 DEF T!Next
<1> QED BY <1>4, <1>5

LEMMA ReceiveRefines ==
    ASSUME TypeOK, OutputInv, Plain(cfg), PrintedIsPrefix', pc # "done", Receive
    PROVE  [T!Next]_(T!vars)
<1>1. PICK n \in 1 .. BufSize : RecvToStdout(n) \/ RecvStdoutFails(n)
    BY DEF Receive, RecvToDecoder, RecvHexDropped, Plain
<1>2. Takes(n)  BY <1>1 DEF RecvToStdout, RecvStdoutFails
<1>3. UNCHANGED <<cfg, avail, stdinClosed, wire, finSent, srvSent, srvFin>>
    BY <1>2 DEF Takes, inputVars, upVars
<1>4. Outcome = "running"  BY RunsOn
<1>5. out \in Seq(Byte) /\ Len(out) \in Nat /\ Chunk(n) \in Seq(Byte) /\ Chunk(n) # <<>>
      /\ ToProcess(Chunk(n)) = Chunk(n)
    BY <1>2, TakesAppends DEF TypeOK, ToProcess, TermFound, Plain
<1>6. ASSUME Len(out) <= Len(out') PROVE T!Advances(out, out', srvSent)
    BY <1>3, <1>6 DEF PrintedIsPrefix, T!Advances
<1>7. CASE RecvToStdout(n)
  <2>1. out' = out \o Chunk(n) /\ pc' = "stdin"  BY <1>5, <1>7 DEF RecvToStdout
  <2>2. Len(out') = Len(out) + Len(Chunk(n)) /\ Len(Chunk(n)) >= 1
      BY <1>5, <2>1, ConcatOfBytes
  <2>3. out' # out /\ Len(out) <= Len(out')  BY <1>5, <2>2
  <2>4. Outcome' = "running"  BY <2>1, RunsOn
  <2>5. T!Deliver
      BY <1>3, <1>4, <1>6, <2>3, <2>4 DEF T!Deliver, Supplied, FromStdin, Input
  <2> QED BY <1>4, <2>5 DEF T!Next
<1>8. CASE RecvStdoutFails(n)
  <2>1. PICK k \in 0 .. (Len(Chunk(n)) - 1) : out' = out \o SubSeq(Chunk(n), 1, k)
      BY <1>5, <1>8 DEF RecvStdoutFails
  <2>2. pc' = "done" /\ exitCode' = 5  BY <1>8 DEF RecvStdoutFails, Exit
  <2>3. SubSeq(Chunk(n), 1, k) \in Seq(Byte)  BY <1>5, <2>1, SubSeqProps
  <2>4. Len(out) <= Len(out')
      BY <1>5, <2>1, <2>3, ConcatOfBytes
  <2>5. Outcome' = "failed"  BY <2>2, RunsOn
  <2>6. T!Fail
      BY <1>3, <1>6, <2>4, <2>5 DEF T!Fail, Supplied, FromStdin, Input
  <2> QED BY <1>4, <2>6 DEF T!Next
<1> QED BY <1>1, <1>7, <1>8

LEMMA RestType ==
    ASSUME NEW s \in Seq(Byte), NEW k \in Nat
    PROVE  SubSeq(s, k + 1, Len(s)) \in Seq(Byte)
<1>1. k + 1 \in Nat /\ k + 1 >= 1 /\ Len(s) \in Nat /\ Len(s) <= Len(s)  OBVIOUS
<1> QED BY <1>1, SubSeqProps

LEMMA SendRefines ==
    ASSUME TypeOK, TypeOK', LoopInv, LoopInv', NEW n \in 1 .. SendCap, Send(n)
    PROVE  T!Next
<1>1. /\ UNCHANGED <<cfg, avail, taken, stdinClosed, finSent, srvSent, srvFin, out>>
      /\ pc = "send" /\ pc' = "top" /\ sendBuf # <<>>
      /\ wire' = wire \o SubSeq(Unsent, 1, n)
    BY DEF Send, MaySend, inputVars, downVars
<1>2. Outcome = "running" /\ Outcome' = "running"  BY <1>1, RunsOn
<1>3. ~finSent  BY <1>1 DEF LoopInv, CloseInv
<1>4. n \in Nat /\ n >= 1 /\ n <= Len(Unsent) /\ Unsent \in Seq(Byte)
    BY ByteFacts, UnsentType DEF Send, Least, TypeOK
<1>5. SubSeq(Unsent, 1, n) \in Seq(Byte) /\ Len(SubSeq(Unsent, 1, n)) = n
    BY <1>4, PartOfPart
<1>6. wire \in Seq(Byte) /\ wire' \in Seq(Byte) /\ Len(wire') = Len(wire) + n
      /\ Len(wire) \in Nat
    BY <1>1, <1>5, ConcatOfBytes DEF TypeOK
<1>7. Supplied \in Seq(Byte) /\ Supplied' = Supplied
      /\ Len(wire') <= Len(Supplied) /\ wire' = SubSeq(Supplied, 1, Len(wire'))
  <2>1. wire' \o Unsent' = SubSeq(Input, 1, taken)
      BY <1>1 DEF LoopInv, InputInv, NothingLost, Input, FromStdin
  <2>2. Unsent' \in Seq(Byte)
    <3>1. sendBuf' \in Seq(Byte) /\ sendPos' \in Nat /\ Len(sendBuf') \in Nat
        BY DEF TypeOK
    <3>2. Unsent' = SubSeq(sendBuf', sendPos' + 1, Len(sendBuf'))  BY DEF Unsent
    <3> QED BY <3>1, <3>2, RestType
  <2>3. /\ SubSeq(Input, 1, taken) \in Seq(Byte)
        /\ Len(wire') <= Len(SubSeq(Input, 1, taken))
        /\ wire' = SubSeq(SubSeq(Input, 1, taken), 1, Len(wire'))
    <3> DEFINE w == wire'
               u == Unsent'
               s == SubSeq(Input, 1, taken)
    <3>1. w \in Seq(Byte) /\ u \in Seq(Byte) /\ w \o u = s  BY <1>6, <2>1, <2>2
    <3> HIDE DEF w, u, s
    <3>2. w \o u \in Seq(Byte) /\ Len(w \o u) = Len(w) + Len(u)
          /\ Len(w) \in Nat /\ Len(u) \in Nat
        BY <3>1, ConcatOfBytes
    <3>3. SubSeq(w \o u, 1, Len(w)) = w  BY <3>1, ConcatProps
    <3>4. s \in Seq(Byte) /\ Len(w) <= Len(s) /\ w = SubSeq(s, 1, Len(w))
        BY <3>1, <3>2, <3>3
    <3> QED BY <3>4 DEF w, s
  <2>4. Input \in Seq(Byte) /\ Len(Input) \in Nat /\ taken \in 0 .. Len(Input)
        /\ Supplied \in Seq(Byte) /\ Len(Supplied) \in Nat
        /\ taken <= Len(Supplied)
        /\ SubSeq(Input, 1, taken) = SubSeq(Supplied, 1, taken)
    <3>1. cfg \in ConfigType /\ cfg.data \in Seq(Byte) /\ avail \in 0 .. Len(cfg.data)
        /\ taken \in Nat
        BY DEF TypeOK, ConfigType
    <3>2. Input \in Seq(Byte)  BY <3>1, InputType
    <3>3. CASE FromStdin
      <4>1. Input = cfg.data /\ Supplied = SubSeq(cfg.data, 1, avail) /\ taken <= avail
          BY <3>3 DEF Input, Supplied, LoopInv, InputInv
      <4>2. Len(cfg.data) \in Nat /\ taken \in 0 .. avail  BY <3>1, <4>1
      <4>3. Len(Supplied) = avail
            /\ SubSeq(Supplied, 1, taken) = SubSeq(cfg.data, 1, taken)
          BY <3>1, <4>1, <4>2, PartOfPart
      <4>4. Supplied \in Seq(Byte)  BY <3>1, <4>1, <4>2, SubSeqProps
      <4> QED BY <3>1, <3>2, <4>1, <4>2, <4>3, <4>4
    <3>4. CASE ~FromStdin
      <4>1. Supplied = Input /\ taken = Len(Input)
          BY <3>4 DEF Supplied, LoopInv, InputInv
      <4> QED BY <3>2, <4>1
    <3> QED BY <3>3, <3>4
  <2>5. Len(SubSeq(Input, 1, taken)) = taken  BY <2>4, PartOfPart
  <2>6. Len(wire') \in 0 .. taken  BY <1>6, <2>3, <2>4, <2>5
  <2>7. SubSeq(SubSeq(Supplied, 1, taken), 1, Len(wire')) = SubSeq(Supplied, 1, Len(wire'))
      BY <2>4, <2>6, PartOfPart
  <2>8. Supplied' = Supplied  BY <1>1 DEF Supplied, FromStdin, Input
  <2> QED BY <2>3, <2>4, <2>6, <2>7, <2>8
<1>8. T!Transmit
  <2>1. wire' # wire /\ Len(wire) <= Len(wire')  BY <1>4, <1>6
  <2>2. T!Advances(wire, wire', Supplied)  BY <1>7, <2>1 DEF T!Advances
  <2> QED BY <1>1, <1>2, <1>3, <1>7, <2>1, <2>2 DEF T!Transmit, FromStdin
<1> QED BY <1>2, <1>8 DEF T!Next

LEMMA WrittenRefines ==
    ASSUME TypeOK, StdinWritten
    PROVE  T!Next
<1>1. /\ UNCHANGED <<cfg, stdinClosed, wire, finSent, srvSent, srvFin, out, pc, exitCode>>
      /\ avail' = avail + 1 /\ avail < Len(cfg.data) /\ FromStdin /\ ~stdinClosed
      /\ pc # "done"
    BY DEF StdinWritten, Running, clientVars, upVars, downVars
<1>2. Outcome = "running" /\ Outcome' = "running"  BY <1>1, RunsOn
<1>3. cfg.data \in Seq(Byte) /\ avail \in Nat /\ Len(cfg.data) \in Nat
    BY DEF TypeOK, ConfigType
<1> DEFINE b == cfg.data[avail + 1]
<1>4. b \in Byte  BY <1>1, <1>3
<1>5. SubSeq(cfg.data, 1, avail + 1) = Append(SubSeq(cfg.data, 1, avail), b)
  <2> DEFINE m == avail + 1
  <2>1. 1 \in 1 .. Len(cfg.data) /\ m \in 1 .. Len(cfg.data) /\ m - 1 = avail
      BY <1>1, <1>3
  <2>2. SubSeq(cfg.data, 1, m) = SubSeq(cfg.data, 1, m - 1) \o <<cfg.data[m]>>
      BY <1>3, <2>1, SubSeqRecursiveSecond
  <2>3. SubSeq(cfg.data, 1, avail) \in Seq(Byte)  BY <1>1, <1>3, SubSeqProps
  <2>4. Append(SubSeq(cfg.data, 1, avail), b) = SubSeq(cfg.data, 1, avail) \o <<b>>
      BY <1>4, <2>3, AppendIsConcat
  <2> QED BY <2>1, <2>2, <2>4
<1> HIDE DEF b
<1>6. Supplied' = Append(Supplied, b)  BY <1>1, <1>5 DEF Supplied, FromStdin
<1>7. T!Supply
    BY <1>1, <1>2, <1>4, <1>6 DEF T!Supply, FromStdin
<1> QED BY <1>2, <1>7 DEF T!Next

LEMMA StepRefines ==
    ASSUME TypeOK, LoopInv, OutputInv, Plain(cfg), TypeOK', LoopInv', OutputInv',
           PrintedIsPrefix', [Next]_vars
    PROVE  [T!Next]_(T!vars)
<1> USE DEF clientVars, inputVars, upVars, downVars
<1>0. PollInv /\ CloseInv  BY DEF LoopInv
<1>1. CASE EnterPoll  BY <1>1, EnterPollRefines
<1>2. CASE Finish     BY <1>2, FinishRefines
<1>3. CASE /\ pc # "done" /\ pc' # "done"
           /\ UNCHANGED <<cfg, avail, stdinClosed, wire, finSent, srvSent, srvFin, out>>
    BY <1>3, RunsOn, Stutters
<1>4. CASE /\ pc # "done" /\ pc' = "done" /\ exitCode' # 0
           /\ UNCHANGED <<cfg, avail, stdinClosed, wire, finSent, srvSent, srvFin, out>>
    BY <1>4, GivingUpFails
<1>5. CASE PollReady     BY <1>3, <1>5 DEF PollReady
<1>6. CASE PollTimeout \/ PollFails
      BY <1>4, <1>6 DEF PollTimeout, PollFails, Exit
<1>7. CASE SockErr       BY <1>4, <1>7 DEF SockErr, Exit
<1>8. CASE SockHup       BY <1>3, <1>4, <1>8 DEF SockHup, ServerEnds, Exit
<1>9. CASE SockIdle      BY <1>3, <1>9 DEF SockIdle
<1>10. CASE RecvEof      BY <1>3, <1>4, <1>10 DEF RecvEof, Receiving, ServerEnds, Exit
<1>11. CASE RecvReset    BY <1>4, <1>11 DEF RecvReset, Receiving, Exit
<1>12. CASE Receive
  <2>1. pc # "done"
      BY <1>12 DEF Receive, RecvToDecoder, RecvToStdout, RecvStdoutFails, RecvHexDropped,
                   Takes, Receiving
  <2> QED BY <1>12, <2>1, ReceiveRefines
<1>13. CASE StdinIdle    BY <1>3, <1>13 DEF StdinIdle
<1>14. CASE \E n \in 1 .. SendCap : StdinData(n)  BY <1>3, <1>14 DEF StdinData
<1>15. CASE StdinEnd     BY <1>3, <1>15 DEF StdinEnd
<1>16. CASE StdinFails   BY <1>4, <1>16 DEF StdinFails, Exit
<1>17. CASE SendIdle     BY <1>3, <1>17 DEF SendIdle
<1>18. CASE \E n \in 1 .. SendCap : Send(n)  BY <1>18, SendRefines
<1>19. CASE SendFails    BY <1>4, <1>19 DEF SendFails, Exit
<1>20. CASE StdinWritten  BY <1>20, WrittenRefines
<1>21. CASE StdinCloses
  <2>1. /\ UNCHANGED <<cfg, avail, wire, finSent, srvSent, srvFin, out, pc, exitCode>>
        /\ FromStdin /\ ~stdinClosed /\ stdinClosed' = TRUE /\ pc # "done"
      BY <1>21 DEF StdinCloses, Running
  <2>2. Outcome = "running" /\ Outcome' = "running"  BY <2>1, RunsOn
  <2>3. T!EndInput  BY <2>1, <2>2 DEF T!EndInput, Supplied, FromStdin, Input
  <2> QED BY <2>2, <2>3 DEF T!Next
<1>22. CASE Signal \/ SignalInPoll \/ SrvReads \/ SrvResets
    BY <1>3, <1>22 DEF Signal, SignalInPoll, SrvReads, SrvResets, Running
<1>23. CASE \E b \in Byte : SrvSends(b)
  <2>1. PICK b \in Byte : SrvSends(b)  BY <1>23
  <2>2. /\ UNCHANGED <<cfg, avail, stdinClosed, wire, finSent, srvFin, out, pc, exitCode>>
        /\ ~srvFin /\ srvSent' = Append(srvSent, b) /\ pc # "done"
      BY <2>1 DEF SrvSends, Running
  <2>3. Outcome = "running" /\ Outcome' = "running"  BY <2>2, RunsOn
  <2>4. T!Respond  BY <2>2, <2>3 DEF T!Respond, Supplied, FromStdin, Input
  <2> QED BY <2>3, <2>4 DEF T!Next
<1>24. CASE SrvCloses
  <2>1. /\ UNCHANGED <<cfg, avail, stdinClosed, wire, finSent, srvSent, out, pc, exitCode>>
        /\ ~srvFin /\ srvFin' = TRUE /\ pc # "done"
      BY <1>24 DEF SrvCloses, Running
  <2>2. Outcome = "running" /\ Outcome' = "running"  BY <2>1, RunsOn
  <2>3. T!EndResponse  BY <2>1, <2>2 DEF T!EndResponse, Supplied, FromStdin, Input
  <2> QED BY <2>2, <2>3 DEF T!Next
<1>25. CASE UNCHANGED vars
  <2>1. Outcome' = Outcome  BY <1>25 DEF vars, Outcome
  <2> QED BY <1>25, <2>1, Stutters DEF vars
<1> QED BY <1>1, <1>2, <1>5, <1>6, <1>7, <1>8, <1>9, <1>10, <1>11, <1>12, <1>13, <1>14,
           <1>15, <1>16, <1>17, <1>18, <1>19, <1>20, <1>21, <1>22, <1>23, <1>24, <1>25
        DEF Next, ClientStep, InputStep, SignalStep, ServerStep, Terminated

LEMMA InitRefines == Init => T!Init
<1> SUFFICES ASSUME Init PROVE T!Init  OBVIOUS
<1>1. cfg \in ConfigType  BY OneShotAssumption DEF Init
<1>2. Input \in Seq(Byte) /\ cfg.data \in Seq(Byte)  BY <1>1, InputType DEF ConfigType
<1>3. avail = 0  BY DEF Init
<1>4. Supplied \in Seq(Byte)
  <2>1. SubSeq(cfg.data, 1, 0) = <<>> /\ <<>> \in Seq(Byte)  BY SubSeqEmpty
  <2> QED BY <1>2, <1>3, <2>1 DEF Supplied
<1>5. (stdinClosed \/ ~FromStdin) \in BOOLEAN  BY DEF Init, FromStdin
<1>6. Outcome = "running"  BY DEF Init, Outcome
<1> QED BY <1>4, <1>5, <1>6 DEF Init, T!Init

(* For every input, sizes of buffers and connection, and behaviour of the  *)
(* peer, one-shot mode without -T, -D and -X does what Transfer promises.  *)
THEOREM OneShotImplementsTransfer ==
    ASSUME \A c \in Configs : Plain(c)
    PROVE  Spec => ImplementsTransfer
<1>1. Init => Plain(cfg)  BY DEF Init
<1>2. Plain(cfg) /\ [Next]_vars => Plain(cfg)'  BY CfgStays DEF Plain
<1>3. Spec => []Plain(cfg)  BY <1>1, <1>2, PTL DEF Spec
<1>4. TypeOK /\ OutputInv /\ Plain(cfg) => PrintedIsPrefix  BY Printed
<1>5. /\ TypeOK /\ LoopInv /\ OutputInv /\ Plain(cfg) /\ PrintedIsPrefix'
      /\ TypeOK' /\ LoopInv' /\ OutputInv' /\ [Next]_vars
      => [T!Next]_(T!vars)
    BY StepRefines
<1> QED BY <1>3, <1>4, <1>5, InitRefines, OutputInvariant, PTL
        DEF Spec, ImplementsTransfer, T!Spec
=============================================================================
