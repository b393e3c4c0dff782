------------------------ MODULE InteractivePipeProofs ------------------------
(* The interactive loop on a pipe, for every script, size of connection    *)
(* and behaviour of the server: nothing is lost, the server sees whole     *)
(* lines, none behind an exit line, its last words are read, and 0 has one *)
(* of its reasons.                                                         *)
EXTENDS InteractivePipe, TLAPS, SequenceTheorems, WellFoundedInduction

-----------------------------------------------------------------------------
(* Sequences of tokens                                                     *)

LEMMA TokConcat ==
    ASSUME NEW s \in Seq(Token), NEW t \in Seq(Token)
    PROVE  /\ s \o t \in Seq(Token)
           /\ Len(s \o t) = Len(s) + Len(t)
           /\ \A i \in 1 .. Len(s) : (s \o t)[i] = s[i]
           /\ \A i \in 1 .. Len(t) : (s \o t)[Len(s) + i] = t[i]
OBVIOUS

LEMMA TokAssoc ==
    ASSUME NEW s \in Seq(Token), NEW t \in Seq(Token), NEW u \in Seq(Token)
    PROVE  (s \o t) \o u = s \o (t \o u)
BY ConcatAssociative

LEMMA TokEmpty ==
    /\ <<>> \in Seq(Token) /\ Len(<<>>) = 0
    /\ \A s \in Seq(Token) : s \o <<>> = s /\ <<>> \o s = s
BY ConcatEmptySeq

(* A sequence cut behind its n-th element, and a part of it.               *)
LEMMA TokCut ==
    ASSUME NEW s \in Seq(Token), NEW n \in 0 .. Len(s)
    PROVE  /\ SubSeq(s, 1, n) \in Seq(Token) /\ Len(SubSeq(s, 1, n)) = n
           /\ \A i \in 1 .. n : SubSeq(s, 1, n)[i] = s[i]
           /\ SubSeq(s, n + 1, Len(s)) \in Seq(Token)
           /\ SubSeq(s, 1, n) \o SubSeq(s, n + 1, Len(s)) = s
<1>1. SubSeq(s, 1, n) \o SubSeq(s, n + 1, Len(s)) = SubSeq(s, 1, Len(s))
  <2>1. 1 \in 1 .. Len(s) + 1 /\ n \in (1 - 1) .. Len(s) /\ Len(s) \in n .. Len(s)  OBVIOUS
  <2> QED BY <2>1, ConcatAdjacentSubSeq
<1>2. SubSeq(s, 1, Len(s)) = s  BY SubSeqFull
<1>3. /\ SubSeq(s, 1, n) \in Seq(Token) /\ Len(SubSeq(s, 1, n)) = n
      /\ \A i \in 1 .. n : SubSeq(s, 1, n)[i] = s[i]
  <2>1. \A i \in 1 .. n : s[i] \in Token  OBVIOUS
  <2> QED BY <2>1, SubSeqProperties
<1>4. SubSeq(s, n + 1, Len(s)) \in Seq(Token)
  <2>1. \A i \in (n + 1) .. Len(s) : s[i] \in Token  OBVIOUS
  <2> QED BY <2>1, SubSeqProperties
<1> QED BY <1>1, <1>2, <1>3, <1>4

(* A set of numbers up to n with an element has a greatest one.            *)
LEMMA GreatestElement ==
    ASSUME NEW n \in Nat, NEW T, T \subseteq 0 .. n, T # {}
    PROVE  \E x \in T : \A y \in T : y <= x
<1> DEFINE R == {ss \in Nat \X Nat : ss[1] < ss[2]}
           D == {n - x : x \in T}
<1>1. IsWellFoundedOn(R, Nat)  BY NatLessThanWellFounded DEF OpToRel
<1>2. D \subseteq Nat /\ D # {}
  <2>1. \A x \in T : n - x \in Nat  OBVIOUS
  <2>2. \E x \in T : n - x \in D  OBVIOUS
  <2> QED BY <2>1, <2>2
<1> HIDE DEF D
<1>3. PICK d \in D : \A e \in D : ~ (<<e, d>> \in R)
    BY <1>1, <1>2, WFMin, Zenon
<1>4. PICK x \in T : d = n - x  BY <1>3 DEF D
<1>5. ASSUME NEW y \in T PROVE y <= x
  <2>1. n - y \in D /\ n - y \in Nat /\ n - x \in Nat  BY <1>4 DEF D
  <2>2. ~(n - y < n - x)  BY <1>3, <1>4, <2>1
  <2>3. x \in Nat /\ y \in Nat  OBVIOUS
  <2> QED BY <2>2, <2>3
<1> QED BY <1>5

(* What ends at i in s ends there whatever stands behind it.               *)
LEMMA EndsBefore ==
    ASSUME NEW s \in Seq(Token), NEW t \in Seq(Token), NEW i \in 1 .. Len(s)
    PROVE  i \in ExitEnds(s \o t) <=> i \in ExitEnds(s)
<1>1. /\ s \o t \in Seq(Token) /\ Len(s \o t) = Len(s) + Len(t)
      /\ \A j \in 1 .. Len(s) : (s \o t)[j] = s[j]
    BY TokConcat
<1>2. Len(s) \in Nat /\ Len(t) \in Nat  OBVIOUS
<1>3. \A j \in 1 .. Len(s) : j \in LineEnds(s \o t) <=> j \in LineEnds(s)
    BY <1>1, <1>2 DEF LineEnds
<1> DEFINE from == {j \in LineEnds(s) : j < i}
<1>4. {j \in LineEnds(s \o t) : j < i} = from
  <2>1. \A j \in LineEnds(s \o t) : j < i => j \in 1 .. Len(s)
      BY <1>1, <1>2 DEF LineEnds
  <2>2. \A j \in LineEnds(s) : j \in 1 .. Len(s)  BY DEF LineEnds
  <2> QED BY <1>3, <2>1, <2>2
<1>5. SubSeq(s \o t, 1, i) = SubSeq(s, 1, i)  BY <1>2, SubSeqOfConcat1
<1>6. LineEndingAt(s \o t, i) = LineEndingAt(s, i)
  <2>1. CASE from = {}  BY <1>4, <1>5, <2>1 DEF LineEndingAt
  <2>2. CASE from # {}
    <3> DEFINE m == CHOOSE j \in from : \A k \in from : k <= j
    <3>1. from \subseteq 0 .. Len(s) /\ Len(s) \in Nat  BY <1>2 DEF LineEnds
    <3>2. m \in from
      <4> HIDE DEF from
      <4>1. \E j \in from : \A k \in from : k <= j  BY <2>2, <3>1, GreatestElement
      <4> QED BY <4>1
    <3>3. m \in 0 .. Len(s) /\ m < i  BY <3>1, <3>2
    <3>4. LineEndingAt(s \o t, i) = SubSeq(s \o t, 1 + m, i)
        BY <1>4, <2>2 DEF LineEndingAt
    <3>5. LineEndingAt(s, i) = SubSeq(s, 1 + m, i)
        BY <2>2 DEF LineEndingAt
    <3> HIDE DEF m
    <3>6. 1 + m \in 1 .. Len(s)  BY <3>3
    <3>7. SubSeq(s \o t, 1 + m, i) = SubSeq(s, 1 + m, i)  BY <3>6, SubSeqOfConcat1
    <3> QED BY <3>4, <3>5, <3>7
  <2> QED BY <2>1, <2>2
<1> QED BY <1>3, <1>6 DEF ExitEnds

(* s is nothing, or ends with a line.                                      *)
EndsLine(s) == s = <<>> \/ s[Len(s)] = "newline"

(* A line put behind lines is an exit line exactly if it says so.          *)
LEMMA LineBehindLines ==
    ASSUME NEW s \in Seq(Token), NEW l \in Seq(Token), EndsLine(s),
           Len(l) >= 1, LineEnds(l) = {Len(l)}
    PROVE  /\ EndsLine(s \o l)
           /\ Len(s \o l) \in ExitEnds(s \o l) <=> IsExit(l)
           /\ \A i \in ExitEnds(s \o l) : i = Len(s \o l) \/ i \in ExitEnds(s)
<1>1. /\ s \o l \in Seq(Token) /\ Len(s \o l) = Len(s) + Len(l)
      /\ \A j \in 1 .. Len(s) : (s \o l)[j] = s[j]
      /\ \A j \in 1 .. Len(l) : (s \o l)[Len(s) + j] = l[j]
    BY TokConcat
<1>2. Len(s) \in Nat /\ Len(l) \in Nat  OBVIOUS
<1> DEFINE n == Len(s \o l)
<1>3. n \in Nat /\ n >= 1 /\ n = Len(s) + Len(l)  BY <1>1, <1>2
<1>4. l[Len(l)] = "newline"  BY DEF LineEnds
<1>5. (s \o l)[n] = "newline"  BY <1>1, <1>2, <1>3, <1>4
<1>6. \A j \in LineEnds(s \o l) : j = n \/ j \in LineEnds(s)
  <2> SUFFICES ASSUME NEW j \in LineEnds(s \o l), j > Len(s) PROVE j = n
      BY <1>1, <1>2 DEF LineEnds
  <2>1. j - Len(s) \in 1 .. Len(l) /\ Len(s) + (j - Len(s)) = j  BY <1>1, <1>2 DEF LineEnds
  <2>2. j - Len(s) \in LineEnds(l)  BY <2>1, <1>1 DEF LineEnds
  <2>3. j - Len(s) = Len(l) /\ j \in Nat  BY <2>2 DEF LineEnds
  <2> QED BY <2>3, <1>2, <1>3
<1>7. \A j \in LineEnds(s) : j \in LineEnds(s \o l) /\ j < n
    BY <1>1, <1>2, <1>3 DEF LineEnds
<1> DEFINE from == {j \in LineEnds(s \o l) : j < n}
<1>8. from = LineEnds(s)
  <2>1. \A j \in from : j # n  BY <1>3
  <2> QED BY <1>6, <1>7, <2>1
<1>9. n \in LineEnds(s \o l)  BY <1>3, <1>5 DEF LineEnds
<1>10. LineEndingAt(s \o l, n) = l
  <2>1. CASE s = <<>>
    <3>1. from = {}  BY <2>1, <1>8 DEF LineEnds
    <3>2. s \o l = l  BY <2>1, TokEmpty
    <3>3. SubSeq(l, 1, Len(l)) = l  BY SubSeqFull
    <3> QED BY <3>1, <3>2, <3>3 DEF LineEndingAt
  <2>2. CASE s # <<>>
    <3>1. Len(s) \in LineEnds(s)  BY <2>2, <1>2 DEF EndsLine, LineEnds
    <3>2. \A k \in LineEnds(s) : k \in Nat /\ k <= Len(s)  BY <1>2 DEF LineEnds
    <3>3. (CHOOSE j \in from : \A k \in from : k <= j) = Len(s)
      <4> HIDE DEF from
      <4>1. \E j \in from : \A k \in from : k <= j  BY <3>1, <3>2, <1>8
      <4> DEFINE m == CHOOSE j \in from : \A k \in from : k <= j
      <4>2. m \in from /\ \A k \in from : k <= m  BY <4>1
      <4> HIDE DEF m
      <4>3. m \in Nat /\ m <= Len(s) /\ Len(s) <= m  BY <4>2, <3>1, <3>2, <1>8
      <4>4. m = Len(s)  BY <4>3, <1>2
      <4> QED BY <4>4 DEF m
    <3>4. LineEndingAt(s \o l, n) = SubSeq(s \o l, 1 + Len(s), n)
        BY <3>1, <3>3, <1>8 DEF LineEndingAt
    <3>5. SubSeq(s \o l, 1 + Len(s), n) = l
      <4>1. 1 + Len(s) \in Len(s) + 1 .. Len(s) + Len(l) /\ n \in Len(s) + 1 .. Len(s) + Len(l)
          BY <1>2, <1>3
      <4>2. SubSeq(s \o l, 1 + Len(s), n) = SubSeq(l, 1 + Len(s) - Len(s), n - Len(s))
          BY <4>1, SubSeqOfConcat2
      <4>3. 1 + Len(s) - Len(s) = 1 /\ n - Len(s) = Len(l)  BY <1>2, <1>3
      <4>4. SubSeq(l, 1, Len(l)) = l  BY SubSeqFull
      <4> QED BY <4>2, <4>3, <4>4
    <3> QED BY <3>4, <3>5
  <2> QED BY <2>1, <2>2
<1>11. n \in ExitEnds(s \o l) <=> IsExit(l)  BY <1>9, <1>10 DEF ExitEnds
<1>12. ASSUME NEW i \in ExitEnds(s \o l) PROVE i = n \/ i \in ExitEnds(s)
  <2>1. i = n \/ i \in LineEnds(s)  BY <1>6 DEF ExitEnds
  <2>2. CASE i \in LineEnds(s)
    <3>1. i \in 1 .. Len(s)  BY <2>2 DEF LineEnds
    <3> QED BY <3>1, EndsBefore
  <2> QED BY <2>1, <2>2
<1> QED BY <1>5, <1>11, <1>12 DEF EndsLine

-----------------------------------------------------------------------------
(* The inductive invariant                                                 *)

(* What socket_write_all has been given so far.                            *)
Sent == wire \o toWrite

(* What the loop knows at each pc.                                         *)
KnownInv ==
    /\ pc # "done" => exitCode = -1
    /\ rev.stdin => ~stdinEof
    /\ rev.hup => srvReset
    /\ rev.hup /\ ~rev.in => AllRead
    /\ pc \notin {"write", "done"} /\ after = "line" => toWrite = <<>>
    /\ pc \in {"top", "poll", "sock", "stdin"} => raw = <<>> /\ (~stdinEof => toWrite = <<>>)
    /\ pc = "scan" => toWrite = <<>> /\ ~stdinEof
    /\ pc = "write" => lineBuf = <<>> /\ (stdinEof <=> after = "tail")
                       /\ (after = "tail" => raw = <<>>)
    /\ pc = "drain" => after = "exit" /\ ~stdinEof

(* Behind the end of stdin all of it has been taken and given away, and a  *)
(* rest that was not sent is the one of a write that failed.               *)
EofInv ==
    pc # "done" /\ stdinEof /\ "stdin" \notin failed =>
        /\ stdinClosed /\ taken = avail /\ lineBuf = <<>>
        /\ pc # "write" /\ toWrite # <<>> =>
              after = "tail" /\ failed \cap WriteFaults # {}

(* The input is where it should be, and what is given away is lines.       *)
DataInv ==
    /\ NothingLost
    /\ LineEnds(lineBuf) = {}
    /\ ~stdinEof => EndsLine(Sent)

(* Only the last line given away says exit, and the loop knows it.         *)
ExitInv ==
    /\ pc \in {"write", "drain"} /\ after = "exit" => Len(Sent) \in ExitEnds(Sent)
    /\ \A i \in ExitEnds(Sent) :
          i = Len(Sent) /\ after = "exit" /\ pc \in {"write", "drain", "done"}

PipeInv ==
    TypeOK /\ KnownInv /\ EofInv /\ DataInv /\ ExitInv /\ LastWordsRead /\ ExitIsJustified

LEMMA InitPipe == Init => PipeInv
<1> SUFFICES ASSUME Init PROVE PipeInv  OBVIOUS
<1>1. TypeOK
  <2>1. Len(script) \in Nat /\ script \in Seq(Token)  BY PipeAssumption DEF Init
  <2>2. avail \in 0 .. Len(script) /\ taken \in 0 .. avail  BY <2>1 DEF Init
  <2>3. srvRead \in 0 .. Len(wire) /\ unread \in 0 .. NetCap  BY TokEmpty, PipeAssumption DEF Init
  <2>4. rev \in [in : BOOLEAN, hup : BOOLEAN, stdin : BOOLEAN]  BY DEF Init, NoEvents
  <2> QED BY <2>1, <2>2, <2>3, <2>4, TokEmpty DEF Init, TypeOK
<1>2. KnownInv /\ EofInv  BY DEF Init, KnownInv, EofInv, NoEvents
<1>3. Sent = <<>> /\ wire \o toWrite \o lineBuf \o raw = <<>>  BY TokEmpty DEF Init, Sent
<1>4. Taken = <<>>
  <2>1. SubSeq(script, 1, 0) = <<>>  BY SubSeqEmpty
  <2> QED BY <2>1 DEF Init, Taken
<1>5. LineEnds(<<>>) = {} /\ ExitEnds(<<>>) = {}  BY TokEmpty DEF LineEnds, ExitEnds
<1>6. DataInv  BY <1>3, <1>4, <1>5 DEF Init, DataInv, NothingLost, EndsLine
<1>7. ExitInv  BY <1>3, <1>5 DEF Init, ExitInv
<1>8. LastWordsRead /\ ExitIsJustified  BY DEF Init, LastWordsRead, ExitIsJustified
<1> QED BY <1>1, <1>2, <1>6, <1>7, <1>8 DEF PipeInv

-----------------------------------------------------------------------------
(* Types                                                                   *)

LEMMA ReadyType ==
    ASSUME TypeOK, rev' \in PollReports
    PROVE  /\ rev' \in [in : BOOLEAN, hup : BOOLEAN, stdin : BOOLEAN]
           /\ rev'.hup => srvReset
           /\ rev'.hup /\ ~rev'.in => unread = 0
           /\ rev'.stdin => ~stdinEof
<1> DEFINE R == [in : BOOLEAN, hup : BOOLEAN, stdin : BOOLEAN]
<1>1. Ready \in R /\ Ready.hup = srvReset
    BY DEF TypeOK, Ready, Readable
<1>2. Ready.stdin => ~stdinEof  BY DEF Ready
<1>3. Ready.hup => Ready.in  BY DEF TypeOK, Ready, Readable
<1>4. ASSUME NEW r \in R
      PROVE  /\ [r EXCEPT !.in = FALSE] \in R
             /\ [r EXCEPT !.in = FALSE].hup = r.hup
             /\ [r EXCEPT !.in = FALSE].stdin = r.stdin
    OBVIOUS
<1>5. rev' = Ready \/ (unread = 0 /\ rev' = [Ready EXCEPT !.in = FALSE])
    BY DEF PollReports
<1> HIDE DEF R
<1>6. rev' \in R  BY <1>1, <1>4, <1>5, Zenon
<1>7. rev'.hup = Ready.hup /\ rev'.stdin = Ready.stdin  BY <1>1, <1>4, <1>5, Zenon
<1>8. rev'.hup => srvReset  BY <1>1, <1>7, Zenon
<1>9. rev'.hup /\ ~rev'.in => unread = 0  BY <1>3, <1>5, Zenon
<1>10. rev'.stdin => ~stdinEof  BY <1>2, <1>7, Zenon
<1> QED BY <1>6, <1>8, <1>9, <1>10, Zenon DEF R

LEMMA TypeWrite ==
    ASSUME TypeOK, NEW n \in 1 .. Len(toWrite), WriteSome(n)
    PROVE  TypeOK'
<1>1. /\ SubSeq(toWrite, 1, n) \in Seq(Token)
      /\ SubSeq(toWrite, n + 1, Len(toWrite)) \in Seq(Token)
    BY TokCut DEF TypeOK
<1>2. wire' \in Seq(Token) /\ Len(wire') >= Len(wire) /\ Len(wire) \in Nat
  <2> DEFINE t == SubSeq(toWrite, 1, n)
  <2>1. wire' = wire \o t  BY DEF WriteSome
  <2>2. t \in Seq(Token) /\ wire \in Seq(Token)  BY <1>1 DEF TypeOK
  <2> HIDE DEF t
  <2>3. Len(wire \o t) = Len(wire) + Len(t) /\ wire \o t \in Seq(Token)  BY <2>2, TokConcat
  <2> QED BY <2>1, <2>2, <2>3
<1>3. srvRead' \in 0 .. Len(wire')  BY <1>2 DEF WriteSome, TypeOK
<1>4. pc' \in {"top", "write", "scan", "drain"}  BY DEF WriteSome, WriteReturns
<1> QED BY <1>1, <1>2, <1>3, <1>4 DEF TypeOK, WriteSome, inputVars

LEMMA TypeStdin ==
    ASSUME TypeOK, NEW n \in 1 .. Len(script), StdinData(n)
    PROVE  TypeOK'
<1>1. taken + 1 \in Nat /\ taken + n <= Len(script) /\ taken' \in 0 .. avail
    BY DEF TypeOK, StdinData
<1>2. \A i \in taken + 1 .. taken + n : script[i] \in Token  BY <1>1 DEF TypeOK
<1>3. raw' \in Seq(Token)
  <2>1. taken + 1 \in Int /\ taken + n \in Int  BY DEF TypeOK
  <2> QED BY <1>2, <2>1, SubSeqProperties DEF StdinData
<1>4. rev' \in [in : BOOLEAN, hup : BOOLEAN, stdin : BOOLEAN]  BY DEF StdinData, NoEvents
<1> QED BY <1>1, <1>3, <1>4 DEF TypeOK, StdinData, netVars

LEMMA TypeScan ==
    ASSUME TypeOK, ScanLine \/ ScanRest
    PROVE  TypeOK'
<1>0. lineBuf \in Seq(Token) /\ raw \in Seq(Token) /\ <<>> \in Seq(Token)  BY TokEmpty DEF TypeOK
<1>1. CASE ScanLine
  <2>1. PICK i \in Newlines :
          /\ raw' = SubSeq(raw, i + 1, Len(raw))
          /\ toWrite' = lineBuf \o SubSeq(raw, 1, i)
          /\ after' \in {"exit", "line"} /\ pc' = "write"
      BY <1>1 DEF ScanLine, WriteAll
  <2>2. i \in 0 .. Len(raw)  BY DEF Newlines
  <2>3. raw' \in Seq(Token) /\ SubSeq(raw, 1, i) \in Seq(Token)  BY <1>0, <2>1, <2>2, TokCut
  <2>4. toWrite' \in Seq(Token)  BY <1>0, <2>1, <2>3, TokConcat
  <2> QED BY <1>0, <1>1, <2>1, <2>3, <2>4 DEF TypeOK, ScanLine, inputVars, netVars
<1>2. CASE ScanRest
  <2>1. lineBuf \o raw \in Seq(Token)  BY <1>0, TokConcat
  <2> QED BY <1>0, <1>2, <2>1 DEF TypeOK, ScanRest, inputVars, netVars
<1> QED BY <1>1, <1>2

LEMMA TypeReceives ==
    ASSUME TypeOK, NEW n \in Nat, Receives(n)
    PROVE  unread' \in 0 .. NetCap /\ failed' \subseteq Faults
<1>1. unread' \in 0 .. NetCap
    BY PipeAssumption DEF TypeOK, Receives
<1>2. failed' \subseteq Faults
    BY DEF TypeOK, Receives, Faults
<1> QED BY <1>1, <1>2

LEMMA TypeNext ==
    ASSUME TypeOK, [Next]_vars
    PROVE  TypeOK'
<1> USE DEF TypeOK, Exit, Faults, WriteFaults
<1>1. CASE EnterPoll
    BY <1>1 DEF EnterPoll, inputVars, netVars
<1>2. CASE Interrupted
    BY <1>2 DEF Interrupted, inputVars, netVars
<1>3. CASE PollIdle \/ PollFails
    BY <1>3 DEF PollIdle, PollFails, inputVars, netVars
<1>4. CASE PollReady
    BY <1>4, ReadyType DEF PollReady, inputVars, netVars
<1>5. CASE \E n \in 1 .. NetCap : SockData(n)
    BY <1>5, PipeAssumption, TypeReceives DEF SockData, Receives, inputVars
<1>6. CASE SockEnds
    BY <1>6 DEF SockEnds, inputVars, netVars
<1>7. CASE SockFails
    BY <1>7 DEF SockFails, inputVars, netVars
<1>8. CASE SockIdle
    BY <1>8 DEF SockIdle, inputVars, netVars
<1>9. CASE StdinIdle
    BY <1>9 DEF StdinIdle, NoEvents, inputVars, netVars
<1>10. CASE StdinFails
    BY <1>10 DEF StdinFails, NoEvents, inputVars, netVars
<1>11. CASE StdinEnd
    BY <1>11, TokEmpty DEF StdinEnd, WriteAll, NoEvents, inputVars, netVars
<1>12. CASE \E n \in 1 .. Len(script) : StdinData(n)
    BY <1>12, TypeStdin
<1>13. CASE ScanLine \/ ScanRest
    BY <1>13, TypeScan
<1>14. CASE NoMemory
    BY <1>14 DEF NoMemory, inputVars, netVars
<1>15. CASE \E n \in 1 .. Len(toWrite) : WriteSome(n)
    BY <1>15, TypeWrite
<1>16. CASE WriteTimesOut
    BY <1>16 DEF WriteTimesOut, WriteGivesUp, WriteReturns, inputVars, netVars
<1>17. CASE WriteFails
    BY <1>17 DEF WriteFails, WriteGivesUp, WriteReturns, inputVars, netVars
<1>18. CASE WriteInterrupted
    BY <1>18 DEF WriteInterrupted, WriteGivesUp, WriteReturns, inputVars, netVars
<1>19. CASE \E n \in 1 .. NetCap : DrainData(n)
    BY <1>19, PipeAssumption, TypeReceives DEF DrainData, Receives, inputVars
<1>20. CASE DrainEnds \/ DrainFails
    BY <1>20 DEF DrainEnds, DrainFails, inputVars, netVars
<1>21. CASE StdinWritten
    BY <1>21 DEF StdinWritten, clientVars, netVars
<1>22. CASE StdinCloses
    BY <1>22 DEF StdinCloses, clientVars, netVars
<1>23. CASE Signal
    BY <1>23 DEF Signal, clientVars, inputVars, netVars
<1>24. CASE SignalInPoll
    BY <1>24 DEF SignalInPoll, inputVars, netVars
<1>25. CASE SrvReads
    BY <1>25 DEF SrvReads, clientVars, inputVars
<1>26. CASE SrvSends
    BY <1>26, PipeAssumption DEF SrvSends, clientVars, inputVars
<1>27. CASE SrvCloses
    BY <1>27 DEF SrvCloses, clientVars, inputVars
<1>28. CASE SrvResets
    BY <1>28 DEF SrvResets, clientVars, inputVars
<1>29. CASE UNCHANGED vars
    BY <1>29 DEF vars, clientVars, inputVars, netVars
<1> QED BY <1>1, <1>2, <1>3, <1>4, <1>5, <1>6, <1>7, <1>8, <1>9, <1>10, <1>11, <1>12, <1>13, <1>14, <1>15,
           <1>16, <1>17, <1>18, <1>19, <1>20, <1>21, <1>22, <1>23, <1>24, <1>25, <1>26, <1>27, <1>28, <1>29
        DEF Next, ClientStep, Outside, Terminated

(* What a step keeps that gives nothing away.                              *)
Quiet ==
    /\ UNCHANGED <<script, taken, wire, toWrite, lineBuf, raw, after>>
    /\ stdinEof => stdinEof'
    /\ pc \in {"write", "drain", "done"} /\ after = "exit" => pc' \in {"write", "drain", "done"}
    /\ pc' \in {"write", "drain"} /\ after = "exit" => pc \in {"write", "drain"}

(* The other steps.                                                        *)
Loud ==
    \/ \E n \in 1 .. Len(script) : StdinData(n)
    \/ StdinEnd \/ ScanLine \/ ScanRest
    \/ \E n \in 1 .. Len(toWrite) : WriteSome(n)

LEMMA QuietOrLoud ==
    ASSUME TypeOK, KnownInv, [Next]_vars
    PROVE  Quiet \/ Loud
<1> USE DEF Quiet, KnownInv, TypeOK
<1>1. CASE EnterPoll
    BY <1>1 DEF EnterPoll, inputVars, netVars
<1>2. CASE Interrupted
    BY <1>2 DEF Interrupted, Exit, inputVars, netVars
<1>3. CASE PollIdle \/ PollFails
    BY <1>3 DEF PollIdle, PollFails, Exit, inputVars, netVars
<1>4. CASE PollReady
    BY <1>4 DEF PollReady, inputVars, netVars
<1>5. CASE \E n \in 1 .. NetCap : SockData(n)
    BY <1>5 DEF SockData, Receives, inputVars
<1>6. CASE SockEnds
    BY <1>6 DEF SockEnds, Exit, inputVars, netVars
<1>7. CASE SockFails
    BY <1>7 DEF SockFails, Exit, inputVars, netVars
<1>8. CASE SockIdle
    BY <1>8 DEF SockIdle, inputVars, netVars
<1>9. CASE StdinIdle
    BY <1>9 DEF StdinIdle, NoEvents, inputVars, netVars
<1>10. CASE StdinFails
    BY <1>10 DEF StdinFails, NoEvents, inputVars, netVars
<1>11. CASE StdinEnd  BY <1>11 DEF Loud
<1>12. CASE \E n \in 1 .. Len(script) : StdinData(n)  BY <1>12 DEF Loud
<1>13. CASE ScanLine  BY <1>13 DEF Loud
<1>14. CASE ScanRest  BY <1>14 DEF Loud
<1>15. CASE NoMemory
    BY <1>15 DEF NoMemory, Exit, inputVars, netVars
<1>16. CASE \E n \in 1 .. Len(toWrite) : WriteSome(n)  BY <1>16 DEF Loud
<1>17. CASE WriteTimesOut
    BY <1>17 DEF WriteTimesOut, WriteGivesUp, WriteReturns, Exit, inputVars, netVars
<1>18. CASE WriteFails
    BY <1>18 DEF WriteFails, WriteGivesUp, WriteReturns, Exit, inputVars, netVars
<1>19. CASE WriteInterrupted
    BY <1>19 DEF WriteInterrupted, WriteGivesUp, WriteReturns, Exit, inputVars, netVars
<1>20. CASE \E n \in 1 .. NetCap : DrainData(n)
    BY <1>20 DEF DrainData, Receives, inputVars
<1>21. CASE DrainEnds \/ DrainFails
    BY <1>21 DEF DrainEnds, DrainFails, Exit, inputVars, netVars
<1>22. CASE StdinWritten
    BY <1>22 DEF StdinWritten, Running, clientVars, netVars
<1>23. CASE StdinCloses
    BY <1>23 DEF StdinCloses, Running, clientVars, netVars
<1>24. CASE Signal
    BY <1>24 DEF Signal, Running, clientVars, inputVars, netVars
<1>25. CASE SignalInPoll
    BY <1>25 DEF SignalInPoll, inputVars, netVars
<1>26. CASE SrvReads
    BY <1>26 DEF SrvReads, Running, clientVars, inputVars
<1>27. CASE SrvSends
    BY <1>27 DEF SrvSends, Running, clientVars, inputVars
<1>28. CASE SrvCloses
    BY <1>28 DEF SrvCloses, Running, clientVars, inputVars
<1>29. CASE SrvResets
    BY <1>29 DEF SrvResets, Running, clientVars, inputVars
<1>30. CASE UNCHANGED vars
    BY <1>30 DEF vars, clientVars, inputVars, netVars
<1> QED BY <1>1, <1>2, <1>3, <1>4, <1>5, <1>6, <1>7, <1>8, <1>9, <1>10, <1>11, <1>12, <1>13, <1>14, <1>15,
           <1>16, <1>17, <1>18, <1>19, <1>20, <1>21, <1>22, <1>23, <1>24, <1>25, <1>26, <1>27, <1>28, <1>29, <1>30
        DEF Next, ClientStep, Outside, Terminated

-----------------------------------------------------------------------------
(* What the loop knows                                                     *)

LEMMA KnownNext ==
    ASSUME TypeOK, KnownInv, EofInv, [Next]_vars
    PROVE  KnownInv' /\ EofInv'
<1> USE DEF TypeOK, KnownInv, EofInv, AllRead
<1>1. CASE EnterPoll
    BY <1>1 DEF EnterPoll, inputVars, netVars
<1>2. CASE Interrupted
    BY <1>2 DEF Interrupted, Exit, inputVars, netVars
<1>3. CASE PollIdle \/ PollFails
    BY <1>3 DEF PollIdle, PollFails, Exit, inputVars, netVars
<1>4. CASE PollReady
    BY <1>4, ReadyType DEF PollReady, inputVars, netVars
<1>5. CASE \E n \in 1 .. NetCap : SockData(n)
    BY <1>5 DEF SockData, Receives, inputVars
<1>6. CASE SockEnds
    BY <1>6 DEF SockEnds, Exit, inputVars, netVars
<1>7. CASE SockFails
    BY <1>7 DEF SockFails, Exit, inputVars, netVars
<1>8. CASE SockIdle
    BY <1>8 DEF SockIdle, inputVars, netVars
<1>9. CASE StdinIdle
    BY <1>9 DEF StdinIdle, NoEvents, inputVars, netVars
<1>10. CASE StdinFails
    BY <1>10 DEF StdinFails, NoEvents, inputVars, netVars
<1>11. CASE StdinEnd
    BY <1>11 DEF StdinEnd, WriteAll, NoEvents, Exit, inputVars, netVars
<1>12. CASE \E n \in 1 .. Len(script) : StdinData(n)
    BY <1>12 DEF StdinData, NoEvents, netVars
<1>13. CASE ScanLine
    BY <1>13 DEF ScanLine, WriteAll, inputVars, netVars
<1>14. CASE ScanRest
    BY <1>14 DEF ScanRest, inputVars, netVars
<1>15. CASE NoMemory
    BY <1>15 DEF NoMemory, Exit, inputVars, netVars
<1>16. CASE \E n \in 1 .. Len(toWrite) : WriteSome(n)
    BY <1>16 DEF WriteSome, WriteReturns, inputVars
<1>17. CASE WriteTimesOut
    BY <1>17 DEF WriteTimesOut, WriteFaults, WriteGivesUp, WriteReturns, Exit, inputVars, netVars
<1>18. CASE WriteFails
    BY <1>18 DEF WriteFails, WriteFaults, WriteGivesUp, WriteReturns, Exit, inputVars, netVars
<1>19. CASE WriteInterrupted
    BY <1>19 DEF WriteInterrupted, WriteFaults, WriteGivesUp, WriteReturns, Exit, inputVars, netVars
<1>20. CASE \E n \in 1 .. NetCap : DrainData(n)
    BY <1>20 DEF DrainData, Receives, inputVars
<1>21. CASE DrainEnds \/ DrainFails
    BY <1>21 DEF DrainEnds, DrainFails, Exit, inputVars, netVars
<1>22. CASE StdinWritten
    BY <1>22 DEF StdinWritten, Running, clientVars, netVars
<1>23. CASE StdinCloses
    BY <1>23 DEF StdinCloses, Running, clientVars, netVars
<1>24. CASE Signal
    BY <1>24 DEF Signal, Running, clientVars, inputVars, netVars
<1>25. CASE SignalInPoll
    BY <1>25 DEF SignalInPoll, inputVars, netVars
<1>26. CASE SrvReads
    BY <1>26 DEF SrvReads, Running, clientVars, inputVars
<1>27. CASE SrvSends
    BY <1>27 DEF SrvSends, Running, clientVars, inputVars
<1>28. CASE SrvCloses
    BY <1>28 DEF SrvCloses, Running, clientVars, inputVars
<1>29. CASE SrvResets
    BY <1>29 DEF SrvResets, Running, clientVars, inputVars
<1>30. CASE UNCHANGED vars
    BY <1>30 DEF vars, clientVars, inputVars, netVars
<1> QED BY <1>1, <1>2, <1>3, <1>4, <1>5, <1>6, <1>7, <1>8, <1>9, <1>10, <1>11, <1>12, <1>13, <1>14, <1>15,
           <1>16, <1>17, <1>18, <1>19, <1>20, <1>21, <1>22, <1>23, <1>24, <1>25, <1>26, <1>27, <1>28, <1>29, <1>30
        DEF Next, ClientStep, Outside, Terminated

-----------------------------------------------------------------------------
(* Where the input is                                                      *)

Kept == DataInv' /\ ExitInv'

LEMMA QuietKeeps ==
    ASSUME PipeInv, Quiet
    PROVE  Kept
<1> USE DEF Quiet
<1>1. Sent' = Sent  BY DEF Sent
<1>2. NothingLost'  BY DEF PipeInv, DataInv, NothingLost, Taken
<1>3. DataInv'
    BY <1>1, <1>2 DEF PipeInv, DataInv
<1>4. ASSUME pc' \in {"write", "drain"}, after' = "exit"
      PROVE  Len(Sent') \in ExitEnds(Sent')
  <2>1. Len(Sent) \in ExitEnds(Sent)  BY <1>4 DEF PipeInv, ExitInv
  <2> QED BY <1>1, <2>1
<1>5. ASSUME NEW i \in ExitEnds(Sent')
      PROVE  i = Len(Sent') /\ after' = "exit" /\ pc' \in {"write", "drain", "done"}
  <2>1. i \in ExitEnds(Sent)  BY <1>1, <1>5
  <2>2. i = Len(Sent) /\ after = "exit" /\ pc \in {"write", "drain", "done"}
      BY <2>1 DEF PipeInv, ExitInv
  <2> QED BY <1>1, <2>2
<1>6. ExitInv'  BY <1>4, <1>5 DEF ExitInv
<1> QED BY <1>3, <1>6 DEF Kept

(* Nothing has been said yet while the loop reads stdin.                   *)
LEMMA NoExitSent ==
    ASSUME PipeInv, pc \notin {"write", "drain", "done"}
    PROVE  ExitEnds(Sent) = {}
BY DEF PipeInv, ExitInv

LEMMA StdinDataKeeps ==
    ASSUME PipeInv, NEW n \in 1 .. Len(script), StdinData(n)
    PROVE  Kept
<1>1. /\ pc = "stdin" /\ pc' = "scan" /\ raw = <<>>
      /\ UNCHANGED <<script, wire, toWrite, lineBuf, stdinEof>>
      /\ raw' = SubSeq(script, taken + 1, taken + n) /\ taken' = taken + n
    BY DEF StdinData, PipeInv, KnownInv, netVars
<1>2. /\ script \in Seq(Token) /\ taken \in Nat /\ taken + n \in taken .. Len(script)
      /\ wire \in Seq(Token) /\ toWrite \in Seq(Token) /\ lineBuf \in Seq(Token)
    BY DEF PipeInv, TypeOK, StdinData
<1> DEFINE before == wire \o toWrite \o lineBuf
<1>3. before \in Seq(Token)
  <2>1. wire \o toWrite \in Seq(Token)  BY <1>2, TokConcat
  <2> DEFINE w == wire \o toWrite
  <2>2. w \in Seq(Token)  BY <2>1
  <2> HIDE DEF w
  <2>3. w \o lineBuf \in Seq(Token)  BY <1>2, <2>2, TokConcat
  <2> QED BY <2>3 DEF w
<1>4. before = SubSeq(script, 1, taken)
  <2>1. before \o raw = SubSeq(script, 1, taken)  BY DEF PipeInv, DataInv, NothingLost, Taken
  <2> HIDE DEF before
  <2>2. before \o <<>> = before  BY <1>3, TokEmpty
  <2> QED BY <1>1, <2>1, <2>2
<1>5. before \o raw' = SubSeq(script, 1, taken + n)
  <2>1. 1 \in 1 .. Len(script) + 1 /\ taken \in (1 - 1) .. Len(script)
        /\ taken + n \in taken .. Len(script)
      BY <1>2
  <2>2. SubSeq(script, 1, taken) \o SubSeq(script, taken + 1, taken + n)
          = SubSeq(script, 1, taken + n)
      BY <1>2, <2>1, ConcatAdjacentSubSeq
  <2> HIDE DEF before
  <2> QED BY <1>1, <1>4, <2>2
<1>6. NothingLost'  BY <1>1, <1>5 DEF NothingLost, Taken
<1>7. Sent' = Sent  BY <1>1 DEF Sent
<1>8. DataInv'  BY <1>1, <1>6, <1>7 DEF DataInv, PipeInv
<1>9. ExitEnds(Sent') = {}  BY <1>1, <1>7, NoExitSent
<1>10. ExitInv'  BY <1>1, <1>9 DEF ExitInv
<1> QED BY <1>8, <1>10 DEF Kept

(* A last line without its newline becomes what is given away.             *)
LEMMA StdinEndKeeps ==
    ASSUME PipeInv, StdinEnd
    PROVE  Kept
<1>1. /\ pc = "stdin" /\ rev.stdin /\ stdinEof' = TRUE /\ ~stdinEof
      /\ raw = <<>> /\ toWrite = <<>>
      /\ UNCHANGED <<script, wire, raw, taken>>
    BY DEF StdinEnd, PipeInv, KnownInv, netVars, inputVars
<1>2. /\ wire \in Seq(Token) /\ lineBuf \in Seq(Token) /\ <<>> \in Seq(Token)
    BY TokEmpty DEF PipeInv, TypeOK
<1>3. Sent = wire /\ ExitEnds(wire) = {}
  <2>1. Sent = wire  BY <1>1, <1>2, TokEmpty DEF Sent
  <2> QED BY <1>1, <2>1, NoExitSent
<1>4. CASE UNCHANGED <<lineBuf, toWrite>>
  <2>1. pc' \in {"top", "done"}
    <3>1. toWrite' = <<>> /\ lineBuf' = lineBuf  BY <1>1, <1>4
    <3> QED BY <3>1 DEF StdinEnd, Exit, WriteAll
  <2>2. NothingLost'  BY <1>1, <1>4 DEF PipeInv, DataInv, NothingLost, Taken
  <2>3. DataInv'  BY <1>1, <1>4, <2>2 DEF PipeInv, DataInv
  <2>4. Sent' = Sent  BY <1>1, <1>4 DEF Sent
  <2>5. ExitEnds(Sent') = {}  BY <1>3, <2>4
  <2>6. ExitInv'  BY <2>1, <2>5 DEF ExitInv
  <2> QED BY <2>3, <2>6 DEF Kept
<1>5. CASE toWrite' = lineBuf /\ lineBuf' = <<>> /\ after' = "tail" /\ pc' = "write"
  <2>1. wire \o lineBuf \in Seq(Token)  BY <1>2, TokConcat
  <2>2. (wire \o <<>>) \o lineBuf = wire \o lineBuf /\ (wire \o lineBuf) \o <<>> = wire \o lineBuf
      BY <1>2, <2>1, TokEmpty
  <2>3. wire' \o toWrite' \o lineBuf' \o raw' = wire \o toWrite \o lineBuf \o raw
    <3>1. wire' \o toWrite' \o lineBuf' = wire \o toWrite \o lineBuf
        BY <1>1, <1>5, <2>2
    <3> QED BY <1>1, <3>1
  <2>4. NothingLost'  BY <1>1, <2>3 DEF PipeInv, DataInv, NothingLost, Taken
  <2>5. LineEnds(lineBuf') = {}  BY <1>5, TokEmpty DEF LineEnds
  <2>6. DataInv'  BY <1>1, <2>4, <2>5 DEF DataInv
  <2>7. Sent' = wire \o lineBuf  BY <1>1, <1>5 DEF Sent
  <2>8. ASSUME NEW i \in ExitEnds(wire \o lineBuf) PROVE FALSE
    <3>1. i \in 1 .. Len(wire \o lineBuf) /\ (wire \o lineBuf)[i] = "newline"
        BY DEF ExitEnds, LineEnds
    <3>2. /\ Len(wire \o lineBuf) = Len(wire) + Len(lineBuf)
          /\ \A j \in 1 .. Len(lineBuf) : (wire \o lineBuf)[Len(wire) + j] = lineBuf[j]
        BY <1>2, TokConcat
    <3>3. Len(wire) \in Nat /\ Len(lineBuf) \in Nat  BY <1>2
    <3>4. CASE i > Len(wire)
      <4>1. i - Len(wire) \in 1 .. Len(lineBuf) /\ Len(wire) + (i - Len(wire)) = i
          BY <3>1, <3>2, <3>3, <3>4
      <4>2. lineBuf[i - Len(wire)] = "newline"  BY <3>1, <3>2, <4>1
      <4>3. i - Len(wire) \in LineEnds(lineBuf)  BY <4>1, <4>2 DEF LineEnds
      <4> QED BY <4>3 DEF PipeInv, DataInv
    <3>5. CASE i <= Len(wire)
      <4>1. i \in 1 .. Len(wire)  BY <3>1, <3>3, <3>5
      <4>2. i \in ExitEnds(wire)  BY <1>2, <4>1, EndsBefore
      <4> QED BY <1>3, <4>2
    <3> QED BY <3>1, <3>3, <3>4, <3>5
  <2>9. ExitEnds(Sent') = {}  BY <2>7, <2>8
  <2>10. ExitInv'  BY <1>5, <2>9 DEF ExitInv
  <2> QED BY <2>6, <2>10 DEF Kept
<1> QED BY <1>4, <1>5 DEF StdinEnd, WriteAll

(* The first newline in what was read ends a line, which is given away.    *)
LEMMA ScanLineKeeps ==
    ASSUME PipeInv, ScanLine
    PROVE  Kept
<1>1. /\ pc = "scan" /\ toWrite = <<>> /\ ~stdinEof
      /\ lineBuf' = <<>> /\ UNCHANGED <<script, wire, taken, stdinEof>>
    BY DEF ScanLine, PipeInv, KnownInv, netVars, inputVars
<1>2. PICK i \in Newlines :
        /\ \A j \in Newlines : i <= j
        /\ raw' = SubSeq(raw, i + 1, Len(raw))
        /\ WriteAll(lineBuf \o SubSeq(raw, 1, i),
                    IF IsExit(lineBuf \o SubSeq(raw, 1, i)) THEN "exit" ELSE "line")
    BY DEF ScanLine
<1> DEFINE head == SubSeq(raw, 1, i)
           line == lineBuf \o head
<1>3. /\ toWrite' = line /\ pc' = "write" /\ after' = IF IsExit(line) THEN "exit" ELSE "line"
    BY <1>2 DEF WriteAll
<1>4. /\ wire \in Seq(Token) /\ lineBuf \in Seq(Token) /\ raw \in Seq(Token)
      /\ <<>> \in Seq(Token) /\ Len(wire) \in Nat /\ Len(lineBuf) \in Nat
    BY TokEmpty DEF PipeInv, TypeOK
<1>5. i \in 1 .. Len(raw) /\ raw[i] = "newline" /\ i \in 0 .. Len(raw)  BY DEF Newlines
<1>6. /\ head \in Seq(Token) /\ Len(head) = i /\ \A j \in 1 .. i : head[j] = raw[j]
      /\ raw' \in Seq(Token) /\ head \o raw' = raw
    BY <1>2, <1>4, <1>5, TokCut
<1>7. \A j \in 1 .. i : head[j] = "newline" => j = i
  <2> TAKE j \in 1 .. i
  <2> HAVE head[j] = "newline"
  <2>1. j \in Newlines  BY <1>5, <1>6 DEF Newlines
  <2> QED BY <1>2, <1>5, <2>1
<1>8. head[i] = "newline"  BY <1>5, <1>6
<1> HIDE DEF head
<1>9. head \in Seq(Token) /\ lineBuf \in Seq(Token) /\ raw' \in Seq(Token)  BY <1>4, <1>6
<1>10. /\ line \in Seq(Token) /\ Len(line) = Len(lineBuf) + Len(head)
       /\ \A j \in 1 .. Len(lineBuf) : line[j] = lineBuf[j]
       /\ \A j \in 1 .. Len(head) : line[Len(lineBuf) + j] = head[j]
    BY <1>9, TokConcat
<1>11. line \o raw' = lineBuf \o raw
  <2>1. (lineBuf \o head) \o raw' = lineBuf \o (head \o raw')  BY <1>9, TokAssoc
  <2> QED BY <1>6, <2>1
<1> HIDE DEF line
<1>12. Len(line) >= 1 /\ LineEnds(line) = {Len(line)}
  <2>1. Len(line) = Len(lineBuf) + i /\ i >= 1 /\ Len(lineBuf) \in Nat /\ i \in Nat
      BY <1>4, <1>5, <1>6, <1>10
  <2>2. line[Len(line)] = "newline"  BY <1>6, <1>8, <1>10, <2>1
  <2>3. ASSUME NEW j \in LineEnds(line) PROVE j = Len(line)
    <3>1. j \in 1 .. Len(line) /\ line[j] = "newline"  BY DEF LineEnds
    <3>2. CASE j <= Len(lineBuf)
      <4>1. j \in 1 .. Len(lineBuf) /\ lineBuf[j] = "newline"  BY <1>10, <3>1, <3>2, <2>1
      <4>2. j \in LineEnds(lineBuf)  BY <4>1 DEF LineEnds
      <4> QED BY <4>2 DEF PipeInv, DataInv
    <3>3. CASE j > Len(lineBuf)
      <4> DEFINE k == j - Len(lineBuf)
      <4>1. k \in 1 .. i /\ Len(lineBuf) + k = j  BY <2>1, <3>1, <3>3
      <4> HIDE DEF k
      <4>2. head[k] = "newline"  BY <1>6, <1>10, <3>1, <4>1
      <4>3. k = i  BY <1>7, <4>1, <4>2
      <4> QED BY <2>1, <4>1, <4>3
    <3> QED BY <2>1, <3>1, <3>2, <3>3
  <2> QED BY <2>1, <2>2, <2>3 DEF LineEnds
<1>13. Sent = wire /\ Sent' = wire \o line
  <2>1. wire \o <<>> = wire  BY <1>4, TokEmpty
  <2> QED BY <1>1, <1>3, <2>1 DEF Sent
<1>14. EndsLine(wire) /\ ExitEnds(wire) = {}
  <2>1. EndsLine(Sent)  BY <1>1 DEF PipeInv, DataInv
  <2>2. ExitEnds(Sent) = {}  BY <1>1, NoExitSent
  <2> QED BY <1>13, <2>1, <2>2
<1>15. wire \in Seq(Token) /\ line \in Seq(Token)  BY <1>4, <1>10
<1>16. /\ EndsLine(wire \o line)
       /\ Len(wire \o line) \in ExitEnds(wire \o line) <=> IsExit(line)
       /\ \A j \in ExitEnds(wire \o line) : j = Len(wire \o line) \/ j \in ExitEnds(wire)
    BY <1>12, <1>14, <1>15, LineBehindLines
<1>17. NothingLost'
  <2>1. (wire \o line) \o raw' = wire \o (line \o raw')  BY <1>9, <1>15, TokAssoc
  <2>2. (wire \o lineBuf) \o raw = wire \o (lineBuf \o raw)  BY <1>4, TokAssoc
  <2>3. wire \o line \in Seq(Token)  BY <1>15, TokConcat
  <2>4. (wire \o line) \o <<>> = wire \o line  BY <2>3, TokEmpty
  <2>5. wire' \o toWrite' \o lineBuf' \o raw' = wire \o (line \o raw')
      BY <1>1, <1>3, <2>1, <2>4
  <2>6. wire \o toWrite = wire  BY <1>1, <1>4, TokEmpty
  <2>7. wire \o toWrite \o lineBuf \o raw = wire \o (lineBuf \o raw)
      BY <2>2, <2>6
  <2> QED BY <1>1, <1>11, <2>5, <2>7 DEF PipeInv, DataInv, NothingLost, Taken
<1>18. LineEnds(lineBuf') = {}  BY <1>1, TokEmpty DEF LineEnds
<1>19. DataInv'  BY <1>13, <1>16, <1>17, <1>18 DEF DataInv
<1>20. ASSUME after' = "exit" PROVE Len(Sent') \in ExitEnds(Sent')
  <2>1. IsExit(line)  BY <1>3, <1>20
  <2> QED BY <1>13, <1>16, <2>1
<1>21. ASSUME NEW j \in ExitEnds(Sent') PROVE j = Len(Sent') /\ after' = "exit"
  <2>1. j = Len(wire \o line)  BY <1>13, <1>14, <1>16
  <2>2. IsExit(line)  BY <1>13, <1>16, <2>1
  <2> QED BY <1>3, <1>13, <2>1, <2>2
<1>22. ExitInv'  BY <1>3, <1>20, <1>21 DEF ExitInv
<1> QED BY <1>19, <1>22 DEF Kept

LEMMA ScanRestKeeps ==
    ASSUME PipeInv, ScanRest
    PROVE  Kept
<1>1. /\ pc = "scan" /\ pc' = "top" /\ Newlines = {}
      /\ lineBuf' = lineBuf \o raw /\ raw' = <<>>
      /\ UNCHANGED <<script, wire, taken, toWrite, stdinEof>>
    BY DEF ScanRest, netVars, inputVars
<1>2. wire \in Seq(Token) /\ toWrite \in Seq(Token) /\ lineBuf \in Seq(Token) /\ raw \in Seq(Token)
    BY DEF PipeInv, TypeOK
<1> DEFINE w == wire \o toWrite
<1>3. w \in Seq(Token)  BY <1>2, TokConcat
<1>4. lineBuf \o raw \in Seq(Token) /\ Len(lineBuf \o raw) = Len(lineBuf) + Len(raw)
      /\ (\A i \in 1 .. Len(lineBuf) : (lineBuf \o raw)[i] = lineBuf[i])
      /\ (\A i \in 1 .. Len(raw) : (lineBuf \o raw)[Len(lineBuf) + i] = raw[i])
    BY <1>2, TokConcat
<1>5. NothingLost'
  <2>1. w' = w  BY <1>1
  <2> HIDE DEF w
  <2> DEFINE l == lineBuf \o raw
  <2>2. l \in Seq(Token)  BY <1>4
  <2>3. (w \o lineBuf) \o raw = w \o l  BY <1>2, <1>3, TokAssoc
  <2> HIDE DEF l
  <2>4. w \o l \in Seq(Token)  BY <1>3, <2>2, TokConcat
  <2>5. (w \o l) \o <<>> = w \o l  BY <2>4, TokEmpty
  <2>6. w' \o lineBuf' \o raw' = w \o lineBuf \o raw
      BY <1>1, <2>1, <2>3, <2>5 DEF l
  <2>7. w \o lineBuf \o raw = Taken  BY DEF PipeInv, DataInv, NothingLost, w
  <2>8. Taken' = Taken  BY <1>1 DEF Taken
  <2>9. w' \o lineBuf' \o raw' = Taken'  BY <2>6, <2>7, <2>8
  <2> QED BY <2>9 DEF NothingLost, w
<1>6. LineEnds(lineBuf') = {}
  <2> SUFFICES ASSUME NEW i \in LineEnds(lineBuf \o raw) PROVE FALSE  BY <1>1
  <2>1. i \in 1 .. Len(lineBuf \o raw) /\ (lineBuf \o raw)[i] = "newline"  BY DEF LineEnds
  <2>2. Len(lineBuf) \in Nat /\ Len(raw) \in Nat  BY <1>2
  <2>3. CASE i <= Len(lineBuf)
    <3>1. i \in 1 .. Len(lineBuf) /\ lineBuf[i] = "newline"  BY <1>4, <2>1, <2>2, <2>3
    <3>2. i \in LineEnds(lineBuf)  BY <3>1 DEF LineEnds
    <3> QED BY <3>2 DEF PipeInv, DataInv
  <2>4. CASE i > Len(lineBuf)
    <3> DEFINE k == i - Len(lineBuf)
    <3>1. k \in 1 .. Len(raw) /\ Len(lineBuf) + k = i  BY <1>4, <2>1, <2>2, <2>4
    <3> HIDE DEF k
    <3>2. raw[k] = "newline"  BY <1>4, <2>1, <3>1
    <3>3. k \in Newlines  BY <3>1, <3>2 DEF Newlines
    <3> QED BY <1>1, <3>3
  <2> QED BY <2>1, <2>2, <2>3, <2>4
<1>7. Sent' = Sent  BY <1>1 DEF Sent
<1>8. DataInv'  BY <1>1, <1>5, <1>6, <1>7 DEF DataInv, PipeInv
<1>9. ExitEnds(Sent') = {}  BY <1>1, <1>7, NoExitSent
<1>10. ExitInv'  BY <1>1, <1>9 DEF ExitInv
<1> QED BY <1>8, <1>10 DEF Kept

(* What is sent moves from one side of Sent to the other.                  *)
LEMMA WriteSomeKeeps ==
    ASSUME PipeInv, NEW n \in 1 .. Len(toWrite), WriteSome(n)
    PROVE  Kept
<1> DEFINE a == SubSeq(toWrite, 1, n)
           b == SubSeq(toWrite, n + 1, Len(toWrite))
<1>1. /\ pc = "write" /\ wire' = wire \o a /\ toWrite' = b
      /\ UNCHANGED <<script, taken, lineBuf, raw, after, stdinEof>>
      /\ IF n = Len(toWrite) THEN WriteReturns ELSE UNCHANGED pc
    BY DEF WriteSome, inputVars
<1>2. wire \in Seq(Token) /\ toWrite \in Seq(Token)  BY DEF PipeInv, TypeOK
<1>3. a \in Seq(Token) /\ b \in Seq(Token) /\ a \o b = toWrite  BY <1>2, TokCut
<1>4. n = Len(toWrite) => b = <<>>  BY <1>2, SubSeqEmpty
<1> HIDE DEF a, b
<1>5. Sent' = Sent
  <2>1. (wire \o a) \o b = wire \o (a \o b)  BY <1>2, <1>3, TokAssoc
  <2> QED BY <1>1, <1>3, <2>1 DEF Sent
<1>6. NothingLost'
  <2>1. Sent' \o lineBuf' \o raw' = Sent \o lineBuf \o raw  BY <1>1, <1>5
  <2>2. Taken' = Taken  BY <1>1 DEF Taken
  <2>3. Sent \o lineBuf \o raw = Taken  BY DEF PipeInv, DataInv, NothingLost, Sent
  <2>4. Sent' \o lineBuf' \o raw' = Taken'  BY <2>1, <2>2, <2>3
  <2> QED BY <2>4 DEF NothingLost, Sent
<1>7. DataInv'  BY <1>1, <1>5, <1>6 DEF DataInv, PipeInv
<1>8. pc' = "write" \/ (WriteReturns /\ toWrite' = <<>>)  BY <1>1, <1>4
<1>9. pc' \in {"write", "drain"} \/ after # "exit"  BY <1>8 DEF WriteReturns
<1>10. after = "exit" => Len(Sent') \in ExitEnds(Sent')
  <2>1. after = "exit" => Len(Sent) \in ExitEnds(Sent)  BY <1>1 DEF PipeInv, ExitInv
  <2> QED BY <1>5, <2>1
<1>11. ASSUME NEW i \in ExitEnds(Sent')
       PROVE  i = Len(Sent') /\ after' = "exit" /\ pc' \in {"write", "drain", "done"}
  <2>1. i \in ExitEnds(Sent)  BY <1>5, <1>11
  <2>2. i = Len(Sent) /\ after = "exit"  BY <2>1 DEF PipeInv, ExitInv
  <2> QED BY <1>1, <1>5, <1>9, <2>2
<1>12. ExitInv'  BY <1>1, <1>9, <1>10, <1>11 DEF ExitInv
<1> QED BY <1>7, <1>12 DEF Kept

LEMMA KeptNext ==
    ASSUME PipeInv, [Next]_vars
    PROVE  Kept
<1>1. Quiet \/ Loud  BY QuietOrLoud DEF PipeInv
<1> QED BY <1>1, QuietKeeps, StdinDataKeeps, StdinEndKeeps, ScanLineKeeps, ScanRestKeeps,
           WriteSomeKeeps DEF Loud

-----------------------------------------------------------------------------
(* Why a session ends with 0                                               *)

(* The steps that may end a session with 0.                                *)
ZeroExit ==
    Interrupted \/ PollIdle \/ SockEnds \/ StdinEnd \/ DrainEnds \/ DrainFails

LEMMA OnlyZeroExits ==
    ASSUME PipeInv, [Next]_vars, exitCode' = 0
    PROVE  (ZeroExit /\ exitCode = -1) \/ UNCHANGED vars
<1>0. pc # "done" => exitCode = -1  BY DEF PipeInv, KnownInv
<1>1. CASE ZeroExit
    BY <1>0, <1>1 DEF ZeroExit, Interrupted, PollIdle, SockEnds, StdinEnd, DrainEnds, DrainFails
<1>2. CASE EnterPoll
    BY <1>0, <1>2 DEF EnterPoll, inputVars, netVars
<1>3. CASE PollReady
    BY <1>0, <1>3 DEF PollReady, inputVars, netVars
<1>4. CASE PollFails
    BY <1>0, <1>4 DEF PollFails, Exit, inputVars, netVars
<1>5. CASE \E n \in 1 .. NetCap : SockData(n)
    BY <1>0, <1>5 DEF SockData, Receives, inputVars
<1>6. CASE SockFails
    BY <1>0, <1>6 DEF SockFails, Exit, inputVars, netVars
<1>7. CASE SockIdle
    BY <1>0, <1>7 DEF SockIdle, inputVars, netVars
<1>8. CASE StdinIdle
    BY <1>0, <1>8 DEF StdinIdle, NoEvents, inputVars, netVars
<1>9. CASE StdinFails
    BY <1>0, <1>9 DEF StdinFails, NoEvents, inputVars, netVars
<1>10. CASE \E n \in 1 .. Len(script) : StdinData(n)
    BY <1>0, <1>10 DEF StdinData, NoEvents, netVars
<1>11. CASE ScanLine
    BY <1>0, <1>11 DEF ScanLine, WriteAll, inputVars, netVars
<1>12. CASE ScanRest
    BY <1>0, <1>12 DEF ScanRest, inputVars, netVars
<1>13. CASE NoMemory
    BY <1>0, <1>13 DEF NoMemory, Exit, inputVars, netVars
<1>14. CASE \E n \in 1 .. Len(toWrite) : WriteSome(n)
    BY <1>0, <1>14 DEF WriteSome, WriteReturns, inputVars
<1>15. CASE WriteTimesOut
    BY <1>0, <1>15 DEF WriteTimesOut, WriteGivesUp, WriteReturns, Exit, inputVars, netVars
<1>16. CASE WriteFails
    BY <1>0, <1>16 DEF WriteFails, WriteGivesUp, WriteReturns, Exit, inputVars, netVars
<1>17. CASE WriteInterrupted
    BY <1>0, <1>17 DEF WriteInterrupted, WriteGivesUp, WriteReturns, Exit, inputVars, netVars
<1>18. CASE \E n \in 1 .. NetCap : DrainData(n)
    BY <1>0, <1>18 DEF DrainData, Receives, inputVars
<1>19. CASE StdinWritten
    BY <1>0, <1>19 DEF StdinWritten, Running, clientVars, netVars
<1>20. CASE StdinCloses
    BY <1>0, <1>20 DEF StdinCloses, Running, clientVars, netVars
<1>21. CASE Signal
    BY <1>0, <1>21 DEF Signal, Running, clientVars, inputVars, netVars
<1>22. CASE SignalInPoll
    BY <1>0, <1>22 DEF SignalInPoll, inputVars, netVars
<1>23. CASE SrvReads
    BY <1>0, <1>23 DEF SrvReads, Running, clientVars, inputVars
<1>24. CASE SrvSends
    BY <1>0, <1>24 DEF SrvSends, Running, clientVars, inputVars
<1>25. CASE SrvCloses
    BY <1>0, <1>25 DEF SrvCloses, Running, clientVars, inputVars
<1>26. CASE SrvResets
    BY <1>0, <1>26 DEF SrvResets, Running, clientVars, inputVars
<1> QED BY <1>1, <1>2, <1>3, <1>4, <1>5, <1>6, <1>7, <1>8, <1>9, <1>10, <1>11, <1>12,
           <1>13, <1>14, <1>15, <1>16, <1>17, <1>18, <1>19, <1>20, <1>21, <1>22, <1>23,
           <1>24, <1>25, <1>26
        DEF ZeroExit, Next, ClientStep, Outside, Terminated

(* Behind the end of stdin, silence ends a session in which everything was *)
(* sent, or a write or a read of stdin has failed.                         *)
LEMMA IdleJustified ==
    ASSUME PipeInv, PollIdle, stdinEof
    PROVE  ExitIsJustified'
<1>1. /\ pc = "poll" /\ raw = <<>> /\ (after = "line" => toWrite = <<>>)
      /\ UNCHANGED <<stdinEof, after, toWrite, failed, stdinClosed, taken, avail, wire, script>>
    BY DEF PollIdle, PipeInv, KnownInv, inputVars, netVars
<1>2. CASE "stdin" \in failed
    BY <1>1, <1>2 DEF ExitIsJustified
<1>3. CASE "stdin" \notin failed /\ toWrite # <<>>
  <2>1. after = "tail" /\ failed \cap WriteFaults # {}  BY <1>1, <1>3 DEF PipeInv, EofInv
  <2> QED BY <1>1, <1>3, <2>1 DEF ExitIsJustified
<1>4. CASE "stdin" \notin failed /\ toWrite = <<>>
  <2>1. stdinClosed /\ taken = avail /\ lineBuf = <<>>  BY <1>1, <1>4 DEF PipeInv, EofInv
  <2>2. wire \in Seq(Token) /\ wire \o <<>> = wire  BY TokEmpty DEF PipeInv, TypeOK
  <2>3. wire = Taken
    <3>1. wire \o toWrite \o lineBuf \o raw = Taken  BY DEF PipeInv, DataInv, NothingLost
    <3> QED BY <1>1, <1>4, <2>1, <2>2, <3>1
  <2>4. wire' = Taken'  BY <1>1, <2>3 DEF Taken
  <2> QED BY <1>1, <1>4, <2>1, <2>4 DEF ExitIsJustified
<1> QED BY <1>2, <1>3, <1>4

LEMMA JustifiedNext ==
    ASSUME PipeInv, [Next]_vars
    PROVE  ExitIsJustified'
<1> SUFFICES ASSUME exitCode' = 0 PROVE ExitIsJustified'  BY DEF ExitIsJustified
<1>1. CASE UNCHANGED vars
  <2>1. Taken' = Taken  BY <1>1 DEF Taken, vars, inputVars
  <2>2. ExitGiven' = ExitGiven  BY <1>1 DEF ExitGiven, vars, netVars, clientVars
  <2> QED BY <1>1, <2>1, <2>2
        DEF PipeInv, ExitIsJustified, AllRead, vars, clientVars, inputVars, netVars
<1>2. ASSUME exitCode = -1, Interrupted \/ SockEnds PROVE ExitIsJustified'
  <2>1. /\ after = "line" => toWrite = <<>>
        /\ UNCHANGED <<after, toWrite, interrupted, srvFin, srvReset, unread>>
      BY <1>2 DEF Interrupted, SockEnds, PipeInv, KnownInv, netVars
  <2>2. interrupted \/ ((srvFin \/ srvReset) /\ AllRead)
      BY <1>2 DEF Interrupted, SockEnds, PipeInv, KnownInv
  <2> QED BY <2>1, <2>2 DEF ExitIsJustified, AllRead
<1>3. ASSUME exitCode = -1, PollIdle PROVE ExitIsJustified'
  <2>1. stdinEof  BY <1>3 DEF PollIdle
  <2> QED BY <1>3, <2>1, IdleJustified
<1>4. ASSUME exitCode = -1, StdinEnd PROVE ExitIsJustified'
  <2>1. /\ after = "line" => toWrite = <<>>
        /\ IsExit(lineBuf) /\ UNCHANGED <<lineBuf, toWrite, after>> /\ stdinEof' = TRUE
      BY <1>4 DEF StdinEnd, PipeInv, KnownInv
  <2> QED BY <2>1 DEF ExitIsJustified
<1>5. ASSUME exitCode = -1, DrainEnds \/ DrainFails PROVE ExitIsJustified'
  <2>1. pc = "drain" /\ after = "exit" /\ UNCHANGED <<after, wire, toWrite>>
      BY <1>5 DEF DrainEnds, DrainFails, PipeInv, KnownInv, netVars
  <2>2. Len(Sent) \in ExitEnds(Sent)  BY <2>1 DEF PipeInv, ExitInv
  <2>3. ExitGiven'  BY <2>1, <2>2 DEF ExitGiven, Sent
  <2> QED BY <2>1, <2>3 DEF ExitIsJustified
<1> QED BY <1>1, <1>2, <1>3, <1>4, <1>5, OnlyZeroExits DEF ZeroExit

LEMMA LastWordsNext ==
    ASSUME PipeInv, [Next]_vars
    PROVE  LastWordsRead'
<1> SUFFICES ASSUME exitCode' = 0, ~interrupted', "poll" \notin failed', ~IsExit(lineBuf')
             PROVE  AllRead'
    BY DEF LastWordsRead
<1>1. CASE UNCHANGED vars
    BY <1>1 DEF PipeInv, LastWordsRead, AllRead, vars, clientVars, netVars
<1>2. CASE PollIdle
  <2>1. ~Readable  BY <1>2 DEF PollIdle, Ready, NoEvents
  <2>2. unread \in Nat /\ unread' = unread
      BY <1>2, PipeAssumption DEF PollIdle, netVars, PipeInv, TypeOK
  <2> QED BY <2>1, <2>2 DEF Readable, AllRead
<1>3. CASE SockEnds
    BY <1>3 DEF SockEnds, AllRead, netVars, PipeInv, KnownInv
<1>4. CASE DrainEnds
    BY <1>4 DEF DrainEnds, AllRead, netVars
<1>5. CASE Interrupted
    BY <1>5 DEF Interrupted
<1>6. CASE DrainFails
    BY <1>6 DEF DrainFails
<1>7. ASSUME StdinEnd, exitCode = -1 PROVE FALSE
    BY <1>7 DEF StdinEnd
<1> QED BY <1>1, <1>2, <1>3, <1>4, <1>5, <1>6, <1>7, OnlyZeroExits DEF ZeroExit

LEMMA NextPipe == PipeInv /\ [Next]_vars => PipeInv'
<1> SUFFICES ASSUME PipeInv, [Next]_vars PROVE PipeInv'  OBVIOUS
<1>1. TypeOK'  BY TypeNext DEF PipeInv
<1>2. KnownInv' /\ EofInv'  BY KnownNext DEF PipeInv
<1>3. DataInv' /\ ExitInv'  BY KeptNext DEF Kept
<1>4. LastWordsRead'  BY LastWordsNext
<1>5. ExitIsJustified'  BY JustifiedNext
<1> QED BY <1>1, <1>2, <1>3, <1>4, <1>5 DEF PipeInv

(* The loop knows where its input is and what it has given away, for every *)
(* script and every behaviour of server, user and signal.                  *)
THEOREM PipeInvariant == Spec => []PipeInv
<1> QED BY InitPipe, NextPipe, PTL DEF Spec

(* Reads and sends of any size lose, repeat and reorder nothing.           *)
THEOREM PipeLosesNothing == Spec => []NothingLost
<1>1. PipeInv => NothingLost  BY DEF PipeInv, DataInv
<1> QED BY <1>1, PipeInvariant, PTL

(* Whenever the loop waits, what it has sent ends with a line.             *)
THEOREM PipeSendsWholeLines == Spec => []WholeLines
<1>1. PipeInv => WholeLines
  <2> SUFFICES ASSUME PipeInv, pc = "poll", ~stdinEof
               PROVE  /\ toWrite = <<>> /\ raw = <<>>
                      /\ wire = <<>> \/ wire[Len(wire)] = "newline"
                      /\ LineEnds(lineBuf) = {}
      BY DEF WholeLines
  <2>1. toWrite = <<>> /\ raw = <<>>  BY DEF PipeInv, KnownInv
  <2>2. LineEnds(lineBuf) = {} /\ EndsLine(Sent)  BY DEF PipeInv, DataInv
  <2>3. wire \in Seq(Token) /\ wire \o <<>> = wire  BY TokEmpty DEF PipeInv, TypeOK
  <2>4. Sent = wire  BY <2>1, <2>3 DEF Sent
  <2> QED BY <2>1, <2>2, <2>4 DEF EndsLine
<1> QED BY <1>1, PipeInvariant, PTL

(* Nothing follows a line that says exit, and the loop never waits again.  *)
THEOREM PipeExitIsLast == Spec => []ExitIsLast
<1>1. PipeInv => ExitIsLast
  <2> SUFFICES ASSUME PipeInv PROVE ExitIsLast  OBVIOUS
  <2>1. /\ wire \in Seq(Token) /\ toWrite \in Seq(Token) /\ lineBuf \in Seq(Token)
        /\ Len(wire) \in Nat
      BY DEF PipeInv, TypeOK
  <2>2. Sent \in Seq(Token) /\ Len(Sent) = Len(wire) + Len(toWrite) /\ Len(toWrite) \in Nat
      BY <2>1, TokConcat DEF Sent
  <2>3. ASSUME NEW i \in ExitEnds(wire) PROVE i = Len(wire)
    <3>1. i \in 1 .. Len(wire)  BY DEF ExitEnds, LineEnds
    <3>2. i \in ExitEnds(Sent)  BY <2>1, <3>1, EndsBefore DEF Sent
    <3>3. i = Len(Sent)  BY <3>2 DEF PipeInv, ExitInv
    <3> QED BY <2>1, <2>2, <3>1, <3>3
  <2>4. ASSUME pc \in {"top", "poll", "sock", "stdin"}, NEW i \in ExitEnds(Taken) PROVE FALSE
    <3>1. raw = <<>> /\ ExitEnds(Sent) = {}  BY <2>4, NoExitSent DEF PipeInv, KnownInv
    <3>2. /\ Sent \o lineBuf \in Seq(Token)
          /\ Len(Sent \o lineBuf) = Len(Sent) + Len(lineBuf)
          /\ \A j \in 1 .. Len(lineBuf) : (Sent \o lineBuf)[Len(Sent) + j] = lineBuf[j]
        BY <2>1, <2>2, TokConcat
    <3>3. Taken = Sent \o lineBuf
      <4>1. Sent \o lineBuf \o raw = Taken  BY DEF PipeInv, DataInv, NothingLost, Sent
      <4>2. (Sent \o lineBuf) \o <<>> = Sent \o lineBuf  BY <3>2, TokEmpty
      <4> QED BY <3>1, <4>1, <4>2
    <3>4. i \in 1 .. Len(Taken) /\ Taken[i] = "newline"  BY DEF ExitEnds, LineEnds
    <3>5. Len(Sent) \in Nat /\ Len(lineBuf) \in Nat  BY <2>1, <2>2
    <3>6. CASE i <= Len(Sent)
      <4>1. i \in 1 .. Len(Sent)  BY <3>4, <3>5, <3>6
      <4>2. i \in ExitEnds(Sent)
        <5>1. i \in ExitEnds(Sent \o lineBuf)  BY <2>4, <3>3
        <5> QED BY <2>1, <2>2, <4>1, <5>1, EndsBefore
      <4> QED BY <3>1, <4>2
    <3>7. CASE i > Len(Sent)
      <4> DEFINE k == i - Len(Sent)
      <4>1. k \in 1 .. Len(lineBuf) /\ Len(Sent) + k = i  BY <3>2, <3>3, <3>4, <3>5, <3>7
      <4> HIDE DEF k
      <4>2. lineBuf[k] = "newline"  BY <3>2, <3>3, <3>4, <4>1
      <4>3. k \in LineEnds(lineBuf)  BY <4>1, <4>2 DEF LineEnds
      <4> QED BY <4>3 DEF PipeInv, DataInv
    <3> QED BY <3>4, <3>5, <3>6, <3>7
  <2> QED BY <2>3, <2>4 DEF ExitIsLast
<1> QED BY <1>1, PipeInvariant, PTL

(* What the server said before a session ends with 0 has been read.        *)
THEOREM PipeReadsLastWords == Spec => []LastWordsRead
<1>1. PipeInv => LastWordsRead  BY DEF PipeInv
<1> QED BY <1>1, PipeInvariant, PTL

(* 0 has one of its reasons, and never hides an ordinary line that did not *)
(* go out.                                                                 *)
THEOREM PipeExitHasReason == Spec => []ExitIsJustified
<1>1. PipeInv => ExitIsJustified  BY DEF PipeInv
<1> QED BY <1>1, PipeInvariant, PTL
==============================================================================
