------------------------ MODULE InteractiveTtyProofs ------------------------
(* The terminal loop, for every set of lines and whatever user, server,    *)
(* signal and crashes do: the terminal is left as it was found, and the    *)
(* server sees lines.                                                      *)
EXTENDS InteractiveTty, TLAPS, SequenceTheorems, WellFoundedInduction

LEMMA TokConcat ==
    ASSUME NEW s \in Seq(Tokens), NEW t \in Seq(Tokens)
    PROVE  /\ s \o t \in Seq(Tokens)
           /\ Len(s \o t) = Len(s) + Len(t)
           /\ \A i \in 1 .. Len(s) : (s \o t)[i] = s[i]
           /\ \A i \in 1 .. Len(t) : (s \o t)[Len(s) + i] = t[i]
OBVIOUS

LEMMA TokAssoc ==
    ASSUME NEW s \in Seq(Tokens), NEW t \in Seq(Tokens), NEW u \in Seq(Tokens)
    PROVE  (s \o t) \o u = s \o (t \o u)
BY ConcatAssociative

LEMMA TokEmpty ==
    /\ <<>> \in Seq(Tokens) /\ Len(<<>>) = 0
    /\ \A s \in Seq(Tokens) : s \o <<>> = s /\ <<>> \o s = s
BY ConcatEmptySeq

(* A sequence cut behind its n-th element.                                 *)
LEMMA TokCut ==
    ASSUME NEW s \in Seq(Tokens), NEW n \in 0 .. Len(s)
    PROVE  /\ SubSeq(s, 1, n) \in Seq(Tokens)
           /\ SubSeq(s, n + 1, Len(s)) \in Seq(Tokens)
           /\ SubSeq(s, 1, n) \o SubSeq(s, n + 1, Len(s)) = s
<1>1. SubSeq(s, 1, n) \o SubSeq(s, n + 1, Len(s)) = SubSeq(s, 1, Len(s))
  <2>1. 1 \in 1 .. Len(s) + 1 /\ n \in (1 - 1) .. Len(s) /\ Len(s) \in n .. Len(s)  OBVIOUS
  <2> QED BY <2>1, ConcatAdjacentSubSeq
<1>2. SubSeq(s, 1, Len(s)) = s  BY SubSeqFull
<1>3. SubSeq(s, 1, n) \in Seq(Tokens)
  <2>1. \A i \in 1 .. n : s[i] \in Tokens  OBVIOUS
  <2> QED BY <2>1, SubSeqProperties
<1>4. SubSeq(s, n + 1, Len(s)) \in Seq(Tokens)
  <2>1. \A i \in (n + 1) .. Len(s) : s[i] \in Tokens  OBVIOUS
  <2> QED BY <2>1, SubSeqProperties
<1> QED BY <1>1, <1>2, <1>3, <1>4

(* A line on its way: its tokens and the newline.                          *)
LEMMA AppendProps ==
    ASSUME NEW l \in Seq(Tokens)
    PROVE  /\ Append(l, "newline") \in Seq(Tokens)
           /\ Len(Append(l, "newline")) = Len(l) + 1
           /\ Append(l, "newline")[Len(l) + 1] = "newline"
           /\ \A k \in 1 .. Len(l) : Append(l, "newline")[k] = l[k]
<1>1. "newline" \in Tokens  BY DEF Tokens
<1> QED BY <1>1

-----------------------------------------------------------------------------
(* The inductive invariant                                                 *)

(* What socket_write_all has been given so far.                            *)
Sent == wire \o toWrite

Words == ExitWords \cup Builtins

NoNewline(l) == \A k \in 1 .. Len(l) : l[k] # "newline"

EndsLine(s) == s = <<>> \/ s[Len(s)] = "newline"

NoCommands(s) ==
    \A i, j \in 1 .. Len(s) : IsLine(s, i, j) => ~IsWord(SubSeq(s, i, j - 1), Words)

(* The end of s is the line l.                                             *)
EndsWith(s, l) ==
    Len(s) > Len(l) /\ SubSeq(s, Len(s) - Len(l), Len(s)) = Append(l, "newline")

(* The terminal is raw in the loop only, and what comes behind it has an   *)
(* exit code.                                                              *)
CleanInv ==
    /\ pc \in {"load", "raw", "pipe"} => ~rawMode
    /\ leaving => /\ ~rawMode /\ exitCode \in {0, 5}
                  /\ pc \in {"save", "saving", "saved", "done"}
    /\ pc = "done" => leaving
    /\ pc \in {"saved", "done"} /\ writable => ~cut
    /\ toWrite # <<>> => pc = "write" \/ (leaving /\ exitCode = 5)

(* What has been given away is lines, none of them a command, and the last *)
(* of them is the one that is about to be recorded.                        *)
LineInv ==
    /\ NoNewline(line)
    /\ EndsLine(Sent) /\ NoCommands(Sent)
    /\ pc = "write" => EndsWith(Sent, line)
    /\ pc = "save" /\ ~leaving => IsWord(line, Builtins) \/ EndsWith(Sent, line)

TtyInv == TypeOK /\ CleanInv /\ LineInv

LEMMA NothingSent == NoNewline(<<>>) /\ EndsLine(<<>>) /\ NoCommands(<<>>)
BY TokEmpty DEF NoNewline, EndsLine, NoCommands

LEMMA InitTty == Init => TtyInv
<1> SUFFICES ASSUME Init PROVE TtyInv  OBVIOUS
<1>1. rev \in [in : BOOLEAN, hup : BOOLEAN, key : BOOLEAN]  BY DEF Init, NoEvents
<1>2. TypeOK  BY <1>1, TokEmpty DEF Init, HistoryInit, TypeOK
<1>3. CleanInv  BY DEF Init, HistoryInit, CleanInv
<1>4. Sent = <<>> /\ line = <<>>  BY TokEmpty DEF Init, Sent
<1>5. LineInv  BY <1>4, NothingSent DEF Init, LineInv
<1> QED BY <1>2, <1>3, <1>5 DEF TtyInv

-----------------------------------------------------------------------------
(* Types                                                                   *)

LEMMA LineType ==
    ASSUME NEW l \in Lines
    PROVE  l \in Seq(Tokens) /\ NoNewline(l)
<1>1. l \in Seq(ExitWords \cup Builtins \cup {"blank", "text"})  BY TtyAssumption
<1>2. \A k \in 1 .. Len(l) : l[k] \in ExitWords \cup Builtins \cup {"blank", "text"}  BY <1>1
<1>3. \A k \in 1 .. Len(l) : l[k] # "newline" /\ l[k] \in Tokens
    BY <1>2 DEF ExitWords, Builtins, Tokens
<1> QED BY <1>1, <1>3 DEF NoNewline

LEMMA ReportType ==
    ASSUME TypeOK, rev' \in PollReports
    PROVE  rev' \in [in : BOOLEAN, hup : BOOLEAN, key : BOOLEAN]
<1>1. Ready \in [in : BOOLEAN, hup : BOOLEAN, key : BOOLEAN]
    BY DEF TypeOK, Ready
<1> QED BY <1>1 DEF PollReports

LEMMA WriteType ==
    ASSUME TypeOK, NEW n \in 1 .. Len(toWrite), WriteSome(n)
    PROVE  /\ wire' \in Seq(Tokens) /\ toWrite' \in Seq(Tokens)
           /\ Sent' = Sent
<1> DEFINE a == SubSeq(toWrite, 1, n)
           b == SubSeq(toWrite, n + 1, Len(toWrite))
<1>1. wire \in Seq(Tokens) /\ toWrite \in Seq(Tokens)  BY DEF TypeOK
<1>2. a \in Seq(Tokens) /\ b \in Seq(Tokens) /\ a \o b = toWrite  BY <1>1, TokCut
<1>3. wire' = wire \o a /\ toWrite' = b  BY DEF WriteSome
<1> HIDE DEF a, b
<1>4. wire \o a \in Seq(Tokens)  BY <1>1, <1>2, TokConcat
<1>5. (wire \o a) \o b = wire \o (a \o b)  BY <1>1, <1>2, TokAssoc
<1> QED BY <1>2, <1>3, <1>4, <1>5 DEF Sent

LEMMA TypeNext ==
    ASSUME TypeOK, [Next]_vars
    PROVE  TypeOK'
<1> USE DEF TypeOK
<1>1. CASE LoadHistory
    BY <1>1 DEF LoadHistory, Load, loopVars, keyVars, netVars
<1>2. CASE EnableRawMode
    BY <1>2, TokEmpty DEF EnableRawMode, fileVars, loopVars, keyVars, netVars
<1>3. CASE RawModeFails
    BY <1>3 DEF RawModeFails, Forget, loopVars, keyVars, netVars
<1>4. CASE EnterPoll
    BY <1>4 DEF EnterPoll, Goto, fileVars, loopVars, keyVars, netVars
<1>5. CASE Interrupted
    BY <1>5 DEF Interrupted, Leave, fileVars, loopVars, keyVars, netVars
<1>6. CASE PollReady
    BY <1>6, ReportType DEF PollReady, fileVars, loopVars, keyVars, netVars
<1>7. CASE PollFails
    BY <1>7 DEF PollFails, Leave, fileVars, loopVars, keyVars, netVars
<1>8. CASE SockData
    BY <1>8 DEF SockData, Goto, fileVars, loopVars, keyVars, netVars
<1>9. CASE SockEnds
    BY <1>9 DEF SockEnds, Leave, fileVars, loopVars, keyVars, netVars
<1>10. CASE SockFails
    BY <1>10 DEF SockFails, Leave, fileVars, loopVars, keyVars, netVars
<1>11. CASE SockIdle
    BY <1>11 DEF SockIdle, Goto, fileVars, loopVars, keyVars, netVars
<1>12. CASE NoKey
    BY <1>12 DEF NoKey, Goto, fileVars, loopVars, keyVars, netVars
<1>13. CASE TtyEnds
    BY <1>13 DEF TtyEnds, Leave, fileVars, loopVars, keyVars, netVars
<1>14. CASE KeyEdits
    BY <1>14, LineType DEF KeyEdits, Reads, fileVars, loopVars, keyVars, netVars
<1>15. CASE KeyEnter
    BY <1>15 DEF KeyEnter, Reads, fileVars, loopVars, keyVars, netVars
<1>16. CASE KeyAborts
    BY <1>16 DEF KeyAborts, Reads, Leave, fileVars, loopVars, keyVars, netVars
<1>17. CASE NoMoreKeys
    BY <1>17 DEF NoMoreKeys, Goto, fileVars, loopVars, keyVars, netVars
<1>18. CASE CommandExit
    BY <1>18 DEF CommandExit, Leave, fileVars, loopVars, keyVars, netVars
<1>19. CASE CommandBuiltin
    BY <1>19 DEF CommandBuiltin, Goto, Record, loopVars, keyVars, netVars
<1>20. CASE CommandNone
    BY <1>20 DEF CommandNone, Goto, fileVars, loopVars, keyVars, netVars
<1>21. CASE CommandSend
    BY <1>21, AppendProps DEF CommandSend, fileVars, loopVars, keyVars, netVars
<1>22. CASE \E n \in 1 .. Len(toWrite) : WriteSome(n)
    BY <1>22, WriteType DEF WriteSome, fileVars, loopVars, keyVars, netVars
<1>23. CASE WriteReturns
    BY <1>23 DEF WriteReturns, Goto, Record, loopVars, keyVars, netVars
<1>24. CASE WriteFails
    BY <1>24 DEF WriteFails, Leave, fileVars, loopVars, keyVars, netVars
<1>25. CASE BeginSave
    BY <1>25 DEF BeginSave, SaveOpens, Goto, loopVars, keyVars, netVars
<1>26. CASE WriteLine
    BY <1>26 DEF WriteLine, SaveWrites, Put, loopVars, keyVars, netVars
<1>41. CASE WriteLost
  <2>1. midLine' = ~TRUE \/ midLine' = ~FALSE \/ midLine' = midLine
      BY <1>41, Zenon DEF WriteLost, SaveLoses, Put
  <2>2. midLine' \in BOOLEAN  BY <2>1
  <2>3. damaged' \in BOOLEAN /\ UNCHANGED <<writable, cut>>
      BY <1>41, Zenon DEF WriteLost, SaveLoses
  <2>4. UNCHANGED <<loopVars, interrupted, keyVars, netVars>>  BY <1>41 DEF WriteLost
  <2> QED BY <2>2, <2>3, <2>4 DEF loopVars, keyVars, netVars
<1>27. CASE EndSave
  <2>1. cut' = FALSE /\ midLine' = FALSE /\ UNCHANGED <<writable, damaged>>
      BY <1>27 DEF EndSave, SaveCloses
  <2>2. /\ pc' = "saved" /\ UNCHANGED <<interrupted, typed, ttyClosed, netVars, waiting>>
        /\ UNCHANGED <<session, exitCode, rawMode, line, rev, toWrite, leaving>>
      BY <1>27 DEF EndSave, Goto
  <2>3. /\ cut' \in BOOLEAN /\ midLine' \in BOOLEAN
        /\ writable' \in BOOLEAN /\ damaged' \in BOOLEAN
      BY <2>1
  <2> QED BY <2>2, <2>3 DEF netVars
<1>28. CASE NoSave
    BY <1>28 DEF NoSave, Goto, fileVars, loopVars, keyVars, netVars
<1>29. CASE EditStart
    BY <1>29, TokEmpty DEF EditStart, fileVars, loopVars, keyVars, netVars
<1>30. CASE Return
    BY <1>30 DEF Return, Forget, Goto, loopVars, keyVars, netVars
<1>31. CASE Signal
    BY <1>31 DEF Signal, Ended, fileVars, loopVars, keyVars, netVars
<1>32. CASE SignalInPoll
    BY <1>32 DEF SignalInPoll, Leave, fileVars, loopVars, keyVars, netVars
<1>33. CASE Crash
    BY <1>33, TokEmpty DEF Crash, Ended, Lost, Cleared, NoEvents, loopVars, keyVars, netVars
<1>34. CASE Restart
  <2>1. <<>> \in Seq(Tokens)  BY TokEmpty
  <2>2. NoEvents \in [in : BOOLEAN, hup : BOOLEAN, key : BOOLEAN]  BY DEF NoEvents
  <2>3. session' \in Nat /\ pc' = "load" /\ rawMode' = FALSE
      BY <1>34 DEF Restart
  <2>4. /\ exitCode' = -1 /\ line' = <<>> /\ rev' = NoEvents /\ toWrite' = <<>>
        /\ leaving' = FALSE /\ interrupted' = FALSE
        /\ typed' = 0 /\ waiting' = 0 /\ ttyClosed' = FALSE /\ wire' = <<>>
        /\ srvSent' = 0 /\ unread' = 0 /\ srvFin' = FALSE /\ srvReset' = FALSE
      BY <1>34 DEF Restart, Cleared
  <2>5. UNCHANGED <<writable, cut, damaged, midLine>>  BY <1>34 DEF Restart, fileVars
  <2> QED BY <2>1, <2>2, <2>3, <2>4, <2>5
<1>35. CASE Type
    BY <1>35 DEF Type, Ended, fileVars, loopVars, keyVars, netVars
<1>36. CASE TtyCloses
    BY <1>36 DEF TtyCloses, Ended, fileVars, loopVars, keyVars, netVars
<1>37. CASE SrvSends
    BY <1>37 DEF SrvSends, Ended, fileVars, loopVars, keyVars, netVars
<1>38. CASE SrvCloses
    BY <1>38 DEF SrvCloses, Ended, fileVars, loopVars, keyVars, netVars
<1>39. CASE SrvResets
    BY <1>39 DEF SrvResets, Ended, fileVars, loopVars, keyVars, netVars
<1>40. CASE UNCHANGED vars
    BY <1>40 DEF vars, fileVars, loopVars, keyVars, netVars
<1> QED BY <1>1, <1>2, <1>3, <1>4, <1>5, <1>6, <1>7, <1>8, <1>9, <1>10, <1>11, <1>12, <1>13, <1>14,
           <1>15, <1>16, <1>17, <1>18, <1>19, <1>20, <1>21, <1>22, <1>23, <1>24, <1>25, <1>26, <1>27, <1>28,
           <1>29, <1>30, <1>31, <1>32, <1>33, <1>34, <1>35, <1>36, <1>37, <1>38, <1>39, <1>40, <1>41
        DEF Next, ClientStep, Environment, Stopped

LEMMA CleanNext ==
    ASSUME TypeOK, CleanInv, [Next]_vars
    PROVE  CleanInv'
<1> USE DEF TypeOK, CleanInv
<1>1. CASE LoadHistory
    BY <1>1 DEF LoadHistory, Load, loopVars, keyVars, netVars
<1>2. CASE EnableRawMode
    BY <1>2 DEF EnableRawMode, fileVars, loopVars, keyVars, netVars
<1>3. CASE RawModeFails
    BY <1>3 DEF RawModeFails, Forget, loopVars, keyVars, netVars
<1>4. CASE EnterPoll
    BY <1>4 DEF EnterPoll, Goto, fileVars, loopVars, keyVars, netVars
<1>5. CASE Interrupted
    BY <1>5 DEF Interrupted, Leave, fileVars, loopVars, keyVars, netVars
<1>6. CASE PollReady
    BY <1>6 DEF PollReady, fileVars, loopVars, keyVars, netVars
<1>7. CASE PollFails
    BY <1>7 DEF PollFails, Leave, fileVars, loopVars, keyVars, netVars
<1>8. CASE SockData
    BY <1>8 DEF SockData, Goto, fileVars, loopVars, keyVars, netVars
<1>9. CASE SockEnds
    BY <1>9 DEF SockEnds, Leave, fileVars, loopVars, keyVars, netVars
<1>10. CASE SockFails
    BY <1>10 DEF SockFails, Leave, fileVars, loopVars, keyVars, netVars
<1>11. CASE SockIdle
    BY <1>11 DEF SockIdle, Goto, fileVars, loopVars, keyVars, netVars
<1>12. CASE NoKey
    BY <1>12 DEF NoKey, Goto, fileVars, loopVars, keyVars, netVars
<1>13. CASE TtyEnds
    BY <1>13 DEF TtyEnds, Leave, fileVars, loopVars, keyVars, netVars
<1>14. CASE KeyEdits
    BY <1>14 DEF KeyEdits, Reads, fileVars, loopVars, keyVars, netVars
<1>15. CASE KeyEnter
    BY <1>15 DEF KeyEnter, Reads, fileVars, loopVars, keyVars, netVars
<1>16. CASE KeyAborts
    BY <1>16 DEF KeyAborts, Reads, Leave, fileVars, loopVars, keyVars, netVars
<1>17. CASE NoMoreKeys
    BY <1>17 DEF NoMoreKeys, Goto, fileVars, loopVars, keyVars, netVars
<1>18. CASE CommandExit
    BY <1>18 DEF CommandExit, Leave, fileVars, loopVars, keyVars, netVars
<1>19. CASE CommandBuiltin
    BY <1>19 DEF CommandBuiltin, Goto, Record, loopVars, keyVars, netVars
<1>20. CASE CommandNone
    BY <1>20 DEF CommandNone, Goto, fileVars, loopVars, keyVars, netVars
<1>21. CASE CommandSend
    BY <1>21 DEF CommandSend, fileVars, loopVars, keyVars, netVars
<1>22. CASE \E n \in 1 .. Len(toWrite) : WriteSome(n)
    BY <1>22 DEF WriteSome, fileVars, loopVars, keyVars, netVars
<1>23. CASE WriteReturns
    BY <1>23 DEF WriteReturns, Goto, Record, loopVars, keyVars, netVars
<1>24. CASE WriteFails
    BY <1>24 DEF WriteFails, Leave, fileVars, loopVars, keyVars, netVars
<1>25. CASE BeginSave
    BY <1>25 DEF BeginSave, SaveOpens, Goto, loopVars, keyVars, netVars
<1>26. CASE WriteLine
    BY <1>26 DEF WriteLine, SaveWrites, loopVars, keyVars, netVars
<1>41. CASE WriteLost
    BY <1>41 DEF WriteLost, SaveLoses, loopVars, keyVars, netVars
<1>27. CASE EndSave
    BY <1>27 DEF EndSave, SaveCloses, Goto, loopVars, keyVars, netVars
<1>28. CASE NoSave
    BY <1>28 DEF NoSave, Goto, fileVars, loopVars, keyVars, netVars
<1>29. CASE EditStart
    BY <1>29 DEF EditStart, fileVars, loopVars, keyVars, netVars
<1>30. CASE Return
    BY <1>30 DEF Return, Forget, Goto, loopVars, keyVars, netVars
<1>31. CASE Signal
    BY <1>31 DEF Signal, Ended, fileVars, loopVars, keyVars, netVars
<1>32. CASE SignalInPoll
    BY <1>32 DEF SignalInPoll, Leave, fileVars, loopVars, keyVars, netVars
<1>33. CASE Crash
    BY <1>33 DEF Crash, Ended, Lost, Cleared, loopVars, keyVars, netVars
<1>34. CASE Restart
    BY <1>34 DEF Restart, Ended, Cleared, fileVars, loopVars, keyVars, netVars
<1>35. CASE Type
    BY <1>35 DEF Type, Ended, fileVars, loopVars, keyVars, netVars
<1>36. CASE TtyCloses
    BY <1>36 DEF TtyCloses, Ended, fileVars, loopVars, keyVars, netVars
<1>37. CASE SrvSends
    BY <1>37 DEF SrvSends, Ended, fileVars, loopVars, keyVars, netVars
<1>38. CASE SrvCloses
    BY <1>38 DEF SrvCloses, Ended, fileVars, loopVars, keyVars, netVars
<1>39. CASE SrvResets
    BY <1>39 DEF SrvResets, Ended, fileVars, loopVars, keyVars, netVars
<1>40. CASE UNCHANGED vars
    BY <1>40 DEF vars, fileVars, loopVars, keyVars, netVars
<1> QED BY <1>1, <1>2, <1>3, <1>4, <1>5, <1>6, <1>7, <1>8, <1>9, <1>10, <1>11, <1>12, <1>13, <1>14,
           <1>15, <1>16, <1>17, <1>18, <1>19, <1>20, <1>21, <1>22, <1>23, <1>24, <1>25, <1>26, <1>27, <1>28,
           <1>29, <1>30, <1>31, <1>32, <1>33, <1>34, <1>35, <1>36, <1>37, <1>38, <1>39, <1>40, <1>41
        DEF Next, ClientStep, Environment, Stopped

-----------------------------------------------------------------------------
(* What the server sees                                                    *)

(* A step that gives nothing away.                                         *)
Silent ==
    /\ UNCHANGED <<wire, toWrite>>
    /\ line' = line \/ (line' \in Lines \cup {<<>>} /\ pc' \notin {"write", "save"})
    /\ pc' = "write" => pc = "write"
    /\ pc' = "save" /\ ~leaving' =>
          (pc = "save" /\ ~leaving) \/ pc = "write" \/ IsWord(line, Builtins)

Loud ==
    \/ CommandSend \/ Crash \/ Restart
    \/ \E n \in 1 .. Len(toWrite) : WriteSome(n)

LEMMA SilentOrLoud ==
    ASSUME TypeOK, CleanInv, [Next]_vars
    PROVE  Silent \/ Loud
<1> USE DEF Silent, TypeOK, CleanInv
<1>1. CASE LoadHistory
    BY <1>1 DEF LoadHistory, Load, loopVars, keyVars, netVars
<1>2. CASE EnableRawMode
    BY <1>2 DEF EnableRawMode, fileVars, loopVars, keyVars, netVars
<1>3. CASE RawModeFails
    BY <1>3 DEF RawModeFails, Forget, loopVars, keyVars, netVars
<1>4. CASE EnterPoll
    BY <1>4 DEF EnterPoll, Goto, fileVars, loopVars, keyVars, netVars
<1>5. CASE Interrupted
    BY <1>5 DEF Interrupted, Leave, fileVars, loopVars, keyVars, netVars
<1>6. CASE PollReady
    BY <1>6 DEF PollReady, fileVars, loopVars, keyVars, netVars
<1>7. CASE PollFails
    BY <1>7 DEF PollFails, Leave, fileVars, loopVars, keyVars, netVars
<1>8. CASE SockData
    BY <1>8 DEF SockData, Goto, fileVars, loopVars, keyVars, netVars
<1>9. CASE SockEnds
    BY <1>9 DEF SockEnds, Leave, fileVars, loopVars, keyVars, netVars
<1>10. CASE SockFails
    BY <1>10 DEF SockFails, Leave, fileVars, loopVars, keyVars, netVars
<1>11. CASE SockIdle
    BY <1>11 DEF SockIdle, Goto, fileVars, loopVars, keyVars, netVars
<1>12. CASE NoKey
    BY <1>12 DEF NoKey, Goto, fileVars, loopVars, keyVars, netVars
<1>13. CASE TtyEnds
    BY <1>13 DEF TtyEnds, Leave, fileVars, loopVars, keyVars, netVars
<1>14. CASE KeyEdits
    BY <1>14 DEF KeyEdits, Reads, fileVars, loopVars, keyVars, netVars
<1>15. CASE KeyEnter
    BY <1>15 DEF KeyEnter, Reads, fileVars, loopVars, keyVars, netVars
<1>16. CASE KeyAborts
    BY <1>16 DEF KeyAborts, Reads, Leave, fileVars, loopVars, keyVars, netVars
<1>17. CASE NoMoreKeys
    BY <1>17 DEF NoMoreKeys, Goto, fileVars, loopVars, keyVars, netVars
<1>18. CASE CommandExit
    BY <1>18 DEF CommandExit, Leave, fileVars, loopVars, keyVars, netVars
<1>19. CASE CommandBuiltin
    BY <1>19 DEF CommandBuiltin, Goto, Record, loopVars, keyVars, netVars
<1>20. CASE CommandNone
    BY <1>20 DEF CommandNone, Goto, fileVars, loopVars, keyVars, netVars
<1>21. CASE CommandSend  BY <1>21 DEF Loud
<1>22. CASE \E n \in 1 .. Len(toWrite) : WriteSome(n)  BY <1>22 DEF Loud
<1>23. CASE WriteReturns
    BY <1>23 DEF WriteReturns, Goto, Record, loopVars, keyVars, netVars
<1>24. CASE WriteFails
    BY <1>24 DEF WriteFails, Leave, fileVars, loopVars, keyVars, netVars
<1>25. CASE BeginSave
    BY <1>25 DEF BeginSave, SaveOpens, Goto, loopVars, keyVars, netVars
<1>26. CASE WriteLine
    BY <1>26 DEF WriteLine, SaveWrites, loopVars, keyVars, netVars
<1>41. CASE WriteLost
    BY <1>41 DEF WriteLost, SaveLoses, loopVars, keyVars, netVars
<1>27. CASE EndSave
    BY <1>27 DEF EndSave, SaveCloses, Goto, loopVars, keyVars, netVars
<1>28. CASE NoSave
    BY <1>28 DEF NoSave, Goto, fileVars, loopVars, keyVars, netVars
<1>29. CASE EditStart
    BY <1>29 DEF EditStart, fileVars, loopVars, keyVars, netVars
<1>30. CASE Return
    BY <1>30 DEF Return, Forget, Goto, loopVars, keyVars, netVars
<1>31. CASE Signal
    BY <1>31 DEF Signal, Ended, fileVars, loopVars, keyVars, netVars
<1>32. CASE SignalInPoll
    BY <1>32 DEF SignalInPoll, Leave, fileVars, loopVars, keyVars, netVars
<1>33. CASE Crash  BY <1>33 DEF Loud
<1>34. CASE Restart  BY <1>34 DEF Loud
<1>35. CASE Type
    BY <1>35 DEF Type, Ended, fileVars, loopVars, keyVars, netVars
<1>36. CASE TtyCloses
    BY <1>36 DEF TtyCloses, Ended, fileVars, loopVars, keyVars, netVars
<1>37. CASE SrvSends
    BY <1>37 DEF SrvSends, Ended, fileVars, loopVars, keyVars, netVars
<1>38. CASE SrvCloses
    BY <1>38 DEF SrvCloses, Ended, fileVars, loopVars, keyVars, netVars
<1>39. CASE SrvResets
    BY <1>39 DEF SrvResets, Ended, fileVars, loopVars, keyVars, netVars
<1>40. CASE UNCHANGED vars
    BY <1>40 DEF vars, fileVars, loopVars, keyVars, netVars
<1> QED BY <1>1, <1>2, <1>3, <1>4, <1>5, <1>6, <1>7, <1>8, <1>9, <1>10, <1>11, <1>12, <1>13, <1>14,
           <1>15, <1>16, <1>17, <1>18, <1>19, <1>20, <1>21, <1>22, <1>23, <1>24, <1>25, <1>26, <1>27, <1>28,
           <1>29, <1>30, <1>31, <1>32, <1>33, <1>34, <1>35, <1>36, <1>37, <1>38, <1>39, <1>40, <1>41
        DEF Next, ClientStep, Environment, Stopped

LEMMA SilentKeeps ==
    ASSUME TtyInv, Silent
    PROVE  LineInv'
<1>1. Sent' = Sent  BY DEF Silent, Sent
<1>2. NoNewline(line')
    BY LineType, NothingSent DEF Silent, TtyInv, LineInv
<1>3. EndsLine(Sent') /\ NoCommands(Sent')  BY <1>1 DEF TtyInv, LineInv
<1>4. ASSUME pc' = "write" PROVE EndsWith(Sent', line')
  <2>1. line' = line /\ pc = "write"  BY <1>4 DEF Silent
  <2> QED BY <1>1, <2>1 DEF TtyInv, LineInv
<1>5. ASSUME pc' = "save", ~leaving' PROVE IsWord(line', Builtins) \/ EndsWith(Sent', line')
  <2>1. line' = line  BY <1>5 DEF Silent
  <2>2. (pc = "save" /\ ~leaving) \/ pc = "write" \/ IsWord(line, Builtins)  BY <1>5 DEF Silent
  <2>3. IsWord(line, Builtins) \/ EndsWith(Sent, line)  BY <2>2 DEF TtyInv, LineInv
  <2> QED BY <1>1, <2>1, <2>3
<1> QED BY <1>2, <1>3, <1>4, <1>5 DEF LineInv

(* A line that is no command is put behind the lines sent.                 *)
LEMMA LineBehindLines ==
    ASSUME NEW s \in Seq(Tokens), NEW l \in Seq(Tokens),
           EndsLine(s), NoCommands(s), NoNewline(l), ~IsWord(l, Words)
    PROVE  LET t == s \o Append(l, "newline")
           IN  EndsLine(t) /\ NoCommands(t) /\ EndsWith(t, l)
<1> DEFINE m == Append(l, "newline")
           t == s \o m
<1>1. /\ m \in Seq(Tokens) /\ Len(m) = Len(l) + 1 /\ m[Len(l) + 1] = "newline"
      /\ \A k \in 1 .. Len(l) : m[k] = l[k]
    BY AppendProps
<1>2. Len(s) \in Nat /\ Len(l) \in Nat /\ Len(m) \in Nat  BY <1>1
<1> HIDE DEF m
<1>3. m \in Seq(Tokens)  BY <1>1
<1>4. /\ t \in Seq(Tokens) /\ Len(t) = Len(s) + Len(m)
      /\ \A i \in 1 .. Len(s) : t[i] = s[i]
      /\ \A i \in 1 .. Len(m) : t[Len(s) + i] = m[i]
    BY <1>3, TokConcat
<1> DEFINE n == Len(s) + Len(l) + 1
<1>5. Len(t) = n /\ n \in Nat /\ n >= 1  BY <1>1, <1>2, <1>4
<1>6. t[n] = "newline"
  <2>1. Len(l) + 1 \in 1 .. Len(m) /\ Len(s) + (Len(l) + 1) = n  BY <1>1, <1>2
  <2> QED BY <1>1, <1>4, <2>1
<1>7. \A k \in 1 .. Len(l) : t[Len(s) + k] # "newline"
  <2> TAKE k \in 1 .. Len(l)
  <2>1. k \in 1 .. Len(m)  BY <1>1, <1>2
  <2> QED BY <1>1, <1>4, <2>1 DEF NoNewline
<1>8. SubSeq(t, Len(s) + 1, n) = m
  <2>1. Len(s) + 1 \in Len(s) + 1 .. Len(s) + Len(m) /\ n \in Len(s) + 1 .. Len(s) + Len(m)
      BY <1>1, <1>2
  <2>2. SubSeq(t, Len(s) + 1, n) = SubSeq(m, Len(s) + 1 - Len(s), n - Len(s))
      BY <1>3, <2>1, SubSeqOfConcat2
  <2>3. Len(s) + 1 - Len(s) = 1 /\ n - Len(s) = Len(m)  BY <1>1, <1>2
  <2>4. SubSeq(m, 1, Len(m)) = m  BY <1>3, SubSeqFull
  <2> QED BY <2>2, <2>3, <2>4
<1>9. SubSeq(t, Len(s) + 1, n - 1) = l
  <2>1. CASE l = <<>>
    <3>1. n - 1 < Len(s) + 1 /\ Len(s) + 1 \in Int /\ n - 1 \in Int  BY <1>2, <2>1, TokEmpty
    <3>2. SubSeq(t, Len(s) + 1, n - 1) = <<>>  BY <3>1, SubSeqEmpty
    <3> QED BY <2>1, <3>2
  <2>2. CASE l # <<>>
    <3>1. Len(l) >= 1  BY <1>2, <2>2
    <3>2. Len(s) + 1 \in Len(s) + 1 .. Len(s) + Len(m) /\ n - 1 \in Len(s) + 1 .. Len(s) + Len(m)
        BY <1>1, <1>2, <3>1
    <3>3. SubSeq(t, Len(s) + 1, n - 1) = SubSeq(m, Len(s) + 1 - Len(s), n - 1 - Len(s))
        BY <1>3, <3>2, SubSeqOfConcat2
    <3>4. Len(s) + 1 - Len(s) = 1 /\ n - 1 - Len(s) = Len(l)  BY <1>1, <1>2
    <3>5. SubSeq(m, 1, Len(l)) = l
      <4>1. \A i \in 1 .. Len(l) : m[i] \in Tokens  BY <1>1
      <4>2. /\ SubSeq(m, 1, Len(l)) \in Seq(Tokens) /\ Len(SubSeq(m, 1, Len(l))) = Len(l)
            /\ \A i \in 1 .. Len(l) : SubSeq(m, 1, Len(l))[i] = m[i]
          BY <1>2, <4>1, SubSeqProperties
      <4> DEFINE h == SubSeq(m, 1, Len(l))
      <4>3. h \in Seq(Tokens) /\ Len(h) = Len(l) /\ \A i \in 1 .. Len(l) : h[i] = l[i]
          BY <1>1, <4>2
      <4> HIDE DEF h
      <4>4. h = l  BY <4>3
      <4> QED BY <4>4 DEF h
    <3> QED BY <3>3, <3>4, <3>5
  <2> QED BY <2>1, <2>2
<1> HIDE DEF t
<1>10. EndsWith(t, l)
  <2>1. Len(t) - Len(l) = Len(s) + 1 /\ Len(t) > Len(l)  BY <1>2, <1>5
  <2> QED BY <1>5, <1>8, <2>1 DEF EndsWith, m
<1>11. ASSUME NEW i \in 1 .. Len(t), NEW j \in 1 .. Len(t), IsLine(t, i, j)
       PROVE  ~IsWord(SubSeq(t, i, j - 1), Words)
  <2>1. /\ i <= j /\ t[j] = "newline" /\ (i = 1 \/ t[i - 1] = "newline")
        /\ \A k \in i .. (j - 1) : t[k] # "newline"
      BY <1>11 DEF IsLine
  <2>2. i \in Nat /\ j \in Nat /\ i >= 1 /\ j >= 1 /\ j <= n  BY <1>5
  <2>3. CASE j <= Len(s)
    <3>1. i \in 1 .. Len(s) /\ j \in 1 .. Len(s)  BY <1>2, <2>1, <2>2, <2>3
    <3>2. IsLine(s, i, j)
      <4>1. s[j] = "newline"  BY <1>4, <2>1, <3>1
      <4>2. i = 1 \/ (i - 1 \in 1 .. Len(s))  BY <3>1
      <4>3. i = 1 \/ s[i - 1] = "newline"  BY <1>4, <2>1, <4>2
      <4>4. \A k \in i .. (j - 1) : k \in 1 .. Len(s)  BY <1>2, <3>1
      <4>5. \A k \in i .. (j - 1) : s[k] # "newline"  BY <1>4, <2>1, <4>4
      <4> QED BY <2>1, <4>1, <4>3, <4>5 DEF IsLine
    <3>3. ~IsWord(SubSeq(s, i, j - 1), Words)  BY <3>1, <3>2 DEF NoCommands
    <3>4. SubSeq(t, i, j - 1) = SubSeq(s, i, j - 1)
      <4>1. CASE j - 1 < i
        <5>1. i \in Int /\ j - 1 \in Int  BY <2>2
        <5>2. SubSeq(t, i, j - 1) = <<>> /\ SubSeq(s, i, j - 1) = <<>>
            BY <4>1, <5>1, SubSeqEmpty
        <5> QED BY <5>2
      <4>2. CASE ~(j - 1 < i)
        <5>1. j - 1 \in 1 .. Len(s)  BY <1>2, <2>2, <3>1, <4>2
        <5> QED BY <1>3, <3>1, <5>1, SubSeqOfConcat1 DEF t
      <4> QED BY <4>1, <4>2
    <3> QED BY <3>3, <3>4
  <2>4. CASE j > Len(s)
    <3>1. j = n
      <4> SUFFICES ASSUME j # n PROVE FALSE  OBVIOUS
      <4>1. j - Len(s) \in 1 .. Len(l) /\ Len(s) + (j - Len(s)) = j  BY <1>2, <2>2, <2>4
      <4> QED BY <1>7, <2>1, <4>1
    <3>2. i > Len(s)
      <4> SUFFICES ASSUME i <= Len(s) PROVE FALSE  BY <1>2, <2>2
      <4>1. Len(s) \in i .. (j - 1) /\ Len(s) \in 1 .. Len(s) /\ s # <<>>
          BY <1>2, <2>2, <2>4, TokEmpty
      <4>2. s[Len(s)] = "newline"  BY <4>1 DEF EndsLine
      <4>3. t[Len(s)] = "newline"  BY <1>4, <4>1, <4>2
      <4> QED BY <2>1, <4>1, <4>3
    <3>3. i = Len(s) + 1
      <4> SUFFICES ASSUME i > Len(s) + 1 PROVE FALSE  BY <1>2, <2>2, <3>2
      <4>1. i - 1 - Len(s) \in 1 .. Len(l) /\ Len(s) + (i - 1 - Len(s)) = i - 1 /\ i # 1
          BY <1>2, <2>1, <2>2, <3>1
      <4> QED BY <1>7, <2>1, <4>1
    <3> QED BY <1>9, <3>1, <3>3
  <2> QED BY <1>2, <2>2, <2>3, <2>4
<1>12. EndsLine(t) /\ NoCommands(t)  BY <1>5, <1>6, <1>11 DEF EndsLine, NoCommands
<1> QED BY <1>10, <1>12 DEF t, m

LEMMA CommandKeeps ==
    ASSUME TtyInv, CommandSend
    PROVE  LineInv'
<1>1. /\ pc = "command" /\ pc' = "write" /\ ~IsWord(line, ExitWords) /\ ~IsWord(line, Builtins)
      /\ toWrite' = Append(line, "newline") /\ UNCHANGED <<line, wire>>
    BY DEF CommandSend, netVars
<1>2. toWrite = <<>>  BY <1>1 DEF TtyInv, CleanInv
<1>3. wire \in Seq(Tokens) /\ line \in Seq(Tokens)  BY DEF TtyInv, TypeOK
<1>4. Sent = wire /\ Sent' = wire \o Append(line, "newline")
  <2>1. wire \o <<>> = wire  BY <1>3, TokEmpty
  <2> QED BY <1>1, <1>2, <2>1 DEF Sent
<1>5. EndsLine(wire) /\ NoCommands(wire) /\ NoNewline(line)  BY <1>4 DEF TtyInv, LineInv
<1>6. ~IsWord(line, Words)  BY <1>1 DEF IsWord, Words
<1>7. EndsLine(Sent') /\ NoCommands(Sent') /\ EndsWith(Sent', line)
    BY <1>3, <1>4, <1>5, <1>6, LineBehindLines
<1> QED BY <1>1, <1>5, <1>7 DEF LineInv

LEMMA LineNext ==
    ASSUME TtyInv, [Next]_vars
    PROVE  LineInv'
<1>1. Silent \/ Loud  BY SilentOrLoud DEF TtyInv
<1>2. CASE Silent  BY <1>2, SilentKeeps
<1>3. CASE CommandSend  BY <1>3, CommandKeeps
<1>4. CASE \E n \in 1 .. Len(toWrite) : WriteSome(n)
  <2>1. PICK n \in 1 .. Len(toWrite) : WriteSome(n)  BY <1>4
  <2>2. Sent' = Sent  BY <2>1, WriteType DEF TtyInv
  <2>3. UNCHANGED <<pc, line, leaving>>  BY <2>1 DEF WriteSome
  <2> QED BY <2>2, <2>3 DEF TtyInv, LineInv
<1>5. CASE Crash \/ Restart
  <2>1. wire' = <<>> /\ toWrite' = <<>> /\ line' = <<>> /\ pc' \in {"dead", "load"}
      BY <1>5 DEF Crash, Restart, Cleared
  <2>2. Sent' = <<>>  BY <2>1, TokEmpty DEF Sent
  <2> QED BY <2>1, <2>2, NothingSent DEF LineInv
<1> QED BY <1>1, <1>2, <1>3, <1>4, <1>5 DEF Loud

LEMMA NextTty == TtyInv /\ [Next]_vars => TtyInv'
<1> SUFFICES ASSUME TtyInv, [Next]_vars PROVE TtyInv'  OBVIOUS
<1>1. TypeOK'  BY TypeNext DEF TtyInv
<1>2. CleanInv'  BY CleanNext DEF TtyInv
<1>3. LineInv'  BY LineNext
<1> QED BY <1>1, <1>2, <1>3 DEF TtyInv

(* The loop, its terminal and its connection fit together, for every set   *)
(* of lines, and across crashes and restarts.                              *)
THEOREM TtyInvariant == Spec => []TtyInv
<1> QED BY InitTty, NextTty, PTL DEF Spec

(* Every way out restores the terminal first, leaves no half-written       *)
(* history and tells of a line that did not go out.                        *)
THEOREM TtyLeavesClean == Spec => []LeavesClean
<1>1. TtyInv => LeavesClean  BY DEF TtyInv, CleanInv, LeavesClean
<1> QED BY <1>1, TtyInvariant, PTL

(* The server sees whole lines, no command of the client among them, and   *)
(* what is recorded has been sent.                                         *)
THEOREM TtySendsLines == Spec => []ServerSeesLines
<1>1. TtyInv => ServerSeesLines
  <2> SUFFICES ASSUME TtyInv PROVE ServerSeesLines  OBVIOUS
  <2>1. wire \in Seq(Tokens) /\ toWrite \in Seq(Tokens) /\ Len(wire) \in Nat
      BY DEF TtyInv, TypeOK
  <2>2. /\ Len(Sent) = Len(wire) + Len(toWrite) /\ Len(toWrite) \in Nat
        /\ \A i \in 1 .. Len(wire) : Sent[i] = wire[i]
      BY <2>1, TokConcat DEF Sent
  <2>3. ASSUME NEW i \in 1 .. Len(wire), NEW j \in 1 .. Len(wire), IsLine(wire, i, j)
        PROVE  ~IsWord(SubSeq(wire, i, j - 1), ExitWords \cup Builtins)
    <3>1. IsLine(Sent, i, j)
      <4>1. i = 1 \/ i - 1 \in 1 .. Len(wire)  BY <2>1
      <4>2. \A k \in i .. (j - 1) : k \in 1 .. Len(wire)  BY <2>1
      <4> QED BY <2>2, <2>3, <4>1, <4>2 DEF IsLine
    <3>2. i \in 1 .. Len(Sent) /\ j \in 1 .. Len(Sent)  BY <2>1, <2>2
    <3>3. ~IsWord(SubSeq(Sent, i, j - 1), Words)
        BY <3>1, <3>2 DEF TtyInv, LineInv, NoCommands
    <3>4. SubSeq(Sent, i, j - 1) = SubSeq(wire, i, j - 1)
      <4>1. CASE j - 1 < i
        <5>1. SubSeq(Sent, i, j - 1) = <<>> /\ SubSeq(wire, i, j - 1) = <<>>
            BY <4>1, SubSeqEmpty
        <5> QED BY <5>1
      <4>2. CASE ~(j - 1 < i)
        <5>1. j - 1 \in 1 .. Len(wire)  BY <2>1, <4>2
        <5> QED BY <2>1, <5>1, SubSeqOfConcat1 DEF Sent
      <4> QED BY <4>1, <4>2
    <3> QED BY <3>3, <3>4 DEF Words
  <2>4. toWrite = <<>> => Sent = wire
    <3>1. wire \o <<>> = wire  BY <2>1, TokEmpty
    <3> QED BY <3>1 DEF Sent
  <2>5. toWrite = <<>> /\ wire # <<>> => wire[Len(wire)] = "newline"
      BY <2>4 DEF TtyInv, LineInv, EndsLine
  <2>6. pc = "save" /\ ~leaving => IsWord(line, Builtins) \/ EndsWith(wire, line)
      BY <2>4 DEF TtyInv, LineInv, CleanInv
  <2> QED BY <2>3, <2>5, <2>6 DEF ServerSeesLines, EndsWith
<1> QED BY <1>1, TtyInvariant, PTL

-----------------------------------------------------------------------------
(***************************************************************************)
(* The history list and its file.                                          *)
(***************************************************************************)
TLine == Seq(Tokens)

LEMMA LeastElement ==
    ASSUME NEW T, T \subseteq Nat, T # {}
    PROVE  \E x \in T : \A y \in T : x <= y
<1> DEFINE R == {ss \in Nat \X Nat : ss[1] < ss[2]}
<1>1. IsWellFoundedOn(R, Nat)  BY NatLessThanWellFounded DEF OpToRel
<1>2. PICK x \in T : \A y \in T : ~ (<<y, x>> \in R)
    BY <1>1, WFMin, Zenon
<1>3. \A y \in T : <<y, x>> \in Nat \X Nat /\ ~ (y < x)  BY <1>2
<1>4. ASSUME NEW y \in T PROVE x <= y
  <2>1. x \in Nat /\ y \in Nat /\ ~ (y < x)  BY <1>3
  <2> QED BY <2>1
<1> QED BY <1>4

LEMMA FirstOf ==
    ASSUME NEW S, NEW s \in Seq(S), NEW n \in 0 .. Len(s)
    PROVE  /\ SubSeq(s, 1, n) \in Seq(S) /\ Len(SubSeq(s, 1, n)) = n
           /\ \A i \in 1 .. n : SubSeq(s, 1, n)[i] = s[i]
<1>1. \A i \in 1 .. n : s[i] \in S  OBVIOUS
<1>2. n \in Int /\ n >= 0 /\ n - 1 + 1 = n  OBVIOUS
<1> QED BY <1>1, <1>2, SubSeqProperties

(* A line added to a list that is not full, and is not its last.           *)
LEMMA AddToPrefix ==
    ASSUME NEW S, NEW f \in Seq(S), NEW i \in 1 .. Len(f), NEW max \in Nat,
           Len(f) <= max, f[i] # <<>>
    PROVE  HistoryAdd(SubSeq(f, 1, i - 1), f[i], max)
              = IF i > 1 /\ f[i - 1] = f[i] THEN SubSeq(f, 1, i - 1) ELSE SubSeq(f, 1, i)
<1> DEFINE p == SubSeq(f, 1, i - 1)
<1>1. i - 1 \in 0 .. Len(f) /\ i \in Nat /\ Len(f) \in Nat  OBVIOUS
<1>2. /\ p \in Seq(S) /\ Len(p) = i - 1
      /\ \A j \in 1 .. (i - 1) : p[j] = f[j]
    BY <1>1, FirstOf
<1>3. SubSeq(f, 1, i) = p \o <<f[i]>>
  <2>1. 1 \in 1 .. Len(f) /\ i \in 1 .. Len(f)  BY <1>1
  <2> QED BY <2>1, SubSeqRecursiveSecond
<1> HIDE DEF p
<1>4. Append(p, f[i]) = p \o <<f[i]>>  BY <1>2, AppendIsConcat
<1>5. ~(Len(p) >= max)  BY <1>1, <1>2
<1>6. (p # <<>> /\ Last(p) = f[i]) <=> (i > 1 /\ f[i - 1] = f[i])
    BY <1>1, <1>2 DEF Last
<1>7. HistoryAdd(p, f[i], max) = IF i > 1 /\ f[i - 1] = f[i] THEN p ELSE SubSeq(f, 1, i)
    BY <1>3, <1>4, <1>5, <1>6 DEF HistoryAdd
<1> QED BY <1>7 DEF p

(* What becomes of lines that are added to an empty list, none of them     *)
(* empty, and none but the last a repetition of the one before.            *)
LEMMA AddAllIs ==
    ASSUME NEW S, NEW f \in Seq(S), NEW max \in Nat, Len(f) <= max,
           \A i \in 1 .. Len(f) : f[i] # <<>>,
           \A i \in 1 .. (Len(f) - 2) : f[i] # f[i + 1]
    PROVE  AddAll(<<>>, f, max) =
              IF Len(f) > 1 /\ f[Len(f) - 1] = f[Len(f)] THEN SubSeq(f, 1, Len(f) - 1) ELSE f
<1> DEFINE n == Len(f)
           Step(g) == [i \in 0 .. n |-> IF i = 0 THEN <<>>
                                        ELSE HistoryAdd(g[i - 1], f[i], max)]
           all == IF n > 1 /\ f[n - 1] = f[n] THEN SubSeq(f, 1, n - 1) ELSE f
           c == [i \in 0 .. n |-> IF i < n THEN SubSeq(f, 1, i) ELSE all]
           h == CHOOSE g : g = Step(g)
<1>1. AddAll(<<>>, f, max) = h[n]  BY Zenon DEF AddAll
<1>2. n \in Nat /\ SubSeq(f, 1, 0) = <<>> /\ SubSeq(f, 1, n) = f
    BY SubSeqEmpty, SubSeqFull
<1>3. c[0] = <<>>
  <2>1. CASE n = 0  BY <1>2, <2>1
  <2>2. CASE n # 0  BY <1>2, <2>2
  <2> QED BY <2>1, <2>2
<1>4. ASSUME NEW i \in 1 .. n PROVE c[i] = HistoryAdd(c[i - 1], f[i], max)
  <2>1. i - 1 \in 0 .. n /\ i - 1 < n /\ i \in 0 .. n  BY <1>2
  <2>2. c[i - 1] = SubSeq(f, 1, i - 1)  BY <2>1
  <2>3. f[i] # <<>>  BY <1>4
  <2>4. HistoryAdd(c[i - 1], f[i], max)
          = IF i > 1 /\ f[i - 1] = f[i] THEN SubSeq(f, 1, i - 1) ELSE SubSeq(f, 1, i)
      BY <2>2, <2>3, AddToPrefix
  <2>5. CASE i < n
    <3>1. c[i] = SubSeq(f, 1, i)  BY <2>1, <2>5
    <3>2. ~(i > 1 /\ f[i - 1] = f[i])
      <4> SUFFICES ASSUME i > 1 PROVE f[i - 1] # f[i]  OBVIOUS
      <4>1. i - 1 \in 1 .. (Len(f) - 2) /\ (i - 1) + 1 = i  BY <1>2, <2>5
      <4>2. f[i - 1] # f[(i - 1) + 1]  BY <4>1
      <4> QED BY <4>1, <4>2
    <3> QED BY <2>4, <3>1, <3>2
  <2>6. CASE i = n
    <3>1. c[i] = all  BY <2>1, <2>6
    <3> QED BY <1>2, <2>4, <2>6, <3>1
  <2>7. i < n \/ i = n
    <3>1. n \in Nat /\ i \in 1 .. n  BY <1>2
    <3> HIDE DEF n, c
    <3> QED BY <3>1
  <2> HIDE DEF c, n
  <2> QED BY <2>5, <2>6, <2>7
<1>5. c = Step(c)
  <2>1. \A i \in 0 .. n : c[i] = IF i = 0 THEN <<>> ELSE HistoryAdd(c[i - 1], f[i], max)
    <3> SUFFICES ASSUME NEW i \in 0 .. n
                 PROVE  c[i] = IF i = 0 THEN <<>> ELSE HistoryAdd(c[i - 1], f[i], max)
      OBVIOUS
    <3>1. CASE i = 0  BY <1>3, <3>1
    <3>2. CASE i # 0
      <4>1. i \in 1 .. n  BY <1>2, <3>2
      <4> QED BY <1>4, <3>2, <4>1
    <3> QED BY <3>1, <3>2
  <2>2. c = [i \in 0 .. n |-> c[i]]  OBVIOUS
  <2> HIDE DEF c
  <2> QED BY <2>1, <2>2
<1> HIDE DEF c
<1>6. h = Step(h)  BY <1>5, Zenon
<1> HIDE DEF h
<1>7. /\ h[0] = <<>>
      /\ \A i \in 1 .. n : h[i] = HistoryAdd(h[i - 1], f[i], max)
  <2>1. \A i \in 0 .. n : h[i] = Step(h)[i]  BY <1>6
  <2>2. \A i \in 0 .. n : Step(h)[i] = IF i = 0 THEN <<>> ELSE HistoryAdd(h[i - 1], f[i], max)
      OBVIOUS
  <2> HIDE DEF Step
  <2>3. 0 \in 0 .. n /\ \A i \in 1 .. n : i \in 0 .. n /\ i # 0  BY <1>2
  <2> QED BY <2>1, <2>2, <2>3
<1>8. h[n] = c[n]
  <2> SUFFICES ASSUME h[n] # c[n] PROVE FALSE  OBVIOUS
  <2> DEFINE bad == {i \in 0 .. n : h[i] # c[i]}
  <2>1. bad \subseteq Nat /\ n \in bad  BY <1>2
  <2>2. PICK i \in bad : \A j \in bad : i <= j  BY <2>1, LeastElement
  <2>3. i \in 0 .. n /\ h[i] # c[i]  OBVIOUS
  <2>4. i # 0  BY <1>3, <1>7, <2>3
  <2>5. i \in 1 .. n /\ i - 1 \in 0 .. n /\ ~(i <= i - 1)  BY <1>2, <2>3, <2>4
  <2>6. h[i - 1] = c[i - 1]  BY <2>2, <2>5
  <2> QED BY <1>4, <1>7, <2>3, <2>5, <2>6
<1>9. c[n] = all  BY <1>2 DEF c
<1> QED BY <1>1, <1>8, <1>9

(* Adding a line keeps a well-kept history well kept.                      *)
LEMMA RecordKeeps ==
    ASSUME NEW D, NEW h \in Seq(D), NEW l \in D, WellKept(h, MaxHist)
    PROVE  /\ HistoryAdd(h, l, MaxHist) \in Seq(D)
           /\ WellKept(HistoryAdd(h, l, MaxHist), MaxHist)
<1> DEFINE full == Len(h) >= MaxHist
           kept == IF full THEN Tail(h) ELSE h
           k == IF full THEN 1 ELSE 0
           g == Append(kept, l)
<1>m. MaxHist \in Nat /\ MaxHist >= 1 /\ Len(h) \in Nat /\ Len(h) <= MaxHist
    BY HistoryAssumption DEF WellKept
<1>1. CASE l = <<>> \/ (h # <<>> /\ Last(h) = l)
  BY <1>1 DEF HistoryAdd
<1>2. CASE ~(l = <<>> \/ (h # <<>> /\ Last(h) = l))
  <2>1. HistoryAdd(h, l, MaxHist) = g  BY <1>2 DEF HistoryAdd
  <2>2. /\ kept \in Seq(D) /\ Len(kept) < MaxHist /\ Len(kept) = Len(h) - k
        /\ k \in {0, 1} /\ \A i \in 1 .. Len(kept) : kept[i] = h[i + k]
    <3>1. CASE full
      <4>1. h # <<>> /\ kept = Tail(h) /\ k = 1  BY <1>m, <3>1
      <4>2. /\ Tail(h) \in Seq(D) /\ Len(Tail(h)) = Len(h) - 1
            /\ \A i \in 1 .. Len(Tail(h)) : Tail(h)[i] = h[i + 1]
          BY <4>1, HeadTailProperties
      <4> QED BY <1>m, <3>1, <4>1, <4>2
    <3>2. CASE ~full  BY <1>m, <3>2
    <3> QED BY <3>1, <3>2
  <2> HIDE DEF kept, k, full
  <2>3. /\ g \in Seq(D) /\ Len(g) = Len(kept) + 1 /\ g[Len(kept) + 1] = l
        /\ \A i \in 1 .. Len(kept) : g[i] = kept[i]
    BY <2>2, AppendProperties
  <2> HIDE DEF g
  <2>4. Len(kept) \in Nat /\ \A i \in 1 .. Len(kept) : g[i] = h[i + k] /\ i + k \in 1 .. Len(h)
    BY <1>m, <2>2, <2>3
  <2>5. \A i \in 1 .. Len(g) : g[i] # <<>>
    <3> SUFFICES ASSUME NEW i \in 1 .. Len(g) PROVE g[i] # <<>>  OBVIOUS
    <3>1. CASE i = Len(kept) + 1  BY <1>2, <2>3, <3>1
    <3>2. CASE i # Len(kept) + 1
      <4>1. i \in 1 .. Len(kept)  BY <2>3, <2>4, <3>2
      <4> QED BY <2>4, <4>1 DEF WellKept
    <3> QED BY <3>1, <3>2
  <2>6. \A i \in 1 .. (Len(g) - 1) : g[i] # g[i + 1]
    <3> SUFFICES ASSUME NEW i \in 1 .. (Len(g) - 1) PROVE g[i] # g[i + 1]  OBVIOUS
    <3>1. i \in 1 .. Len(kept) /\ g[i] = h[i + k] /\ i + k \in 1 .. Len(h)
      BY <2>3, <2>4
    <3>2. CASE i = Len(kept)
      <4>1. i + k = Len(h) /\ h # <<>> /\ g[i + 1] = l  BY <1>m, <2>2, <2>3, <3>1, <3>2
      <4> QED BY <1>2, <3>1, <4>1 DEF Last
    <3>3. CASE i # Len(kept)
      <4>1. i + 1 \in 1 .. Len(kept) /\ i + k \in 1 .. (Len(h) - 1) /\ i + 1 + k = i + k + 1
        BY <1>m, <2>2, <2>4, <3>1, <3>3
      <4>2. g[i + 1] = h[i + k + 1]  BY <2>4, <4>1
      <4> QED BY <3>1, <4>1, <4>2 DEF WellKept
    <3> QED BY <3>2, <3>3
  <2>7. Len(g) <= MaxHist  BY <1>m, <2>2, <2>3, <2>4
  <2> QED BY <2>1, <2>3, <2>5, <2>6, <2>7 DEF WellKept
<1> QED BY <1>1, <1>2
-----------------------------------------------------------------------------
(* Reading the file: pieces of lines, added one after the other.           *)

LEMMA EmptyKept == <<>> \in Seq(TLine) /\ WellKept(<<>>, MaxHist)
BY HistoryAssumption DEF WellKept

(* How many pieces a line has, and where they lie.                         *)
LEMMA DivOne ==
    ASSUME NEW w \in Nat \ {0}, NEW n \in 1 .. w
    PROVE  (n + w - 1) \div w = 1
<1> DEFINE q == (n + w - 1) \div w
<1>1. q \in Int /\ w * q <= n + w - 1 /\ n + w - 1 < w * (q + 1)
  OBVIOUS
<1> HIDE DEF q
<1>2. w * (q + 1) = w * q + w  BY <1>1
<1>3. ~(q <= 0)
  <2> SUFFICES ASSUME q <= 0 PROVE FALSE  OBVIOUS
  <2>1. w * q <= 0  BY <1>1
  <2> QED BY <1>1, <1>2, <2>1
<1>4. ~(q >= 2)
  <2> SUFFICES ASSUME q >= 2 PROVE FALSE  OBVIOUS
  <2>1. w * q >= w * 2  BY <1>1
  <2> QED BY <1>1, <2>1
<1> QED BY <1>1, <1>3, <1>4 DEF q

LEMMA DivBound ==
    ASSUME NEW n \in Nat, NEW w \in Nat \ {0}, NEW k \in 1 .. ((n + w - 1) \div w)
    PROVE  /\ k * w \in Nat /\ (k - 1) * w \in Nat /\ (k - 1) * w + 1 \in 1 .. n
           /\ (k - 1) * w + w = k * w
           /\ (n + w - 1) \div w \in Nat
<1> DEFINE q == (n + w - 1) \div w
<1>1. q \in Int /\ w * q <= n + w - 1
  OBVIOUS
<1>2. k \in 1 .. q OBVIOUS
<1> HIDE DEF q
<1>3. w * k <= w * q  BY <1>1, <1>2
<1>4. w * k = k * w /\ k * w \in Nat /\ (k - 1) * w \in Nat  BY <1>1, <1>2
<1>5. (k - 1) * w + w = k * w  BY <1>1, <1>2
<1> QED BY <1>1, <1>2, <1>3, <1>4, <1>5 DEF q

Solves(g, t0, n, F) ==
    g = [i \in 0 .. n |-> IF i = 0 THEN t0 ELSE F[<<g[i - 1], i>>]]

(* A recursion over the numbers from 1 to n that stays in a set T has a    *)
(* solution.                                                               *)
LEMMA Recursion ==
    ASSUME NEW T, NEW t0 \in T, NEW n \in Nat, NEW F \in [T \X (1 .. n) -> T]
    PROVE  \E g \in [0 .. n -> T] : Solves(g, t0, n, F)
<1> DEFINE Till(m, g) == /\ g \in [0 .. m -> T] /\ g[0] = t0
                           /\ \A i \in 1 .. m : g[i] = F[<<g[i - 1], i>>]
           bad == {m \in 0 .. n : ~ \E g : Till(m, g)}
<1>1. \E g : Till(n, g)
  <2> SUFFICES ASSUME ~ \E g : Till(n, g) PROVE FALSE  OBVIOUS
  <2>1. bad \subseteq Nat /\ n \in bad  OBVIOUS
  <2> HIDE DEF Till
  <2>2. PICK m \in bad : \A y \in bad : m <= y  BY <2>1, LeastElement
  <2>3. m \in 0 .. n /\ ~ \E g : Till(m, g)  OBVIOUS
  <2>4. m # 0
    <3> DEFINE g0 == [i \in 0 .. 0 |-> t0]
    <3>1. Till(0, g0)
      <4>1. 0 \in 0 .. 0 /\ (1 .. 0) = {}  OBVIOUS
      <4> QED BY <4>1 DEF Till
    <3> HIDE DEF g0
    <3> QED BY <2>3, <3>1
  <2>5. m - 1 \in 0 .. n /\ ~(m <= m - 1) /\ m \in Nat \ {0} /\ m \in 1 .. n  BY <2>3, <2>4
  <2>6. \E g : Till(m - 1, g)  BY <2>2, <2>5
  <2>7. PICK g : Till(m - 1, g)  BY <2>6
  <2> DEFINE x == F[<<g[m - 1], m>>]
             e == [i \in 0 .. m |-> IF i < m THEN g[i] ELSE x]
  <2>8. g \in [0 .. (m - 1) -> T] /\ g[0] = t0
        /\ \A i \in 1 .. (m - 1) : g[i] = F[<<g[i - 1], i>>]
      BY <2>7 DEF Till
  <2>9. x \in T
    <3>1. g[m - 1] \in T  BY <2>5, <2>8
    <3>2. <<g[m - 1], m>> \in T \X (1 .. n)  BY <2>5, <3>1
    <3> QED BY <3>2
  <2> HIDE DEF x
  <2>10. e \in [0 .. m -> T]
    <3>1. \A i \in 0 .. m : i < m => i \in 0 .. (m - 1)  BY <2>5
    <3> QED BY <2>8, <2>9, <3>1
  <2>11. e[0] = t0  BY <2>5, <2>8
  <2>12. \A i \in 1 .. m : e[i] = F[<<e[i - 1], i>>]
    <3> SUFFICES ASSUME NEW i \in 1 .. m PROVE e[i] = F[<<e[i - 1], i>>]  OBVIOUS
    <3>1. i \in 0 .. m /\ i - 1 \in 0 .. m /\ i - 1 < m  BY <2>5
    <3>2. e[i - 1] = g[i - 1]  BY <3>1
    <3>3. CASE i < m
      <4>1. i \in 1 .. (m - 1)  BY <2>5, <3>3
      <4>2. e[i] = g[i]  BY <3>1, <3>3
      <4> QED BY <2>8, <3>2, <4>1, <4>2
    <3>4. CASE i = m
      <4>1. e[i] = x  BY <3>1, <3>4
      <4> QED BY <3>2, <3>4, <4>1 DEF x
    <3> QED BY <2>5, <3>3, <3>4
  <2> HIDE DEF e
  <2>13. Till(m, e)  BY <2>10, <2>11, <2>12 DEF Till
  <2> QED BY <2>3, <2>13
<1>2. PICK g : Till(n, g)  BY <1>1
<1>3. \A i \in 0 .. n : g[i] = IF i = 0 THEN t0 ELSE F[<<g[i - 1], i>>]
  <2> SUFFICES ASSUME NEW i \in 0 .. n
               PROVE  g[i] = IF i = 0 THEN t0 ELSE F[<<g[i - 1], i>>]
    OBVIOUS
  <2>1. i = 0 \/ i \in 1 .. n  OBVIOUS
  <2> QED BY <1>2, <2>1
<1>4. g = [i \in 0 .. n |-> g[i]]  BY <1>2
<1>5. g = [i \in 0 .. n |-> IF i = 0 THEN t0 ELSE F[<<g[i - 1], i>>]]  BY <1>3, <1>4
<1> QED BY <1>2, <1>5 DEF Solves

(* And every solution stays in T.                                          *)
LEMMA RecursionStays ==
    ASSUME NEW T, NEW n \in Nat, NEW h, h[0] \in T,
           \A i \in 1 .. n : h[i - 1] \in T => h[i] \in T
    PROVE  h[n] \in T
<1> DEFINE bad == {i \in 0 .. n : h[i] \notin T}
<1> SUFFICES ASSUME h[n] \notin T PROVE FALSE  OBVIOUS
<1>1. bad \subseteq Nat /\ n \in bad  OBVIOUS
<1>2. PICK i \in bad : \A j \in bad : i <= j  BY <1>1, LeastElement
<1>3. i \in 0 .. n /\ h[i] \notin T /\ i # 0  OBVIOUS
<1>4. i \in 1 .. n /\ i - 1 \in 0 .. n /\ ~(i <= i - 1)  BY <1>3
<1>5. h[i - 1] \in T  BY <1>2, <1>4
<1> QED BY <1>3, <1>4, <1>5

(* Whatever lines are added, the list is well kept and holds none but      *)
(* them.                                                                   *)
LEMMA AddAllKeeps ==
    ASSUME NEW D, NEW f \in Seq(D)
    PROVE  /\ AddAll(<<>>, f, MaxHist) \in Seq(D)
           /\ WellKept(AddAll(<<>>, f, MaxHist), MaxHist)
<1> DEFINE n == Len(f)
           T == {h \in Seq(D) : WellKept(h, MaxHist)}
           Step(g) == [i \in 0 .. n |-> IF i = 0 THEN <<>>
                                        ELSE HistoryAdd(g[i - 1], f[i], MaxHist)]
           F == [x \in T \X (1 .. n) |-> HistoryAdd(x[1], f[x[2]], MaxHist)]
           h == CHOOSE g : g = Step(g)
<1>1. AddAll(<<>>, f, MaxHist) = h[n]  BY Zenon DEF AddAll
<1>2. n \in Nat /\ <<>> \in T  BY EmptyKept DEF WellKept
<1>3. \A t \in T, i \in 1 .. n : HistoryAdd(t, f[i], MaxHist) \in T
  <2> SUFFICES ASSUME NEW t \in T, NEW i \in 1 .. n
               PROVE  HistoryAdd(t, f[i], MaxHist) \in T
    OBVIOUS
  <2>1. t \in Seq(D) /\ f[i] \in D /\ WellKept(t, MaxHist)  OBVIOUS
  <2> QED BY <2>1, RecordKeeps
<1>4. F \in [T \X (1 .. n) -> T]
  <2> HIDE DEF T, n
  <2>1. \A x \in T \X (1 .. n) : HistoryAdd(x[1], f[x[2]], MaxHist) \in T  BY <1>3
  <2> QED BY <2>1
<1> HIDE DEF T
<1>5. PICK g \in [0 .. n -> T] : Solves(g, <<>>, n, F)
  <2> DEFINE t0 == <<>>
  <2>1. n \in Nat /\ t0 \in T  BY <1>2
  <2>2. F \in [T \X (1 .. n) -> T]  BY <1>4
  <2> HIDE DEF F, n, t0
  <2>3. \E g \in [0 .. n -> T] : Solves(g, t0, n, F)
      BY <2>1, <2>2, Recursion, Zenon
  <2> QED BY <2>3, Zenon DEF t0
<1>6. g = Step(g)
  <2>1. \A i \in 0 .. n : (IF i = 0 THEN <<>> ELSE F[<<g[i - 1], i>>])
                            = IF i = 0 THEN <<>> ELSE HistoryAdd(g[i - 1], f[i], MaxHist)
    <3> SUFFICES ASSUME NEW i \in 0 .. n, i # 0
                 PROVE  F[<<g[i - 1], i>>] = HistoryAdd(g[i - 1], f[i], MaxHist)
      OBVIOUS
    <3>1. i \in 1 .. n /\ i - 1 \in 0 .. n  BY <1>2
    <3>2. g[i - 1] \in T  BY <1>5, <3>1
    <3>3. <<g[i - 1], i>> \in T \X (1 .. n)  BY <3>1, <3>2
    <3> QED BY <3>3
  <2> HIDE DEF F
  <2> QED BY <1>5, <2>1 DEF Solves
<1> HIDE DEF F
<1>7. h = Step(h)  BY <1>6, Zenon
<1> HIDE DEF h
<1>8. h[0] = <<>> /\ \A i \in 1 .. n : h[i] = HistoryAdd(h[i - 1], f[i], MaxHist)
  <2>1. \A i \in 0 .. n : h[i] = Step(h)[i]  BY <1>7
  <2>2. \A i \in 0 .. n : Step(h)[i] = IF i = 0 THEN <<>>
                                       ELSE HistoryAdd(h[i - 1], f[i], MaxHist)
      OBVIOUS
  <2> HIDE DEF Step
  <2>3. 0 \in 0 .. n /\ \A i \in 1 .. n : i \in 0 .. n /\ i # 0  BY <1>2
  <2> QED BY <2>1, <2>2, <2>3
<1>9. h[n] \in T
  <2>1. h[0] \in T  BY <1>2, <1>8
  <2>2. \A i \in 1 .. n : h[i - 1] \in T => h[i] \in T  BY <1>3, <1>8
  <2> HIDE DEF n
  <2> QED BY <1>2, <2>1, <2>2, RecursionStays
<1> QED BY <1>1, <1>9 DEF T

(* fgets gives nothing but pieces of the lines of the file.                *)
LEMMA ReadsParts ==
    ASSUME NEW S, NEW f \in Seq(TLine), NEW D \in SUBSET TLine,
           \A i \in 1 .. Len(f) : Pieces(f[i], ReadMax) \in Seq(D)
    PROVE  FileReads(f, ReadMax) \in Seq(D)
<1> DEFINE n == Len(f)
           T == Seq(D)
           P(i) == Pieces(f[i], ReadMax)
           Step(g) == [i \in 0 .. n |-> IF i = 0 THEN <<>> ELSE g[i - 1] \o P(i)]
           F == [x \in T \X (1 .. n) |-> x[1] \o P(x[2])]
           h == CHOOSE g : g = Step(g)
<1>1. FileReads(f, ReadMax) = h[n]  BY Zenon DEF FileReads
<1>2. n \in Nat /\ <<>> \in T  OBVIOUS
<1>3. \A i \in 1 .. n : P(i) \in T  OBVIOUS
<1> HIDE DEF P
<1>4. \A t \in T, i \in 1 .. n : t \o P(i) \in T
  <2> SUFFICES ASSUME NEW t \in T, NEW i \in 1 .. n PROVE t \o P(i) \in T  OBVIOUS
  <2>1. t \in Seq(D) /\ P(i) \in Seq(D)  BY <1>3
  <2> QED BY <2>1, ConcatProperties
<1> HIDE DEF T
<1>5. F \in [T \X (1 .. n) -> T]
  <2> HIDE DEF n
  <2>1. \A x \in T \X (1 .. n) : x[1] \o P(x[2]) \in T  BY <1>4
  <2> QED BY <2>1
<1>6. PICK g \in [0 .. n -> T] : Solves(g, <<>>, n, F)
  <2> DEFINE t0 == <<>>
  <2>1. n \in Nat /\ t0 \in T  BY <1>2
  <2>2. F \in [T \X (1 .. n) -> T]  BY <1>5
  <2> HIDE DEF F, n, t0
  <2>3. \E g \in [0 .. n -> T] : Solves(g, t0, n, F)
      BY <2>1, <2>2, Recursion, Zenon
  <2> QED BY <2>3, Zenon DEF t0
<1>7. g = Step(g)
  <2>1. \A i \in 0 .. n : (IF i = 0 THEN <<>> ELSE F[<<g[i - 1], i>>])
                            = IF i = 0 THEN <<>> ELSE g[i - 1] \o P(i)
    <3> SUFFICES ASSUME NEW i \in 0 .. n, i # 0
                 PROVE  F[<<g[i - 1], i>>] = g[i - 1] \o P(i)
      OBVIOUS
    <3>1. i \in 1 .. n /\ i - 1 \in 0 .. n  BY <1>2
    <3>2. g[i - 1] \in T  BY <1>6, <3>1
    <3>3. <<g[i - 1], i>> \in T \X (1 .. n)  BY <3>1, <3>2
    <3> QED BY <3>3
  <2> HIDE DEF F
  <2> QED BY <1>6, <2>1 DEF Solves
<1> HIDE DEF F
<1>8. h = Step(h)  BY <1>7, Zenon
<1> HIDE DEF h
<1>9. h[0] = <<>> /\ \A i \in 1 .. n : h[i] = h[i - 1] \o P(i)
  <2>1. \A i \in 0 .. n : h[i] = Step(h)[i]  BY <1>8
  <2>2. \A i \in 0 .. n : Step(h)[i] = IF i = 0 THEN <<>> ELSE h[i - 1] \o P(i)
      OBVIOUS
  <2> HIDE DEF Step
  <2>3. 0 \in 0 .. n /\ \A i \in 1 .. n : i \in 0 .. n /\ i # 0  BY <1>2
  <2> QED BY <2>1, <2>2, <2>3
<1>10. h[n] \in T
  <2>1. h[0] \in T  BY <1>2, <1>9
  <2>2. \A i \in 1 .. n : h[i - 1] \in T => h[i] \in T  BY <1>4, <1>9
  <2> HIDE DEF n
  <2> QED BY <1>2, <2>1, <2>2, RecursionStays
<1> QED BY <1>1, <1>10 DEF T

(* A run of at most ReadMax characters of a line, and the pieces of a list *)
(* of lines.                                                               *)
Run(p, l) ==
    \E a, b \in 1 .. Len(l) : a <= b /\ b < a + ReadMax /\ p = SubSeq(l, a, b)

PiecesOf(r) == {p \in TLine : PieceOf(p, r)}

LEMMA PiecesAreRuns ==
    ASSUME NEW l \in TLine
    PROVE  Pieces(l, ReadMax) \in Seq({p \in TLine : Run(p, l)})
<1> DEFINE w == ReadMax
           q == (Len(l) + w - 1) \div w
           D == {p \in TLine : Run(p, l)}
           from(k) == (k - 1) * w + 1
           to(k) == IF k * w <= Len(l) THEN k * w ELSE Len(l)
           s == [k \in 1 .. q |-> SubSeq(l, from(k), to(k))]
<1>1. Pieces(l, ReadMax) = s  BY Zenon DEF Pieces
<1>2. w \in Nat \ {0} /\ Len(l) \in Nat /\ l \in Seq(Tokens)  BY HistoryAssumption DEF TLine
<1> HIDE DEF w
<1>3. ASSUME NEW k \in 1 .. q
      PROVE  /\ from(k) \in 1 .. Len(l) /\ to(k) \in 1 .. Len(l)
             /\ from(k) <= to(k) /\ to(k) < from(k) + w
  <2> DEFINE x == (k - 1) * w
             y == k * w
  <2>1. y \in Nat /\ x \in Nat /\ x + 1 \in 1 .. Len(l) /\ x + w = y  BY <1>2, DivBound
  <2> HIDE DEF x, y
  <2>2. x + 1 <= y /\ y < x + 1 + w /\ x \in Int  BY <1>2, <2>1
  <2>3. from(k) = x + 1 /\ to(k) = IF y <= Len(l) THEN y ELSE Len(l)  BY DEF x, y
  <2> HIDE DEF from, to
  <2> QED BY <1>2, <2>1, <2>2, <2>3
<1> HIDE DEF q, from, to
<1>4. ASSUME NEW k \in 1 .. q PROVE SubSeq(l, from(k), to(k)) \in D
  <2>1. \A i \in from(k) .. to(k) : l[i] \in Tokens  BY <1>2, <1>3
  <2>2. SubSeq(l, from(k), to(k)) \in Seq(Tokens)  BY <1>3, <2>1, SubSeqProperties
  <2>3. Run(SubSeq(l, from(k), to(k)), l)  BY <1>3 DEF Run, w
  <2> QED BY <2>2, <2>3 DEF TLine
<1> HIDE DEF D
<1>5. q \in Nat
  <2>1. q \in Int /\ q >= 0
    <3> DEFINE n == Len(l) + w - 1
    <3>1. n \in Nat  BY <1>2
    <3> HIDE DEF n
    <3>2. n \div w \in Int /\ w * (n \div w) <= n /\ n < w * ((n \div w) + 1)  BY <1>2, <3>1
    <3> DEFINE d == n \div w
    <3>3. d \in Int /\ n < w * (d + 1)  BY <3>2
    <3> HIDE DEF d
    <3>4. d >= 0
      <4> SUFFICES ASSUME d + 1 <= 0 PROVE FALSE  BY <3>3
      <4>1. w * (d + 1) <= 0  BY <1>2, <3>3
      <4> QED BY <1>2, <3>1, <3>3, <4>1
    <3> QED BY <3>3, <3>4 DEF q, n, d
  <2> QED BY <2>1
<1>6. s \in Seq(D)  BY <1>4, <1>5
<1> QED BY <1>1, <1>6 DEF D

(* A line that is no longer than what fgets takes is read as it stands.    *)
LEMMA OnePiece ==
    ASSUME NEW l \in TLine, l # <<>>, Len(l) <= ReadMax
    PROVE  Pieces(l, ReadMax) = <<l>>
<1> DEFINE w == ReadMax
           n == Len(l)
           to(k) == IF k * w <= n THEN k * w ELSE n
<1>1. w \in Nat \ {0} /\ n \in 1 .. w /\ l \in Seq(Tokens) /\ n \in Nat
    BY HistoryAssumption DEF TLine
<1>2. Pieces(l, ReadMax) = [k \in 1 .. ((n + w - 1) \div w) |-> SubSeq(l, (k - 1) * w + 1, to(k))]
    BY Zenon DEF Pieces
<1> HIDE DEF w, n
<1>3. (n + w - 1) \div w = 1  BY <1>1, DivOne
<1>4. (1 - 1) * w + 1 = 1 /\ to(1) = n  BY <1>1
<1> HIDE DEF to
<1>5. SubSeq(l, 1, n) = l  BY <1>1, SubSeqFull DEF n
<1>6. \A k \in 1 .. 1 : SubSeq(l, (k - 1) * w + 1, to(k)) = l
  <2> SUFFICES ASSUME NEW k \in 1 .. 1 PROVE SubSeq(l, (k - 1) * w + 1, to(k)) = l  OBVIOUS
  <2>1. k = 1  OBVIOUS
  <2> QED BY <1>4, <1>5, <2>1
<1>7. Pieces(l, ReadMax) = [k \in 1 .. 1 |-> l]
  <2>1. Pieces(l, ReadMax) = [k \in 1 .. 1 |-> SubSeq(l, (k - 1) * w + 1, to(k))]
      BY <1>2, <1>3, Zenon
  <2> QED BY <1>6, <2>1, Zenon
<1>8. [k \in 1 .. 1 |-> l] = <<l>>  OBVIOUS
<1> QED BY <1>7, <1>8

(* A piece of a line that a crash may have torn is a piece of the line.    *)
LEMMA TornPieces ==
    ASSUME NEW f \in Seq(TLine), NEW r \in Seq(TLine), TornPrefix(f, r),
           NEW i \in 1 .. Len(f), NEW p \in TLine, Run(p, f[i])
    PROVE  p \in PiecesOf(r)
<1>1. Len(f) \in Nat /\ Len(r) \in Nat /\ Len(f) <= Len(r)  BY DEF TornPrefix
<1>2. i \in 1 .. Len(r)  BY <1>1
<1> DEFINE l == f[i]
           x == r[i]
<1>3. PICK a \in 1 .. Len(l), b \in 1 .. Len(l) :
            a <= b /\ b < a + ReadMax /\ p = SubSeq(l, a, b)
    BY DEF Run
<1>4. l \in Seq(Tokens) /\ x \in Seq(Tokens)  BY <1>2 DEF TLine
<1>5. l = x \/ \E k \in 1 .. Len(x) : l = SubSeq(x, 1, k)
  <2>1. CASE i < Len(f)
    <3>1. i \in 1 .. (Len(f) - 1)  BY <1>1, <2>1
    <3> QED BY <3>1 DEF TornPrefix
  <2>2. CASE i = Len(f)
    <3>1. f # <<>>  BY <2>2
    <3> QED BY <2>2, <3>1 DEF TornPrefix
  <2> QED BY <1>1, <2>1, <2>2
<1> HIDE DEF l, x
<1>6. \E c, d \in 1 .. Len(x) : c <= d /\ d < c + ReadMax /\ p = SubSeq(x, c, d)
  <2>1. CASE l = x  BY <1>3, <2>1
  <2>2. CASE \E k \in 1 .. Len(x) : l = SubSeq(x, 1, k)
    <3>1. PICK k \in 1 .. Len(x) : l = SubSeq(x, 1, k)  BY <2>2
    <3>2. k \in 0 .. Len(x) /\ Len(x) \in Nat  BY <1>4
    <3>3. Len(l) = k  BY <1>4, <3>1, <3>2, FirstOf
    <3>4. a \in 1 .. (k - 1 + 1) /\ b \in 1 .. (k - 1 + 1)  BY <3>2, <3>3
    <3>5. 1 \in 1 .. Len(x)  BY <3>2
    <3>6. SubSeq(SubSeq(x, 1, k), a, b) = SubSeq(x, 1 + a - 1, 1 + b - 1)
        BY <1>4, <3>4, <3>5, SubSeqOfSubSeq
    <3>7. 1 + a - 1 = a /\ 1 + b - 1 = b /\ a \in 1 .. Len(x) /\ b \in 1 .. Len(x)
        BY <3>2, <3>3
    <3>8. p = SubSeq(x, a, b)  BY <1>3, <3>1, <3>6, <3>7
    <3> QED BY <1>3, <3>7, <3>8
  <2> QED BY <1>5, <2>1, <2>2
<1>7. PieceOf(p, r)  BY <1>2, <1>6 DEF PieceOf, x
<1> QED BY <1>7 DEF PiecesOf

(* Of lines that all fit, the file is read line by line.                   *)
LEMMA ReadsWhole ==
    ASSUME NEW f \in Seq(TLine), Fits(f), \A i \in 1 .. Len(f) : f[i] # <<>>
    PROVE  FileReads(f, ReadMax) = f
<1> DEFINE n == Len(f)
           P(i) == Pieces(f[i], ReadMax)
           Step(g) == [i \in 0 .. n |-> IF i = 0 THEN <<>> ELSE g[i - 1] \o P(i)]
           c == [i \in 0 .. n |-> SubSeq(f, 1, i)]
           h == CHOOSE g : g = Step(g)
<1>1. FileReads(f, ReadMax) = h[n]  BY Zenon DEF FileReads
<1>2. n \in Nat /\ SubSeq(f, 1, 0) = <<>> /\ SubSeq(f, 1, n) = f
    BY SubSeqEmpty, SubSeqFull
<1>3. \A i \in 1 .. n : P(i) = <<f[i]>>
  <2> SUFFICES ASSUME NEW i \in 1 .. n PROVE P(i) = <<f[i]>>  OBVIOUS
  <2>1. f[i] \in TLine /\ f[i] # <<>> /\ Len(f[i]) <= ReadMax  BY DEF Fits
  <2> HIDE DEF TLine
  <2> QED BY <2>1, OnePiece
<1> HIDE DEF P
<1>4. ASSUME NEW i \in 1 .. n PROVE c[i] = c[i - 1] \o P(i)
  <2>1. i \in 0 .. n /\ i - 1 \in 0 .. n /\ 1 \in 1 .. Len(f) /\ i \in 1 .. Len(f)  BY <1>2
  <2>2. SubSeq(f, 1, i) = SubSeq(f, 1, i - 1) \o <<f[i]>>  BY <2>1, SubSeqRecursiveSecond
  <2>3. c[i] = SubSeq(f, 1, i) /\ c[i - 1] = SubSeq(f, 1, i - 1)  BY <2>1
  <2> HIDE DEF c
  <2> QED BY <1>3, <2>2, <2>3
<1>5. c[0] = <<>> /\ c[n] = f  BY <1>2
<1>6. c = Step(c)
  <2>1. \A i \in 0 .. n : c[i] = IF i = 0 THEN <<>> ELSE c[i - 1] \o P(i)
    <3> SUFFICES ASSUME NEW i \in 0 .. n
                 PROVE  c[i] = IF i = 0 THEN <<>> ELSE c[i - 1] \o P(i)
      OBVIOUS
    <3>1. CASE i = 0  BY <1>5, <3>1
    <3>2. CASE i # 0
      <4>1. i \in 1 .. n  BY <1>2, <3>2
      <4> QED BY <1>4, <3>2, <4>1
    <3> QED BY <3>1, <3>2
  <2>2. c = [i \in 0 .. n |-> c[i]]  OBVIOUS
  <2> HIDE DEF c
  <2> QED BY <2>1, <2>2
<1> HIDE DEF c
<1>7. h = Step(h)  BY <1>6, Zenon
<1> HIDE DEF h
<1>8. h[0] = <<>> /\ \A i \in 1 .. n : h[i] = h[i - 1] \o P(i)
  <2>1. \A i \in 0 .. n : h[i] = Step(h)[i]  BY <1>7
  <2>2. \A i \in 0 .. n : Step(h)[i] = IF i = 0 THEN <<>> ELSE h[i - 1] \o P(i)
      OBVIOUS
  <2> HIDE DEF Step
  <2>3. 0 \in 0 .. n /\ \A i \in 1 .. n : i \in 0 .. n /\ i # 0  BY <1>2
  <2> QED BY <2>1, <2>2, <2>3
<1>9. h[n] = c[n]
  <2> SUFFICES ASSUME h[n] # c[n] PROVE FALSE  OBVIOUS
  <2> DEFINE bad == {i \in 0 .. n : h[i] # c[i]}
  <2>1. bad \subseteq Nat /\ n \in bad  BY <1>2
  <2>2. PICK i \in bad : \A j \in bad : i <= j  BY <2>1, LeastElement
  <2>3. i \in 0 .. n /\ h[i] # c[i]  OBVIOUS
  <2>4. i # 0  BY <1>5, <1>8, <2>3
  <2>5. i \in 1 .. n /\ i - 1 \in 0 .. n /\ ~(i <= i - 1)  BY <1>2, <2>3, <2>4
  <2>6. h[i - 1] = c[i - 1]  BY <2>2, <2>5
  <2>7. h[i] = h[i - 1] \o P(i) /\ c[i] = c[i - 1] \o P(i)  BY <1>4, <1>8, <2>5
  <2> QED BY <2>3, <2>6, <2>7
<1> QED BY <1>1, <1>5, <1>9

-----------------------------------------------------------------------------
(* The list across crashes and restarts.                                   *)

(* As long as no write has failed, the file holds all of the list of the   *)
(* last save, or what was written of it; and between two steps of a save,  *)
(* the rest is to come.                                                    *)
HistInv ==
    /\ {hist, file, unsaved, remembered} \subseteq Seq(TLine)
    /\ WellKept(hist, MaxHist) /\ WellKept(remembered, MaxHist)
    /\ pc = "load" \/ Ended => hist = <<>>
    /\ IF pc = "saving" THEN writable /\ cut /\ remembered = hist ELSE unsaved = <<>>
    /\ ~damaged =>
          IF pc = "saving" THEN ~midLine /\ file \o unsaved = hist
          ELSE IF cut THEN TornPrefix(file, remembered) ELSE file = remembered
    /\ pc = "raw" /\ ~damaged =>
          /\ hist \in Seq(PiecesOf(remembered))
          /\ Fits(remembered) =>
                IF cut THEN TornPrefix(hist, remembered) ELSE hist = remembered
    /\ pc = "saved" /\ writable /\ ~damaged => file = hist

LEMMA WholeIsTorn ==
    ASSUME NEW r \in Seq(TLine), NEW n \in 1 .. Len(r), r[n] # <<>>
    PROVE  \E k \in 1 .. Len(r[n]) : r[n] = SubSeq(r[n], 1, k)
<1> DEFINE l == r[n]
<1>1. l \in Seq(Tokens) /\ l # <<>>  BY DEF TLine
<1> HIDE DEF l
<1>2. Len(l) \in 1 .. Len(l) /\ SubSeq(l, 1, Len(l)) = l  BY <1>1, SubSeqFull
<1>3. \E k \in 1 .. Len(l) : l = SubSeq(l, 1, k)  BY <1>2
<1> QED BY <1>3 DEF l

(* A part of a list is the beginning of it, torn nowhere.                  *)
LEMMA FirstIsTorn ==
    ASSUME NEW r \in Seq(TLine), NEW f \in Seq(TLine), WellKept(r, MaxHist),
           Len(f) <= Len(r), \A i \in 1 .. Len(f) : f[i] = r[i]
    PROVE  TornPrefix(f, r)
<1>1. ASSUME f # <<>>
      PROVE  \E k \in 1 .. Len(r[Len(f)]) : f[Len(f)] = SubSeq(r[Len(f)], 1, k)
  <2>1. Len(f) \in 1 .. Len(r) /\ Len(f) \in 1 .. Len(f)  BY <1>1
  <2>2. r[Len(f)] # <<>> /\ f[Len(f)] = r[Len(f)]  BY <2>1 DEF WellKept
  <2> QED BY <2>1, <2>2, WholeIsTorn
<1> QED BY <1>1 DEF TornPrefix

(* The lines of a torn list are none of them empty.                        *)
LEMMA TornHasText ==
    ASSUME NEW f \in Seq(TLine), NEW r \in Seq(TLine), WellKept(r, MaxHist),
           TornPrefix(f, r), NEW i \in 1 .. Len(f)
    PROVE  /\ f[i] # <<>> /\ i \in 1 .. Len(r)
           /\ Len(f[i]) <= Len(r[i])
<1> DEFINE n == Len(f)
<1>1. /\ n \in Nat /\ Len(r) \in Nat /\ n <= Len(r) /\ i \in 1 .. Len(r)
      /\ \A j \in 1 .. (n - 1) : f[j] = r[j]
    BY DEF TornPrefix
<1>2. CASE i < n
  <2>1. i \in 1 .. (n - 1)  BY <1>1, <1>2
  <2>2. f[i] = r[i] /\ r[i] \in TLine /\ Len(r[i]) \in Nat  BY <1>1, <2>1 DEF TLine
  <2> QED BY <1>1, <2>2 DEF WellKept
<1>3. CASE i = n
  <2> DEFINE l == r[n]
  <2>1. f # <<>>  BY <1>3
  <2>2. PICK k \in 1 .. Len(l) : f[n] = SubSeq(l, 1, k)  BY <2>1 DEF TornPrefix
  <2>3. l \in Seq(Tokens)  BY <1>1, <1>3 DEF TLine
  <2> HIDE DEF l
  <2>4. k \in 0 .. Len(l) /\ k >= 1 /\ k <= Len(l)  BY <2>3
  <2>5. Len(SubSeq(l, 1, k)) = k  BY <2>3, <2>4, FirstOf
  <2>6. f[i] # <<>> /\ Len(f[i]) <= Len(l)  BY <1>3, <2>2, <2>4, <2>5
  <2> QED BY <1>1, <1>3, <2>6 DEF l
<1> QED BY <1>1, <1>2, <1>3

(* Such a list, added line by line, comes out as it is, but for a torn     *)
(* line that happens to repeat the one before it.                          *)
LEMMA LoadsTorn ==
    ASSUME NEW f \in Seq(TLine), NEW r \in Seq(TLine), WellKept(r, MaxHist),
           TornPrefix(f, r)
    PROVE  LET h == AddAll(<<>>, f, MaxHist)
           IN  h \in Seq(TLine) /\ WellKept(h, MaxHist) /\ TornPrefix(h, r)
<1> DEFINE n == Len(f)
<1>1. /\ n \in Nat /\ Len(r) \in Nat /\ n <= Len(r) /\ Len(r) <= MaxHist /\ MaxHist \in Nat
      /\ \A i \in 1 .. (n - 1) : f[i] = r[i]
  <2>1. n \in Nat /\ Len(r) \in Nat /\ MaxHist \in Nat  BY HistoryAssumption
  <2>2. n <= Len(r) /\ \A i \in 1 .. (n - 1) : f[i] = r[i]  BY DEF TornPrefix
  <2>3. Len(r) <= MaxHist  BY DEF WellKept
  <2> QED BY <2>1, <2>2, <2>3
<1>2. \A i \in 1 .. n : f[i] # <<>>  BY TornHasText
<1>3. ASSUME NEW i \in 1 .. (n - 2) PROVE f[i] # f[i + 1]
  <2>1. i \in 1 .. (n - 1) /\ i + 1 \in 1 .. (n - 1) /\ i \in 1 .. (Len(r) - 1)  BY <1>1
  <2> QED BY <1>1, <2>1 DEF WellKept
<1> DEFINE h == AddAll(<<>>, f, MaxHist)
<1>4. h = IF n > 1 /\ f[n - 1] = f[n] THEN SubSeq(f, 1, n - 1) ELSE f
    BY <1>1, <1>2, <1>3, AddAllIs
<1> HIDE DEF h
<1>5. CASE n > 1 /\ f[n - 1] = f[n]
  <2>1. n - 1 \in 0 .. Len(f)  BY <1>1, <1>5
  <2>2. h \in Seq(TLine) /\ Len(h) = n - 1 /\ \A i \in 1 .. (n - 1) : h[i] = f[i]
      BY <1>4, <1>5, <2>1, FirstOf
  <2>3. Len(h) <= Len(r) /\ \A i \in 1 .. Len(h) : h[i] = r[i] /\ i \in 1 .. Len(r)
      BY <1>1, <2>2
  <2>4. TornPrefix(h, r)  BY <2>2, <2>3, FirstIsTorn
  <2>5. \A i \in 1 .. (Len(h) - 1) : i \in 1 .. (Len(r) - 1) /\ i + 1 \in 1 .. Len(h)
      BY <1>1, <2>2
  <2>6. WellKept(h, MaxHist)  BY <1>1, <2>2, <2>3, <2>5 DEF WellKept
  <2> QED BY <2>2, <2>4, <2>6 DEF h
<1>6. CASE ~(n > 1 /\ f[n - 1] = f[n])
  <2>1. h = f  BY <1>4, <1>6
  <2>2. \A i \in 1 .. (n - 1) : f[i] # f[i + 1]
    <3> SUFFICES ASSUME NEW i \in 1 .. (n - 1) PROVE f[i] # f[i + 1]  OBVIOUS
    <3>1. CASE i \in 1 .. (n - 2)  BY <1>3, <3>1
    <3>2. CASE i = n - 1
      <4>1. n > 1 /\ i + 1 = n  BY <1>1, <3>2
      <4> QED BY <1>6, <3>2, <4>1
    <3> QED BY <1>1, <3>1, <3>2
  <2>3. WellKept(f, MaxHist)  BY <1>1, <1>2, <2>2 DEF WellKept
  <2> QED BY <2>1, <2>3 DEF h
<1> QED BY <1>5, <1>6

LEMMA LoadsWhole ==
    ASSUME NEW r \in Seq(TLine), WellKept(r, MaxHist)
    PROVE  AddAll(<<>>, r, MaxHist) = r
<1>1. MaxHist \in Nat /\ Len(r) \in Nat  BY HistoryAssumption
<1>2. \A i \in 1 .. (Len(r) - 1) : r[i] # r[i + 1]  BY DEF WellKept
<1>3. \A i \in 1 .. (Len(r) - 2) : r[i] # r[i + 1]  BY <1>1, <1>2
<1>4. ~(Len(r) > 1 /\ r[Len(r) - 1] = r[Len(r)])
  <2> SUFFICES ASSUME Len(r) > 1 PROVE r[Len(r) - 1] # r[Len(r)]  OBVIOUS
  <2>1. Len(r) - 1 \in 1 .. (Len(r) - 1) /\ (Len(r) - 1) + 1 = Len(r)  BY <1>1
  <2> QED BY <1>2, <2>1
<1> QED BY <1>1, <1>3, <1>4, AddAllIs DEF WellKept

(* What linenoiseHistoryLoad makes of any file, of one that holds the      *)
(* beginning of a list, and of one whose lines fit the buffer of fgets.    *)
LEMMA LoadsKept ==
    ASSUME NEW f \in Seq(TLine)
    PROVE  LET h == HistoryLoad(<<>>, f, MaxHist, ReadMax)
           IN  h \in Seq(TLine) /\ WellKept(h, MaxHist)
<1> DEFINE g == FileReads(f, ReadMax)
<1>1. \A i \in 1 .. Len(f) : Pieces(f[i], ReadMax) \in Seq(TLine)
  <2> SUFFICES ASSUME NEW i \in 1 .. Len(f)
               PROVE  Pieces(f[i], ReadMax) \in Seq(TLine)
    OBVIOUS
  <2> DEFINE D == {p \in TLine : Run(p, f[i])}
  <2>1. f[i] \in TLine /\ D \subseteq TLine  OBVIOUS
  <2>2. Pieces(f[i], ReadMax) \in Seq(D)  BY <2>1, PiecesAreRuns
  <2> HIDE DEF D, TLine
  <2> QED BY <2>1, <2>2
<1>2. g \in Seq(TLine)  BY <1>1, ReadsParts
<1> HIDE DEF g, TLine
<1>3. AddAll(<<>>, g, MaxHist) \in Seq(TLine) /\ WellKept(AddAll(<<>>, g, MaxHist), MaxHist)
    BY <1>2, AddAllKeeps
<1> QED BY <1>3 DEF HistoryLoad, g

LEMMA LoadsPieces ==
    ASSUME NEW f \in Seq(TLine), NEW r \in Seq(TLine), TornPrefix(f, r)
    PROVE  HistoryLoad(<<>>, f, MaxHist, ReadMax) \in Seq(PiecesOf(r))
<1> DEFINE g == FileReads(f, ReadMax)
           D == PiecesOf(r)
<1>1. \A i \in 1 .. Len(f) : Pieces(f[i], ReadMax) \in Seq(D)
  <2> SUFFICES ASSUME NEW i \in 1 .. Len(f)
               PROVE  Pieces(f[i], ReadMax) \in Seq(D)
    OBVIOUS
  <2> DEFINE R == {p \in TLine : Run(p, f[i])}
  <2>1. f[i] \in TLine  OBVIOUS
  <2>2. R \subseteq D  BY TornPieces
  <2>3. Pieces(f[i], ReadMax) \in Seq(R)  BY <2>1, PiecesAreRuns
  <2> HIDE DEF D, R
  <2> QED BY <2>2, <2>3
<1>2. D \in SUBSET TLine  BY DEF PiecesOf
<1> HIDE DEF D
<1>3. g \in Seq(D)  BY <1>1, <1>2, ReadsParts
<1> HIDE DEF g
<1>4. AddAll(<<>>, g, MaxHist) \in Seq(D)  BY <1>3, AddAllKeeps
<1> QED BY <1>4 DEF HistoryLoad, g, D

LEMMA LoadsFitting ==
    ASSUME NEW f \in Seq(TLine), NEW r \in Seq(TLine), TornPrefix(f, r),
           WellKept(r, MaxHist), Fits(r)
    PROVE  HistoryLoad(<<>>, f, MaxHist, ReadMax) = AddAll(<<>>, f, MaxHist)
<1>1. ASSUME NEW i \in 1 .. Len(f) PROVE f[i] # <<>> /\ Len(f[i]) <= ReadMax
  <2>1. f[i] # <<>> /\ i \in 1 .. Len(r) /\ Len(f[i]) <= Len(r[i])  BY TornHasText
  <2>2. Len(r[i]) <= ReadMax  BY <2>1 DEF Fits
  <2>3. Len(f[i]) \in Nat /\ Len(r[i]) \in Nat /\ ReadMax \in Nat
      BY <2>1, HistoryAssumption DEF TLine
  <2> QED BY <2>1, <2>2, <2>3
<1>2. FileReads(f, ReadMax) = f  BY <1>1, ReadsWhole DEF Fits
<1> QED BY <1>2 DEF HistoryLoad

(* One line more in the file and one line less to write.                   *)
LEMMA HeadGoesOver ==
    ASSUME NEW f \in Seq(TLine), NEW u \in Seq(TLine), u # <<>>
    PROVE  /\ Append(f, Head(u)) \in Seq(TLine) /\ Tail(u) \in Seq(TLine)
           /\ Append(f, Head(u)) \o Tail(u) = f \o u
<1>1. Head(u) \in TLine /\ Tail(u) \in Seq(TLine) /\ <<Head(u)>> \o Tail(u) = u
  <2>1. /\ Head(u) \in TLine /\ Tail(u) \in Seq(TLine) /\ Len(Tail(u)) = Len(u) - 1
        /\ \A i \in 1 .. Len(Tail(u)) : Tail(u)[i] = u[i + 1]
      BY HeadTailProperties
  <2> DEFINE t == Tail(u)
             x == Head(u)
             v == <<x>> \o t
  <2>2. x = u[1] /\ Len(u) \in Nat /\ Len(u) >= 1  OBVIOUS
  <2>3. /\ t \in Seq(TLine) /\ x \in TLine /\ Len(t) = Len(u) - 1
        /\ \A i \in 1 .. Len(t) : t[i] = u[i + 1]
      BY <2>1
  <2> HIDE DEF t, x
  <2>4. /\ v \in Seq(TLine) /\ Len(v) = 1 + Len(t) /\ v[1] = x
        /\ \A i \in 1 .. Len(t) : v[1 + i] = t[i]
      BY <2>3
  <2>5. \A i \in 1 .. Len(u) : v[i] = u[i]
    <3> SUFFICES ASSUME NEW i \in 1 .. Len(u) PROVE v[i] = u[i]  OBVIOUS
    <3>1. CASE i = 1  BY <2>2, <2>4, <3>1
    <3>2. CASE i # 1
      <4>1. i - 1 \in 1 .. Len(t) /\ 1 + (i - 1) = i /\ (i - 1) + 1 = i  BY <2>2, <2>3, <3>2
      <4>2. v[1 + (i - 1)] = t[i - 1] /\ t[i - 1] = u[(i - 1) + 1]  BY <2>3, <2>4, <4>1
      <4> QED BY <4>1, <4>2
    <3> QED BY <3>1, <3>2
  <2> HIDE DEF v
  <2>6. v = u
    <3>1. Len(v) = Len(u) /\ v \in Seq(TLine)  BY <2>2, <2>3, <2>4
    <3> QED BY <2>5, <3>1
  <2> QED BY <2>3, <2>6 DEF t, x, v
<1>2. Append(f, Head(u)) = f \o <<Head(u)>> /\ <<Head(u)>> \in Seq(TLine)
    BY <1>1, AppendIsConcat
<1>3. (f \o <<Head(u)>>) \o Tail(u) = f \o (<<Head(u)>> \o Tail(u))
    BY <1>1, <1>2, ConcatAssociative
<1>4. Append(f, Head(u)) \in Seq(TLine)  BY <1>1
<1> QED BY <1>1, <1>2, <1>3, <1>4

(* What a crash leaves of a file that is being written.                    *)
LEMMA WrittenIsTorn ==
    ASSUME NEW f \in Seq(TLine), NEW u \in Seq(TLine), WellKept(f \o u, MaxHist)
    PROVE  /\ TornPrefix(f, f \o u)
           /\ u # <<>> =>
                \A n \in 1 .. (Len(Head(u)) - 1) :
                   LET g == Append(f, SubSeq(Head(u), 1, n))
                   IN  g \in Seq(TLine) /\ TornPrefix(g, f \o u)
<1> DEFINE r == f \o u
<1>1. /\ r \in Seq(TLine) /\ Len(r) = Len(f) + Len(u) /\ Len(f) \in Nat /\ Len(u) \in Nat
      /\ \A i \in 1 .. Len(f) : r[i] = f[i]
      /\ \A i \in 1 .. Len(u) : r[Len(f) + i] = u[i]
    OBVIOUS
<1>2. WellKept(r, MaxHist)  OBVIOUS
<1> HIDE DEF r
<1>3. TornPrefix(f, r)
  <2>1. Len(f) <= Len(r)  BY <1>1
  <2> QED BY <1>1, <1>2, <2>1, FirstIsTorn
<1>4. ASSUME u # <<>>, NEW n \in 1 .. (Len(Head(u)) - 1)
      PROVE  LET g == Append(f, SubSeq(Head(u), 1, n))
             IN  g \in Seq(TLine) /\ TornPrefix(g, r)
  <2> DEFINE x == Head(u)
             p == SubSeq(x, 1, n)
             g == Append(f, p)
  <2>1. x \in Seq(Tokens) /\ x = u[1] /\ 1 \in 1 .. Len(u)  BY <1>4 DEF TLine
  <2>2. n \in 1 .. Len(x) /\ n \in 0 .. Len(x)  BY <2>1
  <2> HIDE DEF x
  <2>3. p \in TLine  BY <2>1, <2>2, FirstOf DEF TLine
  <2>4. r[Len(f) + 1] = x /\ Len(f) + 1 <= Len(r)  BY <1>1, <2>1
  <2>5. \E k \in 1 .. Len(x) : p = SubSeq(x, 1, k)  BY <2>2
  <2> HIDE DEF p
  <2>6. /\ g \in Seq(TLine) /\ Len(g) = Len(f) + 1 /\ g[Len(f) + 1] = p
        /\ \A i \in 1 .. Len(f) : g[i] = f[i]
      BY <2>3, AppendProperties
  <2> HIDE DEF g
  <2>7. \A i \in 1 .. (Len(g) - 1) : g[i] = r[i]  BY <1>1, <2>6
  <2>8. \E k \in 1 .. Len(r[Len(g)]) : g[Len(g)] = SubSeq(r[Len(g)], 1, k)
      BY <2>4, <2>5, <2>6
  <2>9. Len(g) <= Len(r)  BY <2>4, <2>6
  <2>10. g \in Seq(TLine) /\ TornPrefix(g, r)  BY <2>6, <2>7, <2>8, <2>9 DEF TornPrefix
  <2> QED BY <2>10 DEF g, p, x
<1> QED BY <1>3, <1>4 DEF r

(* A step that touches neither the list nor its file, and does not enter   *)
(* or leave the places where they matter.                                  *)
FilesRest ==
    /\ UNCHANGED fileVars
    /\ \/ pc' = pc
       \/ pc # "saving" /\ pc' \in {"top", "poll", "sock", "key", "more", "command",
                                    "write", "save"}

FilesMove ==
    \/ LoadHistory \/ RawModeFails \/ CommandBuiltin \/ WriteReturns
    \/ BeginSave \/ WriteLine \/ WriteLost \/ EndSave \/ NoSave \/ Return \/ Crash
    \/ Restart

LEMMA RestOrMove ==
    ASSUME [Next]_vars
    PROVE  FilesRest \/ FilesMove
<1> USE DEF FilesRest
<1>1. CASE EnableRawMode \/ EnterPoll \/ Interrupted \/ PollReady \/ PollFails
    BY <1>1 DEF EnableRawMode, EnterPoll, Interrupted, PollReady, PollFails, Goto, Leave
<1>2. CASE SockData \/ SockEnds \/ SockFails \/ SockIdle \/ NoKey \/ TtyEnds
    BY <1>2 DEF SockData, SockEnds, SockFails, SockIdle, NoKey, TtyEnds, Goto, Leave
<1>3. CASE KeyEdits \/ KeyEnter \/ KeyAborts \/ NoMoreKeys
    BY <1>3 DEF KeyEdits, KeyEnter, KeyAborts, NoMoreKeys, Reads, Goto, Leave
<1>4. CASE CommandExit \/ CommandNone \/ CommandSend \/ WriteFails \/ EditStart
    BY <1>4 DEF CommandExit, CommandNone, CommandSend, WriteFails, EditStart, Goto, Leave
<1>5. CASE \E n \in 1 .. Len(toWrite) : WriteSome(n)
    BY <1>5 DEF WriteSome
<1>6. CASE Signal \/ SignalInPoll
    BY <1>6 DEF Signal, SignalInPoll, Leave, loopVars
<1>7. CASE Environment
    BY <1>7 DEF Environment, Type, TtyCloses, SrvSends, SrvCloses, SrvResets, loopVars
<1>8. CASE Stopped \/ UNCHANGED vars
    BY <1>8 DEF Stopped, vars, loopVars
<1>9. CASE FilesMove
    BY <1>9
<1> QED BY <1>1, <1>2, <1>3, <1>4, <1>5, <1>6, <1>7, <1>8, <1>9
        DEF Next, ClientStep, FilesMove

LEMMA LinesAreTLines ==
    ASSUME TypeOK
    PROVE  line \in TLine
BY DEF TypeOK, TLine

LEMMA RecordStep ==
    ASSUME TypeOK, HistInv, Record(line), pc \in {"command", "write"}, pc' = "save"
    PROVE  HistInv'
<1>1. HistoryAdd(hist, line, MaxHist) \in Seq(TLine)
      /\ WellKept(HistoryAdd(hist, line, MaxHist), MaxHist)
    BY LinesAreTLines, RecordKeeps DEF HistInv
<1> QED BY <1>1 DEF HistInv, Record, Ended

LEMMA LongerType ==
    ASSUME NEW text \in TLine, file \in Seq(TLine)
    PROVE  Longer(text) \in Seq(TLine)
<1> DEFINE n == Len(file)
           g == [file EXCEPT ![n] = file[n] \o text]
<1>1. Append(file, text) \in Seq(TLine)  OBVIOUS
<1>2. g \in Seq(TLine)
  <2>1. CASE n = 0
    <3>1. file = <<>> /\ DOMAIN file = {}  BY <2>1
    <3>2. g = file  BY <3>1
    <3> QED BY <3>2
  <2>2. CASE n # 0
    <3>1. n \in 1 .. n /\ file[n] \in TLine  BY <2>2
    <3> DEFINE x == file[n] \o text
    <3>2. x \in TLine  BY <3>1, ConcatProperties DEF TLine
    <3> HIDE DEF x
    <3>3. [file EXCEPT ![n] = x] \in Seq(TLine)  BY <3>1, <3>2
    <3> QED BY <3>3 DEF x
  <2> QED BY <2>1, <2>2
<1> HIDE DEF g
<1>3. Longer(text) = IF midLine THEN g ELSE Append(file, text)  BY DEF Longer, g
<1> QED BY <1>1, <1>2, <1>3

(* Whatever a failing write leaves, the file is made of lines.             *)
LEMMA LosesType ==
    ASSUME SaveLoses, file \in Seq(TLine), unsaved \in Seq(TLine)
    PROVE  file' \in Seq(TLine) /\ unsaved' \in Seq(TLine)
<1> DEFINE l == Head(unsaved)
<1>1. unsaved # <<>> /\ unsaved' = Tail(unsaved)  BY DEF SaveLoses
<1>2. l \in Seq(Tokens) /\ Tail(unsaved) \in Seq(TLine)
    BY <1>1, HeadTailProperties DEF TLine
<1> HIDE DEF l
<1>3. PICK a \in 0 .. Len(l) :
         \/ \E b \in (a + 1) .. Len(l) :
               file' = Longer(SubSeq(l, 1, a) \o SubSeq(l, b + 1, Len(l)))
         \/ file' = Longer(SubSeq(l, 1, a))
         \/ file' = file
    BY Zenon DEF SaveLoses, Put, l
<1>4. SubSeq(l, 1, a) \in Seq(Tokens)  BY <1>2, TokCut
<1>5. \A b \in (a + 1) .. Len(l) : SubSeq(l, 1, a) \o SubSeq(l, b + 1, Len(l)) \in Seq(Tokens)
  <2> SUFFICES ASSUME NEW b \in (a + 1) .. Len(l)
               PROVE  SubSeq(l, 1, a) \o SubSeq(l, b + 1, Len(l)) \in Seq(Tokens)
    OBVIOUS
  <2>1. b \in 0 .. Len(l)  BY <1>2
  <2>2. SubSeq(l, b + 1, Len(l)) \in Seq(Tokens)  BY <1>2, <2>1, TokCut
  <2> QED BY <1>4, <2>2, TokConcat
<1>6. file' \in Seq(TLine)
  <2>1. CASE file' = file  BY <2>1
  <2>2. CASE file' = Longer(SubSeq(l, 1, a))  BY <1>4, <2>2, LongerType DEF TLine
  <2>3. CASE \E b \in (a + 1) .. Len(l) :
               file' = Longer(SubSeq(l, 1, a) \o SubSeq(l, b + 1, Len(l)))
    <3>1. PICK b \in (a + 1) .. Len(l) :
               file' = Longer(SubSeq(l, 1, a) \o SubSeq(l, b + 1, Len(l)))
        BY <2>3
    <3>2. SubSeq(l, 1, a) \o SubSeq(l, b + 1, Len(l)) \in TLine  BY <1>5 DEF TLine
    <3> HIDE DEF TLine
    <3> QED BY <3>1, <3>2, LongerType
  <2> QED BY <1>3, <2>1, <2>2, <2>3
<1> QED BY <1>1, <1>2, <1>6

LEMMA LoadStep ==
    ASSUME TypeOK, HistInv, LoadHistory
    PROVE  HistInv'
<1> DEFINE h == HistoryLoad(<<>>, file, MaxHist, ReadMax)
<1>t. file \in Seq(TLine) /\ unsaved \in Seq(TLine) /\ remembered \in Seq(TLine)
    BY DEF HistInv
<1>1. /\ pc = "load" /\ pc' = "raw" /\ hist' = h
      /\ UNCHANGED <<file, unsaved, writable, remembered, cut, damaged>>
    BY DEF LoadHistory, Load
<1>2. unsaved = <<>> /\ WellKept(remembered, MaxHist)  BY <1>1 DEF HistInv
<1>3. h \in Seq(TLine) /\ WellKept(h, MaxHist)  BY <1>t, LoadsKept
<1>4. ~damaged => IF cut THEN TornPrefix(file, remembered) ELSE file = remembered
    BY <1>1 DEF HistInv
<1>5. ASSUME ~damaged
      PROVE  /\ h \in Seq(PiecesOf(remembered))
             /\ Fits(remembered) => IF cut THEN TornPrefix(h, remembered) ELSE h = remembered
  <2>1. TornPrefix(remembered, remembered)
    <3>1. Len(remembered) <= Len(remembered)  BY <1>t
    <3> QED BY <1>t, <1>2, <3>1, FirstIsTorn
  <2>2. TornPrefix(file, remembered)  BY <1>4, <1>5, <2>1
  <2>3. h \in Seq(PiecesOf(remembered))  BY <1>t, <2>2, LoadsPieces
  <2>4. ASSUME Fits(remembered)
        PROVE  IF cut THEN TornPrefix(h, remembered) ELSE h = remembered
    <3>1. h = AddAll(<<>>, file, MaxHist)  BY <1>t, <1>2, <2>2, <2>4, LoadsFitting
    <3> HIDE DEF h
    <3>2. CASE cut  BY <1>t, <1>2, <2>2, <3>1, <3>2, LoadsTorn
    <3>3. CASE ~cut
      <4>1. file = remembered  BY <1>4, <1>5, <3>3
      <4>2. AddAll(<<>>, remembered, MaxHist) = remembered  BY <1>t, <1>2, LoadsWhole
      <4> QED BY <3>1, <3>3, <4>1, <4>2
    <3> QED BY <3>2, <3>3
  <2> HIDE DEF h
  <2> QED BY <2>3, <2>4
<1> HIDE DEF h
<1>6. ~damaged' =>
        /\ hist' \in Seq(PiecesOf(remembered'))
        /\ Fits(remembered') =>
              IF cut' THEN TornPrefix(hist', remembered') ELSE hist' = remembered'
    BY <1>1, <1>5
<1>7. ~damaged' => IF cut' THEN TornPrefix(file', remembered') ELSE file' = remembered'
    BY <1>1, <1>4
<1> HIDE DEF TornPrefix, PiecesOf, Fits
<1> QED BY <1>t, <1>1, <1>2, <1>3, <1>6, <1>7 DEF HistInv, Ended

LEMMA CrashStep ==
    ASSUME TypeOK, HistInv, Crash
    PROVE  HistInv'
<1>t. hist \in Seq(TLine) /\ file \in Seq(TLine) /\ unsaved \in Seq(TLine)
      /\ remembered \in Seq(TLine)
    BY DEF HistInv
<1>1. /\ pc' = "dead" /\ hist' = <<>> /\ unsaved' = <<>>
      /\ UNCHANGED <<writable, remembered, cut, damaged>>
    BY DEF Crash, Lost
<1>2. \/ file' = file
      \/ /\ unsaved # <<>>
         /\ \E n \in 1 .. (Len(Head(unsaved)) - 1) :
               file' = Longer(SubSeq(Head(unsaved), 1, n))
    BY Zenon DEF Crash, Lost
<1>3. file' \in Seq(TLine)
  <2>1. CASE file' = file  BY <1>t, <2>1
  <2>2. CASE file' # file
    <3>1. PICK n \in 1 .. (Len(Head(unsaved)) - 1) :
                  file' = Longer(SubSeq(Head(unsaved), 1, n))
        BY <1>2, <2>2
    <3> DEFINE l == Head(unsaved)
    <3>2. l \in Seq(Tokens)  BY <1>t, <1>2, <2>2 DEF TLine
    <3> HIDE DEF l
    <3>3. n \in 1 .. (Len(l) - 1)  BY DEF l
    <3>4. n \in 0 .. Len(l)  BY <3>2, <3>3
    <3>5. SubSeq(l, 1, n) \in TLine  BY <3>2, <3>4, TokCut DEF TLine
    <3> HIDE DEF TLine
    <3> QED BY <1>t, <3>1, <3>5, LongerType DEF l
  <2> QED BY <2>1, <2>2
<1>4. ASSUME ~damaged
      PROVE  IF cut THEN TornPrefix(file', remembered) ELSE file' = remembered
  <2>1. CASE pc # "saving"
    <3>1. unsaved = <<>>  BY <2>1 DEF HistInv
    <3>2. file' = file  BY <1>2, <3>1
    <3> QED BY <1>4, <2>1, <3>2 DEF HistInv
  <2>2. CASE pc = "saving"
    <3>1. /\ cut /\ ~midLine /\ file \o unsaved = remembered
          /\ WellKept(remembered, MaxHist)
        BY <1>4, <2>2 DEF HistInv
    <3>2. CASE file' = file
        BY <1>t, <3>1, <3>2, WrittenIsTorn
    <3>3. CASE file' # file
      <4>1. PICK n \in 1 .. (Len(Head(unsaved)) - 1) :
                    file' = Longer(SubSeq(Head(unsaved), 1, n))
          BY <1>2, <3>3
      <4>2. file' = Append(file, SubSeq(Head(unsaved), 1, n))
          BY <3>1, <4>1, Zenon DEF Longer
      <4> QED BY <1>t, <1>2, <3>1, <3>3, <4>1, <4>2, WrittenIsTorn
    <3> QED BY <3>2, <3>3
  <2> QED BY <2>1, <2>2
<1>5. ~damaged' => IF cut' THEN TornPrefix(file', remembered') ELSE file' = remembered'
    BY <1>1, <1>4
<1>6. WellKept(remembered, MaxHist)  BY DEF HistInv
<1> HIDE DEF TornPrefix
<1> QED BY <1>t, <1>1, <1>3, <1>5, <1>6, EmptyKept DEF HistInv, Ended

LEMMA HistNext ==
    ASSUME TypeOK, HistInv, [Next]_vars
    PROVE  HistInv'
<1>t. hist \in Seq(TLine) /\ file \in Seq(TLine) /\ unsaved \in Seq(TLine)
      /\ remembered \in Seq(TLine)
    BY DEF HistInv
<1>1. CASE FilesRest
    BY <1>1 DEF FilesRest, fileVars, HistInv, Ended
<1>2. CASE LoadHistory  BY <1>2, LoadStep
<1>3. CASE RawModeFails \/ Return
  <2>1. /\ hist' = <<>>
        /\ UNCHANGED <<file, midLine, unsaved, writable, remembered, cut, damaged>>
        /\ pc \notin {"saving"} /\ pc' \in {"pipe", "done"}
      BY <1>3 DEF RawModeFails, Return, Forget, Goto
  <2> QED BY <1>t, <2>1, EmptyKept DEF HistInv, Ended
<1>4. CASE CommandBuiltin \/ WriteReturns
    BY <1>4, RecordStep DEF CommandBuiltin, WriteReturns, Goto
<1>5. CASE BeginSave
  <2>1. /\ pc = "save" /\ writable /\ pc' = "saving"
        /\ file' = <<>> /\ unsaved' = hist /\ remembered' = hist /\ cut' = TRUE
        /\ midLine' = FALSE /\ damaged' = FALSE
        /\ UNCHANGED <<hist, writable>>
      BY <1>5 DEF BeginSave, SaveOpens, Goto
  <2>2. <<>> \o hist = hist  BY <1>t, ConcatEmptySeq
  <2> QED BY <1>t, <2>1, <2>2, EmptyKept DEF HistInv, Ended
<1>6. CASE WriteLine
  <2> DEFINE f == Append(file, Head(unsaved))
             u == Tail(unsaved)
             g == Longer(Head(unsaved))
  <2>1. /\ pc = "saving" /\ pc' = "saving" /\ unsaved # <<>>
        /\ file' = g /\ unsaved' = u
        /\ UNCHANGED <<hist, writable, remembered, cut, damaged>>
      BY <1>6, Zenon DEF WriteLine, SaveWrites, Put, loopVars
  <2>2. midLine' = FALSE
    <3>1. midLine' = ~TRUE  BY <1>6, Zenon DEF WriteLine, SaveWrites, Put
    <3> QED BY <3>1, Zenon
  <2>3. f \in Seq(TLine) /\ u \in Seq(TLine) /\ f \o u = file \o unsaved
      BY <1>t, <2>1, HeadGoesOver
  <2>4. g \in Seq(TLine)
    <3>1. Head(unsaved) \in TLine  BY <1>t, <2>1, HeadTailProperties
    <3> QED BY <1>t, <3>1, LongerType
  <2>5. ~midLine => g = f  BY Zenon DEF Longer
  <2> HIDE DEF f, u, g
  <2>6. ~damaged => ~midLine  BY <2>1 DEF HistInv
  <2> QED BY <1>t, <2>1, <2>2, <2>3, <2>4, <2>5, <2>6 DEF HistInv, Ended
<1>7. CASE WriteLost
  <2>1. /\ pc = "saving" /\ pc' = "saving" /\ SaveLoses /\ damaged' = TRUE
        /\ UNCHANGED <<hist, writable, remembered, cut>>
      BY <1>7, Zenon DEF WriteLost, SaveLoses, loopVars
  <2>2. file' \in Seq(TLine) /\ unsaved' \in Seq(TLine)  BY <1>t, <2>1, LosesType
  <2> QED BY <1>t, <2>1, <2>2 DEF HistInv, Ended
<1>8. CASE EndSave
  <2>1. /\ pc = "saving" /\ unsaved = <<>> /\ cut' = FALSE /\ pc' = "saved"
        /\ UNCHANGED <<hist, file, unsaved, writable, remembered, damaged>>
      BY <1>8 DEF EndSave, SaveCloses, Goto
  <2>2. file \o <<>> = file  BY <1>t, ConcatEmptySeq
  <2>3. remembered = hist /\ (~damaged => file = hist)  BY <2>1, <2>2 DEF HistInv
  <2> QED BY <1>t, <2>1, <2>3 DEF HistInv, Ended
<1>9. CASE NoSave
  <2>1. pc = "save" /\ ~writable /\ pc' = "saved" /\ UNCHANGED fileVars
      BY <1>9 DEF NoSave, Goto
  <2> QED BY <2>1 DEF HistInv, Ended, fileVars
<1>10. CASE Crash  BY <1>10, CrashStep
<1>11. CASE Restart
  <2>1. Ended /\ pc' = "load" /\ UNCHANGED fileVars
      BY <1>11 DEF Restart
  <2> QED BY <2>1 DEF HistInv, Ended, fileVars
<1> QED BY <1>1, <1>2, <1>3, <1>4, <1>5, <1>6, <1>7, <1>8, <1>9, <1>10, <1>11, RestOrMove
        DEF FilesMove

(* After a restart the history is well kept whatever its file has been     *)
(* through; if no write failed, it holds pieces of the lines of the last   *)
(* save only, and all of that list if its lines fit the buffer of fgets,   *)
(* or its beginning if a crash cut the save short; and what                *)
(* linenoiseHistorySave has written without a failure is the whole list.   *)
THEOREM RestartAlwaysRemembers == Spec => []RestartRemembers
<1>1. Init => HistInv
  <2> SUFFICES ASSUME Init PROVE HistInv  OBVIOUS
  <2> QED BY EmptyKept DEF Init, HistoryInit, HistInv, Ended
<1>2. TtyInv /\ HistInv /\ [Next]_vars => HistInv'  BY HistNext DEF TtyInv
<1>3. HistInv => RestartRemembers
  <2> SUFFICES ASSUME HistInv PROVE RestartRemembers  OBVIOUS
  <2>1. hist \in Seq(PiecesOf(remembered)) =>
           \A i \in 1 .. Len(hist) : PieceOf(hist[i], remembered)
    <3> SUFFICES ASSUME hist \in Seq(PiecesOf(remembered)), NEW i \in 1 .. Len(hist)
                 PROVE  PieceOf(hist[i], remembered)
      OBVIOUS
    <3>1. hist[i] \in PiecesOf(remembered)  OBVIOUS
    <3> QED BY <3>1, Zenon DEF PiecesOf
  <2> QED BY <2>1 DEF HistInv, RestartRemembers
<1> QED BY <1>1, <1>2, <1>3, TtyInvariant, PTL DEF Spec
=============================================================================
