----------------------------- MODULE MainProofs -----------------------------
(***************************************************************************)
(* For any number of addresses and any pattern of failures: nothing leaks, *)
(* the socket handed over is connected, and the code of a failure is the   *)
(* last attempt's.                                                         *)
(*                                                                         *)
(* ConnInv is inductive over the steps of socket_connect (ConnectKeeps);   *)
(* main's own steps change none of its variables, except that Close        *)
(* empties fds.                                                            *)
(***************************************************************************)
EXTENDS Main, TLAPS

ConnInv == ConnectTypeOK /\ NothingLeaks /\ SocketIsConnected /\ FailureIsTheLast /\ WalkInv

LEMMA ConnInitially == ConnectInit => ConnInv
<1> SUFFICES ASSUME ConnectInit PROVE ConnInv
  OBVIOUS
<1>1. <<>> \in Seq(Peer) /\ <<>> \in Seq(Codes \cup {0}) /\ Len(<<>>) = 0
  OBVIOUS
<1>2. ConnectTypeOK
  <2>1. peers \in Seq(Peer) /\ tried \in Seq(Codes \cup {0}) /\ Len(peers) <= MaxAddrs
    BY <1>1, ConnectAssumption DEF ConnectInit
  <2>2. at \in 0 .. (MaxAddrs + 1) /\ sockfd \in 0 .. MaxAddrs
    BY ConnectAssumption DEF ConnectInit
  <2>3. result \in [fd : 0 .. MaxAddrs, err : Codes \cup {0}]
    BY ConnectAssumption DEF ConnectInit, NoResult
  <2> QED
    BY <2>1, <2>2, <2>3 DEF ConnectInit, ConnectTypeOK
<1>3. NothingLeaks /\ SocketIsConnected /\ FailureIsTheLast /\ WalkInv
  BY DEF ConnectInit, NothingLeaks, SocketIsConnected, FailureIsTheLast, WalkInv,
     Returned
<1> QED
  BY <1>2, <1>3 DEF ConnInv

(* Giving an attempt up keeps lastError and tried in step, whatever code   *)
(* is remembered; an accepting address may only be given up as IO.         *)
LEMMA AbandonKeeps ==
    ASSUME NEW code \in {REFUSED, TIMEOUT, IO}, ConnInv,
           cpc \in {"connect", "wait", "check"},
           peers[at] = "accepts" => code = IO,
           Abandon(code), interrupted' \in BOOLEAN
    PROVE  ConnInv'
<1>1. /\ addrinfo = "held" /\ at \in 1 .. Len(peers) /\ sockfd = at
      /\ Len(tried) = at - 1 /\ tried \in Seq(Codes \cup {0})
      /\ Len(peers) <= MaxAddrs /\ peers \in Seq(Peer)
      /\ fds \subseteq {at}
  BY DEF ConnInv, NothingLeaks, WalkInv, ConnectTypeOK
<1>2. /\ code # 0 /\ code \in Codes
      /\ tried' \in Seq(Codes \cup {0}) /\ Len(tried') = at /\ tried'[at] = code
      /\ \A i \in 1 .. (at - 1) : tried'[i] = tried[i]
  BY <1>1 DEF Abandon, Codes, REFUSED, TIMEOUT, IO, DNS
<1>3. ConnectTypeOK'
  BY <1>1, <1>2, ConnectAssumption DEF ConnInv, ConnectTypeOK, Abandon
<1>4. NothingLeaks'
  BY <1>1 DEF Abandon, NothingLeaks, Returned
<1>5. SocketIsConnected' /\ FailureIsTheLast'
  BY DEF Abandon, SocketIsConnected, FailureIsTheLast, Returned
<1>6. GivenUpFairly'
  <2>1. GivenUpFairly
    BY <1>1 DEF ConnInv, WalkInv
  <2>2. peers' = peers
    BY DEF Abandon
  <2> QED
    BY <1>1, <1>2, <2>1, <2>2 DEF GivenUpFairly
<1>7. CodeOfTheLast(lastError)'
  <2>1. at \in HadSocket' /\ \A j \in HadSocket' : j <= at
    BY <1>1, <1>2 DEF HadSocket
  <2>2. lastError' = tried'[at]
    BY <1>2 DEF Abandon
  <2> QED
    BY <2>1, <2>2 DEF CodeOfTheLast, LastAttempt
<1>8. WalkInv'
  BY <1>1, <1>2, <1>6, <1>7 DEF WalkInv, Abandon, Returned
<1> QED
  BY <1>3, <1>4, <1>5, <1>8 DEF ConnInv

LEMMA ConnectedKeeps ==
    ASSUME ConnInv, cpc \in {"connect", "check"}, peers[at] = "accepts",
           Connected, UNCHANGED interrupted
    PROVE  ConnInv'
<1>1. /\ addrinfo = "held" /\ at \in 1 .. Len(peers) /\ sockfd = at
      /\ Len(tried) = at - 1 /\ Len(peers) <= MaxAddrs
  BY DEF ConnInv, NothingLeaks, WalkInv, ConnectTypeOK
<1>2. ConnectTypeOK'
  BY <1>1 DEF ConnInv, ConnectTypeOK, Connected
<1>3. NothingLeaks' /\ SocketIsConnected' /\ FailureIsTheLast' /\ WalkInv'
  BY <1>1 DEF ConnInv, NothingLeaks, SocketIsConnected, FailureIsTheLast, WalkInv,
     Connected, Returned
<1> QED
  BY <1>2, <1>3 DEF ConnInv

LEMMA ConnectKeeps == ConnInv /\ ConnectStep => ConnInv'
<1> SUFFICES ASSUME ConnInv, ConnectStep PROVE ConnInv'
  OBVIOUS
<1> USE ConnectAssumption
<1>t. interrupted \in BOOLEAN
  BY DEF ConnInv, ConnectTypeOK
<1>1. CASE Resolved
  <2>1. PICK n \in 1 .. MaxAddrs : peers' \in [1 .. n -> Peer]
    BY <1>1 DEF Resolved
  <2>2. peers' \in Seq(Peer) /\ Len(peers') = n
    BY <2>1
  <2>3. tried = <<>> /\ tried' = tried /\ sockfd = 0
    BY <1>1 DEF Resolved, ConnInv, WalkInv
  <2>4. ConnectTypeOK'
    BY <1>1, <2>2 DEF ConnInv, ConnectTypeOK, Resolved, Codes
  <2>5. NothingLeaks' /\ SocketIsConnected' /\ FailureIsTheLast'
    BY <1>1, <2>3 DEF ConnInv, NothingLeaks, SocketIsConnected, FailureIsTheLast,
       Resolved, Returned
  <2>6. Len(tried') = 0 /\ HadSocket' = {}
    BY <2>3 DEF HadSocket
  <2>7. WalkInv'
    BY <1>1, <2>2, <2>3, <2>6 DEF WalkInv, Resolved, GivenUpFairly, CodeOfTheLast, LastAttempt,
       Returned
  <2> QED
    BY <2>4, <2>5, <2>7 DEF ConnInv
<1>2. CASE NotResolved
  BY <1>2 DEF ConnInv, NotResolved, ConnectTypeOK, NothingLeaks, SocketIsConnected,
     FailureIsTheLast, WalkInv, Returned, Codes
<1>3. CASE NoSocket
  <2>1. /\ addrinfo = "held" /\ at \in 1 .. Len(peers) /\ sockfd = 0
        /\ Len(tried) = at - 1 /\ tried \in Seq(Codes \cup {0})
        /\ Len(peers) <= MaxAddrs /\ GivenUpFairly /\ CodeOfTheLast(lastError)
    BY <1>3 DEF NoSocket, Trying, ConnInv, NothingLeaks, WalkInv, ConnectTypeOK
  <2>2. /\ tried' \in Seq(Codes \cup {0}) /\ Len(tried') = at /\ tried'[at] = 0
        /\ \A i \in 1 .. (at - 1) : tried'[i] = tried[i]
    BY <1>3, <2>1 DEF NoSocket
  <2>3. HadSocket' = HadSocket /\ HadSocket \subseteq 1 .. (at - 1)
    BY <2>1, <2>2 DEF HadSocket
  <2>4. CodeOfTheLast(lastError)'
    BY <1>3, <2>1, <2>2, <2>3 DEF CodeOfTheLast, LastAttempt, NoSocket
  <2>5. GivenUpFairly'
    BY <1>3, <2>1, <2>2 DEF GivenUpFairly, NoSocket
  <2>6. ConnectTypeOK'
    BY <1>3, <2>1, <2>2 DEF ConnInv, ConnectTypeOK, NoSocket
  <2>7. NothingLeaks' /\ SocketIsConnected' /\ FailureIsTheLast'
    BY <1>3 DEF ConnInv, NothingLeaks, SocketIsConnected, FailureIsTheLast, NoSocket,
       Trying, Returned
  <2>8. WalkInv'
    BY <1>3, <2>1, <2>2, <2>4, <2>5 DEF WalkInv, NoSocket, Trying, Returned
  <2> QED
    BY <2>6, <2>7, <2>8 DEF ConnInv
<1>4. CASE Socket
  <2>1. at \in 1 .. Len(peers) /\ Len(peers) <= MaxAddrs /\ addrinfo = "held" /\ sockfd = 0
    BY <1>4 DEF Socket, Trying, ConnInv, NothingLeaks, WalkInv, ConnectTypeOK
  <2>2. ConnectTypeOK'
    BY <1>4, <2>1 DEF ConnInv, ConnectTypeOK, Socket
  <2>3. NothingLeaks' /\ SocketIsConnected' /\ FailureIsTheLast' /\ WalkInv'
    BY <1>4, <2>1 DEF ConnInv, NothingLeaks, SocketIsConnected, FailureIsTheLast,
       WalkInv, Socket, Trying, Returned, GivenUpFairly, CodeOfTheLast, LastAttempt, HadSocket
  <2> QED
    BY <2>2, <2>3 DEF ConnInv
<1>5. CASE StaysBlocking
  BY <1>5, <1>t, AbandonKeeps DEF StaysBlocking
<1>6. CASE ConnectsAtOnce
  BY <1>6, ConnectedKeeps DEF ConnectsAtOnce
<1>7. CASE FailsAtOnce
  BY <1>7, <1>t, AbandonKeeps DEF FailsAtOnce
<1>8. CASE InProgress
  BY <1>8 DEF ConnInv, InProgress, ConnectTypeOK, NothingLeaks, SocketIsConnected,
     FailureIsTheLast, WalkInv, Returned, GivenUpFairly, CodeOfTheLast, LastAttempt, HadSocket
<1>9. CASE WaitTimesOut
  BY <1>9, <1>t, AbandonKeeps DEF WaitTimesOut
<1>10. CASE WaitFails
  BY <1>10, <1>t, AbandonKeeps DEF WaitFails
<1>11. CASE WaitInterrupted
  BY <1>11, <1>t, AbandonKeeps DEF WaitInterrupted
<1>12. CASE Answered
  BY <1>12 DEF ConnInv, Answered, ConnectTypeOK, NothingLeaks, SocketIsConnected,
     FailureIsTheLast, WalkInv, Returned, GivenUpFairly, CodeOfTheLast, LastAttempt, HadSocket
<1>13. CASE Established
  BY <1>13, ConnectedKeeps DEF Established
<1>14. CASE AnswerIsError
  BY <1>14, <1>t, AbandonKeeps DEF AnswerIsError
<1>15. CASE Exhausted
  <2>1. /\ addrinfo = "held" /\ at = Len(peers) + 1 /\ sockfd = 0
        /\ Len(tried) = Len(peers) /\ GivenUpFairly /\ CodeOfTheLast(lastError)
    BY <1>15 DEF Exhausted, ConnInv, NothingLeaks, WalkInv, ConnectTypeOK
  <2>2. ConnectTypeOK'
    BY <1>15 DEF ConnInv, ConnectTypeOK, Exhausted
  <2>3. NothingLeaks' /\ SocketIsConnected' /\ FailureIsTheLast' /\ WalkInv'
    BY <1>15, <2>1 DEF ConnInv, NothingLeaks, SocketIsConnected, FailureIsTheLast,
       WalkInv, Exhausted, Returned, GivenUpFairly, CodeOfTheLast, LastAttempt, HadSocket
  <2> QED
    BY <2>2, <2>3 DEF ConnInv
<1> QED
  BY <1>1, <1>2, <1>3, <1>4, <1>5, <1>6, <1>7, <1>8, <1>9, <1>10, <1>11, <1>12,
     <1>13, <1>14, <1>15 DEF ConnectStep

-----------------------------------------------------------------------------
(* The whole program: main's stages, and that it leaves nothing behind.    *)
StageInv ==
    /\ platform \in BOOLEAN
    /\ stage \in {"args", "connect", "session", "closing", "exited"}
    /\ stage = "args" => cpc = "resolve"
    /\ stage = "session" \/ stage = "closing" => Returned
    /\ EverythingReleased

IInv == ConnInv /\ StageInv

LEMMA Initially == Init => IInv
  BY ConnInitially DEF Init, IInv, StageInv, EverythingReleased, Exit, ConnectInit

LEMMA UnchangedKeeps ==
    ASSUME ConnInv, UNCHANGED connectVars, interrupted' \in BOOLEAN
    PROVE  ConnInv'
  BY DEF ConnInv, connectVars, ConnectTypeOK, NothingLeaks, SocketIsConnected,
     FailureIsTheLast, WalkInv, Returned, GivenUpFairly, CodeOfTheLast, LastAttempt, HadSocket

LEMMA StepKeeps == IInv /\ [Next]_vars => IInv'
<1> SUFFICES ASSUME IInv, [Next]_vars PROVE IInv'
  OBVIOUS
<1>t. interrupted \in BOOLEAN
  BY DEF IInv, ConnInv, ConnectTypeOK
<1>0. CASE UNCHANGED vars
  <2>1. ConnInv'
    BY <1>0, <1>t, UnchangedKeeps DEF IInv, vars
  <2> QED
    BY <1>0, <2>1 DEF IInv, StageInv, EverythingReleased, Exit, Returned, vars,
       mainVars, connectVars
<1>1. CASE BadArgs \/ HelpOrVersion
  <2>1. ConnInv'
    BY <1>1, <1>t, UnchangedKeeps DEF IInv, BadArgs, HelpOrVersion
  <2> QED
    BY <1>1, <2>1 DEF IInv, StageInv, EverythingReleased, Exit, Returned, BadArgs,
       HelpOrVersion, Leave, connectVars, ConnInv, NothingLeaks, WalkInv
<1>2. CASE ChooseMode \/ SignalArrives
  <2>1. ConnInv'
    BY <1>2, <1>t, UnchangedKeeps DEF IInv, ChooseMode, SignalArrives
  <2> QED
    BY <1>2, <2>1 DEF IInv, StageInv, EverythingReleased, Exit, Returned, ChooseMode,
       SignalArrives, connectVars, mainVars
<1>3. CASE Connecting
  <2>1. ConnInv'
    BY <1>3, ConnectKeeps DEF IInv, Connecting
  <2> QED
    BY <1>3, <2>1 DEF IInv, StageInv, EverythingReleased, Exit, Returned, Connecting,
       mainVars
<1>4. CASE ConnectFailed
  <2>1. ConnInv'
    BY <1>4, <1>t, UnchangedKeeps DEF IInv, ConnectFailed
  <2> QED
    BY <1>4, <2>1 DEF IInv, StageInv, EverythingReleased, Exit, Returned,
       ConnectFailed, Leave, connectVars, ConnInv, NothingLeaks
<1>5. CASE ConnectDone \/ Session
  <2>1. ConnInv'
    BY <1>5, <1>t, UnchangedKeeps DEF IInv, ConnectDone, Session
  <2> QED
    BY <1>5, <2>1 DEF IInv, StageInv, EverythingReleased, Exit, Returned, ConnectDone,
       Session, connectVars
<1>6. CASE Close
  <2>1. ConnInv'
    BY <1>6 DEF IInv, Close, ConnInv, ConnectTypeOK, NothingLeaks, SocketIsConnected,
       FailureIsTheLast, WalkInv, Returned, GivenUpFairly, CodeOfTheLast, LastAttempt, HadSocket
  <2>2. fds' = {} /\ addrinfo' # "held" /\ platform' = FALSE /\ stage' = "exited"
    BY <1>6 DEF IInv, StageInv, Close, Leave, ConnInv, NothingLeaks, Returned
  <2> QED
    BY <2>1, <2>2 DEF IInv, StageInv, EverythingReleased, Exit
<1>7. CASE Exited
  BY <1>0, <1>7 DEF Exited
<1> QED
  BY <1>0, <1>1, <1>2, <1>3, <1>4, <1>5, <1>6, <1>7 DEF Next, Program

THEOREM Invariant == Spec => []IInv
  BY Initially, StepKeeps, PTL DEF Spec

(* socket_connect leaks neither a socket nor the address list.             *)
THEOREM ConnectLeaksNothing == Spec => []NothingLeaks
  BY Invariant, PTL DEF IInv, ConnInv

(* The socket it hands over is to an address that accepts.                 *)
THEOREM SocketAlwaysConnected == Spec => []SocketIsConnected
  BY Invariant, PTL DEF IInv, ConnInv

(* When it fails, every accepting address was given up for a local failure *)
(* and the code is that of the last attempt.                               *)
THEOREM FailureAlwaysTheLast == Spec => []FailureIsTheLast
  BY Invariant, PTL DEF IInv, ConnInv

(* The program never exits with a socket open or platform_cleanup undone.  *)
THEOREM ExitReleasesEverything == Spec => []EverythingReleased
  BY Invariant, PTL DEF IInv, StageInv

-----------------------------------------------------------------------------
(***************************************************************************)
(* What the exit codes tell.                                               *)
(***************************************************************************)

(* Why attempts end: only a silent address times out, only one that        *)
(* refuses or has no route is REFUSED, only getaddrinfo gives DNS, and     *)
(* what is returned without a socket is an error.                          *)
AttemptsTell ==
    /\ \A i \in 1 .. Len(tried) :
          /\ tried[i] \in {0, REFUSED, TIMEOUT, IO}
          /\ tried[i] = TIMEOUT => peers[i] = "silent"
          /\ tried[i] = REFUSED => peers[i] \in {"refuses", "unreachable"}
    /\ addrinfo = "held" => lastError \in {REFUSED, TIMEOUT, IO}
    /\ Returned /\ result.fd = 0 =>
          IF addrinfo = "none" THEN result.err = DNS
          ELSE result.err \in {REFUSED, TIMEOUT, IO}

(* How far main has come, and what it has learned by then.                 *)
StagesTell ==
    /\ config \in Config
    /\ stage \in {"args", "connect", "session"} => ~ran
    /\ stage \in {"connect", "session", "closing"} => config.valid /\ ~config.info
    /\ stage \in {"session", "closing"} => result.fd > 0
    /\ stage = "closing" =>
          /\ ran /\ exitCode \in {0, TIMEOUT, IO}
          /\ exitCode = TIMEOUT => mode = "oneshot"

ExitInv == AttemptsTell /\ StagesTell /\ ExitCodesTell

LEMMA AttemptEnds ==
    ASSUME ConnInv, AttemptsTell, NEW code \in {0, REFUSED, TIMEOUT, IO},
           cpc \in {"try", "connect", "wait", "check"},
           code = TIMEOUT => peers[at] = "silent",
           code = REFUSED => peers[at] \in {"refuses", "unreachable"},
           tried' = Append(tried, code), peers' = peers, cpc' = "try",
           result' = result, addrinfo' = addrinfo,
           lastError' \in {REFUSED, TIMEOUT, IO}
    PROVE  AttemptsTell'
<1>1. /\ tried \in Seq(Codes \cup {0}) /\ at = Len(tried) + 1
      /\ code \in Codes \cup {0}
    BY DEF ConnInv, ConnectTypeOK, NothingLeaks, WalkInv, Codes
<1>2. /\ Len(tried') = Len(tried) + 1 /\ tried'[at] = code
      /\ \A i \in 1 .. Len(tried) : tried'[i] = tried[i]
    BY <1>1
<1> QED BY <1>1, <1>2 DEF AttemptsTell, Returned

LEMMA ConnectTells == ConnInv /\ AttemptsTell /\ ConnectStep => AttemptsTell'
<1> SUFFICES ASSUME ConnInv, AttemptsTell, ConnectStep PROVE AttemptsTell'
  OBVIOUS
<1>1. CASE Resolved \/ NotResolved
  <2>1. tried = <<>> /\ Len(<<>>) = 0 /\ addrinfo = "none" /\ tried' = tried
    BY <1>1 DEF Resolved, NotResolved, ConnInv, WalkInv
  <2>2. \A i \in 1 .. Len(tried') : FALSE
    BY <2>1
  <2> QED
    BY <1>1, <2>1, <2>2 DEF AttemptsTell, Resolved, NotResolved, Returned
<1>2. CASE NoSocket
  <2>1. addrinfo = "held"
    BY <1>2 DEF NoSocket, Trying, ConnInv, NothingLeaks
  <2> QED
    BY <1>2, <2>1, AttemptEnds DEF NoSocket, Trying, AttemptsTell, TIMEOUT, REFUSED
<1>3. ASSUME NEW code \in {REFUSED, TIMEOUT, IO}, Abandon(code),
             cpc \in {"connect", "wait", "check"},
             code = TIMEOUT => peers[at] = "silent",
             code = REFUSED => peers[at] \in {"refuses", "unreachable"}
      PROVE  AttemptsTell'
    BY <1>3, AttemptEnds DEF Abandon
<1>4. CASE StaysBlocking \/ WaitFails \/ WaitInterrupted
    BY <1>3, <1>4 DEF StaysBlocking, WaitFails, WaitInterrupted, IO, TIMEOUT, REFUSED
<1>5. CASE FailsAtOnce \/ AnswerIsError
    BY <1>3, <1>5 DEF FailsAtOnce, AnswerIsError, IO, REFUSED, TIMEOUT
<1>6. CASE WaitTimesOut
    BY <1>3, <1>6 DEF WaitTimesOut, TIMEOUT, REFUSED
<1>7. CASE Socket \/ InProgress \/ Answered
    BY <1>7 DEF Socket, InProgress, Answered, AttemptsTell, Returned
<1>8. CASE ConnectsAtOnce \/ Established
  <2>1. sockfd = at /\ at \in 1 .. Len(peers)
    BY <1>8 DEF ConnectsAtOnce, Established, ConnInv, NothingLeaks, WalkInv,
       ConnectTypeOK
  <2>2. result'.fd # 0
    BY <1>8, <2>1 DEF ConnectsAtOnce, Established, Connected
  <2> QED
    BY <1>8, <2>2 DEF ConnectsAtOnce, Established, Connected, AttemptsTell, Returned
<1>9. CASE Exhausted
  <2>1. lastError \in {REFUSED, TIMEOUT, IO}
    BY <1>9 DEF Exhausted, ConnInv, NothingLeaks, AttemptsTell
  <2> QED
    BY <1>9, <2>1 DEF Exhausted, AttemptsTell, Returned
<1> QED
  BY <1>1, <1>2, <1>4, <1>5, <1>6, <1>7, <1>8, <1>9 DEF ConnectStep

(* Main's own steps leave what socket_connect knows alone.                 *)
LEMMA UnchangedTells == AttemptsTell /\ UNCHANGED connectVars => AttemptsTell'
  BY DEF AttemptsTell, connectVars, Returned

LEMMA FailureTells ==
    ASSUME IInv, ExitInv, ConnectFailed
    PROVE  ExitCodesTell'
<1>1. /\ Returned /\ result.fd = 0 /\ exitCode' = result.err /\ ~ran
      /\ config.valid /\ UNCHANGED <<connectVars, interrupted, config, mode, ran>>
    BY DEF ConnectFailed, Leave, ExitInv, StagesTell
<1>2. addrinfo # "held"
    BY <1>1 DEF IInv, ConnInv, NothingLeaks, Returned
<1>3. CASE addrinfo = "none"
  <2>1. exitCode' = DNS
    BY <1>1, <1>3 DEF ExitInv, AttemptsTell
  <2> QED
    BY <1>1, <1>3, <2>1 DEF ExitCodesTell, connectVars, DNS, REFUSED, TIMEOUT
<1>4. CASE addrinfo # "none"
  <2>1. exitCode' \in {REFUSED, TIMEOUT, IO} /\ addrinfo = "freed"
    BY <1>1, <1>2, <1>4 DEF ExitInv, AttemptsTell, IInv, ConnInv, ConnectTypeOK
  <2>2. CodeOfTheLast(exitCode')
    BY <1>1, <2>1 DEF IInv, ConnInv, FailureIsTheLast
  <2>3. ASSUME exitCode' = TIMEOUT
        PROVE  \E i \in HadSocket : LastAttempt(i) /\ peers[i] = "silent"
    <3>1. PICK i \in HadSocket : LastAttempt(i) /\ tried[i] = TIMEOUT
      BY <2>2, <2>3 DEF CodeOfTheLast, TIMEOUT, REFUSED
    <3> QED
      BY <3>1 DEF ExitInv, AttemptsTell, HadSocket
  <2>4. ASSUME exitCode' = REFUSED, NEW i \in HadSocket, LastAttempt(i)
        PROVE  peers[i] \in {"refuses", "unreachable"}
    <3>1. PICK j \in HadSocket : LastAttempt(j) /\ tried[j] = REFUSED
      BY <2>2, <2>4 DEF CodeOfTheLast
    <3>2. i = j
      BY <2>4, <3>1 DEF LastAttempt, HadSocket
    <3> QED
      BY <3>1, <3>2 DEF ExitInv, AttemptsTell, HadSocket
  <2>5. HadSocket' = HadSocket /\ \A i \in HadSocket : LastAttempt(i)' = LastAttempt(i)
    BY <1>1 DEF HadSocket, LastAttempt, connectVars
  <2>6. peers' = peers /\ ~ran' /\ config'.valid /\ exitCode' \notin {0, 1, DNS}
    BY <1>1, <2>1 DEF connectVars, DNS, REFUSED, TIMEOUT, IO
  <2>7. exitCode' = TIMEOUT => (\E i \in HadSocket : LastAttempt(i) /\ peers[i] = "silent")'
    BY <2>3, <2>5, <2>6
  <2>8. exitCode' = REFUSED =>
          (\A i \in HadSocket : LastAttempt(i) => peers[i] \in {"refuses", "unreachable"})'
    BY <2>4, <2>5, <2>6
  <2> QED
    BY <2>6, <2>7, <2>8 DEF ExitCodesTell
<1> QED
  BY <1>3, <1>4

LEMMA ExitKeeps == IInv /\ ExitInv /\ [Next]_vars => ExitInv'
<1> SUFFICES ASSUME IInv, ExitInv, [Next]_vars PROVE ExitInv'
  OBVIOUS
<1>a. CASE Connecting
  <2>1. AttemptsTell'
    BY <1>a, ConnectTells DEF Connecting, IInv, ExitInv
  <2>2. StagesTell' /\ ExitCodesTell'
    BY <1>a DEF Connecting, mainVars, ExitInv, StagesTell, ExitCodesTell, Exit
  <2> QED
    BY <2>1, <2>2 DEF ExitInv
<1>b. CASE ~Connecting
  <2>1. AttemptsTell'
    <3>1. CASE Close
      BY <3>1 DEF Close, ExitInv, AttemptsTell, Returned
    <3> QED
      BY <1>b, <3>1, UnchangedTells DEF Next, Program, BadArgs, HelpOrVersion, ChooseMode,
         ConnectFailed, ConnectDone, Session, SignalArrives, Exited, vars, ExitInv
  <2>2. StagesTell'
    <3>1. CASE Session
      BY <3>1 DEF Session, connectVars, SessionCodes, TIMEOUT, IO, ExitInv, StagesTell
    <3>2. CASE Close
      BY <3>2 DEF Close, Leave, ExitInv, StagesTell
    <3> QED
      BY <1>b, <3>1, <3>2 DEF Next, Program, BadArgs, HelpOrVersion, ChooseMode,
         ConnectFailed, ConnectDone, SignalArrives, Exited, vars, mainVars, connectVars,
         Leave, ExitInv, StagesTell
  <2>3. ExitCodesTell'
    <3>1. CASE BadArgs \/ HelpOrVersion
      <4>1. cpc = "resolve" /\ addrinfo = "none"
        BY <3>1 DEF BadArgs, HelpOrVersion, IInv, StageInv, ConnInv, WalkInv
      <4>2. UNCHANGED <<connectVars, config>> /\ exitCode' = IF config.valid THEN 0 ELSE 1
        BY <3>1 DEF BadArgs, HelpOrVersion, Leave
      <4>3. config.valid => config.info
        BY <3>1 DEF BadArgs, HelpOrVersion
      <4> QED
        BY <4>1, <4>2, <4>3 DEF ExitCodesTell, connectVars, DNS, REFUSED, TIMEOUT
    <3>2. CASE ConnectFailed
      BY <3>2, FailureTells
    <3>3. CASE Close
      <4>1. /\ ran' /\ exitCode' \in {0, TIMEOUT, IO} /\ config'.valid
            /\ exitCode' = TIMEOUT => mode' = "oneshot"
        BY <3>3 DEF Close, Leave, ExitInv, StagesTell
      <4> QED
        BY <4>1 DEF ExitCodesTell, DNS, REFUSED, TIMEOUT, IO
    <3>4. CASE ChooseMode \/ ConnectDone \/ Session
      <4>1. stage' # "exited"
        BY <3>4 DEF ChooseMode, ConnectDone, Session
      <4> QED
        BY <4>1 DEF ExitCodesTell, Exit
    <3>5. CASE SignalArrives \/ Exited \/ UNCHANGED vars
      <4>1. UNCHANGED <<connectVars, config, ran, mode, exitCode>>
        BY <3>5 DEF SignalArrives, Exited, vars, mainVars
      <4>2. Exit' => Exit
        BY <3>5 DEF SignalArrives, Exited, vars, mainVars, Exit
      <4>3. HadSocket' = HadSocket /\ \A i \in HadSocket : LastAttempt(i)' = LastAttempt(i)
        BY <4>1 DEF HadSocket, LastAttempt, connectVars
      <4> QED
        BY <4>1, <4>2, <4>3 DEF connectVars, ExitInv, ExitCodesTell
    <3> QED
      BY <1>b, <3>1, <3>2, <3>3, <3>4, <3>5 DEF Next, Program
  <2> QED
    BY <2>1, <2>2, <2>3 DEF ExitInv
<1> QED
  BY <1>a, <1>b

(* What the exit code says of how main and socket_connect went, on every   *)
(* path: which failures 1, 2, 3 and 4 stand for, where that is README's    *)
(* table and where it is not.                                              *)
THEOREM ExitCodesAlwaysTell == Spec => []ExitCodesTell
<1>1. Init => ExitInv
  BY DEF Init, ConnectInit, ExitInv, AttemptsTell, StagesTell, ExitCodesTell, Exit, Returned
<1>2. IInv /\ ExitInv /\ [Next]_vars => ExitInv'
  BY ExitKeeps
<1> QED
  BY <1>1, <1>2, Invariant, PTL DEF Spec, ExitInv
=============================================================================
