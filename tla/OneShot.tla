------------------------------ MODULE OneShot ------------------------------
(***************************************************************************)
(* One-shot / pipe mode on POSIX: run_oneshot_mode of mode_oneshot.c, the  *)
(* poll loop that feeds stdin (or a framed payload) to the socket,         *)
(* half-closes, and copies the response to stdout.                         *)
(*                                                                         *)
(* One iteration of the C loop is cut at every call after which another    *)
(* process can have moved: "top" (loop condition and half-close), "poll",  *)
(* "sock" (error and hang-up checks, recv, output), "stdin" and "send".    *)
(* The peer, the producer of stdin, the signal and the two kernels'        *)
(* buffers interleave with these steps.                                    *)
(*                                                                         *)
(* A TCP stream is the sequence of all the bytes ever written to it and a  *)
(* read cursor: wire/srvRead towards the server, srvSent/rcvd towards the  *)
(* client.                                                                 *)
(***************************************************************************)
EXTENDS Framing

CONSTANTS
    Configs,    \* the command lines considered, see ConfigType
    NetCap,     \* bytes a direction of the connection can hold
    MaxResp,    \* bound: bytes the server ever sends
    LocalFaults \* whether reading stdin and writing stdout may fail

ConfigType ==
    [kind : {"stdin", "payload"}, data : Seq(Byte), addLen : BOOLEAN,
     hasTerm : BOOLEAN, decode : BOOLEAN, hexOut : BOOLEAN]

ASSUME OneShotAssumption ==
    /\ Configs \subseteq ConfigType
    /\ NetCap \in Nat \ {0}
    /\ MaxResp \in Nat
    /\ LocalFaults \in BOOLEAN

VARIABLES
    cfg,            \* the parsed command line, never changes
    pc, exitCode,   \* where the client is; its exit code once pc = "done"
    sendBuf,        \* send_buf[0 .. send_buf_len)
    sendPos,        \* send_buf_pos
    stdinEof, shutdownDone, socketEof,
    rev,            \* the revents poll left
    hsmAccum,       \* hsm_accum_buf[0 .. hsm_accum_len)
    out,            \* every byte written to stdout while streaming
    shown,          \* the frame whose analysis -D printed
    interrupted,    \* g_interrupted
    avail,          \* bytes of cfg.data written to stdin so far
    taken,          \* bytes of the input the client has taken
    stdinClosed,
    wire,           \* every byte the socket accepted from the client
    srvRead,        \* how many of them the server has read
    finSent,        \* shutdown(SHUT_WR) was issued
    srvSent,        \* every byte the server sent
    rcvd,           \* how many of them the client has received
    srvFin, srvReset

clientVars == <<pc, exitCode, sendBuf, sendPos, stdinEof, shutdownDone,
                socketEof, rev, hsmAccum, out, shown>>
inputVars  == <<avail, taken, stdinClosed>>
upVars     == <<wire, srvRead, finSent>>
downVars   == <<srvSent, rcvd, srvFin, srvReset>>
vars == <<cfg, clientVars, interrupted, inputVars, upVars, downVars>>

Revents == [err : BOOLEAN, hup : BOOLEAN, in : BOOLEAN, out : BOOLEAN,
            stdin : BOOLEAN]
NoEvents == [err |-> FALSE, hup |-> FALSE, in |-> FALSE, out |-> FALSE,
             stdin |-> FALSE]

FromStdin == cfg.kind = "stdin"

(* The bytes the user asks to be transmitted.                              *)
Input == IF FromStdin THEN cfg.data ELSE Frame(cfg.data, cfg.addLen, cfg.hasTerm)

Unsent == SubSeq(sendBuf, sendPos + 1, Len(sendBuf))

Init ==
    /\ cfg \in Configs
    /\ pc = "top" /\ exitCode = -1
    /\ sendBuf = IF FromStdin THEN <<>> ELSE Input
    /\ sendPos = 0
    /\ stdinEof = ~FromStdin
    /\ shutdownDone = FALSE /\ socketEof = FALSE
    /\ rev = NoEvents
    /\ hsmAccum = <<>> /\ out = <<>> /\ shown = <<>>
    /\ interrupted = FALSE
    /\ avail = 0 /\ stdinClosed = FALSE
    /\ taken = Len(sendBuf)
    /\ wire = <<>> /\ srvRead = 0 /\ finSent = FALSE
    /\ srvSent = <<>> /\ rcvd = 0 /\ srvFin = FALSE /\ srvReset = FALSE

Exit(code) == pc' = "done" /\ exitCode' = code

(***************************************************************************)
(* The top of the loop.                                                    *)
(***************************************************************************)
HalfCloseDue == stdinEof /\ sendBuf = <<>> /\ ~shutdownDone

(* -D and -T keep the write side open.                                     *)
MayHalfClose_TermIgnored == ~cfg.decode
MayHalfClose == ~cfg.decode /\ ~cfg.hasTerm

EnterPoll ==
    /\ pc = "top" /\ ~interrupted /\ ~socketEof
    /\ shutdownDone' = (shutdownDone \/ HalfCloseDue)
    /\ finSent' = (finSent \/ (HalfCloseDue /\ MayHalfClose))
    /\ pc' = "poll"
    /\ UNCHANGED <<cfg, exitCode, sendBuf, sendPos, stdinEof, socketEof, rev,
                   hsmAccum, out, shown, interrupted, inputVars, wire, srvRead,
                   downVars>>

(* The loop is over: a last half-close, the analysis of -D (a failed write *)
(* of it goes unnoticed), and exit code 0.                                 *)
Finish ==
    /\ pc = "top" /\ (interrupted \/ socketEof)
    /\ finSent' = (finSent \/ (HalfCloseDue /\ MayHalfClose))
    /\ \/ shown' = IF cfg.decode THEN hsmAccum ELSE <<>>
       \/ LocalFaults /\ shown' = <<>>
    /\ Exit(0)
    /\ UNCHANGED <<cfg, sendBuf, sendPos, stdinEof, shutdownDone, socketEof,
                   rev, hsmAccum, out, interrupted, inputVars, wire, srvRead,
                   downVars>>

(***************************************************************************)
(* poll.  stdin is watched only while send_buf is empty; the socket is     *)
(* watched for input always and for output while send_buf holds something. *)
(***************************************************************************)
PollsStdin == ~stdinEof /\ sendBuf = <<>>

PollsIn_WhenIdle == sendBuf = <<>>
PollsIn == ~socketEof

RoomToSend == Len(wire) - srvRead < NetCap
HungUp     == srvReset \/ (finSent /\ srvFin)
Readable   == rcvd < Len(srvSent) \/ srvFin \/ srvReset

Ready ==
    [err   |-> srvReset,
     hup   |-> HungUp,
     in    |-> PollsIn /\ Readable,
     out   |-> sendBuf # <<>> /\ (RoomToSend \/ srvReset),
     stdin |-> PollsStdin /\ (taken < avail \/ stdinClosed)]

(* A hung-up socket with nothing left to read may be reported without      *)
(* POLLIN: POSIX leaves that to the kernel.                                *)
PollReports ==
    IF HungUp /\ ~srvReset /\ rcvd = Len(srvSent)
    THEN {Ready, [Ready EXCEPT !.in = FALSE]}
    ELSE {Ready}

PollReady ==
    /\ pc = "poll" /\ Ready # NoEvents
    /\ rev' \in PollReports
    /\ pc' = "sock"
    /\ UNCHANGED <<cfg, exitCode, sendBuf, sendPos, stdinEof, shutdownDone,
                   socketEof, hsmAccum, out, shown, interrupted, inputVars,
                   upVars, downVars>>

PollTimeout ==
    /\ pc = "poll" /\ Ready = NoEvents
    /\ Exit(4)
    /\ UNCHANGED <<cfg, sendBuf, sendPos, stdinEof, shutdownDone, socketEof,
                   rev, hsmAccum, out, shown, interrupted, inputVars, upVars,
                   downVars>>

(* poll fails with anything but EINTR.                                     *)
PollFails ==
    /\ LocalFaults
    /\ pc = "poll"
    /\ Exit(5)
    /\ UNCHANGED <<cfg, sendBuf, sendPos, stdinEof, shutdownDone, socketEof,
                   rev, hsmAccum, out, shown, interrupted, inputVars, upVars,
                   downVars>>

(***************************************************************************)
(* The socket's events.  POLLERR ends the client before anything pending   *)
(* is read; the end of the response is an error while input is unsent.     *)
(***************************************************************************)
Unfinished_BufferOnly == sendBuf # <<>>
Unfinished == sendBuf # <<>> \/ (~stdinEof /\ FromStdin)

SockErr ==
    /\ pc = "sock" /\ rev.err
    /\ Exit(5)
    /\ UNCHANGED <<cfg, sendBuf, sendPos, stdinEof, shutdownDone, socketEof,
                   rev, hsmAccum, out, shown, interrupted, inputVars, upVars,
                   downVars>>

(* The server is done: the client is too, or the exchange has failed.      *)
ServerEnds ==
    /\ IF Unfinished THEN Exit(5) /\ UNCHANGED socketEof
                     ELSE pc' = "stdin" /\ socketEof' = TRUE /\ UNCHANGED exitCode
    /\ UNCHANGED <<cfg, sendBuf, sendPos, stdinEof, shutdownDone, rev, hsmAccum,
                   out, shown, interrupted, inputVars, upVars, downVars>>

SockHup == pc = "sock" /\ ~rev.err /\ rev.hup /\ ~rev.in /\ ServerEnds

SockIdle ==
    /\ pc = "sock" /\ ~rev.err /\ ~rev.hup /\ ~rev.in
    /\ pc' = "stdin"
    /\ UNCHANGED <<cfg, exitCode, sendBuf, sendPos, stdinEof, shutdownDone,
                   socketEof, rev, hsmAccum, out, shown, interrupted, inputVars,
                   upVars, downVars>>

Receiving == pc = "sock" /\ ~rev.err /\ rev.in
AllRead   == rcvd = Len(srvSent)

RecvEof_Ignored ==
    /\ Receiving /\ AllRead /\ ~srvReset
    /\ pc' = "stdin"
    /\ UNCHANGED <<cfg, exitCode, sendBuf, sendPos, stdinEof, shutdownDone,
                   socketEof, rev, hsmAccum, out, shown, interrupted, inputVars,
                   upVars, downVars>>
RecvEof == Receiving /\ AllRead /\ ~srvReset /\ ServerEnds

RecvReset ==
    /\ Receiving /\ AllRead /\ srvReset
    /\ Exit(5)
    /\ UNCHANGED <<cfg, sendBuf, sendPos, stdinEof, shutdownDone, socketEof,
                   rev, hsmAccum, out, shown, interrupted, inputVars, upVars,
                   downVars>>

(* recv took n bytes.                                                      *)
Chunk(n) == SubSeq(srvSent, rcvd + 1, rcvd + n)

TermAt(s)    == {i \in 1 .. Len(s) : s[i] = TermChar}
FirstTerm(s) == CHOOSE i \in TermAt(s) : \A j \in TermAt(s) : i <= j
TermFound(s) == cfg.hasTerm /\ TermAt(s) # {}

ToProcess_BeforeTerm(s) == IF TermFound(s) THEN SubSeq(s, 1, FirstTerm(s) - 1) ELSE s
ToProcess(s) == IF TermFound(s) THEN SubSeq(s, 1, FirstTerm(s)) ELSE s

Takes(n) ==
    /\ Receiving
    /\ n \in 1 .. Least(Len(srvSent) - rcvd, BufSize)
    /\ rcvd' = rcvd + n
    /\ UNCHANGED <<cfg, sendBuf, sendPos, stdinEof, shutdownDone, rev, shown,
                   interrupted, inputVars, upVars, srvSent, srvFin, srvReset>>

(* -D: accumulate until the length header is satisfied; a chunk that does  *)
(* not fit is dropped whole and ends the loop.                             *)
Accumulated(s) ==
    IF Len(hsmAccum) + Len(s) <= SendCap THEN hsmAccum \o s ELSE hsmAccum

DecodeEnds_HeaderUncounted(s) ==
    \/ Len(hsmAccum) + Len(s) > SendCap
    \/ Len(hsmAccum \o s) >= 2 /\ Len(hsmAccum \o s) > ExpectedTotal(hsmAccum \o s)
DecodeEnds(s) ==
    \/ Len(hsmAccum) + Len(s) > SendCap
    \/ FrameComplete(hsmAccum \o s)

RecvToDecoder(n) ==
    LET s == ToProcess(Chunk(n)) IN
    /\ cfg.decode
    /\ Takes(n)
    /\ hsmAccum' = Accumulated(s)
    /\ socketEof' = (DecodeEnds(s) \/ TermFound(Chunk(n)))
    /\ pc' = "stdin"
    /\ UNCHANGED <<exitCode, out>>

RecvToStdout(n) ==
    /\ ~cfg.decode
    /\ Takes(n)
    /\ out' = out \o ToProcess(Chunk(n))
    /\ socketEof' = TermFound(Chunk(n))
    /\ pc' = "stdin"
    /\ UNCHANGED <<exitCode, hsmAccum>>

(* write_all_fd fails after k bytes.                                       *)
RecvStdoutFails(n) ==
    LET s == ToProcess(Chunk(n)) IN
    /\ LocalFaults
    /\ ~cfg.decode
    /\ Takes(n)
    /\ \E k \in 0 .. (Len(s) - 1) : out' = out \o SubSeq(s, 1, k)
    /\ Exit(5)
    /\ UNCHANGED <<socketEof, hsmAccum>>

(* -X: without memory for the hexadecimal text the chunk is lost silently. *)
RecvHexDropped(n) ==
    /\ LocalFaults
    /\ ~cfg.decode /\ cfg.hexOut
    /\ Takes(n)
    /\ socketEof' = TermFound(Chunk(n))
    /\ pc' = "stdin"
    /\ UNCHANGED <<exitCode, out, hsmAccum>>

(***************************************************************************)
(* stdin: one read into the empty send_buf.                                *)
(***************************************************************************)
StdinIdle ==
    /\ pc = "stdin" /\ ~rev.stdin
    /\ pc' = "send"
    /\ UNCHANGED <<cfg, exitCode, sendBuf, sendPos, stdinEof, shutdownDone,
                   socketEof, rev, hsmAccum, out, shown, interrupted, inputVars,
                   upVars, downVars>>

StdinData(n) ==
    /\ pc = "stdin" /\ rev.stdin
    /\ n \in 1 .. Least(avail - taken, SendCap)
    /\ sendBuf' = SubSeq(cfg.data, taken + 1, taken + n)
    /\ sendPos' = 0
    /\ taken' = taken + n
    /\ pc' = "send"
    /\ UNCHANGED <<cfg, exitCode, stdinEof, shutdownDone, socketEof, rev,
                   hsmAccum, out, shown, interrupted, avail, stdinClosed, upVars,
                   downVars>>

StdinEnd ==
    /\ pc = "stdin" /\ rev.stdin /\ taken = avail /\ stdinClosed
    /\ stdinEof' = TRUE
    /\ pc' = "send"
    /\ UNCHANGED <<cfg, exitCode, sendBuf, sendPos, shutdownDone, socketEof, rev,
                   hsmAccum, out, shown, interrupted, inputVars, upVars, downVars>>

StdinFails ==
    /\ LocalFaults
    /\ pc = "stdin" /\ rev.stdin
    /\ Exit(5)
    /\ UNCHANGED <<cfg, sendBuf, sendPos, stdinEof, shutdownDone, socketEof,
                   rev, hsmAccum, out, shown, interrupted, inputVars, upVars,
                   downVars>>

(***************************************************************************)
(* send: as much as the kernel takes.                                      *)
(***************************************************************************)
MaySend == rev.out /\ sendBuf # <<>>

SendIdle ==
    /\ pc = "send" /\ ~MaySend
    /\ pc' = "top" /\ rev' = NoEvents
    /\ UNCHANGED <<cfg, exitCode, sendBuf, sendPos, stdinEof, shutdownDone,
                   socketEof, hsmAccum, out, shown, interrupted, inputVars,
                   upVars, downVars>>

SentUpTo_Whole(n) == Len(sendBuf)
SentUpTo(n) == sendPos + n

Send(n) ==
    /\ pc = "send" /\ MaySend /\ ~srvReset
    /\ n \in 1 .. Least(Len(Unsent), NetCap - (Len(wire) - srvRead))
    /\ wire' = wire \o SubSeq(Unsent, 1, n)
    /\ IF SentUpTo(n) >= Len(sendBuf)
       THEN sendBuf' = <<>> /\ sendPos' = 0
       ELSE sendPos' = SentUpTo(n) /\ UNCHANGED sendBuf
    /\ pc' = "top" /\ rev' = NoEvents
    /\ UNCHANGED <<cfg, exitCode, stdinEof, shutdownDone, socketEof,
                   hsmAccum, out, shown, interrupted, inputVars, srvRead, finSent,
                   downVars>>

SendFails ==
    /\ pc = "send" /\ MaySend /\ srvReset
    /\ Exit(5)
    /\ UNCHANGED <<cfg, sendBuf, sendPos, stdinEof, shutdownDone, socketEof,
                   rev, hsmAccum, out, shown, interrupted, inputVars, upVars,
                   downVars>>

(***************************************************************************)
(* Around the client: whoever writes its stdin, the signal, the server.    *)
(***************************************************************************)
Running == pc # "done"

StdinWritten ==
    /\ Running /\ FromStdin /\ ~stdinClosed /\ avail < Len(cfg.data)
    /\ avail' = avail + 1
    /\ UNCHANGED <<cfg, clientVars, interrupted, taken, stdinClosed, upVars,
                   downVars>>

StdinCloses ==
    /\ Running /\ FromStdin /\ ~stdinClosed
    /\ stdinClosed' = TRUE
    /\ UNCHANGED <<cfg, clientVars, interrupted, avail, taken, upVars, downVars>>

(* SIGINT or SIGTERM between two system calls: only the flag is set.       *)
Signal ==
    /\ Running /\ ~interrupted
    /\ interrupted' = TRUE
    /\ UNCHANGED <<cfg, clientVars, inputVars, upVars, downVars>>

(* The same while poll waits, whether or not it is the first signal: it    *)
(* returns EINTR and the loop continues.                                   *)
SignalInPoll ==
    /\ pc = "poll" /\ Ready = NoEvents
    /\ interrupted' = TRUE
    /\ pc' = "top"
    /\ UNCHANGED <<cfg, exitCode, sendBuf, sendPos, stdinEof, shutdownDone,
                   socketEof, rev, hsmAccum, out, shown, inputVars, upVars,
                   downVars>>

SrvReads ==
    /\ Running /\ ~srvReset /\ srvRead < Len(wire)
    /\ srvRead' = srvRead + 1
    /\ UNCHANGED <<cfg, clientVars, interrupted, inputVars, wire, finSent,
                   downVars>>

SrvSends(b) ==
    /\ Running /\ ~srvReset /\ ~srvFin
    /\ Len(srvSent) < MaxResp /\ Len(srvSent) - rcvd < NetCap
    /\ srvSent' = Append(srvSent, b)
    /\ UNCHANGED <<cfg, clientVars, interrupted, inputVars, upVars, rcvd, srvFin,
                   srvReset>>

SrvCloses ==
    /\ Running /\ ~srvReset /\ ~srvFin
    /\ srvFin' = TRUE
    /\ UNCHANGED <<cfg, clientVars, interrupted, inputVars, upVars, srvSent, rcvd,
                   srvReset>>

SrvResets ==
    /\ Running /\ ~srvReset
    /\ srvReset' = TRUE
    /\ UNCHANGED <<cfg, clientVars, interrupted, inputVars, upVars, srvSent, rcvd,
                   srvFin>>

Receive ==
    \E n \in 1 .. BufSize :
        RecvToDecoder(n) \/ RecvToStdout(n) \/ RecvStdoutFails(n) \/ RecvHexDropped(n)

ClientStep ==
    \/ EnterPoll \/ Finish \/ PollReady \/ PollFails
    \/ SockErr \/ SockHup \/ SockIdle \/ RecvEof \/ RecvReset \/ Receive
    \/ StdinIdle \/ (\E n \in 1 .. SendCap : StdinData(n)) \/ StdinEnd \/ StdinFails
    \/ SendIdle \/ (\E n \in 1 .. SendCap : Send(n)) \/ SendFails

InputStep  == StdinWritten \/ StdinCloses
SignalStep == Signal \/ SignalInPoll
ServerStep == SrvReads \/ (\E b \in Byte : SrvSends(b)) \/ SrvCloses \/ SrvResets

Terminated == pc = "done" /\ UNCHANGED vars

Next == ClientStep \/ PollTimeout \/ InputStep \/ SignalStep \/ ServerStep \/ Terminated

Spec == Init /\ [][Next]_vars

(* poll returns by its timeout and no other call of the loop waits: the    *)
(* client is never stopped for ever.                                       *)
FairSpec == Spec /\ WF_vars(ClientStep \/ PollTimeout)

-----------------------------------------------------------------------------
TypeOK ==
    /\ cfg \in ConfigType
    /\ pc \in {"top", "poll", "sock", "stdin", "send", "done"}
    /\ exitCode \in {-1, 0, 4, 5}
    /\ sendBuf \in Seq(Byte) /\ sendPos \in 0 .. Len(sendBuf)
    /\ stdinEof \in BOOLEAN /\ shutdownDone \in BOOLEAN /\ socketEof \in BOOLEAN
    /\ rev \in Revents
    /\ hsmAccum \in Seq(Byte) /\ out \in Seq(Byte) /\ shown \in Seq(Byte)
    /\ interrupted \in BOOLEAN
    /\ avail \in 0 .. Len(cfg.data) /\ taken \in Nat /\ stdinClosed \in BOOLEAN
    /\ wire \in Seq(Byte) /\ srvRead \in 0 .. Len(wire) /\ finSent \in BOOLEAN
    /\ srvSent \in Seq(Byte) /\ rcvd \in 0 .. Len(srvSent)
    /\ srvFin \in BOOLEAN /\ srvReset \in BOOLEAN

(* What has been taken from the user and what the server said, so far.     *)
Supplied == IF FromStdin THEN SubSeq(cfg.data, 1, avail) ELSE Input
Received == SubSeq(srvSent, 1, rcvd)

(* The part of the response that -T lets through.                          *)
Wanted ==
    IF TermFound(Received) THEN SubSeq(Received, 1, FirstTerm(Received)) ELSE Received

(* The fixed buffers are never overrun: a payload of any length, framed    *)
(* with -L and -T, fits send_buf; -D never accumulates beyond its buffer.  *)
BuffersFit == Len(sendBuf) <= SendCap /\ Len(hsmAccum) <= SendCap

(* Partial sends lose, repeat and reorder nothing: what the socket has     *)
(* accepted followed by the rest of send_buf is the input taken so far.    *)
NothingLost == wire \o Unsent = SubSeq(Input, 1, taken)

(* The write side is closed only when the input has ended and every byte   *)
(* of it is on the wire, and never under -D or -T; nothing follows it.     *)
HalfCloseIsLast == finSent => stdinEof /\ ~cfg.decode /\ ~cfg.hasTerm /\ wire = Supplied

(* stdout holds exactly what was received, in order and once, up to and    *)
(* including the first -T byte; a failed write leaves a prefix of it.      *)
OutputIsResponse ==
    ~cfg.decode /\ ~cfg.hexOut =>
        IF exitCode = 5
        THEN \E k \in 0 .. Len(Received) : out = SubSeq(Wanted, 1, k)
        ELSE out = Wanted

(* Without a signal, -T or -D, exit code 0 means that all of stdin (or the *)
(* whole framed payload) was sent and half-closed, that the server closed  *)
(* its side, and that everything it sent was received.                     *)
CleanExit ==
    exitCode = 0 /\ ~interrupted /\ ~cfg.decode /\ ~cfg.hasTerm =>
        /\ wire = Supplied /\ (FromStdin => stdinClosed) /\ finSent
        /\ srvFin /\ rcvd = Len(srvSent)

(* Under -D the client never goes back to waiting once the frame that the  *)
(* length header announces, or the -T byte, has arrived, and until then    *)
(* everything received has been kept.  And the wait of -T and -D ends well *)
(* for no other reason than these two, a full buffer, or the server's end. *)
FrameEndsWait ==
    /\ cfg.decode /\ pc = "poll" =>
          /\ hsmAccum = Received
          /\ ~FrameComplete(Received) /\ ~TermFound(Received)
    /\ cfg.decode \/ cfg.hasTerm =>
          (exitCode = 0 /\ ~interrupted =>
              \/ TermFound(Received)
              \/ cfg.decode /\ (FrameComplete(Received) \/ Len(Received) > SendCap)
              \/ srvFin /\ AllRead)

(***************************************************************************)
(* The inductive invariant behind the above, in three parts.               *)
(***************************************************************************)
(* What has been taken from stdin, and what the end of stdin means.        *)
InputInv ==
    /\ FromStdin => taken <= avail /\ (stdinEof => stdinClosed /\ taken = avail)
    /\ ~FromStdin => stdinEof /\ taken = Len(Input)
    /\ NothingLost

(* What poll reported is still true when the loop acts on it.              *)
PollInv ==
    /\ pc \in {"poll", "sock"} => ~socketEof
    /\ pc = "sock" /\ ~rev.err =>
        /\ rev.in => Readable
        /\ rev.hup /\ ~rev.in => srvFin /\ AllRead
    /\ pc \in {"sock", "stdin"} /\ rev.stdin => ~stdinEof /\ sendBuf = <<>>

(* The half-close is issued once, when due and not before; the loop ends   *)
(* by itself only behind it.                                               *)
CloseInv ==
    /\ shutdownDone \/ finSent => stdinEof /\ sendBuf = <<>>
    /\ finSent => ~cfg.decode /\ ~cfg.hasTerm
    /\ shutdownDone /\ ~cfg.decode /\ ~cfg.hasTerm => finSent
    /\ pc \in {"poll", "sock"} /\ stdinEof /\ sendBuf = <<>> => shutdownDone
    /\ socketEof /\ ~cfg.decode /\ ~cfg.hasTerm => finSent /\ srvFin /\ AllRead
    /\ exitCode = 0 /\ ~interrupted => socketEof
    /\ pc # "done" => exitCode = -1

(* Between its polls the loop acts on a true picture of stdin, of its      *)
(* buffer and of the connection.                                           *)
LoopInv == InputInv /\ PollInv /\ CloseInv

(* The client always ends.                                                 *)
Termination == <>(pc = "done")
=============================================================================
