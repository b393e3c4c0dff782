-------------------------- MODULE InteractivePipe --------------------------
(***************************************************************************)
(* Interactive mode when stdin is not a terminal: run_interactive_pipe_mode*)
(* of mode_interactive.c on POSIX, with socket_read and socket_write_all   *)
(* of socket_client.c.  Lines read from stdin go to the server whole, what *)
(* the server says goes to stdout, and a line "exit" or "quit" ends it.    *)
(*                                                                         *)
(* Input is a sequence of tokens: the word exit or quit in any case, a     *)
(* blank, the end of a line, and whatever else.  What the server says is   *)
(* the bytes on their way: it may go on for ever.  A failing write to      *)
(* stdout is recorded, and ignored as the code ignores it.                 *)
(***************************************************************************)
EXTENDS Integers, Sequences

CONSTANTS
    Scripts,    \* what may be fed to stdin
    NetCap,     \* tokens or bytes a direction of the connection holds
    LocalFaults \* whether calls that concern only this host may fail

Token == {"exit", "blank", "newline", "other"}

(* What may fail: a wait for the connection or its use, the time for a     *)
(* write, a write that a signal interrupts, stdin, stdout, memory, poll.   *)
WriteFaults == {"io", "timeout", "signal"}
Faults == WriteFaults \cup {"stdin", "stdout", "memory", "poll"}

ASSUME PipeAssumption ==
    /\ Scripts \subseteq Seq(Token)
    /\ NetCap \in Nat \ {0}
    /\ LocalFaults \in BOOLEAN

VARIABLES
    script,         \* what is written to stdin, in the end
    pc, exitCode,
    stdinEof,       \* stdin_eof
    rev,            \* what poll reported
    raw,            \* bytes of raw_stdin the for loop has not looked at
    lineBuf,        \* line_buf[0 .. line_len)
    toWrite, after, \* what socket_write_all still has to send, and for whom
    failed,         \* what has failed so far
    interrupted,
    avail, taken, stdinClosed,
    wire, srvRead,
    unread,         \* bytes from the server that wait to be received
    srvFin, srvReset

clientVars == <<pc, exitCode, stdinEof, rev, raw, lineBuf, toWrite, after, failed>>
inputVars  == <<avail, taken, stdinClosed>>
netVars    == <<wire, srvRead, unread, srvFin, srvReset>>
vars == <<script, clientVars, interrupted, inputVars, netVars>>

NoEvents == [in |-> FALSE, hup |-> FALSE, stdin |-> FALSE]

Init ==
    /\ script \in Scripts
    /\ pc = "top" /\ exitCode = -1
    /\ stdinEof = FALSE /\ rev = NoEvents
    /\ raw = <<>> /\ lineBuf = <<>> /\ toWrite = <<>> /\ after = "line"
    /\ failed = {}
    /\ interrupted = FALSE
    /\ avail = 0 /\ taken = 0 /\ stdinClosed = FALSE
    /\ wire = <<>> /\ srvRead = 0
    /\ unread = 0 /\ srvFin = FALSE /\ srvReset = FALSE

(* A line that holds nothing but the word and white space.                 *)
IsExit(line) ==
    LET Word(t) == t \notin {"blank", "newline"} IN SelectSeq(line, Word) = <<"exit">>

Exit(code) == pc' = "done" /\ exitCode' = code

(***************************************************************************)
(* The top of the loop, and poll.                                          *)
(***************************************************************************)
EnterPoll ==
    /\ pc = "top" /\ ~interrupted
    /\ pc' = "poll"
    /\ UNCHANGED <<script, exitCode, stdinEof, rev, raw, lineBuf, toWrite, after,
                   failed, interrupted, inputVars, netVars>>

Interrupted ==
    /\ pc = "top" /\ interrupted
    /\ Exit(0)
    /\ UNCHANGED <<script, stdinEof, rev, raw, lineBuf, toWrite, after, failed,
                   interrupted, inputVars, netVars>>

Readable == unread > 0 \/ srvFin \/ srvReset

Ready == [in |-> Readable, hup |-> srvReset,
          stdin |-> ~stdinEof /\ (taken < avail \/ stdinClosed)]

(* A dead connection with nothing left to read need not be readable too.   *)
PollReports ==
    IF srvReset /\ unread = 0 THEN {Ready, [Ready EXCEPT !.in = FALSE]} ELSE {Ready}

PollReady ==
    /\ pc = "poll" /\ Ready # NoEvents
    /\ rev' \in PollReports
    /\ pc' = "sock"
    /\ UNCHANGED <<script, exitCode, stdinEof, raw, lineBuf, toWrite, after, failed,
                   interrupted, inputVars, netVars>>

(* Not for a signal: that is SignalInPoll.                                 *)
PollFails ==
    /\ LocalFaults
    /\ pc = "poll"
    /\ Exit(5) /\ failed' = failed \cup {"poll"}
    /\ UNCHANGED <<script, stdinEof, rev, raw, lineBuf, toWrite, after, interrupted,
                   inputVars, netVars>>

(* 100 ms without an event; after the end of stdin, 200 ms end the session.*)
PollIdle_Forever ==
    /\ pc = "poll" /\ Ready = NoEvents
    /\ pc' = "top"
    /\ UNCHANGED <<script, exitCode, stdinEof, rev, raw, lineBuf, toWrite, after,
                   failed, interrupted, inputVars, netVars>>

PollIdle ==
    /\ pc = "poll" /\ Ready = NoEvents
    /\ IF stdinEof THEN Exit(0) ELSE pc' = "top" /\ UNCHANGED exitCode
    /\ UNCHANGED <<script, stdinEof, rev, raw, lineBuf, toWrite, after, failed,
                   interrupted, inputVars, netVars>>

(***************************************************************************)
(* The socket: data goes to stdout, its end or a bare hang-up ends the     *)
(* session with 0, an error with 5.  Whether fwrite and fflush succeed is  *)
(* not looked at.                                                          *)
(***************************************************************************)
AllRead == unread = 0

Receives(n) ==
    /\ n \in 1 .. unread
    /\ unread' = unread - n
    /\ \/ UNCHANGED failed
       \/ LocalFaults /\ failed' = failed \cup {"stdout"}
    /\ UNCHANGED <<wire, srvRead, srvFin, srvReset>>

SockData(n) ==
    /\ pc = "sock" /\ rev.in
    /\ Receives(n)
    /\ pc' = "stdin"
    /\ UNCHANGED <<script, exitCode, stdinEof, rev, raw, lineBuf, toWrite, after,
                   interrupted, inputVars>>

(* Looks for a hang-up before it looks for what there is to read.          *)
SockEnds_HupFirst ==
    /\ pc = "sock"
    /\ \/ rev.in /\ AllRead /\ srvFin /\ ~srvReset
       \/ rev.hup
    /\ Exit(0)
    /\ UNCHANGED <<script, stdinEof, rev, raw, lineBuf, toWrite, after, failed,
                   interrupted, inputVars, netVars>>

SockEnds ==
    /\ pc = "sock"
    /\ \/ rev.in /\ AllRead /\ srvFin /\ ~srvReset
       \/ ~rev.in /\ rev.hup
    /\ Exit(0)
    /\ UNCHANGED <<script, stdinEof, rev, raw, lineBuf, toWrite, after, failed,
                   interrupted, inputVars, netVars>>

SockFails ==
    /\ pc = "sock" /\ rev.in
    /\ (AllRead /\ srvReset) \/ LocalFaults
    /\ Exit(5) /\ failed' = failed \cup {"io"}
    /\ UNCHANGED <<script, stdinEof, rev, raw, lineBuf, toWrite, after, interrupted,
                   inputVars, netVars>>

SockIdle ==
    /\ pc = "sock" /\ ~rev.in /\ ~rev.hup
    /\ pc' = "stdin"
    /\ UNCHANGED <<script, exitCode, stdinEof, rev, raw, lineBuf, toWrite, after,
                   failed, interrupted, inputVars, netVars>>

(***************************************************************************)
(* stdin.                                                                  *)
(***************************************************************************)
StdinIdle ==
    /\ pc = "stdin" /\ ~rev.stdin
    /\ pc' = "top" /\ rev' = NoEvents
    /\ UNCHANGED <<script, exitCode, stdinEof, raw, lineBuf, toWrite, after, failed,
                   interrupted, inputVars, netVars>>

StdinData(n) ==
    /\ pc = "stdin" /\ rev.stdin
    /\ n \in 1 .. (avail - taken)
    /\ raw' = SubSeq(script, taken + 1, taken + n)
    /\ taken' = taken + n
    /\ pc' = "scan" /\ rev' = NoEvents
    /\ UNCHANGED <<script, exitCode, stdinEof, lineBuf, toWrite, after, failed,
                   interrupted, avail, stdinClosed, netVars>>

(* socket_write_all is entered with these tokens, on behalf of who.        *)
WriteAll(tokens, who) ==
    toWrite' = tokens /\ after' = who /\ pc' = "write"

(* At the end of stdin a last line without its newline is sent as it is,   *)
(* or obeyed: an exit there is not sent, and nothing is waited for.        *)
StdinEnd ==
    /\ pc = "stdin" /\ rev.stdin /\ taken = avail /\ stdinClosed
    /\ stdinEof' = TRUE /\ rev' = NoEvents
    /\ \/ /\ lineBuf = <<>>
          /\ pc' = "top"
          /\ UNCHANGED <<exitCode, lineBuf, toWrite, after>>
       \/ /\ lineBuf # <<>> /\ IsExit(lineBuf)
          /\ Exit(0)
          /\ UNCHANGED <<lineBuf, toWrite, after>>
       \/ /\ lineBuf # <<>> /\ ~IsExit(lineBuf)
          /\ WriteAll(lineBuf, "tail") /\ lineBuf' = <<>>
          /\ UNCHANGED exitCode
    /\ UNCHANGED <<script, raw, failed, interrupted, inputVars, netVars>>

(* A failing read counts as the end of stdin, without its last line.       *)
StdinFails ==
    /\ LocalFaults
    /\ pc = "stdin" /\ rev.stdin
    /\ stdinEof' = TRUE /\ failed' = failed \cup {"stdin"} /\ rev' = NoEvents
    /\ pc' = "top"
    /\ UNCHANGED <<script, exitCode, raw, lineBuf, toWrite, after, interrupted,
                   inputVars, netVars>>

(* The for loop, up to the next newline: the line moves from line_buf into *)
(* socket_write_all (line_len is reset when that returns, before anything  *)
(* looks at it again).                                                     *)
Newlines == {i \in 1 .. Len(raw) : raw[i] = "newline"}

ScanLine_MissesExit ==
    /\ pc = "scan"
    /\ \E i \in Newlines :
          /\ \A j \in Newlines : i <= j
          /\ raw' = SubSeq(raw, i + 1, Len(raw))
          /\ WriteAll(lineBuf \o SubSeq(raw, 1, i), "line")
    /\ lineBuf' = <<>>
    /\ UNCHANGED <<script, exitCode, stdinEof, rev, failed, interrupted,
                   inputVars, netVars>>

(* Sends everything that was read, past the end of the line.               *)
ScanLine_PastNewline ==
    /\ pc = "scan" /\ Newlines # {}
    /\ raw' = <<>>
    /\ WriteAll(lineBuf \o raw, "line")
    /\ lineBuf' = <<>>
    /\ UNCHANGED <<script, exitCode, stdinEof, rev, failed, interrupted,
                   inputVars, netVars>>

ScanLine ==
    /\ pc = "scan"
    /\ \E i \in Newlines :
          LET line == lineBuf \o SubSeq(raw, 1, i) IN
          /\ \A j \in Newlines : i <= j
          /\ raw' = SubSeq(raw, i + 1, Len(raw))
          /\ WriteAll(line, IF IsExit(line) THEN "exit" ELSE "line")
    /\ lineBuf' = <<>>
    /\ UNCHANGED <<script, exitCode, stdinEof, rev, failed, interrupted,
                   inputVars, netVars>>

ScanRest ==
    /\ pc = "scan" /\ Newlines = {}
    /\ lineBuf' = lineBuf \o raw /\ raw' = <<>>
    /\ pc' = "top"
    /\ UNCHANGED <<script, exitCode, stdinEof, rev, toWrite, after, failed,
                   interrupted, inputVars, netVars>>

NoMemory ==
    /\ LocalFaults
    /\ pc = "scan" /\ raw # <<>>
    /\ Exit(5) /\ failed' = failed \cup {"memory"}
    /\ UNCHANGED <<script, stdinEof, rev, raw, lineBuf, toWrite, after,
                   interrupted, inputVars, netVars>>

(***************************************************************************)
(* socket_write_all.  Nothing is received while it waits for room; only a  *)
(* failure on behalf of an ordinary line is noticed.                       *)
(***************************************************************************)
Room == NetCap - (Len(wire) - srvRead)

WriteReturns ==
    \/ after = "line" /\ pc' = "scan"
    \/ after = "exit" /\ pc' = "drain"
    \/ after = "tail" /\ pc' = "top"

WriteSome_Once(n) ==
    /\ pc = "write" /\ ~srvReset
    /\ n \in 1 .. Len(toWrite) /\ n <= Room
    /\ wire' = wire \o SubSeq(toWrite, 1, n)
    /\ toWrite' = <<>>
    /\ WriteReturns
    /\ UNCHANGED <<script, exitCode, stdinEof, rev, raw, lineBuf, after, failed,
                   interrupted, inputVars, srvRead, unread, srvFin, srvReset>>

WriteSome(n) ==
    /\ pc = "write" /\ ~srvReset
    /\ n \in 1 .. Len(toWrite) /\ n <= Room
    /\ wire' = wire \o SubSeq(toWrite, 1, n)
    /\ toWrite' = SubSeq(toWrite, n + 1, Len(toWrite))
    /\ IF n = Len(toWrite) THEN WriteReturns ELSE UNCHANGED pc
    /\ UNCHANGED <<script, exitCode, stdinEof, rev, raw, lineBuf, after, failed,
                   interrupted, inputVars, srvRead, unread, srvFin, srvReset>>

(* Takes no notice of a failure on behalf of an ordinary line either.      *)
WriteGivesUp_AlwaysReturns(why) ==
    /\ failed' = failed \cup {why}
    /\ WriteReturns
    /\ UNCHANGED <<script, exitCode, stdinEof, rev, raw, lineBuf, toWrite, after,
                   inputVars, netVars>>

WriteGivesUp(why) ==
    /\ failed' = failed \cup {why}
    /\ IF after = "line" THEN Exit(5) ELSE WriteReturns /\ UNCHANGED exitCode
    /\ UNCHANGED <<script, stdinEof, rev, raw, lineBuf, toWrite, after, inputVars,
                   netVars>>

WriteTimesOut ==
    /\ pc = "write" /\ Room = 0 /\ ~srvReset
    /\ WriteGivesUp("timeout") /\ UNCHANGED interrupted

WriteFails ==
    /\ pc = "write" /\ (srvReset \/ LocalFaults)
    /\ WriteGivesUp("io") /\ UNCHANGED interrupted

(* poll returns EINTR, which is no reason to try again here, whether or    *)
(* not an earlier signal has set the flag.                                 *)
WriteInterrupted ==
    /\ pc = "write" /\ Room = 0 /\ ~srvReset
    /\ interrupted' = TRUE
    /\ WriteGivesUp("signal")

(***************************************************************************)
(* After an exit line: what still arrives, until 300 ms pass without any.  *)
(***************************************************************************)
DrainData(n) ==
    /\ pc = "drain" /\ Receives(n)
    /\ UNCHANGED <<script, pc, exitCode, stdinEof, rev, raw, lineBuf, toWrite, after,
                   interrupted, inputVars>>

DrainEnds ==
    /\ pc = "drain" /\ AllRead
    /\ Exit(0)
    /\ UNCHANGED <<script, stdinEof, rev, raw, lineBuf, toWrite, after, failed,
                   interrupted, inputVars, netVars>>

(* poll or socket_read fails: the session ends as if all had been read.    *)
DrainFails ==
    /\ LocalFaults
    /\ pc = "drain"
    /\ Exit(0) /\ failed' = failed \cup {"poll"}
    /\ UNCHANGED <<script, stdinEof, rev, raw, lineBuf, toWrite, after, interrupted,
                   inputVars, netVars>>

(***************************************************************************)
(* Around the client.                                                      *)
(***************************************************************************)
Running == pc # "done"

StdinWritten ==
    /\ Running /\ ~stdinClosed /\ avail < Len(script)
    /\ avail' = avail + 1
    /\ UNCHANGED <<script, clientVars, interrupted, taken, stdinClosed, netVars>>

StdinCloses ==
    /\ Running /\ ~stdinClosed /\ stdinClosed' = TRUE
    /\ UNCHANGED <<script, clientVars, interrupted, avail, taken, netVars>>

Signal ==
    /\ Running /\ ~interrupted /\ interrupted' = TRUE
    /\ UNCHANGED <<script, clientVars, inputVars, netVars>>

(* The loop's own poll, interrupted, leads back to the loop's condition.   *)
SignalInPoll ==
    /\ pc = "poll" /\ Ready = NoEvents
    /\ interrupted' = TRUE /\ pc' = "top"
    /\ UNCHANGED <<script, exitCode, stdinEof, rev, raw, lineBuf, toWrite, after,
                   failed, inputVars, netVars>>

SrvReads ==
    /\ Running /\ ~srvReset /\ srvRead < Len(wire)
    /\ srvRead' = srvRead + 1
    /\ UNCHANGED <<script, clientVars, interrupted, inputVars, wire, unread,
                   srvFin, srvReset>>

SrvSends ==
    /\ Running /\ ~srvReset /\ ~srvFin
    /\ unread < NetCap
    /\ unread' = unread + 1
    /\ UNCHANGED <<script, clientVars, interrupted, inputVars, wire, srvRead, srvFin,
                   srvReset>>

SrvCloses ==
    /\ Running /\ ~srvReset /\ ~srvFin /\ srvFin' = TRUE
    /\ UNCHANGED <<script, clientVars, interrupted, inputVars, wire, srvRead, unread,
                   srvReset>>

SrvResets ==
    /\ Running /\ ~srvReset /\ srvReset' = TRUE
    /\ UNCHANGED <<script, clientVars, interrupted, inputVars, wire, srvRead, unread,
                   srvFin>>

ClientStep ==
    \/ EnterPoll \/ Interrupted \/ PollReady \/ PollIdle \/ PollFails
    \/ (\E n \in 1 .. NetCap : SockData(n)) \/ SockEnds \/ SockFails \/ SockIdle
    \/ StdinIdle \/ (\E n \in 1 .. Len(script) : StdinData(n)) \/ StdinEnd \/ StdinFails
    \/ ScanLine \/ ScanRest \/ NoMemory
    \/ (\E n \in 1 .. Len(toWrite) : WriteSome(n))
    \/ WriteTimesOut \/ WriteFails
    \/ (\E n \in 1 .. NetCap : DrainData(n)) \/ DrainEnds \/ DrainFails

Outside ==
    \/ StdinWritten \/ StdinCloses \/ Signal \/ SignalInPoll \/ WriteInterrupted
    \/ SrvReads \/ SrvSends \/ SrvCloses \/ SrvResets

Terminated == pc = "done" /\ UNCHANGED vars

Next == ClientStep \/ Outside \/ Terminated

Spec == Init /\ [][Next]_vars

(* Every wait of the client has a timeout.                                 *)
FairSpec == Spec /\ WF_vars(ClientStep)

-----------------------------------------------------------------------------
TypeOK ==
    /\ script \in Seq(Token)
    /\ pc \in {"top", "poll", "sock", "stdin", "scan", "write", "drain", "done"}
    /\ exitCode \in {-1, 0, 5}
    /\ stdinEof \in BOOLEAN
    /\ rev \in [in : BOOLEAN, hup : BOOLEAN, stdin : BOOLEAN]
    /\ raw \in Seq(Token) /\ lineBuf \in Seq(Token) /\ toWrite \in Seq(Token)
    /\ after \in {"line", "exit", "tail"}
    /\ failed \subseteq Faults
    /\ interrupted \in BOOLEAN
    /\ avail \in 0 .. Len(script) /\ taken \in 0 .. avail /\ stdinClosed \in BOOLEAN
    /\ wire \in Seq(Token) /\ srvRead \in 0 .. Len(wire)
    /\ unread \in 0 .. NetCap
    /\ srvFin \in BOOLEAN /\ srvReset \in BOOLEAN

Taken == SubSeq(script, 1, taken)

(* Where the lines of s end, and the lines that say exit.                  *)
LineEnds(s)  == {i \in 1 .. Len(s) : s[i] = "newline"}
LineEndingAt(s, i) ==
    LET from == {j \in LineEnds(s) : j < i}
    IN  IF from = {} THEN SubSeq(s, 1, i)
        ELSE SubSeq(s, 1 + (CHOOSE j \in from : \A k \in from : k <= j), i)
ExitEnds(s) == {i \in LineEnds(s) : IsExit(LineEndingAt(s, i))}

(* However reads and sends cut it up, the input is in four places, in      *)
(* order and whole: on the wire, in socket_write_all, in line_buf, in raw. *)
NothingLost == wire \o toWrite \o lineBuf \o raw = Taken

(* The server sees whole lines: whenever the loop waits, the wire ends     *)
(* with a line (or with all of stdin, or where a last write failed).       *)
WholeLines ==
    pc = "poll" /\ ~stdinEof =>
        /\ toWrite = <<>> /\ raw = <<>>
        /\ wire = <<>> \/ wire[Len(wire)] = "newline"
        /\ LineEnds(lineBuf) = {}

(* Nothing is sent after a line that says exit, and such a line ends the   *)
(* session: the loop never waits again behind one.                         *)
ExitIsLast ==
    /\ \A i \in ExitEnds(wire) : i = Len(wire)
    /\ pc \in {"top", "poll", "sock", "stdin"} => ExitEnds(Taken) = {}

(* Whatever ends a session with 0, but a signal, an exit behind which no   *)
(* newline comes, and a failure while an exit line is drained, what the    *)
(* server had said until then has been read and given to stdout, its last  *)
(* words before a close, a reset or a silence included.                    *)
LastWordsRead ==
    exitCode = 0 /\ ~interrupted /\ "poll" \notin failed /\ ~IsExit(lineBuf) => AllRead

(* The last line given to socket_write_all says exit.                      *)
ExitGiven == LET given == wire \o toWrite IN Len(given) \in ExitEnds(given)

(* 0 means that no ordinary line failed to go out, and one of these: a     *)
(* signal; the server's end, when everything it said was read; an exit     *)
(* line, sent or given up, or at the end of stdin; the end of stdin, when  *)
(* every byte was sent.  Or one of three for which the documents promise   *)
(* 5: a bare hang-up of a server that has reset the connection (srvReset), *)
(* a last line without a newline whose write failed, and a failed read of  *)
(* stdin.                                                                  *)
ExitIsJustified ==
    exitCode = 0 =>
        /\ after = "line" => toWrite = <<>>
        /\ \/ interrupted
           \/ (srvFin \/ srvReset) /\ AllRead
           \/ ExitGiven
           \/ stdinEof /\ IsExit(lineBuf)
           \/ stdinClosed /\ taken = avail /\ wire = Taken
           \/ after = "tail" /\ toWrite # <<>> /\ failed \cap WriteFaults # {}
           \/ stdinEof /\ "stdin" \in failed

(* The end of stdin, or a failed read of it, ends the session, although    *)
(* the server stays connected, unless the server never stops talking: only *)
(* 200 ms without an event end the loop.                                   *)
EofEnds == (<>[][~SrvSends]_vars) => ((stdinClosed \/ stdinEof) ~> (pc = "done"))
=============================================================================
