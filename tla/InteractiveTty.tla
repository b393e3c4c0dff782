--------------------------- MODULE InteractiveTty ---------------------------
(***************************************************************************)
(* Interactive mode on a terminal: run_interactive_tty_mode of             *)
(* mode_interactive.c on POSIX, with handle_socket_data,                   *)
(* handle_interactive_command, raw mode and the history file.  Sessions    *)
(* follow one another: each ends in an orderly way or by a crash, and the  *)
(* next one loads the file it finds.                                       *)
(*                                                                         *)
(* A line is a sequence of tokens.  What the keys do to the line is the    *)
(* subject of LineEditor; here an editing key leaves any line there.       *)
(***************************************************************************)
EXTENDS HistoryFile, FiniteSets

CONSTANTS
    Lines,          \* lines that can be typed
    MaxKeys,        \* bound: keys typed in a session
    MaxResp,        \* bound: times the server sends something
    MaxSessions,    \* bound
    MaxTrouble,     \* bound: of signal, terminal closed, server closed or reset,
                    \* failed writes to the history file
    LocalFaults     \* whether poll, the terminal or the history file may fail

Builtins == {"help", "clear", "status", "history"}
ExitWords == {"exit", "quit"}

ASSUME TtyAssumption ==
    /\ Lines \subseteq Seq(ExitWords \cup Builtins \cup {"blank", "text"})
    /\ MaxKeys \in Nat /\ MaxResp \in Nat /\ MaxSessions \in Nat /\ MaxTrouble \in Nat
    /\ LocalFaults \in BOOLEAN

VARIABLES
    session,        \* which session this is
    pc, exitCode,
    rawMode,        \* whether the terminal is in raw mode
    line,           \* the line under edit
    rev,            \* what poll reported
    toWrite,        \* what socket_write_all still has to send
    leaving,        \* whether the save is the one of the clean-up
    interrupted,
    typed, waiting, \* keys typed, and not read so far
    ttyClosed,
    wire,           \* what the server has been sent
    srvSent, unread, \* what the server has sent, and what of it is unread
    srvFin, srvReset

loopVars == <<session, pc, exitCode, rawMode, line, rev, toWrite, leaving>>
keyVars  == <<typed, waiting, ttyClosed>>
netVars  == <<wire, srvSent, unread, srvFin, srvReset>>
vars == <<loopVars, fileVars, interrupted, keyVars, netVars>>

NoEvents == [in |-> FALSE, hup |-> FALSE, key |-> FALSE]

Init ==
    /\ HistoryInit
    /\ session = 1 /\ pc = "load" /\ exitCode = -1 /\ rawMode = FALSE
    /\ line = <<>> /\ rev = NoEvents /\ toWrite = <<>> /\ leaving = FALSE
    /\ interrupted = FALSE
    /\ typed = 0 /\ waiting = 0 /\ ttyClosed = FALSE
    /\ wire = <<>> /\ srvSent = 0 /\ unread = 0 /\ srvFin = FALSE /\ srvReset = FALSE

(* A line that is nothing but one of the words and blanks.                 *)
IsWord(l, words) ==
    LET Visible(t) == t # "blank"
    IN  \E w \in words : SelectSeq(l, Visible) = <<w>>

Quiet ==
    LET trouble == <<interrupted, ttyClosed, srvFin, srvReset, damaged>>
    IN  Cardinality({i \in 1 .. 5 : trouble[i]}) < MaxTrouble

-----------------------------------------------------------------------------
(* The beginning of a session                                              *)

LoadHistory ==
    /\ pc = "load" /\ Load /\ pc' = "raw"
    /\ UNCHANGED <<session, exitCode, rawMode, line, rev, toWrite, leaving, interrupted,
                   keyVars, netVars>>

(* TCSAFLUSH throws away what was typed before.                            *)
EnableRawMode ==
    /\ pc = "raw"
    /\ rawMode' = TRUE /\ waiting' = 0 /\ line' = <<>> /\ pc' = "top"
    /\ UNCHANGED <<session, exitCode, rev, toWrite, leaving, interrupted, fileVars, typed,
                   ttyClosed, netVars>>

(* The session goes on as InteractivePipe has it.                          *)
RawModeFails ==
    /\ pc = "raw" /\ LocalFaults
    /\ Forget /\ pc' = "pipe"
    /\ UNCHANGED <<session, exitCode, rawMode, line, rev, toWrite, leaving, interrupted,
                   keyVars, netVars>>

(* cleanup: the terminal first, then the history.                          *)
Leave_StillRaw(code) ==
    /\ exitCode' = code /\ leaving' = TRUE /\ pc' = "save"
    /\ UNCHANGED <<rawMode, waiting, session, line, rev, toWrite>>

Leave(code) ==
    /\ exitCode' = code /\ leaving' = TRUE /\ pc' = "save"
    /\ rawMode' = FALSE /\ waiting' = 0
    /\ UNCHANGED <<session, line, rev, toWrite>>

Goto(where) ==
    /\ pc' = where
    /\ UNCHANGED <<session, exitCode, rawMode, line, rev, toWrite, leaving, waiting>>

-----------------------------------------------------------------------------
(* The loop, and poll without a timeout                                    *)

EnterPoll ==
    /\ pc = "top" /\ ~interrupted /\ Goto("poll")
    /\ UNCHANGED <<fileVars, interrupted, typed, ttyClosed, netVars>>

Interrupted ==
    /\ pc = "top" /\ interrupted /\ Leave(0)
    /\ UNCHANGED <<fileVars, interrupted, typed, ttyClosed, netVars>>

Ready ==
    [in |-> unread > 0 \/ srvFin \/ srvReset, hup |-> srvReset,
     key |-> waiting > 0 \/ ttyClosed]

(* A dead connection with nothing left to read need not be readable too.   *)
PollReports ==
    IF srvReset /\ unread = 0 THEN {Ready, [Ready EXCEPT !.in = FALSE]} ELSE {Ready}

PollReady ==
    /\ pc = "poll" /\ Ready # NoEvents
    /\ rev' \in PollReports /\ pc' = "sock"
    /\ UNCHANGED <<session, exitCode, rawMode, line, toWrite, leaving, fileVars,
                   interrupted, keyVars, netVars>>

PollFails ==
    /\ pc = "poll" /\ LocalFaults /\ Leave(5)
    /\ UNCHANGED <<fileVars, interrupted, typed, ttyClosed, netVars>>

(* The socket: handle_socket_data prints what there is and shows the line  *)
(* again.                                                                  *)
SockData ==
    /\ pc = "sock" /\ rev.in /\ unread > 0
    /\ unread' \in 0 .. (unread - 1)
    /\ Goto("key")
    /\ UNCHANGED <<fileVars, interrupted, typed, ttyClosed, wire, srvSent, srvFin, srvReset>>

SockEnds ==
    /\ pc = "sock"
    /\ \/ rev.in /\ unread = 0 /\ srvFin /\ ~srvReset
       \/ ~rev.in /\ rev.hup
    /\ Leave(0)
    /\ UNCHANGED <<fileVars, interrupted, typed, ttyClosed, netVars>>

SockFails ==
    /\ pc = "sock" /\ rev.in /\ unread = 0 /\ srvReset
    /\ Leave(5)
    /\ UNCHANGED <<fileVars, interrupted, typed, ttyClosed, netVars>>

SockIdle_Ignored ==
    /\ pc = "sock" /\ (rev.in \/ ~rev.hup) /\ Goto("key")
    /\ UNCHANGED <<fileVars, interrupted, typed, ttyClosed, netVars>>

SockIdle ==
    /\ pc = "sock" /\ ~rev.in /\ ~rev.hup /\ Goto("key")
    /\ UNCHANGED <<fileVars, interrupted, typed, ttyClosed, netVars>>

-----------------------------------------------------------------------------
(* The keyboard: one key, then as many as there are while the line is not  *)
(* finished, with no look at the socket in between.                        *)

NoKey ==
    /\ pc = "key" /\ ~rev.key /\ Goto("top")
    /\ UNCHANGED <<fileVars, interrupted, typed, ttyClosed, netVars>>

TtyEnds ==
    /\ pc = "key" /\ rev.key /\ waiting = 0 /\ Leave(0)
    /\ UNCHANGED <<fileVars, interrupted, typed, ttyClosed, netVars>>

Reads ==
    /\ (pc = "key" /\ rev.key) \/ pc = "more"
    /\ waiting > 0

KeyEdits ==
    /\ Reads /\ waiting' = waiting - 1
    /\ line' \in Lines /\ pc' = "more"
    /\ UNCHANGED <<session, exitCode, rawMode, rev, toWrite, leaving, fileVars,
                   interrupted, typed, ttyClosed, netVars>>

KeyEnter ==
    /\ Reads /\ waiting' = waiting - 1
    /\ pc' = "command"
    /\ UNCHANGED <<session, exitCode, rawMode, line, rev, toWrite, leaving, fileVars,
                   interrupted, typed, ttyClosed, netVars>>

(* Ctrl+C, which is no signal in raw mode, or Ctrl+D on an empty line.     *)
KeyAborts ==
    /\ Reads /\ Leave(0)
    /\ UNCHANGED <<fileVars, interrupted, typed, ttyClosed, netVars>>

NoMoreKeys ==
    /\ pc = "more" /\ waiting = 0 /\ Goto("top")
    /\ UNCHANGED <<fileVars, interrupted, typed, ttyClosed, netVars>>

-----------------------------------------------------------------------------
(* handle_interactive_command                                              *)

CommandExit ==
    /\ pc = "command" /\ IsWord(line, ExitWords) /\ Leave(0)
    /\ UNCHANGED <<fileVars, interrupted, typed, ttyClosed, netVars>>

CommandBuiltin ==
    /\ pc = "command" /\ IsWord(line, Builtins)
    /\ Record(line) /\ Goto("save")
    /\ UNCHANGED <<interrupted, typed, ttyClosed, netVars>>

CommandNone ==
    /\ pc = "command" /\ line = <<>> /\ Goto("top")
    /\ UNCHANGED <<fileVars, interrupted, typed, ttyClosed, netVars>>

CommandSend_Builtins ==
    /\ pc = "command" /\ line # <<>> /\ ~IsWord(line, ExitWords)
    /\ toWrite' = Append(line, "newline") /\ pc' = "write"
    /\ UNCHANGED <<session, exitCode, rawMode, line, rev, leaving, fileVars, interrupted,
                   keyVars, netVars>>

CommandSend ==
    /\ pc = "command" /\ line # <<>>
    /\ ~IsWord(line, ExitWords) /\ ~IsWord(line, Builtins)
    /\ toWrite' = Append(line, "newline") /\ pc' = "write"
    /\ UNCHANGED <<session, exitCode, rawMode, line, rev, leaving, fileVars, interrupted,
                   keyVars, netVars>>

(* socket_write_all sends a part at a time.                                *)
WriteSome(n) ==
    /\ pc = "write" /\ n \in 1 .. Len(toWrite)
    /\ wire' = wire \o SubSeq(toWrite, 1, n)
    /\ toWrite' = SubSeq(toWrite, n + 1, Len(toWrite))
    /\ UNCHANGED <<session, pc, exitCode, rawMode, line, rev, leaving, fileVars,
                   interrupted, keyVars, srvSent, unread, srvFin, srvReset>>

(* Only a line that has gone out whole is recorded.                        *)
WriteReturns ==
    /\ pc = "write" /\ toWrite = <<>>
    /\ Record(line) /\ Goto("save")
    /\ UNCHANGED <<interrupted, typed, ttyClosed, netVars>>

(* A timeout, a lost connection, or a signal while it waits.               *)
WriteFails ==
    /\ pc = "write" /\ toWrite # <<>> /\ Leave(5)
    /\ UNCHANGED <<fileVars, interrupted, typed, ttyClosed, netVars>>

-----------------------------------------------------------------------------
(* linenoiseHistorySave, and what comes behind it                          *)

BeginSave ==
    /\ pc = "save" /\ writable
    /\ SaveOpens /\ Goto("saving")
    /\ UNCHANGED <<interrupted, typed, ttyClosed, netVars>>

WriteLine ==
    /\ pc = "saving" /\ SaveWrites
    /\ UNCHANGED <<loopVars, interrupted, keyVars, netVars>>

(* fprintf and fclose are not looked at.                                   *)
WriteLost ==
    /\ pc = "saving" /\ LocalFaults /\ Quiet /\ SaveLoses
    /\ UNCHANGED <<loopVars, interrupted, keyVars, netVars>>

EndSave ==
    /\ pc = "saving" /\ SaveCloses /\ Goto("saved")
    /\ UNCHANGED <<interrupted, typed, ttyClosed, netVars>>

NoSave ==
    /\ pc = "save" /\ ~writable /\ Goto("saved")
    /\ UNCHANGED <<fileVars, interrupted, typed, ttyClosed, netVars>>

(* The next line begins empty.                                             *)
EditStart ==
    /\ pc = "saved" /\ ~leaving
    /\ line' = <<>> /\ pc' = "top"
    /\ UNCHANGED <<session, exitCode, rawMode, rev, toWrite, leaving, fileVars,
                   interrupted, keyVars, netVars>>

Return ==
    /\ pc = "saved" /\ leaving
    /\ Forget /\ Goto("done")
    /\ UNCHANGED <<interrupted, typed, ttyClosed, netVars>>

ClientStep ==
    \/ LoadHistory \/ EnableRawMode \/ RawModeFails
    \/ EnterPoll \/ Interrupted \/ PollReady \/ PollFails
    \/ SockData \/ SockEnds \/ SockFails \/ SockIdle
    \/ NoKey \/ TtyEnds \/ KeyEdits \/ KeyEnter \/ KeyAborts \/ NoMoreKeys
    \/ CommandExit \/ CommandBuiltin \/ CommandNone \/ CommandSend
    \/ (\E n \in 1 .. Len(toWrite) : WriteSome(n)) \/ WriteReturns \/ WriteFails
    \/ BeginSave \/ WriteLine \/ WriteLost \/ EndSave \/ NoSave \/ EditStart \/ Return

-----------------------------------------------------------------------------
(* Signals, crashes, the user and the server                               *)

Ended == pc \in {"done", "pipe", "dead"}

Signal ==
    /\ ~Ended /\ Quiet /\ ~interrupted /\ interrupted' = TRUE
    /\ UNCHANGED <<loopVars, fileVars, keyVars, netVars>>

(* poll that waits returns EINTR, upon the first signal or a later one.    *)
SignalInPoll ==
    /\ pc = "poll" /\ Ready = NoEvents /\ (interrupted \/ Quiet)
    /\ interrupted' = TRUE /\ Leave(0)
    /\ UNCHANGED <<fileVars, typed, ttyClosed, netVars>>

(* Nothing of a session is left but the terminal as it is.                 *)
Cleared ==
    /\ exitCode' = -1 /\ line' = <<>> /\ rev' = NoEvents /\ toWrite' = <<>>
    /\ leaving' = FALSE /\ interrupted' = FALSE
    /\ typed' = 0 /\ waiting' = 0 /\ ttyClosed' = FALSE
    /\ wire' = <<>> /\ srvSent' = 0 /\ unread' = 0 /\ srvFin' = FALSE /\ srvReset' = FALSE

(* SIGKILL, or the machine stops.                                          *)
Crash ==
    /\ ~Ended /\ pc' = "dead" /\ Lost /\ Cleared
    /\ UNCHANGED <<session, rawMode>>

(* The program is started again, on a terminal its user has put right.     *)
Restart ==
    /\ Ended /\ session < MaxSessions /\ session' = session + 1
    /\ pc' = "load" /\ rawMode' = FALSE /\ Cleared
    /\ UNCHANGED fileVars

Type ==
    /\ ~Ended /\ ~ttyClosed /\ typed < MaxKeys
    /\ typed' = typed + 1 /\ waiting' = waiting + 1
    /\ UNCHANGED <<loopVars, fileVars, interrupted, ttyClosed, netVars>>

TtyCloses ==
    /\ ~Ended /\ Quiet /\ ~ttyClosed /\ ttyClosed' = TRUE
    /\ UNCHANGED <<loopVars, fileVars, interrupted, typed, waiting, netVars>>

SrvSends ==
    /\ ~Ended /\ ~srvFin /\ ~srvReset /\ srvSent < MaxResp
    /\ srvSent' = srvSent + 1 /\ unread' = unread + 1
    /\ UNCHANGED <<loopVars, fileVars, interrupted, keyVars, wire, srvFin, srvReset>>

SrvCloses ==
    /\ ~Ended /\ Quiet /\ ~srvFin /\ ~srvReset /\ srvFin' = TRUE
    /\ UNCHANGED <<loopVars, fileVars, interrupted, keyVars, wire, srvSent, unread, srvReset>>

SrvResets ==
    /\ ~Ended /\ Quiet /\ ~srvReset /\ srvReset' = TRUE
    /\ UNCHANGED <<loopVars, fileVars, interrupted, keyVars, wire, srvSent, unread, srvFin>>

Environment == Type \/ TtyCloses \/ SrvSends \/ SrvCloses \/ SrvResets

Stopped == Ended /\ session = MaxSessions /\ UNCHANGED vars

Next ==
    \/ ClientStep \/ Signal \/ SignalInPoll \/ Crash \/ Restart
    \/ Environment \/ Stopped

Spec == Init /\ [][Next]_vars

(* The client does not stop by itself, nothing else is sure to happen.     *)
FairSpec == Spec /\ WF_vars(ClientStep)

-----------------------------------------------------------------------------
(* Properties                                                              *)

Tokens == ExitWords \cup Builtins \cup {"blank", "text", "newline"}

(* The variables keep their types (all of run_interactive_tty_mode).       *)
TypeOK ==
    /\ session \in Nat
    /\ pc \in {"load", "raw", "top", "poll", "sock", "key", "more", "command", "write",
               "save", "saving", "saved", "done", "pipe", "dead"}
    /\ exitCode \in {-1, 0, 5} /\ rawMode \in BOOLEAN
    /\ line \in Seq(Tokens) /\ toWrite \in Seq(Tokens) /\ wire \in Seq(Tokens)
    /\ rev \in [in : BOOLEAN, hup : BOOLEAN, key : BOOLEAN]
    /\ leaving \in BOOLEAN /\ interrupted \in BOOLEAN
    /\ typed \in Nat /\ waiting \in Nat /\ ttyClosed \in BOOLEAN
    /\ srvSent \in Nat /\ unread \in Nat /\ srvFin \in BOOLEAN /\ srvReset \in BOOLEAN
    /\ writable \in BOOLEAN /\ cut \in BOOLEAN /\ damaged \in BOOLEAN /\ midLine \in BOOLEAN

(* f holds what the save had written of the list r when it was cut short:  *)
(* its first lines, of which only the very last may be torn.               *)
TornPrefix(f, r) ==
    /\ Len(f) <= Len(r)
    /\ \A i \in 1 .. (Len(f) - 1) : f[i] = r[i]
    /\ f # <<>> => \E k \in 1 .. Len(r[Len(f)]) : f[Len(f)] = SubSeq(r[Len(f)], 1, k)

(* A run of at most ReadMax characters of a line of r.                     *)
PieceOf(piece, r) ==
    \E i \in 1 .. Len(r) : \E a, b \in 1 .. Len(r[i]) :
        a <= b /\ b < a + ReadMax /\ piece = SubSeq(r[i], a, b)

Fits(r) == \A i \in 1 .. Len(r) : Len(r[i]) <= ReadMax

(* What linenoiseHistoryLoad gives back after a restart.  Whatever the     *)
(* file has been through, it is a proper history: within its bound, with   *)
(* no empty entry and none twice in a row.  If no write of the last save   *)
(* failed, every entry is a piece of a line of that save; and if its lines *)
(* fit the buffer of fgets, it is that list itself, or, when a crash cut   *)
(* the save short, the first lines of it.  And when linenoiseHistorySave   *)
(* has returned and no write failed, the file is the list.                 *)
RestartRemembers ==
    /\ pc = "raw" => WellKept(hist, MaxHist)
    /\ pc = "raw" /\ ~damaged =>
          /\ \A i \in 1 .. Len(hist) : PieceOf(hist[i], remembered)
          /\ Fits(remembered) =>
                IF cut THEN TornPrefix(hist, remembered) ELSE hist = remembered
    /\ pc = "saved" /\ writable /\ ~damaged => file = hist

(* Whatever ends the session, the terminal is restored before anything     *)
(* else is done; the process that returns is through with its save of the  *)
(* history; and a line that did not go out whole is told by the exit code  *)
(* (the cleanup label of run_interactive_tty_mode).                        *)
LeavesClean ==
    /\ leaving \/ pc \in {"pipe", "done"} => ~rawMode
    /\ pc = "done" => /\ exitCode \in {0, 5} /\ ~(writable /\ cut)
                      /\ toWrite # <<>> => exitCode = 5

(* A line of s begins at i, and its newline is at j.                       *)
IsLine(s, i, j) ==
    /\ i <= j /\ s[j] = "newline"
    /\ i = 1 \/ s[i - 1] = "newline"
    /\ \A k \in i .. (j - 1) : s[k] # "newline"

(* The server sees whole lines, and none that is a command of the client;  *)
(* and the line that is recorded in the history without leaving is the one *)
(* that has just gone out, or a command (handle_interactive_command).      *)
ServerSeesLines ==
    /\ \A i, j \in 1 .. Len(wire) :
          IsLine(wire, i, j) => ~IsWord(SubSeq(wire, i, j - 1), ExitWords \cup Builtins)
    /\ toWrite = <<>> /\ wire # <<>> => wire[Len(wire)] = "newline"
    /\ pc = "save" /\ ~leaving =>
          \/ IsWord(line, Builtins)
          \/ /\ Len(wire) > Len(line)
             /\ SubSeq(wire, Len(wire) - Len(line), Len(wire)) = Append(line, "newline")

(* A server that closes or resets the connection ends the session: the     *)
(* socket is looked at before the keyboard in every turn of the loop.      *)
HangupEnds == srvFin \/ srvReset ~> Ended

(* docs/superpowers/plans/2026-09-04-linenoise-interactive-terminal.md:18  *)
(* "Terminal attributes must always be safely restored upon exit or signal *)
(* interruption (SIGINT/Ctrl+C)".  A crash is not such an interruption.    *)
SignalRestores == interrupted ~> (Ended /\ (pc = "dead" \/ ~rawMode))
=============================================================================
