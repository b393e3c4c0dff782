# tcp-client in TLA+

Models, model-checked properties and machine-checked proofs for the TCP client
in `src/` (C; the paths below are relative to `src/src/` unless they say
otherwise). The POSIX build is what is modelled.

## 1. The system

One process, one connection, one thread, a `SIGINT`/`SIGTERM` handler that sets
a flag. What makes it hard is not threads: it is that stdin, the server and the
signal each move on their own between any two system calls, that every read and
write may be partial, and that several exit paths share buffers and descriptors.

| Component | State it keeps | Operations | Talks to |
|---|---|---|---|
| `main.c` | exit code, config, socket | parse, choose the mode, connect, run, clean up | everything |
| `cli_args.c` | `client_config_t` | `parse_cli_args` | main |
| `socket_client.c` `socket_connect` | address list, current socket, last error | one attempt per address: `socket`, non-blocking `connect`, `poll`, `SO_ERROR` | main |
| `socket_client.c` I/O | none | `socket_read`, `socket_write_all`, `socket_read_exact`, `socket_read_framed` | interactive modes; the last two are for callers that no mode is yet |
| `mode_oneshot.c` | `send_buf`, `send_buf_pos`, `stdin_eof`, `shutdown_done`, `socket_eof`, `hsm_accum_buf` | framing (`-L`, `-T`), poll loop, half-close, response to stdout, `-D` accumulation | stdin, stdout, server, signal |
| `mode_interactive.c`, pipe | `line_buf`, `raw_stdin`, `stdin_eof` | poll loop, line assembly, `exit`/`quit`, final drain | stdin, stdout, server, signal |
| `mode_interactive.c`, terminal | raw mode, editor, history file | poll loop, commands, completion, hide and show the line | terminal, editor, server, signal |
| `linenoise.c` editor | buffer, cursor, escape state, completion, saved line | `linenoiseEditStart`, `linenoiseEditFeed` | terminal mode |
| `linenoise.c` history | list of lines, `~/.tcp_client_history` | add, set length, save, load | editor, terminal mode |
| `signal_handler.c` | `g_interrupted` | handler; terminal restored at exit | every loop |
| `hsm_decoder.c` | none | `hsm_parse_response`, `hsm_format_analysis` | one-shot (`-D`) |
| `hex_utils.c` | none | `hex_to_bytes`, `bytes_to_hex`, `parse_hex_byte`, `unescape_string` | one-shot (`-X`, `-D`), `cli_args.c` (`-x`, `-a`, `-T`) |
| `compat.c` | none | wrappers of system calls | everything |

Hard behaviours, and what has to be right in spite of them (PROJECT.json lists
them line by line under `hazards`):

- *one-shot loop*: partial sends, refills and responses interleave; revents are
  stale by the time they are used; half-close exactly behind the last byte;
  server close, reset, signal and timeout at every point; both sides blocked on
  full buffers. To hold: nothing lost or reordered, no early half-close, success
  only when both directions are complete, termination.
- *framing*: header, terminator and buffer limits meet at 65534..65536 bytes. To
  hold: no overrun, and only a tail of a payload is ever cut.
- *reading frames*: the connection cuts the stream anywhere and stops anywhere.
  To hold: whole messages in order, an announced length never written past the
  caller's buffer, and 0 only between two messages.
- *decoding*: the fields of a response that may be truncated at any byte. To
  hold: every byte in one field, none outside the response.
- *connecting*: a list of addresses, eight ways for an attempt to fail. To hold:
  no leak, the right address, the right error code.
- *exits*: an exit code that tells what went wrong, cleanup on every path.
- *interactive pipe*: lines cut by reads and by sends, an exit line with more
  input behind it, the end of stdin with a line open, failures in the middle of
  a line. To hold: whole lines in order, nothing behind an exit, an exit code
  that has a reason.
- *terminal*: raw mode, the history file and the connection are let go on a dozen
  ways out; a line typed is a command or is sent; the file is truncated and
  rewritten at every line. To hold: the terminal is restored before anything
  else, the next session finds the history or the beginning of it (and a proper
  list in any case), the server sees whole lines.
- *line editor*: memmoves at both ends of the buffer, history index, saved
  draft and completion across arbitrary key sequences. To hold: the array is
  always a C string with the cursor in it, and does what a line of text does.
- *escape sequences*: decoded byte by byte, cut short by anything, the byte
  behind a lone Esc swallowed. To hold: a sequence is one key or nothing, and
  ends where it ends.

## 2. Modules

```
Framing ─┬─ OneShot ──┬── OneShotRefinement ─┬─ MCOneShot     Transfer (abstract)
         │            │                      └─ OneShotProofs
         │            └── OneShotEcho ──────── MCOneShotEcho
         ├─ FrameRead ─┬── FrameDecode ─┬─ MCFrames
         ├─ HsmDecoder ┘                └─ FrameReadProofs
         └─ FramingProofs (used by OneShotProofs, FrameReadProofs)
HexText ── HexSpelling ── HexTextProofs
Connect ── Main ── MainProofs
InteractivePipe ─┬─ MCInteractivePipe
                 └─ InteractivePipeProofs
History ─┬─ HistoryFile ── InteractiveTty ─┬─ MCInteractiveTty
         │                                 └─ InteractiveTtyProofs
         └─ LineEditor ──┬── MCLineEditor                     TextLine (abstract)
                         ├── KeySequences ── MCKeySequences
                         └── LineEditorProofs
```

**Framing** — `run_oneshot_mode`, 93-160: what a `-x`/`-a` payload becomes.
`LenMax` is the 65535 of the header, written as `Radix * Radix - 1` so that TLC
can have a radix of 2; `BufSize` and `SendCap` keep their distances to it
(`ONESHOT_BUF_SIZE` is one more than `LenMax`, `send_buf` and `hsm_accum_buf`
512 more than that).
`ExpectedTotal`/`FrameComplete` are the reader's side of the header (`-D`).

**OneShot** — `run_oneshot_mode`, the poll loop. `pc` cuts an iteration at each
point after which someone else may have moved: `top` (condition, half-close),
`poll`, `sock`, `stdin`, `send`. Each C variable has a variable; every early
`goto`/`break` is an action (`SockErr`, `RecvReset`, `StdinFails`, ...).
TCP is a sequence of bytes and a read cursor each way, with at most `NetCap`
bytes between. `cfg` holds the command line. `RecvHexDropped` is the allocation
failure under `-X`, `PollFails` a `poll` that fails with anything but `EINTR`. Around the client: the producer of stdin, the signal
(`Signal` between calls, `SignalInPoll` as `EINTR`), and a server that reads,
sends, closes or resets whenever it likes.

**FrameRead** — `socket_read_framed` called over and over, with the two
`socket_read_exact` it makes (`header`, `payload`) and each `recv` of those as a
step. The peer writes messages framed as `-L` frames them; what has `arrived` is
any prefix of the stream, and the peer closes, resets or stalls wherever it
likes. `bounds`, `start`, `frames` are history: where messages end, what has
been taken, what was returned.

**HsmDecoder** — `hsm_parse_response` and the split of a generated key in
`hsm_format_analysis`, as operators on a sequence of bytes: where header, code,
error, payload and trailer begin and end. **FrameDecode** composes encoder, reader
and decoder: responses are built from fields, framed, cut, read and decoded;
**MCFrames** gives it six of them.
`buf` of FrameRead doubles as the truncated response that `-D` decodes when the
connection ends early.

**HexText** — the four conversions of `hex_utils.c` on sequences of character
codes, with their return codes and limits. `Kept` (the characters that are no
separators) and `Unescaped` are recursive functions, not `RECURSIVE` operators.
**HexSpelling** builds a payload and one of its spellings side by side, byte by
byte; `Samples` is the bytes it may hold.

**Transfer**, **OneShotRefinement** — what one-shot mode promises without `-T`,
`-D`, `-X`: in order, half-closed behind the last byte, response in order,
success only when both are complete. `wire`, `out`, `finSent` are its `sent`,
`printed`, `halfClosed`.

**OneShotEcho** — OneShot composed with an echo server that holds at most
`Backlog` bytes, as `tests/mock_server.py` does.

**Connect**, **Main** — `socket_connect` and `main`. An action per return of
`socket`, `fcntl`, `connect`, `poll`, `getsockopt`; `tried` records how each
attempt ended, `fds` which sockets are open. Peers accept, refuse, are
unreachable, or stay silent. In Main a session is what it may return, the modes
being modelled on their own, and the command line is what its last checks leave
(`Config`): accepted or not, `-H`/`-V`, `-i`, a payload.

**InteractivePipe** — `run_interactive_pipe_mode` with `socket_read` and
`socket_write_all` inlined. Input is tokens (the exit word, a blank, a newline,
anything else), so that a line can be cut by a read or by a send anywhere.
`scan` is the for loop over `raw_stdin`, `write` the loop of `socket_write_all`,
`drain` the one behind an exit line. `after` says who called
`socket_write_all`, since only one of the three callers looks at its result.
The server may talk for ever: `unread` is what it has said and the client has
not read, and what `Receives` takes goes to stdout, whose failures the code does
not look at. `failed` is a history variable: what has failed so far, noticed or
not.

**History**, **LineEditor**, **TextLine** — the history list;
`linenoiseEditStart`/`linenoiseEditFeed` on the C array itself (`Moved` is
`memmove`), with escape states, history, saved draft and completion (`AsInt` is
what the build may make of a `csi_num` beyond `IntMax`); and the
abstract line of text it refines. `Restart` is what the terminal loop does
after Enter (history add, new edit). `draft` is a history variable.

**KeySequences** — the editor next to a table of what each escape sequence means,
taken as a whole: by the last byte of `ESC [ x` and `ESC O x`, by the number of
`ESC [ n ~`, by the second byte of a Windows extended key. `typed` is a history
variable, the sequence begun last.

**HistoryFile** — load, add and save. A save is not one step: `fopen("w")` empties
the file (`SaveOpens`), lines go in one at a time, and a crash (`Lost`) leaves
what was written until then, perhaps with part of a line. A write that fails
(`SaveLoses`; the disk is full) loses the middle, the end or all of a line, and
the save goes on behind the gap, since neither `fprintf` nor `fclose` is looked
at; a line whose newline was lost runs into the next (`midLine`). Buffering by
`stdio` only makes the lines arrive later, in the same order. Loading takes
what `fgets` takes, at most `ReadMax` characters (4095), so that a longer line
comes back in `Pieces`, each an entry. `remembered`, `cut` and `damaged` are
history.

**InteractiveTty** — `run_interactive_tty_mode`: raw mode, the poll without a
timeout, socket before keyboard, the inner loop over the keys that are waiting,
`handle_interactive_command`, the save behind every line and the one of the
`cleanup` label (`Leave`), all composed with HistoryFile. `EnableRawMode` throws
away what was typed before it (`TCSAFLUSH`, `linenoise.c`), and so does `Leave`.
An editing key leaves any of `Lines` under edit, LineEditor having the details.
Sessions follow one another: `Crash` ends one anywhere, `Restart` begins the next
with the file it finds. `RawModeFails` leads to the pipe loop.

MC modules hold constants of the runs and, under "What the documents say", the
claims that violation runs refute.

## 3. Runs

| Run | What it asks | States | Bounds |
|---|---|---|---|
| `OneShotPlain` | invariants, `Termination`, and `ImplementsTransfer`, with every fault | 190 950 | 3 bytes of stdin or a framed payload; 2 bytes of network each way and 2 of response: partial sends, refills with the buffer part-sent, full buffers |
| `OneShotOptions` | `-T`, `-X`, `-D`: output cut behind the first terminator, frame wait ends rightly, no half-close | 1 215 946 | responses up to 6 bytes, so that the 5-byte accumulator overflows |
| `OneShotEcho` | no mutual blocking on full buffers | 5 218 | 5 bytes of input through 1 byte of network and of backlog: more than all the buffers hold |
| `Frames` | encoder, reader and decoder on a stream cut anywhere | 209 064 | radix 4 (lengths to 15), two messages of six: empty, too long for the header, and four responses; buffers of 1, 10 and 17 bytes: too small for a header, for some messages, for none |
| `MainExits` | every command line, address list and failure from start to exit | 137 758 | 3 addresses: a first, a middle and a last |
| `PipeSession` | lines, exits, end of stdin, failures and signals on a pipe | 208 428 | three scripts: an exit in the middle with input behind it, an exit without newline, a line without newline; 2 tokens of network, and no bound on what the server says |
| `PipeFailedTail` | *violated*: a failed write of the last line is reported | | |
| `TtySession` | two sessions on a terminal with crashes at every step, one history file | 1 390 623 | 4 keys a session (two lines recorded, the history full), one of signal, hang-up, close, reset and failed history write in each, one piece of response; `ReadMax` 2, so that one of the three lines comes back in two pieces |
| `TtySignal` | *violated*: a signal restores the terminal | | |
| `EditKeys` | every sequence of editing keys with history and completion | 644 160 | 3-byte buffer, 3 printable characters, history of 2, a completion longer than the buffer |
| `EditSequences` | every escape sequence, whole, cut short, meaningless or overflowing, is one key or nothing | 615 206 | 3-byte buffer, so that the cursor has a middle; a history of two; 3 digits, with an `int` that ends at 31: known, unknown, negative and wrapped numbers; 2 of the characters typed outside a sequence, all 23 keys inside one |
| `HexText` | every spelling of every payload against the bytes it spells | 481 305 | 3 bytes out of 6 that meet every rule, a receiving buffer of 2 |

The properties, each of which some run checks:

- `NothingLost` (one-shot, pipe): what was accepted by the socket, followed by
  what waits in the buffers, is the input so far. `HalfCloseIsLast`: the
  half-close comes behind the last byte. `CleanExit`: 0 means both directions are
  complete. `OutputIsResponse`: what is printed is the response, to the first
  terminator, whole or not yet. `FrameEndsWait`: `-D` goes on waiting exactly as
  long as a frame is incomplete, and ends with 0 only for a reason.
- `FramesAreMessages`, `BufferFits`, `CleanEndIsBetween`, `CallReturns`: the
  calls return the peer's messages, inside the buffer, 0 only between messages,
  and always return. `OnlyATailIsLost`, `DecodesBack`, `FieldsTile`: framing
  loses a tail at most; a complete response decodes to the fields it was made
  of; the fields of a truncated one lie inside it, side by side.
- `EscapesMeanBytes`, `PairsMeanBytes`, `PrintedIsRead`: a spelling is read as
  the bytes it spells, or refused exactly when they do not fit; what is printed
  is read back.
- `NothingLeaks`, `SocketIsConnected`, `FailureIsTheLast`, `EverythingReleased`,
  `ExitCodesTell`: descriptors, addresses and exit codes of connecting and of the
  whole program. `ExitCodesTell` says what each code means in terms of what
  happened; in two rows that is not what the table of README.md says (section 4).
- `WholeLines`, `ExitIsLast`: the server sees whole lines, and nothing behind an
  exit line. `LastWordsRead`: a session that ends with 0 has read all that the
  server had said before it ended, the words before a close or a reset included,
  but for a signal, an exit line without its newline and a failing drain.
  `ExitIsJustified`: 0 means that no ordinary line failed to go out, and that
  there was a documented reason to end, or one of three that the documents do not
  give (section 4), which it names. `EofEnds`: the end of stdin ends the session
  once the server stops talking.
- `RestartRemembers`: a restart finds a proper list whatever became of the file;
  if no write failed, pieces of the lines of the last save; and if these fit
  `fgets`' buffer, that list itself, or its beginning after a crash.
  `LeavesClean`, `ServerSeesLines`: the terminal is restored first; the
  server sees whole lines and no command of the client.
- `SequencesAreKeys`: a sequence does nothing until it is whole, then what its key
  says, to the line, the cursor and the history index; exactly its bytes are kept
  from the line; and no byte inside one enters, aborts or completes.
- `BufferSound`, `HistorySound`, `CompletionSound`, `DraftComesBack`: the array
  is a C string of `len` characters; the index is inside the history; the cached
  completions match the line on show; what was typed before Up comes back.
- `ImplementsTransfer`, `ImplementsTextLine`: refinement of the abstract
  specifications.

Type invariants and the inductive invariants are in the modules or next to their
proofs; TLC was used to find them, and they are proved (section 5) rather than
run. Of the properties above the proofs reach every one that says what must not
happen, but for `SequencesAreKeys`; the runs keep them honest: each is broken by
a change of the model that a plausible bug would make (PROJECT.json `mutants`).

No run disables the deadlock check: a finished client stutters explicitly.

### Fairness

`Termination`, `EofEnds`, `CallReturns` and `HangupEnds` assume weak fairness
of the client's own steps and nothing of its environment, but for the premise of
`EofEnds`. It is justified because no call of the loops waits without a bound: `poll` has a timeout (`PollTimeout`, `PollIdle`,
`WriteTimesOut` are client steps that are enabled while nothing is ready), and
the socket is non-blocking (`socket_client.c:46`, never undone), and stdin is
read only when ready. That whoever reads stdout keeps reading is assumed: a
write to stdout is part of the step that received the data. `EchoCompletes`
assumes in addition that the server and whoever writes stdin keep going; without
that an exchange cannot complete. The signal is never fair.
`EofEnds` has the premise that the server stops talking at some time: only
200 ms without an event end the loop behind the end of stdin
(`mode_interactive.c:327`), and a server that never stops keeps the session for
as long as it likes.
The terminal loop is the exception to the timeout: its `poll` waits for an event
(-1), so it promises an end only when the server closes or resets (`HangupEnds`),
and even then only because a user types a bounded number of keys: the inner loop
does not look at the socket while keys keep arriving. A write in it that gets no
room gives up after the timeout (`WriteFails` is a client step).

## 4. Divergences

Two runs show that the program does something else than a document of the
repository says; PROJECT.json `findings` quotes both sides: the result of the
last write on a pipe is not looked at (`PipeFailedTail`), and a signal between
the test of the flag and `poll` leaves the terminal raw for as long as nothing
else happens (`TtySignal`). Read in the same way from the code, but without a run
of their own:

- `-D` and a server that disconnects in the middle of a frame: 0
  (`mode_oneshot.c:299`); README.md:260 has 5 for an "unexpected disconnect".
- A write that times out yields 5 in the interactive modes, and a read of a
  silent server nothing; README.md:259 has 4 for any read or write timeout.
  `ExitCodesTell` says that 4 never comes from an interactive session.
- A bare hang-up or error event, as after a reset with nothing left to read, ends
  both interactive modes with 0 (`mode_interactive.c:355-360`, 630-637);
  `mode_interactive.h:40` and README.md:260 have 5 for an I/O error or an
  unexpected disconnect. `ExitIsJustified` accepts the reset for this.
- A failed read of stdin ends the pipe session with 0 (`mode_interactive.c:390`),
  and drops a line that has begun; README.md:260 has 5 for a read failure.
- A failed write to stdout is not noticed in the interactive modes
  (`mode_interactive.c:336`), nor a failing `poll` or `socket_read` behind an exit
  line (`mode_interactive.c:559`).
- A saved line of more than 4095 characters comes back as several entries
  (`linenoise.c:178`), although a line under edit may have 65535; and a failing
  write of the history file goes unnoticed (`linenoise.c:167-170`), so that lines
  may be lost, shortened or joined in it.
- Ctrl+C ends the terminal session, with text on the line too
  (`linenoise.c:491`); README.md:223 says it exits "if line is empty" and clears the line otherwise.
- `socket_read_exact` returns the partial count when the stream ends
  (`socket_client.c:206`); `socket_client.h:62` says "0 on clean server EOF before len bytes".
- PROJECT.md:9 has slices of 20 ms for responsiveness; the POSIX terminal loop
  polls without a timeout.
- A failed write of the `-D` analysis goes unnoticed (`mode_oneshot.c:495`).
- A signal (`mode_oneshot.c:172`) or a `-T` byte in an early response (291) ends
  one-shot mode with 0 with input unsent; README.md:255 says "connection closed
  cleanly or payload transferred". `CleanExit` excludes both cases for this.
- `-T` is not appended to stdin, nor to a 65536-byte `-a` payload without `-L`
  (138); README.md:112 says it "appends on send". `OnlyATailIsLost` allows for
  the latter.
- `-t` is spent once per address (`socket_client.c:82`); README.md:109 calls it
  the connection timeout.
- `socket()` failing for every address yields 3, "refused" (`socket_client.c:42`);
  README.md:258 has 3 for a host that refuses or cannot be reached.
  `ExitCodesTell` allows for it.
- A number in an escape sequence that does not fit an `int` (`linenoise.c:391`)
  is undefined behaviour; in the model it wraps, and may stand for any key.
- `-i` with `-a`/`-x` accepts a payload and never sends it (`cli_args.c:187`).
- SIGINT while `socket_write_all` waits yields 5 (`socket_client.c:143`);
  `mode_interactive.h:39` says 0 for Ctrl+C.
- PROJECT.md:96 says one-shot mode returns 0 or 5; it also returns 4 and 1.

## 5. Proofs

The modules that end in `Proofs` hold them; PROJECT.json lists the theorems.

- **Framing**: `FramesFit` — a payload of any length, framed, fits `send_buf`;
  `HeaderRoundTrip` — `-D` reads the length `-L` wrote; `OnlyATailIsEverLost` —
  what is sent is a prefix of the payload, complete where it fits. For every radix and
  slack. By case distinction on the options over the lengths of
  concatenations and prefixes.
- **OneShot**: `NothingLost`, `HalfCloseIsLast`, `CleanExit`, `BuffersFit` for
  every input, buffer size, network capacity and length of response. None is
  inductive alone. `LoopInv` adds what the loop *knows* at each `pc`:
  `InputInv` (the end of stdin was seen only when all was taken), `PollInv`
  (what poll reported may be old, but what the loop concludes from it is still
  true: readability does not go away, stdin is read only into an empty buffer)
  and `CloseInv` (the half-close happened when it was due; the loop ends by
  itself only behind it). `CleanExit` follows from `CloseInv` and
  `HalfCloseIsLast` from it with `NothingLost`.
  `OutputIsResponse` and `FrameEndsWait` need `OutputInv` on top: what was
  received is on stdout or in the accumulator of `-D`, the loop goes on only
  while more is wanted of it (no terminator yet, no complete frame), and
  `WaitOver` when it does not. The first position of a terminator in a growing
  response is a least element, as in all these modules (`LeastElement`).
- **OneShot implements Transfer** (`OneShotImplementsTransfer`): with the plain
  options (`Plain`: no `-T`, `-D`, `-X`) each action of the loop is a step of
  `Transfer` or a stutter under the mapping of OneShotRefinement, and the initial
  states map to initial states. It uses `LoopInv` and `OutputInv` in both states.
- **FrameRead and the decoder**: `FramesAreMessages`, `BufferFits` and `CleanEndIsBetween` for
  every set of messages, size of buffer and way of cutting the stream. The
  induction needs to know what the stream *is*: `StreamInv` (the frames of the
  messages, one behind the other), `PlaceInv` (the reader stands where its last
  message ended, with a part of what follows) and `SizeInv` (how large a part, at
  each `pc`). `NextFrame` is the core: the first two bytes behind a boundary are
  the length of the next message, by `HeaderRoundTrip`.
  `FieldsTile` is about `Parse` for every sequence of bytes, complete or cut:
  `StandsAt` says that a field stands in the response at the offset where the one
  before it ended, and each of the decoder's fields keeps it up. `OnlyATailIsLost`
  is `OnlyATailIsEverLost` of Framing for what the peer sends, and
  `DecodesBack` says of any set of responses (with a two-byte code and error, and
  no delimiter in the data: `ResponsesAssumption`) that they decode to their
  fields; it goes through `FramesAreMessages`, so that it holds of what was read
  in pieces.
- **InteractivePipe**: `NothingLost`, `WholeLines`, `ExitIsLast`,
  `LastWordsRead` and `ExitIsJustified` for every script, size of reads and
  sends, and server. The input is in four places (sent, being sent, line buffer,
  just read); `DataInv` says that the first two together, `Sent`, end with a line
  until the tail behind the end of stdin goes out,
  and `ExitInv` that only the last of them can say exit, and only when the loop
  is leaving. `KnownInv` says which places are empty at each `pc`, `EofInv` what
  the end of stdin implies. The core is `LineBehindLines`: a line put behind lines
  changes none that was there (`EndsBefore`); where a line begins is the greatest
  newline before it, and `GreatestElement` says that there is one.
- **InteractiveTty**: `LeavesClean` and `ServerSeesLines` for every set of lines,
  across crashes and restarts. `CleanInv` ties raw mode, `leaving` and the exit
  code to `pc`, and says when something is left to write; `LineInv` says that what
  was given away is lines, none of them a command, and that the last is the one
  about to be recorded. All steps but four give nothing away (`SilentOrLoud`).
  `RestartRemembers`, also for every bound of the history and every `ReadMax`:
  `HistInv` relates the file, unless a write failed, to the list of the last save
  — all of it, or whole lines of its beginning
  with at most one torn line behind them (`TornPrefix`), and while a save runs,
  what is in the file and what is to come make up the list. `AddAllIs` is the
  induction over what is read: loading gives it back line by line, but a last one
  that repeats the line before (which only a torn line can). `AddAllKeeps` says
  of any text at all that the list it makes is proper, and `PiecesAreRuns` and
  `TornPieces` that what `fgets` makes of a line, torn or not, is runs of it.
  Of a file that lost a write only the first of these is claimed.
- **Connect, Main**: `NothingLeaks`, `SocketIsConnected`, `FailureIsTheLast`,
  `EverythingReleased` for any number of addresses. `WalkInv` says where the
  walk of the list is and that `lastError` is the code of the last attempt that
  had a socket; `AbandonKeeps` and `ConnectedKeeps` are the two ways an attempt
  can end, whatever call it ends at. `ExitCodesTell` needs `ExitInv`: which codes
  the attempts can have given, address by address (`AttemptsTell`), and which
  codes each stage of `main` can leave behind (`StagesTell`).
- **LineEditor**: `BufferSound`, `HistorySound`, `CompletionSound` and
  `DraftComesBack` for every buffer size, set of keys, list of completions and
  history. They hold only together: a line is copied out of the buffer as a C
  string (`StringIsLine` needs `BufferSound`), into a saved line that Down copies
  back (`ShowsKeeps`), and a completion may be on show only outside escape
  sequences. `DraftInv` is the strengthening behind `DraftComesBack`: the draft
  is the line itself below the history and the saved line above. Each
  `memmove` has its lemma (`DeleteKeeps`, `BackspaceKeeps`, `InsertKeeps`), which
  spells out what every cell of the array holds afterwards.
- **LineEditor implements TextLine** (`EditorImplementsTextLine`): every key is a
  step of the line of text, or none, where `Left` and `Right` are what the array
  holds before and behind the cursor. The `memmove` lemmas say what becomes of
  both; a line taken from the history or the completions replaces both at once.
- **HexText**: `EscapesMeanBytes`, `PairsMeanBytes` and `PrintedIsRead` for
  payloads of any length and any bytes, a buffer of any size. `SpellingInv` says
  that a text spells the payload: behind `-x`, that its digits (`Kept`, by an
  induction over the text: `KeptConcat`) are two for each byte, and that the text
  up to the middle of the last byte has one less; behind `-a`, that it can be cut
  into items of which each stands for one byte (`Cuts`) and ends within the text
  (`Closed`), so that no escape takes a character of the next (`ItemMoves`). Two
  spellings of which one ends where the other begins would break it.
  `ReadExists` builds the function `Unescaped` recurs through, from the end of
  the text, and `CutsMean` reads it off along the cuts.

Induction over data is not available as a rule here; where a proof needs one it
takes the least counterexample (`LeastElement`, from the well-foundedness of `<`
on the naturals) and shows that there is none.

Assumed: the named `ASSUME`s on the constants (positive sizes, configurations and
responses of their type), which TLC evaluates on every run. Checked by TLC only:
`SequencesAreKeys`, whose table of numbers folds over a sequence, and
what must eventually happen (`Termination`, `EofEnds`, `CallReturns`,
`HangupEnds`, `EchoCompletes`), which needs fairness and ENABLED and is beyond
the prover, and with it the liveness that the refinements do not speak of: the
abstract specifications are safety specifications.

## 6. Not modelled, and why

- The Windows loops (`mode_oneshot.c` 338-480, `mode_interactive.c` 435-551 and
  701-762): the same loops for another build, on slices of the timeout and
  console handles.
- `cli_args.c` option syntax and messages: sequential; Main takes what it accepts.
  `run_oneshot_mode`'s own hex failure cannot happen behind it (125-131).
- `EAGAIN` after poll reported readiness, and allocation failure in the editor.
- Redrawing (`linenoiseRefreshLine`), hiding and showing the line, which move no
  state, and the blocking `linenoise()`, which no mode calls.
- `hsm_decoder.c`: tables of codes and the layout of the analysis. A breakdown
  too long for the buffer is cut by `snprintf`; only where fields end is modelled.
- `compat.c`: one-line wrappers.
- Two sessions at the same time on one history file: the last save wins by
  design of the rewriting; only sessions one after another are modelled.
- Time. The timeout of `socket_read_framed` is one of each read, so that a peer
  that sends single bytes is waited for longer than `timeout_ms`; `TimesOut` is
  possible whenever nothing has arrived.
- What `csi_num` is behind an overflow is the wrapping of the usual build, one of
  the outcomes that undefined behaviour allows; `SequencesAreKeys` does not say
  what key such a sequence is.

## 7. Plan

Every safety property that a run checks is proved, but for `SequencesAreKeys`.
What is left:

1. The safety half of `EchoCompletes` as an invariant: a bound on input and
   buffers under which the client and an echo server never wait on each other.
2. `TextLine` and `Transfer` for the options they leave out (`-X`; the completion
   on show as a line of its own).
3. The two known divergences as theorems about what does hold: a failed write on
   a pipe loses at most the last line; a terminal left raw is left so only by a
   signal between the test and `poll`.
4. `SequencesAreKeys` for any buffer, history and length of the number.
5. Windows: the slices of `mode_interactive.c` 701-762 against the promise of a
   signal noticed in one slice.
