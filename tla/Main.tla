-------------------------------- MODULE Main --------------------------------
(***************************************************************************)
(* main.c: the command line is parsed, the mode chosen, the connection     *)
(* made, the mode run; every path ends in a cleanup and an exit code.  The *)
(* modes themselves are the subject of OneShot and of the interactive      *)
(* modules; here they are what they return.                                *)
(***************************************************************************)
EXTENDS Connect

(* What parse_cli_args leaves: whether it accepted the line, -H or -V, -i, *)
(* and -x or -a.                                                           *)
Config == [valid : BOOLEAN, info : BOOLEAN, forced : BOOLEAN, payload : BOOLEAN]

VARIABLES
    stage,          \* "args", "connect", "session", "closing" or "exited"
    config, tty,    \* the command line; whether stdin is a terminal
    mode,           \* "none", "oneshot" or "interactive"
    platform,       \* platform_init without its platform_cleanup
    ran,            \* whether a session ran
    exitCode

mainVars == <<stage, config, tty, mode, platform, ran, exitCode>>
vars == <<connectVars, interrupted, mainVars>>

(* -i sets the mode while the line is parsed; main settles MODE_AUTO.      *)
ModeOf(c, t) ==
    IF c.forced \/ (t /\ ~c.payload) THEN "interactive" ELSE "oneshot"

Init ==
    /\ ConnectInit
    /\ stage = "args"
    /\ config \in Config /\ tty \in BOOLEAN
    /\ mode = "none" /\ platform = TRUE /\ ran = FALSE
    /\ exitCode = -1

Leave(code) ==
    /\ exitCode' = code
    /\ stage' = "exited" /\ platform' = FALSE

BadArgs ==
    /\ stage = "args" /\ ~config.valid
    /\ Leave(1)
    /\ UNCHANGED <<connectVars, interrupted, config, tty, mode, ran>>

HelpOrVersion ==
    /\ stage = "args" /\ config.valid /\ config.info
    /\ Leave(0)
    /\ UNCHANGED <<connectVars, interrupted, config, tty, mode, ran>>

ChooseMode ==
    /\ stage = "args" /\ config.valid /\ ~config.info
    /\ mode' = ModeOf(config, tty)
    /\ stage' = "connect"
    /\ UNCHANGED <<connectVars, interrupted, config, tty, platform, ran, exitCode>>

Connecting == stage = "connect" /\ ConnectStep /\ UNCHANGED mainVars

ConnectFailed ==
    /\ stage = "connect" /\ Returned /\ result.fd = 0
    /\ Leave(result.err)
    /\ UNCHANGED <<connectVars, interrupted, config, tty, mode, ran>>

ConnectDone ==
    /\ stage = "connect" /\ Returned /\ result.fd > 0
    /\ stage' = "session"
    /\ UNCHANGED <<connectVars, interrupted, config, tty, mode, platform, ran, exitCode>>

(* run_oneshot_mode ends with 0, 4 or 5, run_interactive_mode with 0 or 5; *)
(* both with 0 when g_interrupted was set before they began.               *)
SessionCodes ==
    IF interrupted THEN {0}
    ELSE IF mode = "oneshot" THEN {0, TIMEOUT, IO} ELSE {0, IO}

Session ==
    /\ stage = "session"
    /\ ran' = TRUE
    /\ exitCode' \in SessionCodes
    /\ stage' = "closing"
    /\ UNCHANGED <<connectVars, interrupted, config, tty, mode, platform>>

(* socket_close, then the cleanup.                                         *)
Close_Forgotten ==
    /\ stage = "closing"
    /\ Leave(exitCode)
    /\ UNCHANGED <<connectVars, interrupted, config, tty, mode, ran>>

Close ==
    /\ stage = "closing"
    /\ fds' = fds \ {result.fd}
    /\ Leave(exitCode)
    /\ UNCHANGED <<cpc, peers, addrinfo, at, sockfd, lastError, result, tried,
                   interrupted, config, tty, mode, ran>>

SignalArrives ==
    /\ stage \in {"args", "connect", "session"}
    /\ ~interrupted /\ interrupted' = TRUE
    /\ UNCHANGED <<connectVars, mainVars>>

Program ==
    \/ BadArgs \/ HelpOrVersion \/ ChooseMode
    \/ Connecting \/ ConnectFailed \/ ConnectDone
    \/ Session \/ Close

Exited == stage = "exited" /\ UNCHANGED vars

Next == Program \/ SignalArrives \/ Exited

Spec == Init /\ [][Next]_vars

(* Every wait of the connection phase is bounded by -t, and a session is   *)
(* one step here, so that the program is never held for ever.              *)
FairSpec == Spec /\ WF_vars(Program)

-----------------------------------------------------------------------------
TypeOK ==
    /\ ConnectTypeOK
    /\ stage \in {"args", "connect", "session", "closing", "exited"}
    /\ config \in Config /\ tty \in BOOLEAN
    /\ mode \in {"none", "oneshot", "interactive"}
    /\ platform \in BOOLEAN /\ ran \in BOOLEAN
    /\ exitCode \in Codes \cup {-1, 0, 1}

Exit == stage = "exited"

(* Every way out has closed the socket, freed the addresses and cleaned up.*)
EverythingReleased == Exit => fds = {} /\ addrinfo # "held" /\ ~platform

(* What a script learns from the exit code.  README.md:255-260 promises    *)
(* something else in two rows, and this states what main and               *)
(* socket_connect do.  0: a session ran, or -H or -V did.  1: the command  *)
(* line, 2: the name; neither touches the network.  3: no session, and the *)
(* last address for which there was a socket refused or has no route       *)
(* (README's row), or no address had a socket at all (not in README: a     *)
(* failing socket() is skipped and the first value of last_error stands).  *)
(* 4: a one-shot session, or that last address was silent; never an        *)
(* interactive session, whose write timeouts are 5 and read timeouts       *)
(* nothing (README: any read or write timeout).                            *)
ExitCodesTell ==
    Exit =>
        /\ exitCode = 0 => ran \/ (config.info /\ cpc = "resolve")
        /\ exitCode = 1 <=> ~config.valid
        /\ exitCode \in {1, DNS} => addrinfo = "none"
        /\ exitCode = REFUSED =>
              /\ ~ran
              /\ \A i \in HadSocket :
                    LastAttempt(i) => peers[i] \in {"refuses", "unreachable"}
        /\ exitCode = TIMEOUT =>
              IF ran THEN mode = "oneshot"
              ELSE \E i \in HadSocket : LastAttempt(i) /\ peers[i] = "silent"

(* The program always ends.                                                *)
Termination == <>Exit
=============================================================================
