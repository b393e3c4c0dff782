------------------------------ MODULE Connect ------------------------------
(***************************************************************************)
(* socket_connect of socket_client.c: the addresses a host name resolves   *)
(* to are tried in order, each with a non-blocking connect that is waited  *)
(* for at most -t milliseconds, until one answers.                         *)
(*                                                                         *)
(* What each address would do is fixed when the name is resolved; whether  *)
(* connect answers at once or later, and which local calls fail, is not.   *)
(***************************************************************************)
EXTENDS Integers, Sequences, FiniteSets

CONSTANTS
    MaxAddrs,       \* bound: addresses getaddrinfo returns
    LocalFaults     \* whether socket, fcntl, connect, poll, getsockopt may fail

ASSUME ConnectAssumption == MaxAddrs \in Nat \ {0} /\ LocalFaults \in BOOLEAN

(* What is behind an address: a listener, a closed port, no route, or      *)
(* nothing that answers within the timeout.                                *)
Peer == {"accepts", "refuses", "unreachable", "silent"}

(* The negated SOCKET_ERR_ codes.                                          *)
DNS == 2
REFUSED == 3
TIMEOUT == 4
IO == 5

VARIABLES
    cpc,            \* where socket_connect is
    peers,          \* the addresses, as getaddrinfo listed them
    addrinfo,       \* that list: "none", "held" or "freed"
    at,             \* rp, as an index into peers
    sockfd,         \* the socket of this attempt, 0 when there is none
    fds,            \* every socket that is open, named by its address
    lastError,
    result,         \* what socket_connect returned: [fd, err]
    tried,          \* how every attempt so far ended
    interrupted     \* g_interrupted

connectVars == <<cpc, peers, addrinfo, at, sockfd, fds, lastError, result, tried>>

NoResult == [fd |-> 0, err |-> 0]

ConnectInit ==
    /\ cpc = "resolve"
    /\ peers = <<>> /\ addrinfo = "none" /\ at = 0
    /\ sockfd = 0 /\ fds = {}
    /\ lastError = 0 /\ result = NoResult
    /\ tried = <<>>
    /\ interrupted = FALSE

Resolved ==
    /\ cpc = "resolve"
    /\ \E n \in 1 .. MaxAddrs : peers' \in [1 .. n -> Peer]
    /\ addrinfo' = "held"
    /\ at' = 1 /\ lastError' = REFUSED
    /\ cpc' = "try"
    /\ UNCHANGED <<sockfd, fds, result, tried, interrupted>>

NotResolved ==
    /\ cpc = "resolve"
    /\ result' = [fd |-> 0, err |-> DNS]
    /\ cpc' = "returned"
    /\ UNCHANGED <<peers, addrinfo, at, sockfd, fds, lastError, tried,
                   interrupted>>

(***************************************************************************)
(* The ways an attempt ends.                                               *)
(***************************************************************************)
(* Close the socket, remember why, go on to the next address.              *)
Abandon_LeavesOpen(code) ==
    /\ sockfd' = 0 /\ UNCHANGED fds
    /\ lastError' = code /\ tried' = Append(tried, code)
    /\ at' = at + 1 /\ cpc' = "try"
    /\ UNCHANGED <<peers, addrinfo, result>>

Abandon_FirstError(code) ==
    /\ sockfd' = 0 /\ fds' = fds \ {sockfd}
    /\ lastError' = (IF at = 1 THEN code ELSE lastError)
    /\ tried' = Append(tried, code)
    /\ at' = at + 1 /\ cpc' = "try"
    /\ UNCHANGED <<peers, addrinfo, result>>

Abandon(code) ==
    /\ sockfd' = 0 /\ fds' = fds \ {sockfd}
    /\ lastError' = code /\ tried' = Append(tried, code)
    /\ at' = at + 1 /\ cpc' = "try"
    /\ UNCHANGED <<peers, addrinfo, result>>

(* Free the list and hand the socket over.                                 *)
Connected ==
    /\ result' = [fd |-> sockfd, err |-> 0]
    /\ addrinfo' = "freed" /\ cpc' = "returned"
    /\ UNCHANGED <<peers, at, sockfd, fds, lastError, tried>>

(***************************************************************************)
(* One attempt: socket, set_socket_nonblocking, connect, poll, SO_ERROR.   *)
(***************************************************************************)
Trying == cpc = "try" /\ at <= Len(peers)

NoSocket ==
    /\ Trying /\ LocalFaults
    /\ tried' = Append(tried, 0) /\ at' = at + 1
    /\ UNCHANGED <<cpc, peers, addrinfo, sockfd, fds, lastError, result,
                   interrupted>>

Socket ==
    /\ Trying
    /\ sockfd' = at /\ fds' = fds \cup {at}
    /\ cpc' = "connect"
    /\ UNCHANGED <<peers, addrinfo, at, lastError, result, tried,
                   interrupted>>

StaysBlocking ==
    /\ cpc = "connect" /\ LocalFaults
    /\ Abandon(IO) /\ UNCHANGED interrupted

ConnectsAtOnce ==
    /\ cpc = "connect" /\ peers[at] = "accepts"
    /\ Connected /\ UNCHANGED interrupted

(* connect fails at once: refused and unreachable alike are REFUSED.       *)
FailsAtOnce ==
    /\ cpc = "connect"
    /\ \/ peers[at] \in {"refuses", "unreachable"} /\ Abandon(REFUSED)
       \/ LocalFaults /\ Abandon(IO)
    /\ UNCHANGED interrupted

InProgress ==
    /\ cpc = "connect"
    /\ cpc' = "wait"
    /\ UNCHANGED <<peers, addrinfo, at, sockfd, fds, lastError, result, tried,
                   interrupted>>

WaitTimesOut_SameAgain ==
    /\ cpc = "wait" /\ peers[at] = "silent"
    /\ sockfd' = 0 /\ fds' = fds \ {sockfd}
    /\ cpc' = "try"
    /\ UNCHANGED <<peers, addrinfo, at, lastError, result, tried, interrupted>>

WaitTimesOut ==
    /\ cpc = "wait" /\ peers[at] = "silent"
    /\ Abandon(TIMEOUT)
    /\ UNCHANGED interrupted

WaitFails ==
    /\ cpc = "wait" /\ LocalFaults
    /\ Abandon(IO) /\ UNCHANGED interrupted

(* A signal, the first or a later one, makes poll fail with EINTR, which   *)
(* is taken for any other error.                                           *)
WaitInterrupted ==
    /\ cpc = "wait" /\ interrupted' = TRUE
    /\ Abandon(IO)

(* poll reports the outcome.  A silent peer has one when the kernel gives  *)
(* up before the timeout.                                                  *)
Answered ==
    /\ cpc = "wait"
    /\ cpc' = "check"
    /\ UNCHANGED <<peers, addrinfo, at, sockfd, fds, lastError, result, tried,
                   interrupted>>

Established_Unchecked ==
    /\ cpc = "check"
    /\ Connected /\ UNCHANGED interrupted

Established ==
    /\ cpc = "check" /\ peers[at] = "accepts"
    /\ Connected /\ UNCHANGED interrupted

AnswerIsError_TimeoutRefused ==
    /\ cpc = "check"
    /\ \/ peers[at] # "accepts" /\ Abandon(REFUSED)
       \/ LocalFaults /\ Abandon(IO)
    /\ UNCHANGED interrupted

AnswerIsError ==
    /\ cpc = "check"
    /\ \/ peers[at] \in {"refuses", "unreachable"} /\ Abandon(REFUSED)
       \/ peers[at] = "silent" /\ Abandon(TIMEOUT)
       \/ LocalFaults /\ Abandon(IO)
    /\ UNCHANGED interrupted

Exhausted ==
    /\ cpc = "try" /\ at > Len(peers)
    /\ result' = [fd |-> 0, err |-> lastError]
    /\ addrinfo' = "freed" /\ cpc' = "returned"
    /\ UNCHANGED <<peers, at, sockfd, fds, lastError, tried, interrupted>>

ConnectStep ==
    \/ Resolved \/ NotResolved
    \/ NoSocket \/ Socket \/ StaysBlocking
    \/ ConnectsAtOnce \/ FailsAtOnce \/ InProgress
    \/ WaitTimesOut \/ WaitFails \/ WaitInterrupted \/ Answered
    \/ Established \/ AnswerIsError \/ Exhausted

-----------------------------------------------------------------------------
Codes == {DNS, REFUSED, TIMEOUT, IO}

ConnectTypeOK ==
    /\ cpc \in {"resolve", "try", "connect", "wait", "check", "returned"}
    /\ peers \in Seq(Peer) /\ Len(peers) <= MaxAddrs
    /\ addrinfo \in {"none", "held", "freed"}
    /\ at \in 0 .. (MaxAddrs + 1)
    /\ sockfd \in 0 .. MaxAddrs /\ fds \subseteq 1 .. MaxAddrs
    /\ lastError \in Codes \cup {0}
    /\ result \in [fd : 0 .. MaxAddrs, err : Codes \cup {0}]
    /\ tried \in Seq(Codes \cup {0})
    /\ interrupted \in BOOLEAN

Returned == cpc = "returned"

(* Whatever fails and in whatever order, no attempt's socket outlives it:  *)
(* at most the current one is open, only the one handed over after the     *)
(* return, and the address list is held exactly while it is walked.        *)
NothingLeaks ==
    /\ fds \subseteq {sockfd} \ {0}
    /\ Returned => sockfd = result.fd
    /\ addrinfo = "held" <=> cpc \in {"try", "connect", "wait", "check"}

(* The caller gets a socket only to an address that accepts, and every     *)
(* address listed before that one has been tried and given up.             *)
SocketIsConnected ==
    Returned /\ result.fd > 0 =>
        /\ peers[result.fd] = "accepts"
        /\ Len(tried) = result.fd - 1

(* No address that accepts is passed over except for a local failure or a  *)
(* signal, which fails the poll; and the code reported is the one of the   *)
(* last attempt that had a socket, REFUSED if none had.                    *)
HadSocket == {i \in 1 .. Len(tried) : tried[i] # 0}

LastAttempt(i) == i \in HadSocket /\ \A j \in HadSocket : j <= i

CodeOfTheLast(code) ==
    IF HadSocket = {} THEN code = REFUSED
    ELSE \E i \in HadSocket : LastAttempt(i) /\ code = tried[i]

GivenUpFairly ==
    \A i \in 1 .. Len(tried) : peers[i] = "accepts" => tried[i] \in {0, IO}

FailureIsTheLast ==
    Returned /\ result.fd = 0 /\ addrinfo = "freed" =>
        Len(tried) = Len(peers) /\ GivenUpFairly /\ CodeOfTheLast(result.err)

(* The inductive invariant behind these: where the walk of the list is,    *)
(* and that lastError and tried agree about how it went so far.            *)
WalkInv ==
    /\ cpc = "resolve" => addrinfo = "none" /\ sockfd = 0 /\ tried = <<>>
    /\ addrinfo = "held" =>
          /\ at = Len(tried) + 1 /\ at <= Len(peers) + 1
          /\ GivenUpFairly /\ CodeOfTheLast(lastError)
          /\ sockfd = IF cpc = "try" THEN 0 ELSE at
          /\ cpc # "try" => at <= Len(peers)
    /\ Returned /\ result.fd > 0 => addrinfo = "freed"
=============================================================================
