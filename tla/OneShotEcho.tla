---------------------------- MODULE OneShotEcho ----------------------------
(***************************************************************************)
(* One-shot mode against a server that echoes what it reads, holds at most *)
(* Backlog bytes of its own and closes after the client's half-close.      *)
(* Neither side times out or fails and nobody sends a signal: what is left *)
(* is whether the two of them can get stuck on full buffers.               *)
(***************************************************************************)
EXTENDS OneShot

CONSTANT Backlog    \* bytes the server can have read and not yet echoed

ASSUME EchoAssumption == Backlog \in Nat \ {0} /\ LocalFaults = FALSE

EchoReads == srvRead - Len(srvSent) < Backlog /\ SrvReads

EchoReplies == Len(srvSent) < srvRead /\ SrvSends(wire[Len(srvSent) + 1])

EchoCloses ==
    finSent /\ srvRead = Len(wire) /\ Len(srvSent) = srvRead /\ SrvCloses

EchoStep == EchoReads \/ EchoReplies \/ EchoCloses

EchoNext == ClientStep \/ InputStep \/ EchoStep \/ Terminated

(* Each party keeps going: the client because no call of its loop waits    *)
(* when something is ready, the server and the producer of stdin by the    *)
(* assumption that they are there.                                         *)
EchoSpec ==
    Init /\ [][EchoNext]_vars
        /\ WF_vars(ClientStep) /\ WF_vars(InputStep) /\ WF_vars(EchoStep)

(* Whatever the sizes of the buffers in between, the exchange completes:   *)
(* exit code 0 with every byte of the input echoed to stdout, because the  *)
(* loop keeps reading the response while its own output is blocked.        *)
EchoCompletes == <>(pc = "done" /\ exitCode = 0 /\ out = Supplied)
=============================================================================
