------------------------------ MODULE Transfer ------------------------------
(***************************************************************************)
(* What one-shot mode promises without -T and -D: the user's bytes go out  *)
(* in order, the write side closes behind the last of them, the response   *)
(* comes out on stdout in order, and success is reported only when both    *)
(* directions are complete.                                                *)
(***************************************************************************)
EXTENDS Naturals, Sequences

CONSTANT Byte

VARIABLES
    input, inputOver,         \* what the user has supplied, and whether that is all
    sent, halfClosed,         \* what has gone out, and whether it has been closed
    response, responseOver,   \* what the server has said, and whether that is all
    printed,                  \* what stdout has got
    outcome                   \* "running", "ok", "stopped" by a signal or "failed"

vars == <<input, inputOver, sent, halfClosed, response, responseOver, printed,
          outcome>>

Init ==
    /\ input \in Seq(Byte) /\ inputOver \in BOOLEAN
    /\ sent = <<>> /\ halfClosed = FALSE
    /\ response = <<>> /\ responseOver = FALSE
    /\ printed = <<>> /\ outcome = "running"

(* t is s, extended by bytes of all that follow s there.                   *)
Advances(s, t, all) ==
    Len(s) <= Len(t) /\ Len(t) <= Len(all) /\ t = SubSeq(all, 1, Len(t))

Supply ==
    /\ ~inputOver
    /\ \E b \in Byte : input' = Append(input, b)
    /\ UNCHANGED <<inputOver, sent, halfClosed, response, responseOver, printed,
                   outcome>>

EndInput ==
    /\ ~inputOver /\ inputOver' = TRUE
    /\ UNCHANGED <<input, sent, halfClosed, response, responseOver, printed,
                   outcome>>

Transmit ==
    /\ ~halfClosed
    /\ sent' # sent /\ Advances(sent, sent', input)
    /\ UNCHANGED <<input, inputOver, halfClosed, response, responseOver, printed,
                   outcome>>

MayClose == inputOver /\ sent = input

HalfClose ==
    /\ MayClose /\ ~halfClosed /\ halfClosed' = TRUE
    /\ UNCHANGED <<input, inputOver, sent, response, responseOver, printed, outcome>>

Respond ==
    /\ ~responseOver
    /\ \E b \in Byte : response' = Append(response, b)
    /\ UNCHANGED <<input, inputOver, sent, halfClosed, responseOver, printed,
                   outcome>>

EndResponse ==
    /\ ~responseOver /\ responseOver' = TRUE
    /\ UNCHANGED <<input, inputOver, sent, halfClosed, response, printed, outcome>>

Deliver ==
    /\ printed' # printed /\ Advances(printed, printed', response)
    /\ UNCHANGED <<input, inputOver, sent, halfClosed, response, responseOver,
                   outcome>>

Succeed ==
    /\ halfClosed /\ responseOver /\ printed = response
    /\ outcome' = "ok"
    /\ UNCHANGED <<input, inputOver, sent, halfClosed, response, responseOver,
                   printed>>

(* A failure may leave part of a write on stdout.                          *)
Fail ==
    /\ outcome' = "failed"
    /\ Advances(printed, printed', response)
    /\ UNCHANGED <<input, inputOver, sent, halfClosed, response, responseOver>>

Stop ==
    /\ outcome' = "stopped"
    /\ halfClosed' \in {halfClosed, halfClosed \/ MayClose}
    /\ UNCHANGED <<input, inputOver, sent, response, responseOver, printed>>

Next ==
    /\ outcome = "running"
    /\ \/ Supply \/ EndInput \/ Transmit \/ HalfClose
       \/ Respond \/ EndResponse \/ Deliver
       \/ Succeed \/ Fail \/ Stop

Spec == Init /\ [][Next]_vars
=============================================================================
