------------------------- MODULE OneShotRefinement -------------------------
(***************************************************************************)
(* One-shot mode implements Transfer, for the command lines without -T, -D *)
(* and -X (whose text is lost when memory is).                             *)
(***************************************************************************)
EXTENDS OneShot

Outcome ==
    IF pc # "done" THEN "running"
    ELSE IF exitCode # 0 THEN "failed"
    ELSE IF interrupted THEN "stopped" ELSE "ok"

T == INSTANCE Transfer WITH
        input <- Supplied, inputOver <- (stdinClosed \/ ~FromStdin),
        sent <- wire, halfClosed <- finSent,
        response <- srvSent, responseOver <- srvFin,
        printed <- out, outcome <- Outcome

(* Every step of the poll loop, of its peers and of the signal is a step   *)
(* of Transfer or changes nothing it sees.                                 *)
ImplementsTransfer == T!Spec
=============================================================================
