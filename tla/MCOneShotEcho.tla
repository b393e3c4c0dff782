--------------------------- MODULE MCOneShotEcho ---------------------------
(* Five bytes of input, which the client can take from stdin at once, over *)
(* a connection that holds one byte each way.                              *)
EXTENDS OneShotEcho

EchoConfigs ==
    {[kind |-> "stdin", data |-> <<0, 1, 1, 0, 1>>, addLen |-> FALSE,
      hasTerm |-> FALSE, decode |-> FALSE, hexOut |-> FALSE],
     [kind |-> "payload", data |-> <<0, 1, 1>>, addLen |-> TRUE,
      hasTerm |-> FALSE, decode |-> FALSE, hexOut |-> FALSE]}
=============================================================================
