------------------------- MODULE MCInteractivePipe -------------------------
(* Scripts of up to five tokens on a connection that holds two each way.   *)
EXTENDS InteractivePipe

MCScripts ==
    {<<"other", "newline", "exit", "newline", "other">>,
     <<"blank", "exit", "other", "newline", "exit">>,
     <<"other", "newline", "other">>}

-----------------------------------------------------------------------------
(* What the documents say of the program, and the code does not do.        *)

Done == pc = "done"

(* mode_interactive.h:40: 5 on network socket I/O error.  The write of a   *)
(* last line without a newline may fail, and the session ends with 0.      *)
FailedWriteIsFive == Done /\ failed \cap {"io", "timeout"} # {} => exitCode # 0
=============================================================================
