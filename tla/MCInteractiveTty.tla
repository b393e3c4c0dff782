--------------------------- MODULE MCInteractiveTty ---------------------------
(* Small instances of InteractiveTty for TLC.                              *)
EXTENDS InteractiveTty

(* The last of them does not fit the buffer of fgets.                      *)
MCLines == {<<"exit">>, <<"help", "blank">>, <<"help", "text", "blank">>}
=============================================================================
