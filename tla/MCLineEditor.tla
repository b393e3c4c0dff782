---------------------------- MODULE MCLineEditor ----------------------------
(* A buffer of a few characters, a short history, and completions one of   *)
(* which is longer than the buffer.                                        *)
EXTENDS LineEditor

(* Every key, with the arrows as E0 H, E0 P and E0 K.                      *)
EditKeys == {"H", "P", "K", "E0", "BS", "^D", "^U", "^K", "^A", "^E", "^L", "^C", "ENTER",
             "TAB"}
EditCandidates == << <<"H", "K">>, <<"H">>, <<"K", "P", "H", "H">> >>
EditLoaded     == {HistoryLoad(<<>>, << <<"K">>, <<"K">>, <<"H", "P">> >>, MaxHist, 2)}
=============================================================================
