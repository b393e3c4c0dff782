--------------------------- MODULE MCKeySequences ---------------------------
(* Every kind of sequence, whole, cut short and meaningless, on lines of   *)
(* up to two characters, with a history of two lines or none.              *)
EXTENDS KeySequences

SequenceKeys == {"ESC", "NUL", "E0", "[", "O", "A", "B", "C", "D", "H", "F", "P", "K",
                 "1", "3", "~", "M", "G", "S", "BS", "TAB", "ENTER", "^C"}
SequenceText       == {"A", "1"}
SequenceCandidates == << <<"1", "A">> >>
SequenceLoaded     == {<<>>, << <<"A">>, <<"1">> >>}
=============================================================================
