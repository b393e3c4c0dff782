---------------------------- MODULE HistoryFile ----------------------------
(***************************************************************************)
(* The history list in memory and its file (linenoise.c).  Saving is not   *)
(* one step: fopen with "w" empties the file, then the lines go into it    *)
(* one after the other.  A crash leaves what was written until then,       *)
(* perhaps with half a line at the end; a write that fails loses some of   *)
(* the text, and the save goes on behind the gap as if nothing had         *)
(* happened.                                                               *)
(***************************************************************************)
EXTENDS History

CONSTANTS
    MaxHist,    \* linenoiseHistorySetMaxLen: 500
    ReadMax     \* what fgets takes at a time: 4095

ASSUME HistoryAssumption == MaxHist \in Nat \ {0} /\ ReadMax \in Nat \ {0}

VARIABLES
    hist,       \* history[0 .. history_len)
    file,       \* the lines of the file
    midLine,    \* whether the next write goes on in the last of them
    unsaved,    \* what linenoiseHistorySave still has to write
    writable,   \* whether the file can be opened for writing
    remembered, \* history: the list of the last save that was begun,
    cut,        \* whether that one is not finished, and
    damaged     \* whether one of its writes failed

fileVars == <<hist, file, midLine, unsaved, writable, remembered, cut, damaged>>

HistoryInit ==
    /\ hist = <<>> /\ file = <<>> /\ midLine = FALSE /\ unsaved = <<>>
    /\ writable \in BOOLEAN
    /\ remembered = <<>> /\ cut = FALSE /\ damaged = FALSE

(* linenoiseHistoryLoad into the empty list of a new process.              *)
Load ==
    /\ hist' = HistoryLoad(<<>>, file, MaxHist, ReadMax)
    /\ UNCHANGED <<file, midLine, unsaved, writable, remembered, cut, damaged>>

Record(line) ==
    /\ hist' = HistoryAdd(hist, line, MaxHist)
    /\ UNCHANGED <<file, midLine, unsaved, writable, remembered, cut, damaged>>

Forget ==
    /\ hist' = <<>>
    /\ UNCHANGED <<file, midLine, unsaved, writable, remembered, cut, damaged>>

SaveOpens_Appending ==
    /\ unsaved' = hist /\ remembered' = hist /\ cut' = TRUE /\ damaged' = FALSE
    /\ UNCHANGED <<hist, file, midLine, writable>>

SaveOpens ==
    /\ file' = <<>> /\ midLine' = FALSE
    /\ unsaved' = hist /\ remembered' = hist /\ cut' = TRUE /\ damaged' = FALSE
    /\ UNCHANGED <<hist, writable>>

(* The file with more text at its end.                                     *)
Longer(text) ==
    IF midLine THEN [file EXCEPT ![Len(file)] = @ \o text] ELSE Append(file, text)

Put(text, newline) == file' = Longer(text) /\ midLine' = ~newline

SaveWrites ==
    /\ unsaved # <<>>
    /\ Put(Head(unsaved), TRUE) /\ unsaved' = Tail(unsaved)
    /\ UNCHANGED <<hist, writable, remembered, cut, damaged>>

(* A write of the stream's buffer fails, in fprintf or in fclose, and what *)
(* was in it is lost: of this line the middle, the end with the newline,   *)
(* or all.                                                                 *)
SaveLoses ==
    LET line == Head(unsaved)
    IN  /\ unsaved # <<>> /\ unsaved' = Tail(unsaved)
        /\ damaged' = TRUE
        /\ \E a \in 0 .. Len(line) :
              \/ \E b \in (a + 1) .. Len(line) :
                    Put(SubSeq(line, 1, a) \o SubSeq(line, b + 1, Len(line)), TRUE)
              \/ a > 0 /\ Put(SubSeq(line, 1, a), FALSE)
              \/ a = 0 /\ UNCHANGED <<file, midLine>>
        /\ UNCHANGED <<hist, writable, remembered, cut>>

SaveCloses ==
    /\ unsaved = <<>>
    /\ cut' = FALSE /\ midLine' = FALSE
    /\ UNCHANGED <<hist, file, unsaved, writable, remembered, damaged>>

(* The process is gone, and with it the list and the rest of the save.     *)
Lost ==
    /\ hist' = <<>> /\ unsaved' = <<>>
    /\ \/ UNCHANGED file
       \/ /\ unsaved # <<>>
          /\ \E n \in 1 .. (Len(Head(unsaved)) - 1) :
                file' = Longer(SubSeq(Head(unsaved), 1, n))
    /\ midLine' = FALSE
    /\ UNCHANGED <<writable, remembered, cut, damaged>>
=============================================================================
