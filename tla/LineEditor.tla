----------------------------- MODULE LineEditor -----------------------------
(***************************************************************************)
(* The line editor of linenoise.c: linenoiseEditStart, linenoiseEditFeed   *)
(* for every key and inside every escape sequence, with the history and    *)
(* the completions it shows.  The buffer is the C array with its NUL, not  *)
(* a string, so that every memmove is modelled with its offsets.           *)
(***************************************************************************)
EXTENDS History

CONSTANTS
    BufLen,         \* buflen: 65536 in the interactive mode
    MaxHist,        \* history_max_len
    Keys,           \* the keys pressed
    Candidates,     \* INTERACTIVE_COMPLETIONS
    Loaded,         \* the histories a session may start with
    IntMax          \* INT_MAX

Controls == {"NUL", "^A", "^C", "^D", "^E", "BS", "TAB", "^K", "^L", "ENTER",
             "^U", "ESC", "E0"}
NUL == "NUL"

Printable == Keys \ Controls

Clip(s) == SubSeq(s, 1, IF Len(s) < BufLen THEN Len(s) ELSE BufLen - 1)

ASSUME EditorAssumption ==
    /\ BufLen \in Nat \ {0} /\ MaxHist \in Nat \ {0} /\ IntMax \in Nat
    /\ Candidates \in Seq(Seq(Printable))
    /\ Loaded \subseteq Seq(Seq(Printable)) /\ \A h \in Loaded : WellKept(h, MaxHist)

VARIABLES
    mem, len, pos,              \* l->buf, l->len, l->pos
    esc, csiNum,                \* esc_state, csi_num
    hist, histIndex,            \* history, l->history_index
    saved,                      \* saved_line: <<>> when NULL, else <<the line>>
    inCompletion,
    comps, compIdx,             \* cached_completions and the one on show, as
                                \* indices of Candidates (0 for none)
    ret,                        \* what the last feed returned
    draft                       \* history variable: the line below the history

textVars == <<mem, len, pos>>
escVars  == <<esc, csiNum>>
histVars == <<hist, histIndex, saved>>
compVars == <<inCompletion, compIdx, comps>>
vars == <<textVars, escVars, histVars, compVars, ret, draft>>

Text(m, n) == [i \in 1 .. n |-> m[i - 1]]
Line == Text(mem, len)

(* The line as C's string functions see it: up to the first NUL.           *)
CString(m) ==
    LET end == CHOOSE i \in 0 .. (BufLen - 1) :
                    m[i] = NUL /\ \A j \in 0 .. (i - 1) : m[j] # NUL
    IN  Text(m, end)

(* memmove(buf + to, buf + from, n) on m.                                  *)
Moved(m, to, from, n) ==
    [i \in 0 .. (BufLen - 1) |-> IF i \in to .. (to + n - 1) THEN m[i - to + from] ELSE m[i]]

(* linenoiseEditStart.                                                     *)
Start(h) ==
    /\ mem' = [mem EXCEPT ![0] = NUL] /\ len' = 0 /\ pos' = 0
    /\ esc' = "normal" /\ csiNum' = 0
    /\ hist' = h /\ histIndex' = Len(h) /\ saved' = <<>>
    /\ inCompletion' = FALSE /\ compIdx' = 0 /\ comps' = {}

Init ==
    /\ mem = [i \in 0 .. (BufLen - 1) |-> NUL] /\ len = 0 /\ pos = 0
    /\ esc = "normal" /\ csiNum = 0
    /\ hist \in Loaded
    /\ histIndex = Len(hist) /\ saved = <<>>
    /\ inCompletion = FALSE /\ compIdx = 0 /\ comps = {}
    /\ ret = 0 /\ draft = <<>>

(***************************************************************************)
(* What the keys do to the text.                                           *)
(***************************************************************************)
(* memcpy another line over the buffer, cursor at its end.                 *)
Shows(line) ==
    LET s == Clip(line) IN
    /\ mem' = [i \in 0 .. (BufLen - 1) |->
                 IF i < Len(s) THEN s[i + 1] ELSE IF i = Len(s) THEN NUL ELSE mem[i]]
    /\ len' = Len(s) /\ pos' = Len(s)

Up_SavesAlways ==
    IF hist # <<>> /\ histIndex > 0
    THEN /\ saved' = <<CString(mem)>>
         /\ histIndex' = histIndex - 1
         /\ Shows(hist[histIndex])
         /\ UNCHANGED hist
    ELSE UNCHANGED <<textVars, histVars>>

Up ==
    IF hist # <<>> /\ histIndex > 0
    THEN /\ saved' = IF histIndex = Len(hist) THEN <<CString(mem)>> ELSE saved
         /\ histIndex' = histIndex - 1
         /\ Shows(hist[histIndex])
         /\ UNCHANGED hist
    ELSE UNCHANGED <<textVars, histVars>>

Down ==
    IF hist # <<>> /\ histIndex < Len(hist)
    THEN /\ histIndex' = histIndex + 1
         /\ Shows(IF histIndex + 1 < Len(hist) THEN hist[histIndex + 2]
                  ELSE IF saved = <<>> THEN <<>> ELSE saved[1])
         /\ UNCHANGED <<hist, saved>>
    ELSE UNCHANGED <<textVars, histVars>>

MoveTo(p) == pos' = p /\ UNCHANGED <<mem, len, histVars>>

(* The byte behind the cursor, and the NUL, move down by one.              *)
Delete_KeepsLen ==
    /\ IF pos < len
       THEN mem' = Moved(mem, pos, pos + 1, len - pos) /\ len' = len
       ELSE UNCHANGED <<mem, len>>
    /\ UNCHANGED <<pos, histVars>>

Delete ==
    /\ IF pos < len
       THEN mem' = Moved(mem, pos, pos + 1, len - pos) /\ len' = len - 1
       ELSE UNCHANGED <<mem, len>>
    /\ UNCHANGED <<pos, histVars>>

Does(what) ==
    \/ what = "up"     /\ Up
    \/ what = "down"   /\ Down
    \/ what = "left"   /\ MoveTo(IF pos > 0 THEN pos - 1 ELSE pos)
    \/ what = "right"  /\ MoveTo(IF pos < len THEN pos + 1 ELSE pos)
    \/ what = "home"   /\ MoveTo(0)
    \/ what = "end"    /\ MoveTo(len)
    \/ what = "delete" /\ Delete
    \/ what = "none"   /\ UNCHANGED <<textVars, histVars>>

(***************************************************************************)
(* Escape sequences.                                                       *)
(***************************************************************************)
Arrow(k) ==
    CASE k = "A" -> "up"    [] k = "B" -> "down" [] k = "C" -> "right"
      [] k = "D" -> "left"  [] k = "H" -> "home" [] k = "F" -> "end"
      [] OTHER -> "none"

(* The second byte of a Windows extended key.                              *)
Extended(k) ==
    CASE k = "H" -> "up"    [] k = "P" -> "down"  [] k = "K" -> "left"
      [] k = "M" -> "right" [] k = "G" -> "home"  [] k = "O" -> "end"
      [] k = "S" -> "delete" [] OTHER -> "none"

Tilde(n) ==
    CASE n = 3 -> "delete" [] n \in {1, 7} -> "home" [] n \in {4, 8} -> "end"
      [] OTHER -> "none"

DigitKeys == <<"0", "1", "2", "3", "4", "5", "6", "7", "8", "9">>
IsDigit(k) == \E d \in 0 .. 9 : k = DigitKeys[d + 1]
Digit(k)   == CHOOSE d \in 0 .. 9 : k = DigitKeys[d + 1]

(* An int that overflows, in a build that lets it wrap.                    *)
AsInt(n) == ((n + IntMax + 1) % (2 * (IntMax + 1))) - (IntMax + 1)

Continues == ret' = 0 /\ UNCHANGED compVars

AfterEsc(k) ==
    /\ esc = "esc"
    /\ esc' = CASE k = "[" -> "csi" [] k = "O" -> "ss3" [] OTHER -> "normal"
    /\ Continues /\ UNCHANGED <<textVars, histVars, csiNum>>

AfterCsi_KeepsNum(k) ==
    /\ esc = "csi"
    /\ IF IsDigit(k) THEN esc' = "num" /\ csiNum' = AsInt(csiNum * 10 + Digit(k))
                     ELSE esc' = "normal" /\ UNCHANGED csiNum
    /\ Does(Arrow(k))
    /\ Continues

AfterCsi(k) ==
    /\ esc = "csi"
    /\ IF IsDigit(k) THEN esc' = "num" /\ csiNum' = Digit(k)
                     ELSE esc' = "normal" /\ UNCHANGED csiNum
    /\ Does(Arrow(k))
    /\ Continues

AfterNum(k) ==
    /\ esc = "num"
    /\ IF IsDigit(k)
       THEN csiNum' = AsInt(csiNum * 10 + Digit(k)) /\ UNCHANGED esc
       ELSE esc' = "normal" /\ UNCHANGED csiNum
    /\ Does(IF k = "~" THEN Tilde(csiNum) ELSE "none")
    /\ Continues

AfterSs3(k) ==
    /\ esc = "ss3" /\ esc' = "normal"
    /\ Does(Arrow(k))
    /\ Continues /\ UNCHANGED csiNum

AfterExt(k) ==
    /\ esc = "ext" /\ esc' = "normal"
    /\ Does(Extended(k))
    /\ Continues /\ UNCHANGED csiNum

(***************************************************************************)
(* Keys outside escape sequences.  Every one but Tab ends a completion.    *)
(***************************************************************************)
Normal == esc = "normal"

LeavesCompletion_Stays == UNCHANGED compVars
LeavesCompletion ==
    /\ inCompletion' = FALSE
    /\ comps' = IF inCompletion THEN {} ELSE comps
    /\ compIdx' = IF inCompletion THEN 0 ELSE compIdx

Escape(k) ==
    /\ Normal /\ k \in {"ESC", "NUL", "E0"}
    /\ esc' = IF k = "ESC" THEN "esc" ELSE "ext"
    /\ LeavesCompletion /\ ret' = 0
    /\ UNCHANGED <<textVars, histVars, csiNum>>

(* interactive_completion_callback: the candidates the line begins.        *)
Completions(line) ==
    {i \in 1 .. Len(Candidates) :
        Len(line) <= Len(Candidates[i]) /\ SubSeq(Candidates[i], 1, Len(line)) = line}

(* Tab goes through them in order, and round again.                        *)
NextOf(cs, i) ==
    LET later == {j \in cs : j > i}
        from  == IF later = {} THEN cs ELSE later
    IN  CHOOSE j \in from : \A k \in from : j <= k

Complete(k) ==
    /\ Normal /\ k = "TAB"
    /\ comps' = IF inCompletion THEN comps ELSE Completions(CString(mem))
    /\ IF comps' = {}
       THEN UNCHANGED <<textVars, inCompletion, compIdx>>
       ELSE /\ inCompletion' = TRUE
            /\ compIdx' = NextOf(comps', IF inCompletion THEN compIdx ELSE 0)
            /\ Shows(Candidates[compIdx'])
    /\ ret' = 0
    /\ UNCHANGED <<escVars, histVars>>

Enter(k) ==
    /\ Normal /\ k = "ENTER"
    /\ mem' = [mem EXCEPT ![len] = NUL]
    /\ LeavesCompletion /\ ret' = 1
    /\ UNCHANGED <<len, pos, escVars, histVars>>

Backspace(k) ==
    /\ Normal /\ k = "BS"
    /\ IF pos > 0
       THEN /\ mem' = Moved(mem, pos - 1, pos, len - pos + 1)
            /\ pos' = pos - 1 /\ len' = len - 1
       ELSE UNCHANGED textVars
    /\ LeavesCompletion /\ ret' = 0
    /\ UNCHANGED <<escVars, histVars>>

Emptied == mem' = [mem EXCEPT ![0] = NUL] /\ len' = 0 /\ pos' = 0

(* Ctrl+C ends the session, whatever has been typed; Ctrl+D does on an     *)
(* empty line, and deletes otherwise; Ctrl+U empties the line.             *)
CtrlC(k) ==
    /\ Normal /\ k = "^C"
    /\ Emptied
    /\ LeavesCompletion /\ ret' = -1
    /\ UNCHANGED <<escVars, histVars>>

CtrlD(k) ==
    /\ Normal /\ k = "^D"
    /\ IF len = 0 THEN ret' = -1 /\ UNCHANGED <<textVars, histVars>>
                  ELSE ret' = 0 /\ Delete
    /\ LeavesCompletion
    /\ UNCHANGED escVars

CtrlU(k) ==
    /\ Normal /\ k = "^U"
    /\ Emptied
    /\ LeavesCompletion /\ ret' = 0
    /\ UNCHANGED <<escVars, histVars>>

CtrlK(k) ==
    /\ Normal /\ k = "^K"
    /\ mem' = [mem EXCEPT ![pos] = NUL] /\ len' = pos
    /\ LeavesCompletion /\ ret' = 0
    /\ UNCHANGED <<pos, escVars, histVars>>

CtrlAEL(k) ==
    /\ Normal /\ k \in {"^A", "^E", "^L"}
    /\ Does(CASE k = "^A" -> "home" [] k = "^E" -> "end" [] OTHER -> "none")
    /\ LeavesCompletion /\ ret' = 0
    /\ UNCHANGED escVars

HasRoom_OneTooMany == len < BufLen
HasRoom == len < BufLen - 1

(* A printable character: the text behind the cursor (without its NUL)     *)
(* moves up, the character goes in, the NUL behind the last.               *)
Insert(k) ==
    /\ Normal /\ k \in Printable
    /\ IF HasRoom
       THEN /\ mem' = [Moved(mem, pos + 1, pos, len - pos) EXCEPT ![pos] = k,
                                                                  ![len + 1] = NUL]
            /\ pos' = pos + 1 /\ len' = len + 1
       ELSE UNCHANGED textVars
    /\ LeavesCompletion /\ ret' = 0
    /\ UNCHANGED <<escVars, histVars>>

Feed(k) ==
    \/ AfterEsc(k) \/ AfterCsi(k) \/ AfterNum(k) \/ AfterSs3(k) \/ AfterExt(k)
    \/ Escape(k) \/ Complete(k) \/ Enter(k) \/ Backspace(k)
    \/ CtrlC(k) \/ CtrlD(k) \/ CtrlU(k) \/ CtrlK(k) \/ CtrlAEL(k) \/ Insert(k)

(* After Enter the line is obeyed, goes into the history, and the editor   *)
(* starts afresh.                                                          *)
Restart ==
    /\ ret = 1
    /\ Start(HistoryAdd(hist, CString(mem), MaxHist))
    /\ ret' = 0

Step == (ret = 0 /\ \E k \in Keys : Feed(k)) \/ Restart

Over == ret = -1 /\ UNCHANGED vars

KeepsDraft == draft' = IF histIndex' = Len(hist') THEN Text(mem', len') ELSE draft

Next ==
    \/ Step /\ KeepsDraft
    \/ Over

Spec == Init /\ [][Next]_vars

-----------------------------------------------------------------------------
TypeOK ==
    /\ mem \in [0 .. (BufLen - 1) -> Printable \cup {NUL}]
    /\ len \in Nat /\ pos \in Nat
    /\ esc \in {"normal", "esc", "csi", "num", "ss3", "ext"}
    /\ csiNum \in Int
    /\ hist \in Seq(Seq(Printable)) /\ histIndex \in Nat
    /\ saved \in Seq(Seq(Printable)) /\ Len(saved) <= 1
    /\ inCompletion \in BOOLEAN
    /\ comps \subseteq 1 .. Len(Candidates) /\ compIdx \in 0 .. Len(Candidates)
    /\ ret \in {-1, 0, 1} /\ draft \in Seq(Printable)

(* No key sequence takes the cursor or the text out of the buffer, and the *)
(* array is a C string of exactly len characters: strlen, strdup and       *)
(* strcmp agree with l->len.                                               *)
BufferSound ==
    /\ pos <= len /\ len < BufLen
    /\ mem[len] = NUL /\ \A i \in 0 .. (len - 1) : mem[i] # NUL

(* The index into the history stays inside it; the history never exceeds   *)
(* its bound and holds neither empty lines nor repetitions.                *)
HistorySound == histIndex <= Len(hist) /\ WellKept(hist, MaxHist)

(* While a completion is offered it is the one on show, and Tab can go on  *)
(* to the next: the division by their number never meets an empty list.    *)
CompletionSound ==
    inCompletion =>
        /\ Normal /\ compIdx \in comps
        /\ Line = Clip(Candidates[compIdx]) /\ pos = len

(* What was being typed when Up was first pressed is there again when Down *)
(* comes back below the history, whatever was done to the lines between.   *)
DraftComesBack ==
    [][histIndex < Len(hist) /\ histIndex' = Len(hist') /\ ret # 1
         => Text(mem', len') = draft]_vars

(* What makes it so, and what a proof needs to know of draft: it is the    *)
(* line itself below the history, and the saved line above.                *)
DraftInv ==
    /\ Len(draft) < BufLen
    /\ IF histIndex = Len(hist) THEN draft = Line ELSE saved = <<draft>>

Z == INSTANCE TextLine WITH
        Char <- Printable, Capacity <- BufLen - 1,
        left <- SubSeq(Line, 1, pos), right <- SubSeq(Line, pos + 1, len)

(* With its cursor, the array behaves as a line of text should.            *)
ImplementsTextLine == Z!Spec
=============================================================================
