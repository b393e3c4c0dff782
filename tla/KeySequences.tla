---------------------------- MODULE KeySequences ----------------------------
(***************************************************************************)
(* Escape sequences as a terminal sends them, each of them a whole, next   *)
(* to the editor that decodes them byte by byte: what stands between ESC   *)
(* (or the first byte of a Windows extended key) and the byte that ends    *)
(* the sequence is one key, and does what that key says.  One line is      *)
(* edited, until it is entered or aborted.                                 *)
(***************************************************************************)
EXTENDS LineEditor, TLC

CONSTANTS
    TextKeys,   \* the printable keys pressed outside a sequence
    MaxDigits   \* bound: digits of a number in a sequence

ASSUME SequenceAssumption == TextKeys \subseteq Printable /\ MaxDigits \in Nat

VARIABLE typed  \* history variable: the sequence begun last, as far as it
                \* has come; empty behind a key that is not in a sequence

seqVars == <<vars, typed>>

S == INSTANCE SequencesExt

SeqInit == Init /\ typed = <<>>

Press(k) ==
    /\ ret = 0
    /\ Normal /\ k \in Printable => k \in TextKeys
    /\ esc = "num" /\ IsDigit(k) => Len(typed) < 2 + MaxDigits
    /\ Feed(k) /\ KeepsDraft
    /\ typed' = CASE ~Normal               -> Append(typed, k)
                  [] Normal /\ ~Normal'    -> <<k>>
                  [] Normal /\ Normal'     -> <<>>

LineDone == ret # 0 /\ UNCHANGED seqVars

SeqNext == (\E k \in Keys : Press(k)) \/ LineDone

SeqSpec == SeqInit /\ [][SeqNext]_seqVars

-----------------------------------------------------------------------------
(* The beginnings of sequences, behind which more is to come.              *)
Open(s) ==
    \/ s \in {<<"ESC">>, <<"E0">>, <<"NUL">>, <<"ESC", "[">>, <<"ESC", "O">>}
    \/ /\ Len(s) > 2 /\ SubSeq(s, 1, 2) = <<"ESC", "[">>
       /\ \A i \in 3 .. Len(s) : IsDigit(s[i])

(* The keys, by the last byte of ESC [ x and ESC O x, by the number of     *)
(* ESC [ n ~, and by the second byte of a Windows extended key.            *)
ByLetter ==
    "A" :> "up" @@ "B" :> "down" @@ "C" :> "right" @@ "D" :> "left" @@
    "H" :> "home" @@ "F" :> "end"
ByNumber ==
    1 :> "home" @@ 3 :> "delete" @@ 4 :> "end" @@ 7 :> "home" @@ 8 :> "end"
ByCode ==
    "H" :> "up" @@ "P" :> "down" @@ "M" :> "right" @@ "K" :> "left" @@
    "G" :> "home" @@ "O" :> "end" @@ "S" :> "delete"

Number(s) ==
    S!FoldLeft(LAMBDA n, k : 10 * n + Digit(k), 0, SubSeq(s, 3, Len(s) - 1))

LookUp(table, x) == IF x \in DOMAIN table THEN table[x] ELSE "none"

KeyOf(s) ==
    LET last == s[Len(s)]
    IN  CASE s[1] # "ESC"                -> LookUp(ByCode, last)
          [] Len(s) = 3                  -> LookUp(ByLetter, last)
          [] Len(s) > 3 /\ last = "~"    -> LookUp(ByNumber, Number(s))
          [] OTHER                       -> "none"

(* A number too large for an int has no meaning that C gives it.           *)
Overflows(s) == Len(s) > 3 /\ Number(s) > IntMax

(* The line on either side of the cursor, and the lines of the history     *)
(* with the one being typed below them.                                    *)
Before == SubSeq(Line, 1, pos)
Behind == SubSeq(Line, pos + 1, len)
Entry(i) == IF i = Len(hist) THEN draft ELSE hist[i + 1]

Still == Before' = Before /\ Behind' = Behind /\ histIndex' = histIndex

Cursor(p) == Line' = Line /\ pos' = p /\ histIndex' = histIndex

Goes(i) ==
    /\ histIndex' = i
    /\ Before' = Clip(Entry(i)) /\ Behind' = <<>>

Acts(key) ==
    CASE key = "up"     -> IF histIndex = 0 THEN Still ELSE Goes(histIndex - 1)
      [] key = "down"   -> IF histIndex = Len(hist) THEN Still ELSE Goes(histIndex + 1)
      [] key = "left"   -> IF Before = <<>> THEN Still ELSE Cursor(pos - 1)
      [] key = "right"  -> IF Behind = <<>> THEN Still ELSE Cursor(pos + 1)
      [] key = "home"   -> Cursor(0)
      [] key = "end"    -> Cursor(Len(Line))
      [] key = "delete" -> IF Behind = <<>> THEN Still
                           ELSE /\ Before' = Before /\ Behind' = Tail(Behind)
                                /\ histIndex' = histIndex
      [] key = "none"   -> Still

(* A sequence does nothing before it is whole, then what the key it stands *)
(* for says and nothing if it stands for none, whatever came before it;    *)
(* the editor knows where it ends, so that exactly the bytes of the        *)
(* sequence are kept from the line; and no byte inside one enters or       *)
(* aborts the line or brings a completion up (linenoiseEditFeed).          *)
SequencesAreKeys ==
    [][typed' \notin {typed, <<>>} =>
          /\ esc' = "normal" <=> ~Open(typed')
          /\ ret' = 0 /\ ~inCompletion' /\ hist' = hist
          /\ ~Overflows(typed') =>
                Acts(IF Open(typed') THEN "none" ELSE KeyOf(typed'))]_seqVars
=============================================================================
