-------------------------- MODULE LineEditorProofs --------------------------
(***************************************************************************)
(* What holds of the line editor for every size of its buffer and of its   *)
(* history, every set of keys and every list of completions.               *)
(***************************************************************************)
EXTENDS LineEditor, TLAPS, SequenceTheorems, WellFoundedInduction

PLine == Seq(Printable)

(* The invariant, by the part of the state it is about.                    *)
TextOK ==
    /\ mem \in [0 .. (BufLen - 1) -> Printable \cup {NUL}]
    /\ len \in Nat /\ pos \in Nat
    /\ BufferSound

HistOK ==
    /\ hist \in Seq(PLine) /\ histIndex \in Nat
    /\ saved \in Seq(PLine) /\ Len(saved) <= 1
    /\ HistorySound

EscOK ==
    /\ esc \in {"normal", "esc", "csi", "num", "ss3", "ext"}
    /\ csiNum \in Int

CompOK ==
    /\ inCompletion \in BOOLEAN
    /\ comps \subseteq 1 .. Len(Candidates) /\ compIdx \in 0 .. Len(Candidates)
    /\ CompletionSound

EditorInv ==
    /\ TextOK /\ HistOK /\ EscOK /\ CompOK
    /\ ret \in {-1, 0, 1} /\ draft \in PLine
    /\ DraftInv

LEMMA Constants ==
    /\ BufLen \in Nat /\ BufLen >= 1 /\ MaxHist \in Nat /\ MaxHist >= 1
    /\ Candidates \in Seq(PLine) /\ NUL \notin Printable
BY EditorAssumption DEF PLine, Printable, Controls, NUL

(***************************************************************************)
(* Lemmas about the operators.                                             *)
(***************************************************************************)
LEMMA TextOf ==
    ASSUME NEW m \in [0 .. (BufLen - 1) -> Printable \cup {NUL}], NEW n \in Nat,
           n < BufLen, \A i \in 0 .. (n - 1) : m[i] # NUL
    PROVE  Text(m, n) \in PLine /\ Len(Text(m, n)) = n
<1>1. \A i \in 1 .. n : i - 1 \in 0 .. (BufLen - 1) /\ m[i - 1] \in Printable
  BY Constants
<1> QED
  BY <1>1 DEF Text, PLine

LEMMA TextType ==
    ASSUME TextOK
    PROVE  Line \in PLine /\ Len(Line) = len
BY TextOf DEF TextOK, BufferSound, Line

(* strdup and strcmp see the whole line and nothing behind it.             *)
LEMMA StringIsLine == TextOK => CString(mem) = Line
<1> SUFFICES ASSUME TextOK PROVE CString(mem) = Line
  OBVIOUS
<1> DEFINE Ends(i) == mem[i] = NUL /\ \A j \in 0 .. (i - 1) : mem[j] # NUL
<1>1. len \in 0 .. (BufLen - 1) /\ Ends(len)
  BY Constants DEF TextOK, BufferSound
<1>2. \A i \in 0 .. (BufLen - 1) : Ends(i) => i = len
  BY <1>1
<1>3. (CHOOSE i \in 0 .. (BufLen - 1) : Ends(i)) = len
  BY <1>1, <1>2
<1> QED
  BY <1>3 DEF CString, Line

LEMMA ClipType ==
    ASSUME NEW s \in PLine
    PROVE  /\ Clip(s) \in PLine /\ Len(Clip(s)) < BufLen
           /\ Len(s) < BufLen => Clip(s) = s
<1>1. BufLen - 1 \in Nat /\ BufLen \in Nat
  BY Constants
<1>2. CASE Len(s) < BufLen
  <2>1. Clip(s) = SubSeq(s, 1, Len(s))
    BY <1>2 DEF Clip
  <2>2. SubSeq(s, 1, Len(s)) = s
    BY DEF PLine
  <2> QED
    BY <1>2, <2>1, <2>2
<1>3. CASE ~(Len(s) < BufLen)
  <2>1. Clip(s) = SubSeq(s, 1, BufLen - 1) /\ BufLen - 1 <= Len(s)
    BY <1>1, <1>3 DEF Clip, PLine
  <2>2. \A i \in 1 .. (BufLen - 1) : s[i] \in Printable
    BY <1>1, <2>1 DEF PLine
  <2>3. SubSeq(s, 1, BufLen - 1) \in PLine /\ Len(SubSeq(s, 1, BufLen - 1)) = BufLen - 1
    BY <1>1, <2>1, <2>2, SubSeqProperties DEF PLine
  <2> QED
    BY <1>1, <1>3, <2>1, <2>3
<1> QED
  BY <1>2, <1>3

(* Showing another line leaves it, cut to the buffer, with the cursor      *)
(* behind it.                                                              *)
LEMMA ShowsKeeps ==
    ASSUME TextOK, NEW line \in PLine, Shows(line)
    PROVE  TextOK' /\ Line' = Clip(line) /\ pos' = len' /\ len' < BufLen
<1> DEFINE s == Clip(line)
<1>1. s \in PLine /\ Len(s) < BufLen /\ Len(s) \in Nat
  BY ClipType DEF PLine
<1>2. \A i \in 1 .. Len(s) : s[i] \in Printable
  BY <1>1 DEF PLine
<1>3. /\ mem' = [i \in 0 .. (BufLen - 1) |->
                   IF i < Len(s) THEN s[i + 1] ELSE IF i = Len(s) THEN NUL ELSE mem[i]]
      /\ len' = Len(s) /\ pos' = Len(s)
  BY DEF Shows
<1> HIDE DEF s
<1>4. mem' \in [0 .. (BufLen - 1) -> Printable \cup {NUL}]
  BY <1>1, <1>2, <1>3, Constants DEF TextOK
<1>5. TextOK'
  BY <1>1, <1>2, <1>3, <1>4, Constants DEF TextOK, BufferSound
<1>6. Line' = [i \in 1 .. Len(s) |-> s[i]]
  BY <1>1, <1>3, Constants DEF Line, Text
<1>7. s = [i \in 1 .. Len(s) |-> s[i]]
  BY <1>1 DEF PLine
<1>8. Line' = s
  BY <1>6, <1>7
<1> QED
  BY <1>1, <1>3, <1>5, <1>8 DEF s

(* Adding a line keeps a well-kept history well kept.                      *)
LEMMA HistoryAddKeeps ==
    ASSUME NEW h \in Seq(PLine), NEW line \in PLine, WellKept(h, MaxHist)
    PROVE  /\ HistoryAdd(h, line, MaxHist) \in Seq(PLine)
           /\ WellKept(HistoryAdd(h, line, MaxHist), MaxHist)
<1> DEFINE kept == IF Len(h) >= MaxHist THEN Tail(h) ELSE h
<1>1. CASE line = <<>> \/ (h # <<>> /\ Last(h) = line)
  BY <1>1 DEF HistoryAdd
<1>2. CASE ~(line = <<>> \/ (h # <<>> /\ Last(h) = line))
  <2>1. HistoryAdd(h, line, MaxHist) = Append(kept, line)
    BY <1>2 DEF HistoryAdd
  <2>2. /\ kept \in Seq(PLine) /\ Len(kept) < MaxHist /\ Len(kept) \in Nat
        /\ \E k \in {0, 1} : Len(kept) = Len(h) - k
                             /\ \A i \in 1 .. Len(kept) : kept[i] = h[i + k]
    <3>1. CASE Len(h) >= MaxHist
      <4>1. h # <<>> /\ kept = Tail(h) /\ Len(h) = MaxHist
        BY <3>1, Constants DEF WellKept
      <4> QED
        BY <4>1, Constants
    <3>2. CASE ~(Len(h) >= MaxHist)
      BY <3>2, Constants
    <3> QED
      BY <3>1, <3>2
  <2>3. PICK k \in {0, 1} : Len(kept) = Len(h) - k
                            /\ \A i \in 1 .. Len(kept) : kept[i] = h[i + k]
    BY <2>2
  <2> HIDE DEF kept
  <2> DEFINE g == Append(kept, line)
  <2>4. /\ g \in Seq(PLine) /\ Len(g) = Len(kept) + 1 /\ g[Len(kept) + 1] = line
        /\ \A i \in 1 .. Len(kept) : g[i] = kept[i]
    BY <2>2
  <2> HIDE DEF g
  <2>5. \A i \in 1 .. Len(g) : g[i] # <<>>
    <3> SUFFICES ASSUME NEW i \in 1 .. Len(g) PROVE g[i] # <<>>
      OBVIOUS
    <3>1. CASE i = Len(kept) + 1
      BY <1>2, <2>4, <3>1
    <3>2. CASE i # Len(kept) + 1
      <4>1. i \in 1 .. Len(kept) /\ i + k \in 1 .. Len(h)
        BY <2>2, <2>3, <2>4, <3>2
      <4> QED
        BY <2>3, <2>4, <4>1 DEF WellKept
    <3> QED
      BY <3>1, <3>2
  <2>6. \A i \in 1 .. (Len(g) - 1) : g[i] # g[i + 1]
    <3> SUFFICES ASSUME NEW i \in 1 .. (Len(g) - 1) PROVE g[i] # g[i + 1]
      OBVIOUS
    <3>1. i \in 1 .. Len(kept) /\ g[i] = h[i + k] /\ i + k \in 1 .. Len(h)
      BY <2>2, <2>3, <2>4
    <3>2. CASE i = Len(kept)
      <4>1. i + k = Len(h) /\ h # <<>> /\ g[i + 1] = line
        BY <2>2, <2>3, <2>4, <3>1, <3>2
      <4> QED
        BY <1>2, <3>1, <4>1 DEF Last
    <3>3. CASE i # Len(kept)
      <4>1. i + 1 \in 1 .. Len(kept) /\ i + k \in 1 .. (Len(h) - 1)
        BY <2>2, <2>3, <3>1, <3>3
      <4>2. g[i + 1] = h[i + k + 1]
        BY <2>3, <2>4, <4>1
      <4> QED
        BY <3>1, <4>1, <4>2 DEF WellKept
    <3> QED
      BY <3>2, <3>3
  <2>7. Len(g) <= MaxHist
    BY <2>2, <2>4, Constants
  <2>8. g \in Seq(PLine) /\ WellKept(g, MaxHist)
    BY <2>4, <2>5, <2>6, <2>7 DEF WellKept
  <2> QED
    BY <2>1, <2>8 DEF g
<1> QED
  BY <1>1, <1>2

LEMMA LeastElement ==
    ASSUME NEW T, T \subseteq Nat, T # {}
    PROVE  \E x \in T : \A y \in T : x <= y
<1> DEFINE R == {ss \in Nat \X Nat : ss[1] < ss[2]}
<1>1. IsWellFoundedOn(R, Nat)  BY NatLessThanWellFounded DEF OpToRel
<1>2. PICK x \in T : \A y \in T : ~ (<<y, x>> \in R)
    BY <1>1, WFMin, Zenon
<1>3. \A y \in T : <<y, x>> \in Nat \X Nat /\ ~ (y < x)  BY <1>2
<1>4. ASSUME NEW y \in T PROVE x <= y
  <2>1. x \in Nat /\ y \in Nat /\ ~ (y < x)  BY <1>3
  <2> QED BY <2>1
<1> QED BY <1>4

(* Tab always finds a next completion.                                     *)
LEMMA NextOfType ==
    ASSUME NEW cs, cs \subseteq 1 .. Len(Candidates), cs # {}, NEW i \in Nat
    PROVE  NextOf(cs, i) \in cs
<1> DEFINE later == {j \in cs : j > i}
           from  == IF later = {} THEN cs ELSE later
<1>1. from \subseteq cs /\ from # {} /\ from \subseteq Nat
  <2>1. Len(Candidates) \in Nat
    BY Constants
  <2>2. cs \subseteq Nat
    BY <2>1
  <2>3. from \subseteq cs /\ from # {}
    BY Zenon
  <2> QED
    BY <2>2, <2>3
<1>2. \E j \in from : \A k \in from : j <= k
  BY <1>1, LeastElement
<1>3. NextOf(cs, i) = CHOOSE j \in from : \A k \in from : j <= k
  BY DEF NextOf
<1> HIDE DEF from
<1>4. NextOf(cs, i) \in from
  BY <1>2, <1>3
<1> QED
  BY <1>1, <1>4

(***************************************************************************)
(* What the keys do keeps the text a string and the history index inside.  *)
(***************************************************************************)
LEMMA DeleteKeeps ==
    ASSUME TextOK, Delete
    PROVE  TextOK'
<1>1. CASE pos < len
  <2>1. mem' = Moved(mem, pos, pos + 1, len - pos) /\ len' = len - 1 /\ pos' = pos
    BY <1>1 DEF Delete
  <2>2. pos \in Nat /\ len \in Nat /\ len < BufLen /\ BufLen \in Nat
    BY Constants DEF TextOK, BufferSound
  <2>3. \A i \in 0 .. (BufLen - 1) :
            mem'[i] = IF pos <= i /\ i < len THEN mem[i + 1] ELSE mem[i]
    BY <1>1, <2>1, <2>2 DEF Moved
  <2>4. mem' \in [0 .. (BufLen - 1) -> Printable \cup {NUL}]
    <3>1. \A i \in 0 .. (BufLen - 1) : mem'[i] \in Printable \cup {NUL}
      BY <2>2, <2>3 DEF TextOK
    <3> QED
      BY <2>1, <3>1 DEF Moved
  <2>5. BufferSound'
    BY <1>1, <2>1, <2>2, <2>3 DEF TextOK, BufferSound
  <2> QED
    BY <2>1, <2>2, <2>4, <2>5, <1>1 DEF TextOK
<1>2. CASE ~(pos < len)
  BY <1>2 DEF Delete, TextOK, BufferSound
<1> QED
  BY <1>1, <1>2

LEMMA UpDownKeep ==
    ASSUME TextOK, HistOK, Up \/ Down
    PROVE  TextOK' /\ HistOK'
<1>1. CASE Up /\ hist # <<>> /\ histIndex > 0
  <2>1. histIndex \in 1 .. Len(hist) /\ hist[histIndex] \in PLine
    BY <1>1 DEF HistOK, HistorySound
  <2>2. Shows(hist[histIndex])
    BY <1>1 DEF Up
  <2>3. TextOK'
    BY <2>1, <2>2, ShowsKeeps
  <2>4. CString(mem) \in PLine
    BY StringIsLine, TextType
  <2>5. saved' \in Seq(PLine) /\ Len(saved') <= 1
    <3>1. <<CString(mem)>> \in Seq(PLine) /\ Len(<<CString(mem)>>) = 1
      BY <2>4
    <3>2. saved' = <<CString(mem)>> \/ saved' = saved
      BY <1>1 DEF Up
    <3>3. saved \in Seq(PLine) /\ Len(saved) <= 1
      BY DEF HistOK
    <3>4. CASE saved' = <<CString(mem)>>
      <4> HIDE DEF PLine
      <4>1. Len(saved') = 1
        BY <3>1, <3>4, Zenon
      <4>2. saved' \in Seq(PLine)
        BY <3>1, <3>4, Zenon
      <4> QED
        BY <4>1, <4>2
    <3>5. CASE saved' = saved
      BY <3>3, <3>5
    <3> QED
      BY <3>2, <3>4, <3>5
  <2>6. hist' = hist /\ histIndex' = histIndex - 1
    BY <1>1 DEF Up
  <2>7. HistOK'
    BY <2>1, <2>5, <2>6 DEF HistOK, HistorySound
  <2> QED
    BY <2>3, <2>7
<1>2. CASE Down /\ hist # <<>> /\ histIndex < Len(hist)
  <2> DEFINE line == IF histIndex + 1 < Len(hist) THEN hist[histIndex + 2]
                     ELSE IF saved = <<>> THEN <<>> ELSE saved[1]
  <2>1. Shows(line)
    BY <1>2 DEF Down
  <2>2. line \in PLine
    <3>1. <<>> \in PLine
      BY DEF PLine
    <3>2. histIndex + 1 < Len(hist) => hist[histIndex + 2] \in PLine
      BY DEF HistOK
    <3>3. saved # <<>> => saved[1] \in PLine
      BY DEF HistOK
    <3> QED
      BY <3>1, <3>2, <3>3
  <2> HIDE DEF line
  <2>3. TextOK'
    BY <2>1, <2>2, ShowsKeeps
  <2>4. HistOK'
    BY <1>2 DEF Down, HistOK, HistorySound
  <2> QED
    BY <2>3, <2>4
<1>3. CASE UNCHANGED <<textVars, histVars>>
  BY <1>3 DEF textVars, histVars, TextOK, HistOK, BufferSound, HistorySound
<1> QED
  BY <1>1, <1>2, <1>3 DEF Up, Down

LEMMA MoveToKeeps ==
    ASSUME TextOK, HistOK, NEW p \in 0 .. len, MoveTo(p)
    PROVE  TextOK' /\ HistOK'
<1>1. len \in Nat /\ len < BufLen /\ BufLen \in Nat
  BY Constants DEF TextOK, BufferSound
<1> QED
  BY <1>1 DEF MoveTo, histVars, TextOK, HistOK, BufferSound, HistorySound

LEMMA DoesKeeps ==
    ASSUME TextOK, HistOK, NEW what, Does(what)
    PROVE  TextOK' /\ HistOK'
<1>1. pos \in 0 .. len /\ len \in Nat
  BY DEF TextOK, BufferSound
<1>2. ASSUME NEW p \in 0 .. len, MoveTo(p) PROVE TextOK' /\ HistOK'
  BY <1>2, MoveToKeeps
<1>3. CASE Up \/ Down
  BY <1>3, UpDownKeep
<1>4. CASE MoveTo(IF pos > 0 THEN pos - 1 ELSE pos)
  <2>1. (IF pos > 0 THEN pos - 1 ELSE pos) \in 0 .. len
    BY <1>1
  <2> QED
    BY <1>2, <1>4, <2>1
<1>5. CASE MoveTo(IF pos < len THEN pos + 1 ELSE pos)
  <2>1. (IF pos < len THEN pos + 1 ELSE pos) \in 0 .. len
    BY <1>1
  <2> QED
    BY <1>2, <1>5, <2>1
<1>6. CASE MoveTo(0) \/ MoveTo(len)
  BY <1>1, <1>2, <1>6
<1>7. CASE Delete
  BY <1>7, DeleteKeeps DEF Delete, histVars, HistOK, HistorySound
<1>8. CASE UNCHANGED <<textVars, histVars>>
  BY <1>8 DEF textVars, histVars, TextOK, HistOK, BufferSound, HistorySound
<1> QED
  BY <1>3, <1>4, <1>5, <1>6, <1>7, <1>8 DEF Does

LEMMA BackspaceKeeps ==
    ASSUME TextOK, NEW k, Backspace(k)
    PROVE  TextOK'
<1>1. CASE pos > 0
  <2>1. /\ mem' = Moved(mem, pos - 1, pos, len - pos + 1)
        /\ pos' = pos - 1 /\ len' = len - 1
    BY <1>1 DEF Backspace
  <2>2. pos \in Nat /\ len \in Nat /\ pos <= len /\ len < BufLen /\ BufLen \in Nat
    BY Constants DEF TextOK, BufferSound
  <2>3. \A i \in 0 .. (BufLen - 1) :
            mem'[i] = IF pos - 1 <= i /\ i < len THEN mem[i + 1] ELSE mem[i]
    BY <1>1, <2>1, <2>2 DEF Moved
  <2>4. mem' \in [0 .. (BufLen - 1) -> Printable \cup {NUL}]
    <3>1. \A i \in 0 .. (BufLen - 1) : mem'[i] \in Printable \cup {NUL}
      BY <2>2, <2>3 DEF TextOK
    <3> QED
      BY <2>1, <3>1 DEF Moved
  <2>5. BufferSound'
    BY <1>1, <2>1, <2>2, <2>3 DEF TextOK, BufferSound
  <2> QED
    BY <2>1, <2>2, <2>4, <2>5, <1>1 DEF TextOK
<1>2. CASE ~(pos > 0)
  BY <1>2 DEF Backspace, textVars, TextOK, BufferSound
<1> QED
  BY <1>1, <1>2

(* What the array holds after a key went in: the tail moved up by one.     *)
LEMMA InsertedMemory ==
    ASSUME TextOK, NEW k, Insert(k), HasRoom
    PROVE  \A i \in 0 .. (BufLen - 1) :
               mem'[i] = IF i = len + 1 THEN NUL
                         ELSE IF i = pos THEN k
                         ELSE IF pos < i /\ i <= len THEN mem[i - 1] ELSE mem[i]
<1>1. mem' = [Moved(mem, pos + 1, pos, len - pos) EXCEPT ![pos] = k, ![len + 1] = NUL]
  BY DEF Insert
<1>2. /\ pos \in Nat /\ len \in Nat /\ pos <= len /\ len + 1 < BufLen
      /\ BufLen \in Nat
  BY Constants DEF TextOK, BufferSound, HasRoom
<1> DEFINE m == Moved(mem, pos + 1, pos, len - pos)
<1>3. \A i \in 0 .. (BufLen - 1) :
          m[i] = IF pos < i /\ i <= len THEN mem[i - 1] ELSE mem[i]
  <2> SUFFICES ASSUME NEW i \in 0 .. (BufLen - 1)
               PROVE  m[i] = IF pos < i /\ i <= len THEN mem[i - 1] ELSE mem[i]
    OBVIOUS
  <2>1. m[i] = IF i \in (pos + 1) .. (pos + 1 + (len - pos) - 1)
               THEN mem[i - (pos + 1) + pos] ELSE mem[i]
    BY DEF Moved
  <2>2. i - (pos + 1) + pos = i - 1 /\ pos + 1 + (len - pos) - 1 = len
    BY <1>2
  <2>3. i \in (pos + 1) .. len <=> pos < i /\ i <= len
    BY <1>2
  <2> QED
    BY <2>1, <2>2, <2>3
<1>4. DOMAIN m = 0 .. (BufLen - 1) /\ m = [i \in 0 .. (BufLen - 1) |-> m[i]]
  BY DEF Moved
<1>5. mem' = [m EXCEPT ![pos] = k, ![len + 1] = NUL]
  BY <1>1
<1> HIDE DEF m
<1>6. \A i \in 0 .. (BufLen - 1) :
          mem'[i] = IF i = len + 1 THEN NUL ELSE IF i = pos THEN k ELSE m[i]
  BY <1>2, <1>4, <1>5
<1> QED
  BY <1>3, <1>6

LEMMA InsertKeeps ==
    ASSUME TextOK, NEW k, Insert(k)
    PROVE  TextOK'
<1>1. CASE HasRoom
  <2>1. /\ mem' = [Moved(mem, pos + 1, pos, len - pos) EXCEPT ![pos] = k, ![len + 1] = NUL]
        /\ pos' = pos + 1 /\ len' = len + 1 /\ k \in Printable
    BY <1>1 DEF Insert
  <2>2. /\ pos \in Nat /\ len \in Nat /\ pos <= len /\ len + 1 < BufLen
        /\ BufLen \in Nat
    BY <1>1, Constants DEF TextOK, BufferSound, HasRoom
  <2>3. \A i \in 0 .. (BufLen - 1) :
            mem'[i] = IF i = len + 1 THEN NUL
                      ELSE IF i = pos THEN k
                      ELSE IF pos < i /\ i <= len THEN mem[i - 1] ELSE mem[i]
    BY <1>1, InsertedMemory
  <2>4. mem' \in [0 .. (BufLen - 1) -> Printable \cup {NUL}]
    <3>1. \A i \in 0 .. (BufLen - 1) : mem'[i] \in Printable \cup {NUL}
      BY <2>1, <2>2, <2>3 DEF TextOK
    <3> QED
      BY <2>1, <3>1 DEF Moved
  <2>5. BufferSound'
    <3>1. mem'[len'] = NUL
      BY <2>1, <2>2, <2>3
    <3>2. ASSUME NEW i \in 0 .. (len' - 1) PROVE mem'[i] # NUL
      <4>1. i \in 0 .. len /\ i \in 0 .. (BufLen - 1) /\ i # len + 1
        BY <2>1, <2>2
      <4>2. CASE i = pos
        BY <2>1, <2>3, <4>1, <4>2, Constants
      <4>3. CASE i < pos
        <5>1. mem'[i] = mem[i] /\ i \in 0 .. (len - 1)
          BY <2>2, <2>3, <4>1, <4>3
        <5> QED
          BY <5>1 DEF TextOK, BufferSound
      <4>4. CASE pos < i
        <5>1. mem'[i] = mem[i - 1] /\ i - 1 \in 0 .. (len - 1)
          BY <2>2, <2>3, <4>1, <4>4
        <5> QED
          BY <5>1 DEF TextOK, BufferSound
      <4> QED
        BY <2>2, <4>1, <4>2, <4>3, <4>4
    <3> QED
      BY <2>1, <2>2, <3>1, <3>2 DEF BufferSound
  <2> QED
    BY <2>1, <2>2, <2>4, <2>5 DEF TextOK
<1>2. CASE ~HasRoom
  BY <1>2 DEF Insert, textVars, TextOK, BufferSound
<1> QED
  BY <1>1, <1>2

(* Cutting the line at a place inside it, cursor at that place or before.  *)
LEMMA CutKeeps ==
    ASSUME TextOK, NEW n \in 0 .. len,
           mem' = [mem EXCEPT ![n] = NUL], len' = n, pos' \in 0 .. n
    PROVE  TextOK'
<1>1. len \in Nat /\ len < BufLen /\ BufLen \in Nat
  BY Constants DEF TextOK, BufferSound
<1>2. mem' \in [0 .. (BufLen - 1) -> Printable \cup {NUL}]
  BY <1>1 DEF TextOK
<1>3. BufferSound'
  BY <1>1 DEF TextOK, BufferSound
<1> QED
  BY <1>1, <1>2, <1>3 DEF TextOK

LEMMA LeavesCompletionKeeps ==
    ASSUME CompOK, LeavesCompletion
    PROVE  CompOK'
<1>1. Len(Candidates) \in Nat
  BY Constants
<1>2. inCompletion' = FALSE /\ comps' \in {{}, comps} /\ compIdx' \in {0, compIdx}
  BY DEF LeavesCompletion
<1>3. comps' \subseteq 1 .. Len(Candidates)
  BY <1>2 DEF CompOK
<1>4. compIdx' \in 0 .. Len(Candidates)
  BY <1>1, <1>2 DEF CompOK
<1> QED
  BY <1>2, <1>3, <1>4 DEF CompOK, CompletionSound

(* Inside an escape sequence no completion is on show.                     *)
LEMMA SequenceKeepsCompletion ==
    ASSUME CompOK, esc # "normal", UNCHANGED compVars
    PROVE  CompOK'
BY DEF CompOK, compVars, CompletionSound, Normal

LEMMA DigitType ==
    ASSUME NEW k, IsDigit(k)
    PROVE  Digit(k) \in 0 .. 9
BY DEF IsDigit, Digit

LEMMA AsIntType ==
    ASSUME NEW n \in Int
    PROVE  AsInt(n) \in Int
BY EditorAssumption DEF AsInt

(***************************************************************************)
(* A key, and the restart behind Enter.                                    *)
(***************************************************************************)
StateOK == TextOK /\ HistOK /\ EscOK /\ CompOK /\ ret \in {-1, 0, 1}

(* What a key may do to the history.                                       *)
HistMoves == UNCHANGED histVars \/ Up \/ Down

LEMMA DoesMoves ==
    ASSUME NEW what, Does(what)
    PROVE  HistMoves
BY DEF Does, HistMoves, MoveTo, Delete, histVars

LEMMA CompleteKeeps ==
    ASSUME StateOK, NEW k, Complete(k)
    PROVE  StateOK' /\ HistMoves
<1>1. UNCHANGED <<escVars, histVars>> /\ ret' = 0 /\ Normal
  BY DEF Complete
<1>2. HistOK' /\ EscOK' /\ Normal' /\ HistMoves
  BY <1>1 DEF escVars, histVars, StateOK, HistOK, HistorySound, EscOK, Normal, HistMoves
<1>3. comps' \subseteq 1 .. Len(Candidates)
  BY DEF Complete, Completions, StateOK, CompOK
<1>4. CASE comps' = {}
  <2>1. UNCHANGED <<textVars, inCompletion, compIdx>>
    BY <1>4 DEF Complete
  <2>2. TextOK'
    BY <2>1 DEF textVars, StateOK, TextOK, BufferSound
  <2>3. ~inCompletion
    BY <1>4 DEF Complete, StateOK, CompOK, CompletionSound
  <2>4. CompOK'
    BY <1>3, <2>1, <2>3 DEF StateOK, CompOK, CompletionSound
  <2> QED
    BY <1>1, <1>2, <2>2, <2>4 DEF StateOK
<1>5. CASE comps' # {}
  <2>1. /\ inCompletion' = TRUE
        /\ compIdx' = NextOf(comps', IF inCompletion THEN compIdx ELSE 0)
        /\ Shows(Candidates[compIdx'])
    BY <1>5 DEF Complete
  <2>2. (IF inCompletion THEN compIdx ELSE 0) \in Nat
    BY Constants DEF StateOK, CompOK
  <2>3. compIdx' \in comps'
    BY <1>3, <1>5, <2>1, <2>2, NextOfType
  <2>4. compIdx' \in 1 .. Len(Candidates) /\ Candidates[compIdx'] \in PLine
    BY <1>3, <2>3, Constants
  <2>5. TextOK' /\ Line' = Clip(Candidates[compIdx']) /\ pos' = len'
    BY <2>1, <2>4, ShowsKeeps DEF StateOK
  <2>6. CompOK'
    BY <1>2, <1>3, <2>1, <2>3, <2>4, <2>5, Constants DEF CompOK, CompletionSound
  <2> QED
    BY <1>1, <1>2, <2>5, <2>6 DEF StateOK
<1> QED
  BY <1>4, <1>5

LEMMA FeedKeeps ==
    ASSUME StateOK, NEW k \in Keys, Feed(k)
    PROVE  StateOK' /\ HistMoves
<1> USE DEF StateOK
<1>1. pos \in 0 .. len /\ len \in Nat /\ len < BufLen
  BY DEF TextOK, BufferSound
<1>2. ASSUME UNCHANGED histVars PROVE HistOK' /\ HistMoves
  BY <1>2 DEF histVars, HistOK, HistorySound, HistMoves
<1>3. ASSUME UNCHANGED escVars PROVE EscOK'
  BY <1>3 DEF escVars, EscOK
<1>4. ASSUME UNCHANGED textVars PROVE TextOK'
  BY <1>4 DEF textVars, TextOK, BufferSound
<1>5. CASE AfterEsc(k)
  BY <1>2, <1>4, <1>5, SequenceKeepsCompletion DEF AfterEsc, Continues, EscOK
<1>6. CASE AfterCsi(k)
  <2>1. EscOK'
    BY <1>6, DigitType DEF AfterCsi, EscOK
  <2> QED
    BY <1>6, <2>1, DoesKeeps, DoesMoves, SequenceKeepsCompletion DEF AfterCsi, Continues
<1>7. CASE AfterNum(k)
  <2>1. EscOK'
    BY <1>7, DigitType, AsIntType DEF AfterNum, EscOK
  <2> QED
    BY <1>7, <2>1, DoesKeeps, DoesMoves, SequenceKeepsCompletion DEF AfterNum, Continues
<1>8. CASE AfterSs3(k) \/ AfterExt(k)
  <2>1. EscOK'
    BY <1>8 DEF AfterSs3, AfterExt, EscOK
  <2>2. CompOK' /\ ret' = 0
    BY <1>8, SequenceKeepsCompletion DEF AfterSs3, AfterExt, Continues
  <2>3. PICK what : Does(what)
    BY <1>8 DEF AfterSs3, AfterExt
  <2> QED
    BY <2>1, <2>2, <2>3, DoesKeeps, DoesMoves
<1>9. CASE Escape(k)
  BY <1>2, <1>4, <1>9, LeavesCompletionKeeps DEF Escape, EscOK
<1>10. CASE Complete(k)
  BY <1>10, CompleteKeeps
<1>11. CASE Enter(k)
  <2>1. TextOK'
    <3>1. mem' = [mem EXCEPT ![len] = NUL] /\ len' = len /\ pos' = pos
      BY <1>11 DEF Enter
    <3>2. len \in 0 .. len /\ pos' \in 0 .. len
      BY <1>1, <3>1
    <3> QED
      BY <3>1, <3>2, CutKeeps
  <2> QED
    BY <1>2, <1>3, <1>11, <2>1, LeavesCompletionKeeps DEF Enter
<1>12. CASE Backspace(k)
  BY <1>2, <1>3, <1>12, BackspaceKeeps, LeavesCompletionKeeps DEF Backspace
<1>13. CASE CtrlC(k) \/ CtrlU(k)
  <2>1. TextOK'
    BY <1>1, <1>13, CutKeeps DEF CtrlC, CtrlU, Emptied
  <2> QED
    BY <1>2, <1>3, <1>13, <2>1, LeavesCompletionKeeps DEF CtrlC, CtrlU
<1>14. CASE CtrlD(k)
  <2>1. TextOK' /\ UNCHANGED histVars
    BY <1>4, <1>14, DeleteKeeps DEF CtrlD, Delete
  <2> QED
    BY <1>2, <1>3, <1>14, <2>1, LeavesCompletionKeeps DEF CtrlD
<1>15. CASE CtrlK(k)
  <2>1. TextOK'
    <3>1. mem' = [mem EXCEPT ![pos] = NUL] /\ len' = pos /\ pos' = pos
      BY <1>15 DEF CtrlK
    <3>2. pos' \in 0 .. pos
      BY <1>1, <3>1
    <3> QED
      BY <1>1, <3>1, <3>2, CutKeeps
  <2> QED
    BY <1>2, <1>3, <1>15, <2>1, LeavesCompletionKeeps DEF CtrlK
<1>16. CASE CtrlAEL(k)
  <2>1. PICK what : Does(what)
    BY <1>16 DEF CtrlAEL
  <2> QED
    BY <1>3, <1>16, <2>1, DoesKeeps, DoesMoves, LeavesCompletionKeeps DEF CtrlAEL
<1>17. CASE Insert(k)
  BY <1>2, <1>3, <1>17, InsertKeeps, LeavesCompletionKeeps DEF Insert
<1> QED
  BY <1>5, <1>6, <1>7, <1>8, <1>9, <1>10, <1>11, <1>12, <1>13, <1>14, <1>15, <1>16,
     <1>17 DEF Feed

(* After Enter the editor starts afresh, on a history still well kept.     *)
LEMMA RestartKeeps ==
    ASSUME StateOK, Restart
    PROVE  StateOK' /\ histIndex' = Len(hist')
<1> DEFINE h == HistoryAdd(hist, CString(mem), MaxHist)
<1>1. CString(mem) \in PLine
  BY StringIsLine, TextType DEF StateOK
<1>2. h \in Seq(PLine) /\ WellKept(h, MaxHist)
  BY <1>1, HistoryAddKeeps DEF StateOK, HistOK, HistorySound
<1>3. Start(h) /\ ret' = 0
  BY DEF Restart
<1> HIDE DEF h
<1>4. TextOK'
  <2>1. 0 \in 0 .. len /\ 0 \in 0 .. 0
    BY DEF StateOK, TextOK
  <2> QED
    BY <1>3, <2>1, CutKeeps DEF StateOK, Start
<1>5. HistOK'
  <2>1. <<>> \in Seq(PLine) /\ Len(<<>>) = 0
    OBVIOUS
  <2>2. Len(h) \in Nat
    BY <1>2
  <2> QED
    BY <1>2, <1>3, <2>1, <2>2 DEF Start, HistOK, HistorySound
<1>6. EscOK' /\ histIndex' = Len(hist')
  BY <1>3 DEF Start, EscOK
<1>7. CompOK'
  <2>1. inCompletion' = FALSE /\ compIdx' = 0 /\ comps' = {}
    BY <1>3 DEF Start
  <2>2. Len(Candidates) \in Nat
    BY Constants
  <2>3. CompletionSound'
    BY <2>1 DEF CompletionSound
  <2>4. comps' \subseteq 1 .. Len(Candidates) /\ compIdx' \in 0 .. Len(Candidates)
    BY <2>1, <2>2
  <2> QED
    BY <2>1, <2>3, <2>4 DEF CompOK
<1> QED
  BY <1>3, <1>4, <1>5, <1>6, <1>7 DEF StateOK

LEMMA StepKeeps ==
    ASSUME StateOK, Step
    PROVE  StateOK' /\ (HistMoves \/ (ret = 1 /\ histIndex' = Len(hist')))
<1>1. CASE ret = 0 /\ \E k \in Keys : Feed(k)
  BY <1>1, FeedKeeps
<1>2. CASE Restart
  BY <1>2, RestartKeeps DEF Restart
<1> QED
  BY <1>1, <1>2 DEF Step

(* The line below the history is always either on show or saved.           *)
LEMMA DraftKeeps ==
    ASSUME EditorInv, StateOK', HistMoves \/ histIndex' = Len(hist'),
           draft' = IF histIndex' = Len(hist') THEN Text(mem', len') ELSE draft
    PROVE  draft' \in PLine /\ DraftInv'
<1>1. Line' \in PLine /\ Len(Line') = len' /\ len' < BufLen
  <2>1. TextOK'
    BY DEF StateOK
  <2>2. Line' \in PLine /\ Len(Line') = len'
    BY <2>1, TextOf DEF Line, TextOK, BufferSound
  <2> QED
    BY <2>1, <2>2 DEF TextOK, BufferSound
<1>2. CASE histIndex' = Len(hist')
  BY <1>1, <1>2 DEF DraftInv, Line
<1>3. CASE histIndex' # Len(hist')
  <2>1. draft' = draft /\ draft \in PLine /\ Len(draft) < BufLen /\ HistMoves
    BY <1>3 DEF EditorInv, DraftInv
  <2>2. histIndex \in Nat /\ histIndex <= Len(hist) /\ Len(hist) \in Nat
    BY DEF EditorInv, HistOK, HistorySound
  <2>3. CASE UNCHANGED histVars
    BY <1>3, <2>1, <2>3 DEF histVars, EditorInv, DraftInv
  <2>4. CASE Up /\ hist # <<>> /\ histIndex > 0
    <3>1. saved' = IF histIndex = Len(hist) THEN <<CString(mem)>> ELSE saved
      BY <2>4 DEF Up
    <3>2. CString(mem) = Line
      BY StringIsLine DEF EditorInv
    <3>3. saved' = <<draft>>
      BY <3>1, <3>2 DEF EditorInv, DraftInv
    <3> QED
      BY <1>3, <2>1, <3>3 DEF DraftInv
  <2>5. CASE Down /\ hist # <<>> /\ histIndex < Len(hist)
    <3>1. saved' = saved /\ saved = <<draft>>
      BY <2>2, <2>5 DEF Down, EditorInv, DraftInv
    <3> QED
      BY <1>3, <2>1, <3>1 DEF DraftInv
  <2> QED
    BY <2>1, <2>3, <2>4, <2>5 DEF HistMoves, Up, Down
<1> QED
  BY <1>2, <1>3

LEMMA Initially == Init => EditorInv
<1> SUFFICES ASSUME Init PROVE EditorInv
  OBVIOUS
<1> USE DEF Init
<1>1. /\ <<>> \in PLine /\ <<>> \in Seq(PLine) /\ Len(<<>>) = 0
      /\ hist \in Seq(PLine) /\ WellKept(hist, MaxHist) /\ Len(hist) \in Nat
  BY EditorAssumption DEF PLine
<1>2. TextOK
  BY Constants DEF TextOK, BufferSound
<1>3. HistOK
  BY <1>1 DEF HistOK, HistorySound
<1>4. EscOK /\ CompOK
  BY Constants DEF EscOK, CompOK, CompletionSound
<1>5. Line = <<>>
  BY DEF Line, Text
<1>6. DraftInv
  BY <1>1, <1>5, Constants DEF DraftInv
<1> QED
  BY <1>1, <1>2, <1>3, <1>4, <1>6 DEF EditorInv

LEMMA NextKeeps == EditorInv /\ [Next]_vars => EditorInv'
<1> SUFFICES ASSUME EditorInv, [Next]_vars PROVE EditorInv'
  OBVIOUS
<1>1. StateOK
  BY DEF EditorInv, StateOK
<1>2. CASE /\ Step
           /\ draft' = IF histIndex' = Len(hist') THEN Text(mem', len') ELSE draft
  BY <1>1, <1>2, StepKeeps, DraftKeeps DEF EditorInv, StateOK
<1>3. CASE UNCHANGED vars
  BY <1>3 DEF vars, textVars, escVars, histVars, compVars, EditorInv, TextOK, HistOK,
     EscOK, CompOK, BufferSound, HistorySound, CompletionSound, DraftInv, Normal, Line,
     Text
<1> QED
  BY <1>2, <1>3 DEF Next, KeepsDraft, Over

LEMMA EditorInvariant == Spec => []EditorInv
<1> QED
  BY Initially, NextKeeps, PTL DEF Spec

(***************************************************************************)
(* The theorems.                                                           *)
(***************************************************************************)
(* No key sequence takes the editor's variables out of their types: every  *)
(* cell of the buffer is a printable character or NUL.                     *)
THEOREM EditorTypeCorrect == Spec => []TypeOK
<1>1. EditorInv => TypeOK
  BY DEF EditorInv, TextOK, HistOK, EscOK, CompOK, TypeOK, PLine
<1> QED
  BY <1>1, EditorInvariant, PTL

(* linenoiseEditFeed never moves the cursor or the text out of the buffer, *)
(* whatever its size, and always leaves a C string of exactly len bytes.   *)
THEOREM BufferAlwaysSound == Spec => []BufferSound
<1>1. EditorInv => BufferSound
  BY DEF EditorInv, TextOK
<1> QED
  BY <1>1, EditorInvariant, PTL

(* history_index stays inside the history, which stays within its bound    *)
(* and free of empty lines and repetitions.                                *)
THEOREM HistoryAlwaysSound == Spec => []HistorySound
<1>1. EditorInv => HistorySound
  BY DEF EditorInv, HistOK
<1> QED
  BY <1>1, EditorInvariant, PTL

(* While a completion is offered, the list it was taken from is not empty, *)
(* it is the line on show, and no escape sequence is under way.            *)
THEOREM CompletionAlwaysSound == Spec => []CompletionSound
<1>1. EditorInv => CompletionSound
  BY DEF EditorInv, CompOK
<1> QED
  BY <1>1, EditorInvariant, PTL

(* Coming back below the history shows what was being typed there, uncut,  *)
(* whatever was done to the history's lines in between.                    *)
THEOREM DraftAlwaysComesBack == Spec => DraftComesBack
<1> DEFINE Back == histIndex < Len(hist) /\ histIndex' = Len(hist') /\ ret # 1
                   => Text(mem', len') = draft
<1>1. EditorInv /\ [Next]_vars => [Back]_vars
  <2> SUFFICES ASSUME EditorInv, Next, histIndex < Len(hist), histIndex' = Len(hist'),
                      ret # 1
               PROVE  Text(mem', len') = draft
    OBVIOUS
  <2>1. StateOK /\ histIndex \in Nat /\ Len(hist) \in Nat /\ saved = <<draft>>
    BY DEF EditorInv, StateOK, HistOK, HistorySound, DraftInv
  <2>2. HistMoves
    <3>1. CASE Step
      BY <2>1, <3>1, StepKeeps
    <3>2. CASE Over
      BY <3>2 DEF Over, vars, HistMoves
    <3> QED
      BY <3>1, <3>2 DEF Next, KeepsDraft
  <2>3. Down /\ hist # <<>>
    BY <2>1, <2>2 DEF HistMoves, Up, Down, histVars
  <2>4. histIndex' = histIndex + 1 /\ hist' = hist
    BY <2>3 DEF Down
  <2>5. Shows(saved[1])
    <3>1. ~(histIndex + 1 < Len(hist))
      <4>1. histIndex + 1 = Len(hist)
        BY <2>4, Zenon
      <4> QED
        BY <2>1, <4>1
    <3>2. Len(saved) = 1 /\ saved # <<>>
      BY <2>1
    <3> QED
      BY <2>3, <3>1, <3>2 DEF Down
  <2>6. saved[1] = draft /\ draft \in PLine /\ Len(draft) < BufLen
    BY <2>1 DEF EditorInv, DraftInv
  <2>7. Line' = Clip(draft)
    BY <2>1, <2>5, <2>6, ShowsKeeps DEF StateOK
  <2> QED
    BY <2>6, <2>7, ClipType DEF Line
<1> QED
  BY <1>1, EditorInvariant, PTL DEF Spec, DraftComesBack

(***************************************************************************)
(* Every step of the editor is a step of TextLine, or leaves its line.     *)
(***************************************************************************)
Left  == SubSeq(Line, 1, pos)
Right == SubSeq(Line, pos + 1, len)

(* The two sides of the cursor, character by character.                    *)
LEMMA SidesOf ==
    ASSUME NEW m \in [0 .. (BufLen - 1) -> Printable \cup {NUL}], NEW n \in Nat,
           n < BufLen, \A i \in 0 .. (n - 1) : m[i] # NUL, NEW p \in 0 .. n
    PROVE  /\ SubSeq(Text(m, n), 1, p) \in PLine /\ Len(SubSeq(Text(m, n), 1, p)) = p
           /\ \A i \in 1 .. p : SubSeq(Text(m, n), 1, p)[i] = m[i - 1]
           /\ SubSeq(Text(m, n), p + 1, n) \in PLine
           /\ Len(SubSeq(Text(m, n), p + 1, n)) = n - p
           /\ \A i \in 1 .. (n - p) : SubSeq(Text(m, n), p + 1, n)[i] = m[p + i - 1]
<1> DEFINE t == Text(m, n)
<1>1. t \in PLine /\ Len(t) = n  BY TextOf
<1>2. \A i \in 1 .. n : t[i] = m[i - 1]  BY DEF Text
<1> HIDE DEF t
<1>3. \A i \in 1 .. n : t[i] \in Printable  BY <1>1 DEF PLine
<1>4. /\ SubSeq(t, 1, p) \in PLine /\ Len(SubSeq(t, 1, p)) = p
      /\ \A i \in 1 .. p : SubSeq(t, 1, p)[i] = t[i]
  <2>1. 1 \in Int /\ p \in Int /\ \A i \in 1 .. p : t[i] \in Printable  BY <1>3
  <2>2. /\ SubSeq(t, 1, p) \in Seq(Printable)
        /\ Len(SubSeq(t, 1, p)) = IF 1 <= p THEN p - 1 + 1 ELSE 0
        /\ \A i \in 1 .. p - 1 + 1 : SubSeq(t, 1, p)[i] = t[1 + i - 1]
      BY <2>1, SubSeqProperties
  <2> QED BY <2>2 DEF PLine
<1>5. /\ SubSeq(t, p + 1, n) \in PLine /\ Len(SubSeq(t, p + 1, n)) = n - p
      /\ \A i \in 1 .. (n - p) : SubSeq(t, p + 1, n)[i] = t[p + i]
  <2>1. p + 1 \in Int /\ n \in Int /\ \A i \in p + 1 .. n : t[i] \in Printable  BY <1>3
  <2>2. /\ SubSeq(t, p + 1, n) \in Seq(Printable)
        /\ Len(SubSeq(t, p + 1, n)) = IF p + 1 <= n THEN n - (p + 1) + 1 ELSE 0
        /\ \A i \in 1 .. n - (p + 1) + 1 : SubSeq(t, p + 1, n)[i] = t[(p + 1) + i - 1]
      BY <2>1, SubSeqProperties
  <2> QED BY <2>2 DEF PLine
<1>6. \A i \in 1 .. p : SubSeq(t, 1, p)[i] = m[i - 1]  BY <1>2, <1>4
<1>7. \A i \in 1 .. (n - p) : SubSeq(t, p + 1, n)[i] = m[p + i - 1]
  <2> TAKE i \in 1 .. (n - p)
  <2>1. p + i \in 1 .. n  OBVIOUS
  <2> QED BY <2>1, <1>2, <1>5
<1> QED BY <1>4, <1>5, <1>6, <1>7 DEF t

LEMMA Sides ==
    ASSUME TextOK
    PROVE  /\ Left \in PLine /\ Len(Left) = pos
           /\ \A i \in 1 .. pos : Left[i] = mem[i - 1]
           /\ Right \in PLine /\ Len(Right) = len - pos
           /\ \A i \in 1 .. (len - pos) : Right[i] = mem[pos + i - 1]
           /\ pos \in Nat /\ len \in Nat /\ pos <= len /\ len < BufLen
<1>1. /\ pos \in 0 .. len /\ pos \in Nat /\ len \in Nat /\ pos <= len /\ len < BufLen
      /\ mem \in [0 .. (BufLen - 1) -> Printable \cup {NUL}]
      /\ \A i \in 0 .. (len - 1) : mem[i] # NUL
    BY DEF TextOK, BufferSound
<1> DEFINE t == Text(mem, len)
<1>2. Left = SubSeq(t, 1, pos) /\ Right = SubSeq(t, pos + 1, len)  BY DEF Left, Right, Line
<1>3. /\ SubSeq(t, 1, pos) \in PLine /\ Len(SubSeq(t, 1, pos)) = pos
      /\ \A i \in 1 .. pos : SubSeq(t, 1, pos)[i] = mem[i - 1]
      /\ SubSeq(t, pos + 1, len) \in PLine /\ Len(SubSeq(t, pos + 1, len)) = len - pos
      /\ \A i \in 1 .. (len - pos) : SubSeq(t, pos + 1, len)[i] = mem[pos + i - 1]
    BY <1>1, SidesOf
<1> HIDE DEF t
<1> QED BY <1>1, <1>2, <1>3, Zenon

LEMMA SidesNext ==
    ASSUME TextOK'
    PROVE  /\ Left' \in PLine /\ Len(Left') = pos'
           /\ \A i \in 1 .. pos' : Left'[i] = mem'[i - 1]
           /\ Right' \in PLine /\ Len(Right') = len' - pos'
           /\ \A i \in 1 .. (len' - pos') : Right'[i] = mem'[pos' + i - 1]
           /\ pos' \in Nat /\ len' \in Nat /\ pos' <= len' /\ len' < BufLen
<1>1. /\ pos' \in 0 .. len' /\ pos' \in Nat /\ len' \in Nat /\ pos' <= len' /\ len' < BufLen
      /\ mem' \in [0 .. (BufLen - 1) -> Printable \cup {NUL}]
      /\ \A i \in 0 .. (len' - 1) : mem'[i] # NUL
  <2>1. TextOK' /\ BufferSound'  BY DEF TextOK
  <2>2. /\ pos' \in Nat /\ len' \in Nat
        /\ mem' \in [0 .. (BufLen - 1) -> Printable \cup {NUL}]
      BY <2>1 DEF TextOK
  <2>3. pos' <= len' /\ len' < BufLen  BY <2>1 DEF BufferSound
  <2>4. \A i \in 0 .. (len' - 1) : mem'[i] # NUL  BY <2>1 DEF BufferSound
  <2>5. pos' \in 0 .. len'  BY <2>2, <2>3
  <2> QED BY <2>2, <2>3, <2>4, <2>5
<1> DEFINE t == Text(mem', len')
<1>2. Left' = SubSeq(t, 1, pos') /\ Right' = SubSeq(t, pos' + 1, len')
    BY DEF Left, Right, Line, Text
<1>3. /\ SubSeq(t, 1, pos') \in PLine /\ Len(SubSeq(t, 1, pos')) = pos'
      /\ \A i \in 1 .. pos' : SubSeq(t, 1, pos')[i] = mem'[i - 1]
      /\ SubSeq(t, pos' + 1, len') \in PLine /\ Len(SubSeq(t, pos' + 1, len')) = len' - pos'
      /\ \A i \in 1 .. (len' - pos') : SubSeq(t, pos' + 1, len')[i] = mem'[pos' + i - 1]
    BY <1>1, SidesOf
<1> HIDE DEF t
<1> QED BY <1>1, <1>2, <1>3, Zenon

TextStep == Z!Next \/ UNCHANGED <<Left, Right>>

LEMMA SameText ==
    ASSUME UNCHANGED textVars
    PROVE  TextStep
BY DEF textVars, TextStep, Left, Right, Line, Text

LEMMA SeqSame ==
    ASSUME NEW s \in PLine, NEW t \in PLine, Len(s) = Len(t),
           \A i \in 1 .. Len(s) : s[i] = t[i]
    PROVE  s = t
BY SeqEqual DEF PLine

(* Another line in its place.                                              *)
LEMMA ReplaceStep ==
    ASSUME TextOK', pos' = len'
    PROVE  TextStep
<1>1. /\ Left' \in PLine /\ Len(Left') = len' /\ Right' \in PLine /\ Len(Right') = 0
      /\ len' \in Nat /\ len' < BufLen /\ BufLen \in Nat
    BY SidesNext, Constants
<1>2. Right' = <<>>  BY <1>1 DEF PLine
<1>3. Left' \in Seq(Printable) /\ Len(Left') <= BufLen - 1  BY <1>1 DEF PLine
<1>4. Z!Replace  BY <1>2, <1>3 DEF Z!Replace, Left, Right
<1> QED BY <1>4 DEF TextStep, Z!Next

LEMMA EmptyStep ==
    ASSUME TextOK', len' = 0, pos' = 0
    PROVE  TextStep
BY ReplaceStep

(* The same text, with the cursor elsewhere.                               *)
LEMMA MoveStep ==
    ASSUME TextOK, TextOK', UNCHANGED <<mem, len>>,
           pos' \in {pos - 1, pos, pos + 1, 0, len}
    PROVE  TextStep
<1>1. /\ Left \in PLine /\ Len(Left) = pos
      /\ \A i \in 1 .. pos : Left[i] = mem[i - 1]
      /\ Right \in PLine /\ Len(Right) = len - pos
      /\ \A i \in 1 .. (len - pos) : Right[i] = mem[pos + i - 1]
      /\ pos \in Nat /\ len \in Nat /\ pos <= len
    BY Sides
<1>2. /\ Left' \in PLine /\ Len(Left') = pos'
      /\ \A i \in 1 .. pos' : Left'[i] = mem[i - 1]
      /\ Right' \in PLine /\ Len(Right') = len - pos'
      /\ \A i \in 1 .. (len - pos') : Right'[i] = mem[pos' + i - 1]
      /\ pos' \in Nat /\ pos' <= len
    BY SidesNext
<1>3. CASE pos' = pos
    BY <1>3, SameText DEF textVars
<1>4. CASE pos' = pos - 1
  <2>1. Left # <<>> /\ pos >= 1  BY <1>1, <1>2, <1>4
  <2> DEFINE f == SubSeq(Left, 1, Len(Left) - 1)
             u == <<Left[Len(Left)]>>
             r == u \o Right
  <2>2. f \in PLine /\ Len(f) = pos - 1 /\ \A i \in 1 .. pos - 1 : f[i] = Left[i]
    <3>1. /\ 1 \in Int /\ Len(Left) - 1 \in Int
          /\ \A i \in 1 .. Len(Left) - 1 : Left[i] \in Printable
        BY <1>1 DEF PLine
    <3>2. /\ f \in Seq(Printable)
          /\ Len(f) = IF 1 <= Len(Left) - 1 THEN Len(Left) - 1 - 1 + 1 ELSE 0
          /\ \A i \in 1 .. Len(Left) - 1 - 1 + 1 : f[i] = Left[1 + i - 1]
        BY <3>1, SubSeqProperties
    <3> HIDE DEF f
    <3> QED BY <3>2, <1>1, <2>1 DEF PLine
  <2>3. Left' = f
    <3> HIDE DEF f
    <3>1. ASSUME NEW i \in 1 .. Len(Left') PROVE Left'[i] = f[i]
      <4>1. i \in 1 .. pos' /\ i \in 1 .. pos - 1 /\ i \in 1 .. pos  BY <1>1, <1>2, <1>4
      <4> QED BY <4>1, <1>1, <1>2, <2>2, Zenon
    <3>2. Len(Left') = Len(f)  BY <1>2, <1>4, <2>2
    <3> QED BY <1>2, <2>2, <3>1, <3>2, SeqSame
  <2>4. Right' = r
    <3>1. u \in PLine /\ Len(u) = 1 /\ u[1] = Left[pos]  BY <1>1, <2>1 DEF PLine
    <3> HIDE DEF u
    <3>2. r \in PLine /\ Len(r) = 1 + (len - pos) /\ r[1] = Left[pos]
          /\ \A i \in 1 .. len - pos : r[1 + i] = Right[i]
      <4>1. /\ r \in PLine /\ Len(r) = Len(u) + Len(Right)
            /\ \A i \in 1 .. Len(u) + Len(Right) :
                  r[i] = IF i <= Len(u) THEN u[i] ELSE Right[i - Len(u)]
          BY <1>1, <3>1, ConcatProperties DEF PLine
      <4> HIDE DEF r
      <4>2. Len(u) + Len(Right) = 1 + (len - pos) /\ 1 \in 1 .. Len(u) + Len(Right)
            /\ 1 <= Len(u)
          BY <1>1, <3>1
      <4>3. ASSUME NEW i \in 1 .. len - pos PROVE r[1 + i] = Right[i]
        <5>1. 1 + i \in 1 .. Len(u) + Len(Right) /\ ~ (1 + i <= Len(u)) /\ (1 + i) - Len(u) = i
            BY <1>1, <3>1
        <5>2. r[1 + i] = Right[(1 + i) - Len(u)]  BY <5>1, <4>1
        <5> QED BY <5>1, <5>2, Zenon
      <4>4. r[1] = u[1]  BY <4>1, <4>2
      <4> QED BY <3>1, <4>1, <4>2, <4>3, <4>4, Zenon
    <3> HIDE DEF r
    <3>3. Len(Right') = Len(r)  BY <1>1, <1>2, <1>4, <3>2
    <3>4. ASSUME NEW i \in 1 .. Len(Right') PROVE Right'[i] = r[i]
      <4>1. i \in 1 .. (len - pos') /\ Right'[i] = mem[pos' + i - 1]  BY <1>2
      <4>2. CASE i = 1
        <5>1. Right'[i] = mem[pos - 1]  BY <4>1, <4>2, <1>1, <1>4
        <5>2. Left[pos] = mem[pos - 1]  BY <1>1, <2>1
        <5> QED BY <4>2, <5>1, <5>2, <3>2
      <4>3. CASE i # 1
        <5> DEFINE j == i - 1
        <5>1. j \in 1 .. len - pos /\ 1 + j = i /\ pos' + i - 1 = pos + j - 1
            BY <4>1, <4>3, <1>1, <1>4
        <5> HIDE DEF j
        <5>2. r[i] = Right[j] /\ Right[j] = mem[pos + j - 1]  BY <5>1, <3>2, <1>1
        <5> QED BY <4>1, <5>1, <5>2
      <4> QED BY <4>2, <4>3
    <3> QED BY <1>2, <3>2, <3>3, <3>4, SeqSame
  <2>5. Z!MoveLeft  BY <2>1, <2>3, <2>4 DEF Z!MoveLeft, Z!Front, Left, Right
  <2> QED BY <2>5 DEF TextStep, Z!Next
<1>5. CASE pos' = pos + 1
  <2>1. Right # <<>> /\ pos + 1 <= len  BY <1>1, <1>2, <1>5
  <2> DEFINE a == Append(Left, Head(Right))
             t == Tail(Right)
  <2>2. a \in PLine /\ Len(a) = pos + 1 /\ a[pos + 1] = Right[1]
        /\ \A i \in 1 .. pos : a[i] = Left[i]
      BY <1>1, <2>1 DEF PLine
  <2>3. t \in PLine /\ Len(t) = len - pos - 1 /\ \A i \in 1 .. len - pos - 1 : t[i] = Right[i + 1]
      BY <1>1, <2>1 DEF PLine
  <2> HIDE DEF a, t
  <2>4. Left' = a
    <3>1. Len(Left') = Len(a)  BY <1>2, <1>5, <2>2
    <3>2. ASSUME NEW i \in 1 .. Len(Left') PROVE Left'[i] = a[i]
      <4>1. i \in 1 .. pos' /\ Left'[i] = mem[i - 1]  BY <1>2
      <4>2. CASE i = pos + 1
        <5>1. Right[1] = mem[pos + 1 - 1]  BY <1>1, <2>1
        <5>2. pos + 1 - 1 = i - 1  BY <4>2, <1>1
        <5> QED BY <4>1, <4>2, <5>1, <5>2, <2>2, Zenon
      <4>3. CASE i # pos + 1
        <5>1. i \in 1 .. pos  BY <4>1, <4>3, <1>1, <1>5
        <5> QED BY <4>1, <5>1, <1>1, <2>2
      <4> QED BY <4>2, <4>3
    <3> QED BY <1>2, <2>2, <3>1, <3>2, SeqSame
  <2>5. Right' = t
    <3>1. Len(Right') = Len(t)  BY <1>1, <1>2, <1>5, <2>3
    <3>2. ASSUME NEW i \in 1 .. Len(Right') PROVE Right'[i] = t[i]
      <4>1. i \in 1 .. (len - pos') /\ Right'[i] = mem[pos' + i - 1]  BY <1>2
      <4>2. i \in 1 .. len - pos - 1 /\ i + 1 \in 1 .. (len - pos) /\ pos' + i - 1 = pos + (i + 1) - 1
          BY <4>1, <1>1, <1>5
      <4>3. t[i] = Right[i + 1] /\ Right[i + 1] = mem[pos + (i + 1) - 1]  BY <4>2, <2>3, <1>1
      <4> QED BY <4>1, <4>2, <4>3
    <3> QED BY <1>2, <2>3, <3>1, <3>2, SeqSame
  <2>6. Z!MoveRight  BY <2>1, <2>4, <2>5 DEF Z!MoveRight, Left, Right, a, t
  <2> QED BY <2>6 DEF TextStep, Z!Next
<1> DEFINE w == Left \o Right
<1>6. /\ w \in PLine /\ Len(w) = len
      /\ \A i \in 1 .. len : w[i] = mem[i - 1]
  <2>1. w \in PLine /\ Len(w) = Len(Left) + Len(Right)
        /\ \A i \in 1 .. Len(Left) + Len(Right) :
              w[i] = IF i <= Len(Left) THEN Left[i] ELSE Right[i - Len(Left)]
      BY <1>1, ConcatProperties DEF PLine
  <2> HIDE DEF w
  <2>2. ASSUME NEW i \in 1 .. len PROVE w[i] = mem[i - 1]
    <3>1. CASE i <= pos
      <4>1. i \in 1 .. pos /\ i \in 1 .. Len(Left) + Len(Right) /\ i <= Len(Left)  BY <3>1, <1>1
      <4> QED BY <4>1, <2>1, <1>1
    <3>2. CASE i > pos
      <4> DEFINE j == i - pos
      <4>1. j \in 1 .. (len - pos) /\ pos + j - 1 = i - 1 /\ ~ (i <= Len(Left))
            /\ i \in 1 .. Len(Left) + Len(Right) /\ i - Len(Left) = j
          BY <3>2, <1>1
      <4> HIDE DEF j
      <4>2. w[i] = Right[j] /\ Right[j] = mem[pos + j - 1]  BY <4>1, <2>1, <1>1
      <4> QED BY <4>1, <4>2
    <3> QED BY <3>1, <3>2, <1>1
  <2> QED BY <1>1, <2>1, <2>2
<1> HIDE DEF w
<1>7. CASE pos' = 0
  <2>1. Left' = <<>>  BY <1>2, <1>7 DEF PLine
  <2>2. Len(Right') = Len(w) /\ \A i \in 1 .. Len(Right') : Right'[i] = w[i]
      BY <1>1, <1>2, <1>6, <1>7
  <2>3. Right' = w  BY <1>2, <1>6, <2>2, SeqSame
  <2>4. Z!ToStart  BY <2>1, <2>3 DEF Z!ToStart, Left, Right, w
  <2> QED BY <2>4 DEF TextStep, Z!Next
<1>8. CASE pos' = len
  <2>1. Right' = <<>>  BY <1>1, <1>2, <1>8 DEF PLine
  <2>2. Len(Left') = Len(w) /\ \A i \in 1 .. Len(Left') : Left'[i] = w[i]
      BY <1>1, <1>2, <1>6, <1>8
  <2>3. Left' = w  BY <1>2, <1>6, <2>2, SeqSame
  <2>4. Z!ToEnd  BY <2>1, <2>3 DEF Z!ToEnd, Left, Right, w
  <2> QED BY <2>4 DEF TextStep, Z!Next
<1> QED BY <1>3, <1>4, <1>5, <1>7, <1>8

(* The byte behind the cursor goes, or the one before it.                  *)
LEMMA DeleteStep ==
    ASSUME TextOK, TextOK', Delete
    PROVE  TextStep
<1>1. CASE pos < len
  <2>1. /\ Left \in PLine /\ Len(Left) = pos
        /\ \A i \in 1 .. pos : Left[i] = mem[i - 1]
        /\ Right \in PLine /\ Len(Right) = len - pos
        /\ \A i \in 1 .. (len - pos) : Right[i] = mem[pos + i - 1]
        /\ pos \in Nat /\ len \in Nat /\ pos <= len /\ len < BufLen
      BY Sides
  <2>2. /\ Left' \in PLine /\ Len(Left') = pos'
        /\ \A i \in 1 .. pos' : Left'[i] = mem'[i - 1]
        /\ Right' \in PLine /\ Len(Right') = len' - pos'
        /\ \A i \in 1 .. (len' - pos') : Right'[i] = mem'[pos' + i - 1]
      BY SidesNext
  <2>3. /\ mem' = Moved(mem, pos, pos + 1, len - pos) /\ len' = len - 1 /\ pos' = pos
      BY <1>1 DEF Delete
  <2>4. \A i \in 0 .. (BufLen - 1) :
            mem'[i] = IF pos <= i /\ i < len THEN mem[i + 1] ELSE mem[i]
      BY <1>1, <2>1, <2>3, Constants DEF Moved
  <2>5. Left' = Left
    <3>1. ASSUME NEW i \in 1 .. Len(Left') PROVE Left'[i] = Left[i]
      <4>1. /\ i \in 1 .. pos /\ i \in 1 .. pos' /\ i - 1 \in 0 .. (BufLen - 1)
            /\ ~ (pos <= i - 1)
          BY <2>1, <2>2, <2>3, Constants
      <4>2. mem'[i - 1] = mem[i - 1]  BY <4>1, <2>4
      <4> QED BY <4>1, <4>2, <2>1, <2>2, Zenon
    <3>2. Len(Left') = Len(Left)  BY <2>1, <2>2, <2>3
    <3> QED BY <2>1, <2>2, <3>1, <3>2, SeqSame
  <2> DEFINE t == Tail(Right)
  <2>6. /\ t \in PLine /\ Len(t) = len - pos - 1 /\ Right # <<>>
        /\ \A i \in 1 .. len - pos - 1 : t[i] = Right[i + 1]
      BY <1>1, <2>1 DEF PLine
  <2> HIDE DEF t
  <2>7. Right' = t
    <3>1. Len(Right') = Len(t)  BY <2>1, <2>2, <2>3, <2>6
    <3>2. ASSUME NEW i \in 1 .. Len(Right') PROVE Right'[i] = t[i]
      <4>1. /\ i \in 1 .. (len' - pos') /\ i \in 1 .. len - pos - 1 /\ i + 1 \in 1 .. (len - pos)
            /\ pos' + i - 1 = pos + i - 1 /\ pos + i - 1 \in 0 .. (BufLen - 1)
            /\ pos <= pos + i - 1 /\ pos + i - 1 < len
            /\ (pos + i - 1) + 1 = pos + (i + 1) - 1
          BY <2>1, <2>2, <2>3, Constants
      <4>2. Right'[i] = mem'[pos + i - 1]  BY <4>1, <2>2, Zenon
      <4>3. mem'[pos + i - 1] = mem[pos + (i + 1) - 1]
        <5>1. mem'[pos + i - 1] = mem[(pos + i - 1) + 1]  BY <4>1, <2>4
        <5> QED BY <5>1, <4>1, Zenon
      <4>4. t[i] = mem[pos + (i + 1) - 1]  BY <4>1, <2>1, <2>6, Zenon
      <4> QED BY <4>2, <4>3, <4>4
    <3> QED BY <2>2, <2>6, <3>1, <3>2, SeqSame
  <2>8. Z!Delete  BY <2>5, <2>6, <2>7 DEF Z!Delete, Left, Right, t
  <2> QED BY <2>8 DEF TextStep, Z!Next
<1>2. CASE ~(pos < len)
  <2>1. UNCHANGED textVars  BY <1>2 DEF Delete, textVars
  <2> QED BY <2>1, SameText
<1> QED BY <1>1, <1>2

LEMMA BackspaceStep ==
    ASSUME TextOK, TextOK', NEW k, Backspace(k)
    PROVE  TextStep
<1>1. CASE pos > 0
  <2>1. /\ Left \in PLine /\ Len(Left) = pos
        /\ \A i \in 1 .. pos : Left[i] = mem[i - 1]
        /\ Right \in PLine /\ Len(Right) = len - pos
        /\ \A i \in 1 .. (len - pos) : Right[i] = mem[pos + i - 1]
        /\ pos \in Nat /\ len \in Nat /\ pos <= len /\ len < BufLen
      BY Sides
  <2>2. /\ Left' \in PLine /\ Len(Left') = pos'
        /\ \A i \in 1 .. pos' : Left'[i] = mem'[i - 1]
        /\ Right' \in PLine /\ Len(Right') = len' - pos'
        /\ \A i \in 1 .. (len' - pos') : Right'[i] = mem'[pos' + i - 1]
      BY SidesNext
  <2>3. /\ mem' = Moved(mem, pos - 1, pos, len - pos + 1)
        /\ pos' = pos - 1 /\ len' = len - 1
      BY <1>1 DEF Backspace
  <2>4. \A i \in 0 .. (BufLen - 1) :
            mem'[i] = IF pos - 1 <= i /\ i < len THEN mem[i + 1] ELSE mem[i]
      BY <1>1, <2>1, <2>3, Constants DEF Moved
  <2> DEFINE f == SubSeq(Left, 1, Len(Left) - 1)
  <2>5. f \in PLine /\ Len(f) = pos - 1 /\ Left # <<>> /\ \A i \in 1 .. pos - 1 : f[i] = Left[i]
    <3>1. /\ 1 \in Int /\ Len(Left) - 1 \in Int
          /\ \A i \in 1 .. Len(Left) - 1 : Left[i] \in Printable
        BY <2>1 DEF PLine
    <3>2. /\ f \in Seq(Printable)
          /\ Len(f) = IF 1 <= Len(Left) - 1 THEN Len(Left) - 1 - 1 + 1 ELSE 0
          /\ \A i \in 1 .. Len(Left) - 1 - 1 + 1 : f[i] = Left[1 + i - 1]
        BY <3>1, SubSeqProperties
    <3> HIDE DEF f
    <3> QED BY <3>2, <1>1, <2>1 DEF PLine
  <2> HIDE DEF f
  <2>6. Left' = f
    <3>1. ASSUME NEW i \in 1 .. Len(Left') PROVE Left'[i] = f[i]
      <4>1. /\ i \in 1 .. pos' /\ i \in 1 .. pos - 1 /\ i \in 1 .. pos
            /\ i - 1 \in 0 .. (BufLen - 1) /\ ~ (pos - 1 <= i - 1)
          BY <2>1, <2>2, <2>3, Constants
      <4>2. mem'[i - 1] = mem[i - 1]  BY <4>1, <2>4
      <4> QED BY <4>1, <4>2, <2>1, <2>2, <2>5, Zenon
    <3>2. Len(Left') = Len(f)  BY <2>2, <2>3, <2>5
    <3> QED BY <2>2, <2>5, <3>1, <3>2, SeqSame
  <2>7. Right' = Right
    <3>1. Len(Right') = Len(Right)  BY <2>1, <2>2, <2>3
    <3>2. ASSUME NEW i \in 1 .. Len(Right') PROVE Right'[i] = Right[i]
      <4> DEFINE j == pos' + i - 1
      <4>1. /\ i \in 1 .. (len' - pos') /\ i \in 1 .. (len - pos)
            /\ j \in 0 .. (BufLen - 1) /\ pos - 1 <= j /\ j < len /\ j + 1 = pos + i - 1
          BY <1>1, <2>1, <2>2, <2>3, Constants
      <4>2. Right'[i] = mem'[j]  BY <4>1, <2>2, Zenon
      <4> HIDE DEF j
      <4>3. mem'[j] = mem[j + 1]  BY <4>1, <2>4
      <4>4. Right[i] = mem[pos + i - 1]  BY <4>1, <2>1
      <4> QED BY <4>1, <4>2, <4>3, <4>4, Zenon
    <3> QED BY <2>1, <2>2, <3>1, <3>2, SeqSame
  <2>8. Z!Backspace  BY <2>5, <2>6, <2>7 DEF Z!Backspace, Z!Front, Left, Right, f
  <2> QED BY <2>8 DEF TextStep, Z!Next
<1>2. CASE ~(pos > 0)
  <2>1. UNCHANGED textVars  BY <1>2 DEF Backspace
  <2> QED BY <2>1, SameText
<1> QED BY <1>1, <1>2

(* A character goes in before the cursor.                                  *)
LEMMA InsertStep ==
    ASSUME TextOK, TextOK', NEW k, Insert(k)
    PROVE  TextStep
<1>1. CASE HasRoom
  <2>1. /\ Left \in PLine /\ Len(Left) = pos
        /\ \A i \in 1 .. pos : Left[i] = mem[i - 1]
        /\ Right \in PLine /\ Len(Right) = len - pos
        /\ \A i \in 1 .. (len - pos) : Right[i] = mem[pos + i - 1]
        /\ pos \in Nat /\ len \in Nat /\ pos <= len /\ len < BufLen
      BY Sides
  <2>2. /\ Left' \in PLine /\ Len(Left') = pos'
        /\ \A i \in 1 .. pos' : Left'[i] = mem'[i - 1]
        /\ Right' \in PLine /\ Len(Right') = len' - pos'
        /\ \A i \in 1 .. (len' - pos') : Right'[i] = mem'[pos' + i - 1]
      BY SidesNext
  <2>3. /\ mem' = [Moved(mem, pos + 1, pos, len - pos) EXCEPT ![pos] = k, ![len + 1] = NUL]
        /\ pos' = pos + 1 /\ len' = len + 1 /\ k \in Printable
      BY <1>1 DEF Insert
  <2>4. BufLen \in Nat /\ len + 1 < BufLen  BY <1>1, <2>1, Constants DEF HasRoom
  <2>5. \A i \in 0 .. (BufLen - 1) :
            mem'[i] = IF i = len + 1 THEN NUL
                      ELSE IF i = pos THEN k
                      ELSE IF pos < i /\ i <= len THEN mem[i - 1] ELSE mem[i]
      BY <1>1, <2>1, <2>3, <2>4, InsertedMemory
  <2> DEFINE a == Append(Left, k)
  <2>6. a \in PLine /\ Len(a) = pos + 1 /\ a[pos + 1] = k /\ \A i \in 1 .. pos : a[i] = Left[i]
      BY <2>1, <2>3 DEF PLine
  <2> HIDE DEF a
  <2>7. Left' = a
    <3>1. ASSUME NEW i \in 1 .. Len(Left') PROVE Left'[i] = a[i]
      <4>1. /\ i \in 1 .. pos' /\ i - 1 \in 0 .. (BufLen - 1) /\ i - 1 # len + 1
          BY <2>1, <2>2, <2>3, <2>4
      <4>2. Left'[i] = mem'[i - 1]  BY <4>1, <2>2
      <4>3. CASE i = pos + 1
        <5>1. i - 1 = pos  BY <4>3, <2>1
        <5>2. mem'[i - 1] = k  BY <4>1, <5>1, <2>5
        <5> QED BY <4>2, <4>3, <5>2, <2>6
      <4>4. CASE i # pos + 1
        <5>1. i \in 1 .. pos /\ i - 1 # pos /\ ~ (pos < i - 1)  BY <4>1, <4>4, <2>1, <2>3
        <5>2. mem'[i - 1] = mem[i - 1]  BY <4>1, <5>1, <2>5
        <5> QED BY <4>2, <5>1, <5>2, <2>1, <2>6, Zenon
      <4> QED BY <4>3, <4>4
    <3>2. Len(Left') = Len(a)  BY <2>2, <2>3, <2>6
    <3> QED BY <2>2, <2>6, <3>1, <3>2, SeqSame
  <2>8. Right' = Right
    <3>1. Len(Right') = Len(Right)  BY <2>1, <2>2, <2>3
    <3>2. ASSUME NEW i \in 1 .. Len(Right') PROVE Right'[i] = Right[i]
      <4> DEFINE j == pos' + i - 1
      <4>1. /\ i \in 1 .. (len' - pos') /\ i \in 1 .. (len - pos)
            /\ j \in 0 .. (BufLen - 1) /\ j # len + 1 /\ j # pos /\ pos < j /\ j <= len
            /\ j - 1 = pos + i - 1
          BY <2>1, <2>2, <2>3, <2>4
      <4>2. Right'[i] = mem'[j]  BY <4>1, <2>2, Zenon
      <4> HIDE DEF j
      <4>3. mem'[j] = mem[j - 1]  BY <4>1, <2>5
      <4>4. Right[i] = mem[pos + i - 1]  BY <4>1, <2>1
      <4> QED BY <4>1, <4>2, <4>3, <4>4, Zenon
    <3> QED BY <2>1, <2>2, <3>1, <3>2, SeqSame
  <2>9. Len(Left) + Len(Right) < BufLen - 1  BY <2>1, <2>4
  <2>10. Z!Insert(k)  BY <2>7, <2>8, <2>9 DEF Z!Insert, Left, Right, a
  <2> QED BY <2>3, <2>10 DEF TextStep, Z!Next
<1>2. CASE ~HasRoom
  <2>1. UNCHANGED textVars  BY <1>2 DEF Insert
  <2> QED BY <2>1, SameText
<1> QED BY <1>1, <1>2

(* The end of the line goes, from a place behind the cursor.               *)
LEMMA CutStep ==
    ASSUME TextOK, TextOK', NEW n \in {pos, len},
           mem' = [mem EXCEPT ![n] = NUL], len' = n, pos' = pos
    PROVE  TextStep
<1>1. /\ Left \in PLine /\ Len(Left) = pos
      /\ \A i \in 1 .. pos : Left[i] = mem[i - 1]
      /\ Right \in PLine /\ Len(Right) = len - pos
      /\ \A i \in 1 .. (len - pos) : Right[i] = mem[pos + i - 1]
      /\ pos \in Nat /\ len \in Nat /\ pos <= len /\ len < BufLen
    BY Sides
<1>2. /\ Left' \in PLine /\ Len(Left') = pos'
      /\ \A i \in 1 .. pos' : Left'[i] = mem'[i - 1]
      /\ Right' \in PLine /\ Len(Right') = len' - pos'
      /\ \A i \in 1 .. (len' - pos') : Right'[i] = mem'[pos' + i - 1]
    BY SidesNext
<1>3. \A i \in 0 .. (BufLen - 1) : i # n => mem'[i] = mem[i]  BY DEF TextOK
<1>4. n \in Nat /\ pos <= n /\ n <= len /\ BufLen \in Nat  BY <1>1, Constants
<1>5. Left' = Left
  <2>1. ASSUME NEW i \in 1 .. Len(Left') PROVE Left'[i] = Left[i]
    <3>1. /\ i \in 1 .. pos /\ i \in 1 .. pos' /\ i - 1 \in 0 .. (BufLen - 1) /\ i - 1 # n
        BY <1>1, <1>2, <1>4
    <3>2. mem'[i - 1] = mem[i - 1]  BY <3>1, <1>3
    <3> QED BY <3>1, <3>2, <1>1, <1>2, Zenon
  <2>2. Len(Left') = Len(Left)  BY <1>1, <1>2
  <2> QED BY <1>1, <1>2, <2>1, <2>2, SeqSame
<1>6. CASE n = pos
  <2>1. Len(Right') = 0  BY <1>1, <1>2, <1>6
  <2>2. Right' = <<>>  BY <1>2, <2>1 DEF PLine
  <2>3. Z!KillToEnd  BY <1>5, <2>2 DEF Z!KillToEnd, Left, Right
  <2> QED BY <2>3 DEF TextStep, Z!Next
<1>7. CASE n = len
  <2>1. Right' = Right
    <3>1. ASSUME NEW i \in 1 .. Len(Right') PROVE Right'[i] = Right[i]
      <4> DEFINE j == pos + i - 1
      <4>1. /\ i \in 1 .. (len' - pos') /\ i \in 1 .. (len - pos) /\ j = pos' + i - 1
            /\ j \in 0 .. (BufLen - 1) /\ j # n
          BY <1>1, <1>2, <1>4, <1>7
      <4>2. Right'[i] = mem'[j] /\ Right[i] = mem[j]  BY <4>1, <1>1, <1>2, Zenon
      <4> HIDE DEF j
      <4> QED BY <4>1, <4>2, <1>3
    <3>2. Len(Right') = Len(Right)  BY <1>1, <1>2, <1>7
    <3> QED BY <1>1, <1>2, <3>1, <3>2, SeqSame
  <2> QED BY <1>5, <2>1 DEF TextStep
<1> QED BY <1>6, <1>7

-----------------------------------------------------------------------------
LEMMA DoesStep ==
    ASSUME TextOK, TextOK', HistOK, NEW what, Does(what)
    PROVE  TextStep
<1>1. pos \in Nat /\ len \in Nat  BY DEF TextOK
<1>2. ASSUME NEW p \in {pos - 1, pos, pos + 1, 0, len}, MoveTo(p) PROVE TextStep
    BY <1>2, MoveStep DEF MoveTo
<1>3. CASE Up
  <2>1. CASE hist # <<>> /\ histIndex > 0
    <3>1. pos' = len'  BY <1>3, <2>1 DEF Up, Shows
    <3> QED BY <3>1, ReplaceStep
  <2>2. CASE ~ (hist # <<>> /\ histIndex > 0)
    <3>1. UNCHANGED textVars  BY <1>3, <2>2 DEF Up
    <3> QED BY <3>1, SameText
  <2> QED BY <2>1, <2>2
<1>4. CASE Down
  <2>1. CASE hist # <<>> /\ histIndex < Len(hist)
    <3>1. pos' = len'  BY <1>4, <2>1 DEF Down, Shows
    <3> QED BY <3>1, ReplaceStep
  <2>2. CASE ~ (hist # <<>> /\ histIndex < Len(hist))
    <3>1. UNCHANGED textVars  BY <1>4, <2>2 DEF Down
    <3> QED BY <3>1, SameText
  <2> QED BY <2>1, <2>2
<1>5. CASE MoveTo(IF pos > 0 THEN pos - 1 ELSE pos)
  <2>1. CASE pos > 0  BY <1>2, <1>5, <2>1
  <2>2. CASE ~ (pos > 0)  BY <1>2, <1>5, <2>2
  <2> QED BY <2>1, <2>2
<1>6. CASE MoveTo(IF pos < len THEN pos + 1 ELSE pos)
  <2>1. CASE pos < len  BY <1>2, <1>6, <2>1
  <2>2. CASE ~ (pos < len)  BY <1>2, <1>6, <2>2
  <2> QED BY <2>1, <2>2
<1>7. CASE MoveTo(0) \/ MoveTo(len)  BY <1>2, <1>7
<1>8. CASE Delete  BY <1>8, DeleteStep
<1>9. CASE UNCHANGED <<textVars, histVars>>  BY <1>9, SameText
<1> QED BY <1>3, <1>4, <1>5, <1>6, <1>7, <1>8, <1>9 DEF Does

LEMMA FeedStep ==
    ASSUME StateOK, StateOK', NEW k \in Keys, Feed(k)
    PROVE  TextStep
<1>1. TextOK /\ TextOK' /\ HistOK  BY DEF StateOK
<1>2. ASSUME UNCHANGED textVars PROVE TextStep  BY <1>2, SameText
<1>3. CASE AfterEsc(k) \/ Escape(k)  BY <1>2, <1>3 DEF AfterEsc, Escape
<1>4. CASE AfterCsi(k) \/ AfterNum(k) \/ AfterSs3(k) \/ AfterExt(k) \/ CtrlAEL(k)
  <2>1. PICK what : Does(what)
      BY <1>4 DEF AfterCsi, AfterNum, AfterSs3, AfterExt, CtrlAEL
  <2> QED BY <2>1, <1>1, DoesStep
<1>5. CASE Complete(k)
  <2>1. CASE comps' = {}  BY <1>2, <1>5, <2>1 DEF Complete
  <2>2. CASE comps' # {}
    <3>1. pos' = len'  BY <1>5, <2>2 DEF Complete, Shows
    <3> QED BY <3>1, <1>1, ReplaceStep
  <2> QED BY <2>1, <2>2
<1>6. CASE Enter(k)
  <2>1. mem' = [mem EXCEPT ![len] = NUL] /\ len' = len /\ pos' = pos  BY <1>6 DEF Enter
  <2> QED BY <2>1, <1>1, CutStep
<1>7. CASE CtrlK(k)
  <2>1. mem' = [mem EXCEPT ![pos] = NUL] /\ len' = pos /\ pos' = pos  BY <1>7 DEF CtrlK
  <2> QED BY <2>1, <1>1, CutStep
<1>8. CASE CtrlC(k) \/ CtrlU(k)
  <2>1. len' = 0 /\ pos' = 0  BY <1>8 DEF CtrlC, CtrlU, Emptied
  <2> QED BY <2>1, <1>1, EmptyStep
<1>9. CASE CtrlD(k)
  <2>1. CASE len = 0  BY <1>2, <1>9, <2>1 DEF CtrlD
  <2>2. CASE len # 0
    <3>1. Delete  BY <1>9, <2>2 DEF CtrlD
    <3> QED BY <3>1, <1>1, DeleteStep
  <2> QED BY <2>1, <2>2
<1>10. CASE Backspace(k)  BY <1>1, <1>10, BackspaceStep
<1>11. CASE Insert(k)  BY <1>1, <1>11, InsertStep
<1> QED BY <1>3, <1>4, <1>5, <1>6, <1>7, <1>8, <1>9, <1>10, <1>11 DEF Feed

LEMMA NextToTextLine == EditorInv /\ EditorInv' /\ [Next]_vars => [Z!Next]_(Z!vars)
<1> SUFFICES ASSUME EditorInv, EditorInv', [Next]_vars PROVE [Z!Next]_(Z!vars)
    OBVIOUS
<1>1. StateOK /\ StateOK'  BY DEF EditorInv, StateOK
<1>2. CASE Step
  <2>1. ASSUME NEW k \in Keys, Feed(k) PROVE TextStep
    BY <1>1, <2>1, FeedStep
  <2>2. ASSUME Restart PROVE TextStep
    <3>1. len' = 0 /\ pos' = 0  BY <2>2 DEF Restart, Start
    <3> QED BY <3>1, <1>1, EmptyStep DEF StateOK
  <2>3. TextStep  BY <1>2, <2>1, <2>2 DEF Step
  <2> QED BY <2>3 DEF TextStep, Left, Right, Z!vars
<1>3. CASE UNCHANGED vars
  <2>1. TextStep  BY <1>3, SameText DEF vars
  <2> QED BY <2>1 DEF TextStep, Left, Right, Z!vars
<1> QED BY <1>2, <1>3 DEF Next, KeepsDraft, Over

LEMMA InitToTextLine == Init => Z!Init
<1> SUFFICES ASSUME Init PROVE Z!Init  OBVIOUS
<1>1. TextOK  BY Initially DEF EditorInv
<1>2. Left \in PLine /\ Len(Left) = 0 /\ Right \in PLine /\ Len(Right) = 0
  <2>1. /\ Left \in PLine /\ Len(Left) = pos /\ Right \in PLine /\ Len(Right) = len - pos
      BY <1>1, Sides
  <2> QED BY <2>1 DEF Init
<1>3. Left = <<>> /\ Right = <<>>  BY <1>2 DEF PLine
<1> QED BY <1>3 DEF Z!Init, Left, Right

(* Whatever keys are pressed, the array and its cursor behave as a line of *)
(* text: every memmove of linenoiseEditFeed moves what it should.          *)
THEOREM EditorImplementsTextLine == Spec => ImplementsTextLine
<1> QED
  BY InitToTextLine, NextToTextLine, EditorInvariant, PTL DEF Spec, ImplementsTextLine, Z!Spec
=============================================================================
