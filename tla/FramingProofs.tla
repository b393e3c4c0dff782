--------------------------- MODULE FramingProofs ---------------------------
(* What holds of frames for every radix, slack and payload.                *)
EXTENDS Framing, SequenceTheorems, TLAPS

(* Clipping a sequence keeps its type and bounds its length.               *)
LEMMA ClipProps ==
    ASSUME NEW S, NEW s \in Seq(S), NEW n \in Nat
    PROVE  /\ Clip(s, n) \in Seq(S)
           /\ Len(Clip(s, n)) = Least(n, Len(s))
BY DEF Clip, Least

(* Where the elements of a concatenation come from.                        *)
LEMMA ConcatProps ==
    ASSUME NEW S, NEW s \in Seq(S), NEW t \in Seq(S)
    PROVE  /\ s \o t \in Seq(S)
           /\ Len(s \o t) = Len(s) + Len(t)
           /\ \A i \in 1 .. Len(s) : (s \o t)[i] = s[i]
           /\ \A i \in 1 .. Len(t) : (s \o t)[Len(s) + i] = t[i]
OBVIOUS

LEMMA BufSizeProps == BufSize \in Nat /\ BufSize >= 4 /\ LenMax = BufSize - 1
<1>1. Radix \in Nat /\ Radix >= 2  BY FramingAssumption
<1>2. Radix * Radix \in Nat /\ Radix * Radix >= 4  BY <1>1
<1> QED BY <1>2 DEF BufSize, LenMax

(* -T never lets a payload outgrow the buffer, nor the header's limit when *)
(* -L is given.                                                            *)
LEMMA WithTermProps ==
    ASSUME NEW p \in Seq(Byte), Len(p) <= BufSize, NEW addLen \in BOOLEAN
    PROVE  /\ WithTerm(p, addLen) \in Seq(Byte)
           /\ Len(WithTerm(p, addLen)) <= BufSize
           /\ addLen => Len(WithTerm(p, addLen)) <= LenMax
<1> DEFINE kept == IF addLen THEN Clip(p, LenMax - 1) ELSE p
<1>1. TermChar \in Byte  BY FramingAssumption DEF Byte
<1>2. LenMax - 1 \in Nat  BY BufSizeProps
<1>3. kept \in Seq(Byte) /\ Len(kept) \in Nat /\ Len(kept) <= BufSize
      /\ (addLen => Len(kept) <= LenMax - 1)
    BY <1>2, ClipProps, BufSizeProps DEF Least
<1>4. Append(kept, TermChar) \in Seq(Byte)
      /\ Len(Append(kept, TermChar)) = Len(kept) + 1
    BY <1>1, <1>3
<1>5. WithTerm(p, addLen) = IF Len(kept) < BufSize THEN Append(kept, TermChar) ELSE kept
    BY DEF WithTerm
<1> HIDE DEF kept
<1> QED BY <1>3, <1>4, <1>5, BufSizeProps

(* A number below Radix^2 is what its two digits say it is: the header     *)
(* survives the masking to two bytes.                                      *)
LEMMA HeaderDigits ==
    ASSUME NEW n \in Nat, n <= LenMax
    PROVE  /\ Header(n) \in Seq(Byte) /\ Len(Header(n)) = 2
           /\ Header(n)[1] * Radix + Header(n)[2] = n
<1> DEFINE q == n \div Radix
           r == n % Radix
<1>1. Radix \in Nat /\ Radix >= 2  BY FramingAssumption
<1>2. q \in Nat /\ r \in Nat /\ r < Radix /\ n = Radix * q + r
    BY <1>1, Z3
<1>3. n < Radix * Radix  BY BufSizeProps DEF BufSize
<1>4. q < Radix
    BY <1>1, <1>2, <1>3, Z3
<1>5. q % Radix = q  BY <1>1, <1>2, <1>4, Z3
<1>6. Header(n) = <<q, r>>  BY <1>5 DEF Header
<1>7. Radix * q = q * Radix  BY <1>1, <1>2
<1> HIDE DEF q, r
<1>8. q \in Byte /\ r \in Byte  BY <1>1, <1>2, <1>4 DEF Byte
<1>9. <<q, r>> \in Seq(Byte) /\ Len(<<q, r>>) = 2  BY <1>8
<1>10. <<q, r>>[1] = q /\ <<q, r>>[2] = r  OBVIOUS
<1>11. q * Radix + r = n  BY <1>2, <1>7
<1> QED BY <1>6, <1>9, <1>10, <1>11

LEMMA WithLengthProps ==
    ASSUME NEW p \in Seq(Byte)
    PROVE  /\ WithLength(p) \in Seq(Byte)
           /\ Len(WithLength(p)) = 2 + Least(LenMax, Len(p))
           /\ ExpectedTotal(WithLength(p)) = Len(WithLength(p))
<1> DEFINE kept == Clip(p, LenMax)
<1>1. LenMax \in Nat  BY BufSizeProps
<1>2. kept \in Seq(Byte) /\ Len(kept) = Least(LenMax, Len(p)) /\ Len(kept) \in Nat
      /\ Len(kept) <= LenMax
    BY <1>1, ClipProps DEF Least
<1>3. WithLength(p) = Header(Len(kept)) \o kept  BY DEF WithLength
<1> HIDE DEF kept
<1>4. Header(Len(kept)) \in Seq(Byte) /\ Len(Header(Len(kept))) = 2
      /\ Header(Len(kept))[1] * Radix + Header(Len(kept))[2] = Len(kept)
    BY <1>2, HeaderDigits
<1> DEFINE h == Header(Len(kept))
           w == h \o kept
<1> HIDE DEF h
<1>5. w \in Seq(Byte) /\ Len(w) = 2 + Len(kept) /\ w[1] = h[1] /\ w[2] = h[2]
  <2>1. h \in Seq(Byte) /\ Len(h) = 2  BY <1>4 DEF h
  <2>2. kept \in Seq(Byte)  BY <1>2
  <2>3. /\ w \in Seq(Byte) /\ Len(w) = Len(h) + Len(kept)
        /\ \A i \in 1 .. Len(h) : w[i] = h[i]
      BY <2>1, <2>2, ConcatProps
  <2> QED BY <2>1, <2>3
<1> HIDE DEF w
<1>6. ExpectedTotal(w) = 2 + Len(kept)  BY <1>4, <1>5 DEF ExpectedTotal, h
<1>7. WithLength(p) = w  BY <1>3 DEF w, h
<1> QED BY <1>2, <1>5, <1>6, <1>7

(* The payload as it stands before a length header is put in front of it.  *)
LEMMA FrameProps ==
    ASSUME NEW p \in Seq(Byte), NEW addLen \in BOOLEAN, NEW hasTerm \in BOOLEAN
    PROVE  /\ Frame(p, addLen, hasTerm) \in Seq(Byte)
           /\ Len(Frame(p, addLen, hasTerm)) <= SendCap
           /\ addLen => /\ Len(Frame(p, addLen, hasTerm)) >= 2
                        /\ Len(Frame(p, addLen, hasTerm))
                             >= ExpectedTotal(Frame(p, addLen, hasTerm))
                        /\ ExpectedTotal(Frame(p, addLen, hasTerm))
                             = Len(Frame(p, addLen, hasTerm))
<1> DEFINE c == Clip(p, BufSize)
           t == IF hasTerm THEN WithTerm(c, addLen) ELSE c
<1>1. c \in Seq(Byte) /\ Len(c) \in Nat /\ Len(c) <= BufSize
    BY ClipProps, BufSizeProps DEF Least
<1>2. t \in Seq(Byte) /\ Len(t) \in Nat /\ Len(t) <= BufSize
    BY <1>1, WithTermProps
<1>3. Frame(p, addLen, hasTerm) = IF addLen THEN WithLength(t) ELSE t
    BY DEF Frame
<1> HIDE DEF c, t
<1>4. /\ WithLength(t) \in Seq(Byte)
      /\ Len(WithLength(t)) \in Nat
      /\ Len(WithLength(t)) >= 2 /\ Len(WithLength(t)) <= BufSize + 1
      /\ ExpectedTotal(WithLength(t)) = Len(WithLength(t))
  <2>1. /\ WithLength(t) \in Seq(Byte)
        /\ Len(WithLength(t)) = 2 + Least(LenMax, Len(t))
        /\ ExpectedTotal(WithLength(t)) = Len(WithLength(t))
      BY <1>2, WithLengthProps
  <2>2. Least(LenMax, Len(t)) \in Nat /\ Least(LenMax, Len(t)) <= LenMax
      BY <1>2, BufSizeProps DEF Least
  <2> QED BY <2>1, <2>2, BufSizeProps
<1>5. Slack \in Nat /\ Slack >= 1  BY FramingAssumption
<1> QED BY <1>2, <1>3, <1>4, <1>5, BufSizeProps DEF SendCap

(* No payload, of any length, overruns send_buf once -T and -L have been   *)
(* applied to it (mode_oneshot.c, 93 to 160).                              *)
THEOREM FramesFit ==
    ASSUME NEW p \in Seq(Byte), NEW addLen \in BOOLEAN, NEW hasTerm \in BOOLEAN
    PROVE  Len(Frame(p, addLen, hasTerm)) <= SendCap
BY FrameProps

(* The length -L writes is the one -D reads back: for every payload and    *)
(* radix, the decoder counts the whole frame, header included.             *)
THEOREM HeaderRoundTrip ==
    ASSUME NEW p \in Seq(Byte), NEW hasTerm \in BOOLEAN
    PROVE  /\ FrameComplete(Frame(p, TRUE, hasTerm))
           /\ ExpectedTotal(Frame(p, TRUE, hasTerm)) = Len(Frame(p, TRUE, hasTerm))
<1>1. TRUE \in BOOLEAN  OBVIOUS
<1>2. /\ Len(Frame(p, TRUE, hasTerm)) >= 2
      /\ Len(Frame(p, TRUE, hasTerm)) >= ExpectedTotal(Frame(p, TRUE, hasTerm))
      /\ ExpectedTotal(Frame(p, TRUE, hasTerm)) = Len(Frame(p, TRUE, hasTerm))
    BY <1>1, FrameProps, Zenon
<1> QED BY <1>2 DEF FrameComplete

(* A part of a sequence.                                                   *)
LEMMA PartProps ==
    ASSUME NEW S, NEW s \in Seq(S), NEW m \in 1 .. Len(s) + 1, NEW n \in (m - 1) .. Len(s)
    PROVE  /\ SubSeq(s, m, n) \in Seq(S)
           /\ Len(SubSeq(s, m, n)) = n - m + 1
           /\ \A i \in 1 .. (n - m + 1) : SubSeq(s, m, n)[i] = s[m + i - 1]
<1>1. m \in Int /\ n \in Int /\ \A i \in m .. n : s[i] \in S  OBVIOUS
<1>2. /\ SubSeq(s, m, n) \in Seq(S)
      /\ Len(SubSeq(s, m, n)) = IF m <= n THEN n - m + 1 ELSE 0
      /\ \A i \in 1 .. n - m + 1 : SubSeq(s, m, n)[i] = s[m + i - 1]
    BY <1>1, SubSeqProperties
<1>3. m <= n \/ n - m + 1 = 0  OBVIOUS
<1> QED BY <1>2, <1>3

(* The parts a concatenation was made of.                                  *)
LEMMA MiddleProps ==
    ASSUME NEW a \in Seq(Byte), NEW b \in Seq(Byte), NEW c \in Seq(Byte),
           NEW f, f = a \o (b \o c)
    PROVE  /\ f \in Seq(Byte) /\ Len(f) = Len(a) + Len(b) + Len(c)
           /\ \A i \in 1 .. Len(a) : f[i] = a[i]
           /\ \A i \in 1 .. Len(b) : f[Len(a) + i] = b[i]
           /\ \A i \in 1 .. Len(c) : f[Len(a) + Len(b) + i] = c[i]
           /\ SubSeq(f, Len(a) + 1, Len(a) + Len(b)) = b
           /\ SubSeq(f, Len(a) + Len(b) + 1, Len(f)) = c
<1> DEFINE r == b \o c
           m == Len(a)
           k == Len(b)
           l == Len(c)
<1>1. m \in Nat /\ k \in Nat /\ l \in Nat  OBVIOUS
<1>2. /\ r \in Seq(Byte) /\ Len(r) = k + l
      /\ \A i \in 1 .. k : r[i] = b[i]
      /\ \A i \in 1 .. l : r[k + i] = c[i]
    BY ConcatProps
<1>21. r \in Seq(Byte)  BY <1>2
<1>22. f = a \o r  OBVIOUS
<1> HIDE DEF r
<1>3. /\ f \in Seq(Byte) /\ Len(f) = m + Len(r)
      /\ \A i \in 1 .. m : f[i] = a[i]
      /\ \A i \in 1 .. Len(r) : f[m + i] = r[i]
    BY <1>21, <1>22, ConcatProps
<1>4. Len(f) = m + k + l  BY <1>1, <1>2, <1>3
<1>5. \A i \in 1 .. k : f[m + i] = b[i]  BY <1>1, <1>2, <1>3
<1>6. \A i \in 1 .. l : f[m + k + i] = c[i]
  <2> TAKE i \in 1 .. l
  <2>1. k + i \in 1 .. Len(r) /\ m + (k + i) = m + k + i  BY <1>1, <1>2
  <2> QED BY <2>1, <1>2, <1>3
<1>7. SubSeq(f, m + 1, m + k) = b
  <2> DEFINE t == SubSeq(f, m + 1, m + k)
  <2>1. m + 1 \in 1 .. Len(f) + 1 /\ m + k \in (m + 1) - 1 .. Len(f) /\ (m + k) - (m + 1) + 1 = k
      BY <1>1, <1>4
  <2>2. /\ t \in Seq(Byte) /\ Len(t) = k
        /\ \A i \in 1 .. k : t[i] = f[m + 1 + i - 1]
      BY <2>1, <1>3, PartProps
  <2>3. \A i \in 1 .. k : t[i] = b[i]
    <3> HIDE DEF t
    <3> TAKE i \in 1 .. k
    <3>1. m + 1 + i - 1 = m + i  BY <1>1
    <3> QED BY <2>2, <1>5, <3>1
  <2> HIDE DEF t
  <2>4. t = b  BY <2>2, <2>3, SeqEqual
  <2> QED BY <2>4 DEF t
<1>8. SubSeq(f, m + k + 1, Len(f)) = c
  <2> DEFINE t == SubSeq(f, m + k + 1, Len(f))
  <2>1. /\ m + k + 1 \in 1 .. Len(f) + 1 /\ Len(f) \in (m + k + 1) - 1 .. Len(f)
        /\ Len(f) - (m + k + 1) + 1 = l
      BY <1>1, <1>4
  <2>2. /\ t \in Seq(Byte) /\ Len(t) = l
        /\ \A i \in 1 .. l : t[i] = f[m + k + 1 + i - 1]
      BY <2>1, <1>3, PartProps
  <2>3. \A i \in 1 .. l : t[i] = c[i]
    <3> HIDE DEF t
    <3> TAKE i \in 1 .. l
    <3>1. m + k + 1 + i - 1 = m + k + i  BY <1>1
    <3> QED BY <2>2, <1>6, <3>1
  <2> HIDE DEF t
  <2>4. t = c  BY <2>2, <2>3, SeqEqual
  <2> QED BY <2>4 DEF t
<1> QED BY <1>3, <1>4, <1>5, <1>6, <1>7, <1>8 DEF m, k, l

(* A prefix of a prefix.                                                   *)
LEMMA PrefixProps ==
    ASSUME NEW s \in Seq(Byte), NEW n \in 0 .. Len(s), NEW m \in Nat
    PROVE  /\ SubSeq(s, 1, n) \in Seq(Byte)
           /\ Len(SubSeq(s, 1, n)) = n
           /\ \A i \in 1 .. n : SubSeq(s, 1, n)[i] = s[i]
           /\ Clip(s, m) = SubSeq(s, 1, Least(m, Len(s)))
           /\ Least(m, n) \in 0 .. n
           /\ Clip(SubSeq(s, 1, n), m) = SubSeq(s, 1, Least(m, n))
<1>1. /\ SubSeq(s, 1, n) \in Seq(Byte) /\ Len(SubSeq(s, 1, n)) = n
      /\ \A i \in 1 .. n : SubSeq(s, 1, n)[i] = s[i]
    OBVIOUS
<1>2. Least(m, n) \in 0 .. n  BY DEF Least
<1>3. Clip(s, m) = SubSeq(s, 1, Least(m, Len(s)))  BY DEF Clip
<1> DEFINE t == SubSeq(s, 1, n)
           l == Least(m, n)
<1>4. Clip(t, m) = SubSeq(t, 1, l)  BY <1>1 DEF Clip
<1>5. t \in Seq(Byte) /\ Len(t) = n /\ \A i \in 1 .. n : t[i] = s[i]  BY <1>1
<1> HIDE DEF t, l
<1>6. l \in 0 .. n  BY <1>2 DEF l
<1>7. SubSeq(t, 1, l) = SubSeq(s, 1, l)
    BY <1>5, <1>6
<1> QED BY <1>1, <1>2, <1>3, <1>4, <1>7 DEF t, l

(* What a frame consists of: the length, a part of the payload that lacks  *)
(* a tail at most, and the byte of -T.                                     *)
LEMMA FrameParts ==
    ASSUME NEW p \in Seq(Byte), NEW addLen \in BOOLEAN, NEW hasTerm \in BOOLEAN
    PROVE  \E k \in Least(Len(p), LenMax - 1) .. Len(p),
              h \in Seq(Byte), e \in Seq(Byte) :
              /\ e \in {<<>>, <<TermChar>>}
              /\ Len(h) = IF addLen THEN 2 ELSE 0
              /\ addLen /\ hasTerm => e = <<TermChar>>
              /\ Frame(p, addLen, hasTerm) = h \o (SubSeq(p, 1, k) \o e)
<1> DEFINE c == Clip(p, BufSize)
           n == Least(BufSize, Len(p))
           t == IF hasTerm THEN WithTerm(c, addLen) ELSE c
           Low == Least(Len(p), LenMax - 1)
           Payload(k, e) == SubSeq(p, 1, k) \o e
<1>1. Len(p) \in Nat /\ BufSize \in Nat /\ BufSize >= 4 /\ LenMax = BufSize - 1
    BY BufSizeProps
<1>2. n \in 0 .. Len(p) /\ c = SubSeq(p, 1, n) /\ Len(c) = n /\ n <= BufSize /\ Low <= n
      /\ c \in Seq(Byte)
  <2>1. n \in 0 .. Len(p) /\ n <= BufSize /\ Low <= n  BY <1>1 DEF Least
  <2>2. c = SubSeq(p, 1, n)  BY <1>1 DEF Clip
  <2>3. SubSeq(p, 1, n) \in Seq(Byte) /\ Len(SubSeq(p, 1, n)) = n  BY <2>1
  <2> QED BY <2>1, <2>2, <2>3
<1>3. Frame(p, addLen, hasTerm) = IF addLen THEN WithLength(t) ELSE t  BY DEF Frame
<1>4. TermChar \in Byte  BY FramingAssumption DEF Byte
<1>5. \A k \in 0 .. Len(p) : /\ Payload(k, <<>>) = SubSeq(p, 1, k)
                             /\ Payload(k, <<TermChar>>) = Append(SubSeq(p, 1, k), TermChar)
                             /\ SubSeq(p, 1, k) \in Seq(Byte) /\ Len(SubSeq(p, 1, k)) = k
  <2> TAKE k \in 0 .. Len(p)
  <2>1. SubSeq(p, 1, k) \in Seq(Byte) /\ Len(SubSeq(p, 1, k)) = k  OBVIOUS
  <2> DEFINE s == SubSeq(p, 1, k)
  <2> HIDE DEF s
  <2>2. s \in Seq(Byte)  BY <2>1 DEF s
  <2>3. s \o <<>> = s /\ s \o <<TermChar>> = Append(s, TermChar)  BY <2>2, <1>4
  <2> QED BY <2>1, <2>3 DEF s
<1>6. \E k \in Low .. Len(p), e \in {<<>>, <<TermChar>>} :
          /\ t = Payload(k, e)
          /\ hasTerm /\ addLen => e = <<TermChar>> /\ Len(t) <= LenMax
          /\ ~hasTerm => e = <<>> /\ k = n
  <2>1. CASE ~hasTerm
    <3>1. t = Payload(n, <<>>)  BY <2>1, <1>2, <1>5
    <3>2. n \in Low .. Len(p)  BY <1>1, <1>2 DEF Least
    <3> QED BY <2>1, <3>1, <3>2
  <2>2. CASE hasTerm
    <3> DEFINE k == IF addLen THEN Least(LenMax - 1, n) ELSE n
    <3>1. k \in Low .. Len(p) /\ k \in 0 .. Len(p) /\ (addLen => k < BufSize /\ k <= LenMax - 1)
        BY <1>1, <1>2 DEF Least
    <3>2. (IF addLen THEN Clip(c, LenMax - 1) ELSE c) = SubSeq(p, 1, k)
      <4>1. LenMax - 1 \in Nat  BY <1>1
      <4>2. n \in 0 .. Len(p) /\ c = SubSeq(p, 1, n)  BY <1>2
      <4>3. k = IF addLen THEN Least(LenMax - 1, n) ELSE n  OBVIOUS
      <4> HIDE DEF c, n, k
      <4>4. Clip(SubSeq(p, 1, n), LenMax - 1) = SubSeq(p, 1, Least(LenMax - 1, n))
          BY <4>1, <4>2, PrefixProps
      <4> QED BY <4>2, <4>3, <4>4
    <3>3. t = IF Len(SubSeq(p, 1, k)) < BufSize THEN Append(SubSeq(p, 1, k), TermChar)
              ELSE SubSeq(p, 1, k)
        BY <2>2, <3>2 DEF WithTerm
    <3> HIDE DEF k, t, c, n
    <3>4. Len(SubSeq(p, 1, k)) = k  BY <3>1, <1>5
    <3>5. CASE k < BufSize
      <4>1. t = Payload(k, <<TermChar>>)  BY <3>1, <3>3, <3>4, <3>5, <1>5
      <4>2. Len(t) = k + 1  BY <3>1, <3>3, <3>4, <3>5, <1>4, <1>5
      <4> HIDE DEF Payload
      <4>3. addLen => Len(t) <= LenMax  BY <3>1, <4>2, <1>1
      <4> QED BY <2>2, <3>1, <4>1, <4>3
    <3>6. CASE ~(k < BufSize)
      <4>1. t = Payload(k, <<>>)  BY <3>1, <3>3, <3>4, <3>6, <1>5
      <4>2. ~addLen  BY <3>1, <3>6
      <4> QED BY <2>2, <3>1, <4>1, <4>2
    <3> QED BY <3>5, <3>6
  <2> QED BY <2>1, <2>2
<1>7. PICK k \in Low .. Len(p), e \in {<<>>, <<TermChar>>} :
          /\ t = Payload(k, e)
          /\ hasTerm /\ addLen => e = <<TermChar>> /\ Len(t) <= LenMax
          /\ ~hasTerm => e = <<>> /\ k = n
    BY <1>6
<1>8. Low \in Nat /\ k \in 0 .. Len(p)  BY <1>1, <1>7 DEF Least
<1>81. e \in Seq(Byte)
  <2>1. <<>> \in Seq(Byte) /\ <<TermChar>> \in Seq(Byte)  BY <1>4
  <2> QED BY <2>1, <1>7
<1>9. CASE ~addLen
  <2>1. t \in Seq(Byte)
    <3>1. SubSeq(p, 1, k) \in Seq(Byte)  BY <1>5, <1>8
    <3> QED BY <1>7, <1>81, <3>1, ConcatProps
  <2>2. <<>> \in Seq(Byte) /\ Len(<<>>) = 0  OBVIOUS
  <2>3. <<>> \o t = t
    <3> HIDE DEF t
    <3> QED BY <2>1
  <2>4. Frame(p, addLen, hasTerm) = <<>> \o (SubSeq(p, 1, k) \o e)  BY <1>3, <1>7, <1>9, <2>3
  <2>5. Len(<<>>) = IF addLen THEN 2 ELSE 0  BY <1>9, <2>2
  <2> QED BY <1>7, <1>81, <1>9, <2>2, <2>4, <2>5
<1>10. CASE addLen
  <2> DEFINE kept == Clip(t, LenMax)
             k2 == IF hasTerm THEN k ELSE Least(LenMax, n)
  <2>1. k2 \in Low .. Len(p) /\ kept = Payload(k2, e)
    <3>1. CASE hasTerm
      <4>1. t \in Seq(Byte)
        <5>1. SubSeq(p, 1, k) \in Seq(Byte)  BY <1>5, <1>8
        <5> QED BY <1>7, <1>81, <5>1, ConcatProps
      <4>2. Len(t) <= LenMax  BY <1>7, <1>10, <3>1
      <4> HIDE DEF t
      <4>3. kept = t  BY <4>1, <4>2, <1>1 DEF Clip, Least
      <4> QED BY <3>1, <4>3, <1>7
    <3>2. CASE ~hasTerm
      <4>1. t = c  BY <3>2
      <4>2. LenMax \in Nat /\ n \in 0 .. Len(p)  BY <1>1, <1>2
      <4>21. kept = Clip(SubSeq(p, 1, n), LenMax)  BY <4>1, <1>2
      <4> HIDE DEF kept, n, c, t
      <4>3. kept = SubSeq(p, 1, Least(LenMax, n))  BY <4>2, <4>21, PrefixProps
      <4>4. Least(LenMax, n) \in Low .. Len(p) /\ Least(LenMax, n) \in 0 .. Len(p)
          BY <1>1, <1>2 DEF Least
      <4> QED BY <3>2, <4>3, <4>4, <1>5, <1>7
    <3> QED BY <3>1, <3>2
  <2>2. WithLength(t) = Header(Len(kept)) \o kept  BY DEF WithLength
  <2>3. Header(Len(kept)) \in Seq(Byte) /\ Len(Header(Len(kept))) = 2
    <3>1. t \in Seq(Byte)
      <4>1. SubSeq(p, 1, k) \in Seq(Byte)  BY <1>5, <1>8
      <4> QED BY <1>7, <1>81, <4>1, ConcatProps
    <3>2. Len(kept) \in Nat /\ Len(kept) <= LenMax
      <4> HIDE DEF t
      <4> QED BY <3>1, <1>1, ClipProps DEF Least
    <3> QED BY <3>2, HeaderDigits
  <2> HIDE DEF kept, t, k2
  <2>4. Frame(p, addLen, hasTerm) = Header(Len(kept)) \o (SubSeq(p, 1, k2) \o e)
      BY <1>3, <1>10, <2>1, <2>2
  <2>5. addLen /\ hasTerm => e = <<TermChar>>  BY <1>7
  <2> QED BY <1>81, <1>10, <2>1, <2>3, <2>4, <2>5
<1> QED BY <1>9, <1>10

(* Whatever the payload, its length and the options, what is sent is the   *)
(* payload, of which at most a tail is missing that no header could count, *)
(* and the -T byte closes every frame that has a length too                *)
(* (mode_oneshot.c, 128 to 153).                                           *)
THEOREM OnlyATailIsEverLost ==
    ASSUME NEW p \in Seq(Byte), NEW addLen \in BOOLEAN, NEW hasTerm \in BOOLEAN
    PROVE  LosesOnlyATail(p, Frame(p, addLen, hasTerm), addLen, hasTerm)
<1>1. PICK k \in Least(Len(p), LenMax - 1) .. Len(p),
           h \in Seq(Byte), e \in Seq(Byte) :
              /\ e \in {<<>>, <<TermChar>>}
              /\ Len(h) = IF addLen THEN 2 ELSE 0
              /\ addLen /\ hasTerm => e = <<TermChar>>
              /\ Frame(p, addLen, hasTerm) = h \o (SubSeq(p, 1, k) \o e)
    BY FrameParts
<1> DEFINE s == SubSeq(p, 1, k)
           f == Frame(p, addLen, hasTerm)
           m == IF addLen THEN 2 ELSE 0
<1>2. k \in 0 .. Len(p)  BY <1>1, BufSizeProps DEF Least
<1>3. <<>> \in Seq(Byte) /\ <<TermChar>> \in Seq(Byte)
      /\ Len(<<>>) = 0 /\ Len(<<TermChar>>) = 1 /\ <<TermChar>>[1] = TermChar
  <2>1. TermChar \in Byte  BY FramingAssumption DEF Byte
  <2> QED BY <2>1
<1>5. s \in Seq(Byte) /\ Len(s) = k  BY <1>2
<1>50. s \in Seq(Byte)  BY <1>5
<1>51. f = h \o (s \o e)  BY <1>1
<1> HIDE DEF s, f
<1>6. /\ Len(f) = Len(h) + Len(s) + Len(e)
      /\ \A i \in 1 .. Len(e) : f[Len(h) + Len(s) + i] = e[i]
      /\ SubSeq(f, Len(h) + 1, Len(h) + Len(s)) = s
      /\ SubSeq(f, Len(h) + Len(s) + 1, Len(f)) = e
    BY <1>50, <1>51, MiddleProps
<1>7. Len(h) = m /\ Len(s) = k /\ m \in Nat /\ k \in Nat /\ Len(e) \in Nat
    BY <1>1, <1>2, <1>5
<1>8. addLen /\ hasTerm => f[Len(f)] = TermChar
  <2> SUFFICES ASSUME addLen, hasTerm PROVE f[Len(f)] = TermChar  OBVIOUS
  <2>1. e = <<TermChar>>  BY <1>1
  <2>2. Len(f) = m + k + 1 /\ f[m + k + 1] = e[1]  BY <1>3, <1>6, <1>7, <2>1
  <2> QED BY <2>1, <2>2, <1>3
<1>9. /\ (IF addLen THEN 3 ELSE 1) = m + 1
      /\ m + 1 + k - 1 = m + k /\ m + k <= Len(f)
    BY <1>6, <1>7
<1>10. SubSeq(f, m + 1, m + k) = s /\ SubSeq(f, m + k + 1, Len(f)) \in {<<>>, <<TermChar>>}
    BY <1>1, <1>6, <1>7
<1> HIDE DEF m
<1> QED BY <1>1, <1>8, <1>9, <1>10 DEF LosesOnlyATail, s, f
=============================================================================
