--------------------------- MODULE HexTextProofs ---------------------------
(***************************************************************************)
(* What holds of the conversions of hex_utils.c for payloads of any length *)
(* and any bytes, in any of their spellings.                               *)
(***************************************************************************)
EXTENDS HexSpelling, TLAPS, SequenceTheorems, WellFoundedInduction

Byte  == 0 .. 255
Texts == Seq(Int)

LEMMA Constants == Samples \subseteq Byte /\ MaxBytes \in Nat /\ Room \in Nat
BY HexTextAssumption DEF Byte

(* A set of natural numbers with an element has a least one.               *)
LEMMA LeastElement ==
    ASSUME NEW N, N \subseteq Nat, N # {}
    PROVE  \E x \in N : \A y \in N : x <= y
<1> DEFINE R == {ss \in Nat \X Nat : ss[1] < ss[2]}
<1>1. IsWellFoundedOn(R, Nat)  BY NatLessThanWellFounded DEF OpToRel
<1>2. PICK x \in N : \A y \in N : ~ (<<y, x>> \in R)
    BY <1>1, WFMin, Zenon
<1>3. \A y \in N : <<y, x>> \in Nat \X Nat /\ ~ (y < x)  BY <1>2
<1>4. ASSUME NEW y \in N PROVE x <= y
  <2>1. x \in Nat /\ y \in Nat /\ ~ (y < x)  BY <1>3
  <2> QED BY <2>1
<1> QED BY <1>4

(***************************************************************************)
(* The characters that count: Kept, one character at a time.               *)
(***************************************************************************)
KeptAt(s, g, i) ==
    IF i = 0 THEN <<>>
    ELSE IF s[i] \in Skipped THEN g[i - 1] ELSE Append(g[i - 1], s[i])

Keeps(s, g) == g = [i \in 0 .. Len(s) |-> KeptAt(s, g, i)]

LEMMA KeptValues ==
    ASSUME NEW s \in Texts, NEW g, Keeps(s, g)
    PROVE  \A i \in 0 .. Len(s) : g[i] = KeptAt(s, g, i)
<1> DEFINE f == [i \in 0 .. Len(s) |-> KeptAt(s, g, i)]
<1>1. \A i \in 0 .. Len(s) : f[i] = KeptAt(s, g, i)  OBVIOUS
<1>2. g = f  BY DEF Keeps
<1> HIDE DEF f
<1> QED BY <1>1, <1>2, Zenon

(* Two texts that begin alike keep the same of what they begin with.       *)
LEMMA KeptAgree ==
    ASSUME NEW s \in Texts, NEW t \in Texts, NEW g, NEW h, Keeps(s, g), Keeps(t, h),
           NEW n \in Nat, n <= Len(s), n <= Len(t), \A i \in 1 .. n : s[i] = t[i]
    PROVE  \A i \in 0 .. n : g[i] = h[i]
<1> DEFINE B == {i \in 0 .. n : g[i] # h[i]}
<1>1. SUFFICES ASSUME B # {} PROVE FALSE  OBVIOUS
<1>2. PICK x \in B : \A y \in B : x <= y
  <2>1. B \subseteq Nat  OBVIOUS
  <2> QED BY <1>1, <2>1, LeastElement
<1>3. x \in 0 .. n /\ g[x] # h[x] /\ x \in 0 .. Len(s) /\ x \in 0 .. Len(t)  BY <1>2
<1>4. g[x] = KeptAt(s, g, x) /\ h[x] = KeptAt(t, h, x)
  <2>1. \A i \in 0 .. Len(s) : g[i] = KeptAt(s, g, i)  BY KeptValues
  <2>2. \A i \in 0 .. Len(t) : h[i] = KeptAt(t, h, i)  BY KeptValues
  <2> QED BY <2>1, <2>2, <1>3
<1>5. x # 0  BY <1>3, <1>4 DEF KeptAt
<1>6. g[x - 1] = h[x - 1]
  <2>1. x - 1 \in 0 .. n /\ ~ (x <= x - 1)  BY <1>3, <1>5
  <2>2. x - 1 \notin B  BY <1>2, <2>1
  <2> QED BY <2>1, <2>2
<1>7. s[x] = t[x]
  <2>1. x \in 1 .. n  BY <1>3, <1>5
  <2> QED BY <2>1
<1> QED BY <1>3, <1>4, <1>5, <1>6, <1>7 DEF KeptAt

(* There is such a function, and its values are texts.                     *)
LEMMA KeptExists ==
    ASSUME NEW s \in Texts
    PROVE  \E g \in [0 .. Len(s) -> Texts] : Keeps(s, g)
<1> DEFINE Good(n) == \E g \in [0 .. n -> Texts] : \A i \in 0 .. n : g[i] = KeptAt(s, g, i)
           B == {n \in 0 .. Len(s) : ~ Good(n)}
<1>1. ASSUME B # {} PROVE FALSE
  <2>1. PICK x \in B : \A y \in B : x <= y
    <3>1. B \subseteq Nat  OBVIOUS
    <3> HIDE DEF B
    <3> QED BY <1>1, <3>1, LeastElement
  <2>2. x \in 0 .. Len(s) /\ ~ Good(x) /\ x \in Nat  BY <2>1
  <2>3. CASE x = 0
    <3> DEFINE g == [i \in 0 .. 0 |-> <<>>]
    <3>1. g \in [0 .. x -> Texts]  BY <2>3 DEF Texts
    <3>2. \A i \in 0 .. x : g[i] = KeptAt(s, g, i)  BY <2>3 DEF KeptAt
    <3> HIDE DEF g
    <3> QED BY <3>1, <3>2, <2>2
  <2>4. CASE x # 0
    <3>1. x - 1 \in 0 .. Len(s) /\ ~ (x <= x - 1)  BY <2>2, <2>4
    <3>2. Good(x - 1)  BY <2>1, <3>1
    <3>3. PICK g \in [0 .. x - 1 -> Texts] : \A i \in 0 .. x - 1 : g[i] = KeptAt(s, g, i)
        BY <3>2
    <3> DEFINE v == IF s[x] \in Skipped THEN g[x - 1] ELSE Append(g[x - 1], s[x])
               h == [i \in 0 .. x |-> IF i = x THEN v ELSE g[i]]
    <3>4. v \in Texts
      <4>1. g[x - 1] \in Texts /\ s[x] \in Int  BY <2>2, <2>4, <3>3 DEF Texts
      <4>2. Append(g[x - 1], s[x]) \in Texts  BY <4>1 DEF Texts
      <4> QED BY <4>1, <4>2
    <3>5. h \in [0 .. x -> Texts]
      <4> HIDE DEF v
      <4>1. \A i \in 0 .. x : i # x => i \in 0 .. x - 1  BY <2>2
      <4> QED BY <4>1, <3>3, <3>4
    <3>6. ASSUME NEW i \in 0 .. x PROVE h[i] = KeptAt(s, h, i)
      <4>1. CASE i = x
        <5>1. h[i] = v /\ h[i - 1] = g[x - 1]  BY <4>1, <2>2, <2>4
        <5> HIDE DEF h
        <5> QED BY <5>1, <4>1, <2>4 DEF KeptAt
      <4>2. CASE i # x
        <5>1. i \in 0 .. x - 1 /\ h[i] = g[i]  BY <4>2, <2>2
        <5>2. i # 0 => h[i - 1] = g[i - 1]  BY <4>2, <2>2
        <5>3. g[i] = KeptAt(s, g, i)  BY <5>1, <3>3
        <5> HIDE DEF h
        <5> QED BY <5>1, <5>2, <5>3 DEF KeptAt
      <4> QED BY <4>1, <4>2
    <3> HIDE DEF h
    <3>7. Good(x)  BY <3>5, <3>6
    <3> QED BY <3>7, <2>2
  <2> QED BY <2>3, <2>4
<1>2. Good(Len(s))
  <2>1. Len(s) \in 0 .. Len(s)  BY DEF Texts
  <2> QED BY <1>1, <2>1
<1>3. PICK g \in [0 .. Len(s) -> Texts] : \A i \in 0 .. Len(s) : g[i] = KeptAt(s, g, i)
    BY <1>2
<1> DEFINE f == [i \in 0 .. Len(s) |-> KeptAt(s, g, i)]
<1>4. g = f
  <2>1. \A i \in 0 .. Len(s) : g[i] = f[i]  BY <1>3
  <2>2. g = [i \in 0 .. Len(s) |-> g[i]]  OBVIOUS
  <2>3. f = [i \in 0 .. Len(s) |-> f[i]]  OBVIOUS
  <2> HIDE DEF f
  <2> QED BY <2>1, <2>2, <2>3
<1> QED BY <1>4 DEF Keeps

LEMMA KeptIs ==
    ASSUME NEW s \in Texts
    PROVE  \E g \in [0 .. Len(s) -> Texts] : Keeps(s, g) /\ Kept(s) = g[Len(s)]
<1>1. PICK g \in [0 .. Len(s) -> Texts] : Keeps(s, g)  BY KeptExists
<1> DEFINE k == CHOOSE k : k = [i \in 0 .. Len(s) |-> KeptAt(s, k, i)]
<1>2. Kept(s) = k[Len(s)]  BY Zenon DEF Kept, KeptAt
<1>3. Keeps(s, k)
  <2>1. g = [i \in 0 .. Len(s) |-> KeptAt(s, g, i)]  BY <1>1 DEF Keeps
  <2>2. k = [i \in 0 .. Len(s) |-> KeptAt(s, k, i)]  BY <2>1, Zenon
  <2> HIDE DEF k
  <2> QED BY <2>2 DEF Keeps
<1> HIDE DEF k
<1>4. Len(s) \in Nat /\ \A i \in 1 .. Len(s) : s[i] = s[i]  BY DEF Texts
<1>5. \A i \in 0 .. Len(s) : g[i] = k[i]  BY <1>1, <1>3, <1>4, KeptAgree
<1>6. Kept(s) = g[Len(s)]  BY <1>2, <1>4, <1>5
<1> QED BY <1>1, <1>6

LEMMA KeptIn ==
    ASSUME NEW s \in Texts
    PROVE  Kept(s) \in Texts
<1>1. Len(s) \in 0 .. Len(s)  BY DEF Texts
<1> QED BY <1>1, KeptIs

LEMMA AppendBehind ==
    ASSUME NEW a \in Texts, NEW b \in Texts, NEW c \in Int
    PROVE  Append(a \o b, c) = a \o Append(b, c)
<1>1. a \o b \in Seq(Int) /\ b \in Seq(Int) /\ <<c>> \in Seq(Int) /\ a \in Seq(Int)
    BY DEF Texts
<1>2. Append(a \o b, c) = (a \o b) \o <<c>> /\ Append(b, c) = b \o <<c>>
    BY <1>1, AppendIsConcat
<1>3. (a \o b) \o <<c>> = a \o (b \o <<c>>)  BY <1>1, ConcatAssociative
<1> QED BY <1>2, <1>3

(* What is kept of two texts, one behind the other.                        *)
LEMMA KeptConcat ==
    ASSUME NEW s \in Texts, NEW t \in Texts
    PROVE  Kept(s \o t) = Kept(s) \o Kept(t)
<1> DEFINE u == s \o t
<1>1. /\ u \in Texts /\ Len(u) = Len(s) + Len(t) /\ Len(s) \in Nat /\ Len(t) \in Nat
      /\ \A i \in 1 .. Len(s) + Len(t) : u[i] = IF i <= Len(s) THEN s[i] ELSE t[i - Len(s)]
    BY ConcatProperties DEF Texts
<1> HIDE DEF u
<1>2. \A i \in 1 .. Len(s) : u[i] = s[i]  BY <1>1
<1>3. PICK g \in [0 .. Len(s) -> Texts] : Keeps(s, g) /\ Kept(s) = g[Len(s)]  BY KeptIs
<1>4. PICK h \in [0 .. Len(t) -> Texts] : Keeps(t, h) /\ Kept(t) = h[Len(t)]  BY KeptIs
<1>5. PICK k \in [0 .. Len(u) -> Texts] : Keeps(u, k) /\ Kept(u) = k[Len(u)]  BY <1>1, KeptIs
<1>6. \A i \in 0 .. Len(s) : k[i] = g[i]
  <2>1. Len(s) <= Len(u) /\ Len(s) <= Len(s)  BY <1>1
  <2>2. u \in Texts /\ Len(s) \in Nat  BY <1>1
  <2>3. Keeps(u, k) /\ Keeps(s, g)  BY <1>3, <1>5
  <2>4. \A m \in Nat : m <= Len(u) /\ m <= Len(s) /\ (\A i \in 1 .. m : u[i] = s[i])
            => \A i \in 0 .. m : k[i] = g[i]
    <3> HIDE DEF Keeps
    <3> QED BY <2>2, <2>3, KeptAgree
  <2> QED BY <1>2, <2>1, <2>2, <2>4, Zenon
<1> DEFINE B == {i \in 0 .. Len(t) : k[Len(s) + i] # Kept(s) \o h[i]}
<1>7. ASSUME B # {} PROVE FALSE
  <2>1. PICK x \in B : \A y \in B : x <= y
    <3>1. B \subseteq Nat  BY <1>1
    <3> HIDE DEF B
    <3> QED BY <1>7, <3>1, LeastElement
  <2>2. x \in 0 .. Len(t) /\ x \in Nat /\ k[Len(s) + x] # Kept(s) \o h[x]  BY <2>1, <1>1
  <2>3. h[x] = KeptAt(t, h, x)  BY <1>4, <2>2, KeptValues
  <2>4. Kept(s) \in Texts  BY KeptIn
  <2>5. CASE x = 0
    <3>1. h[x] = <<>>  BY <2>3, <2>5 DEF KeptAt
    <3>2. k[Len(s) + x] = Kept(s)
      <4>1. Len(s) + x = Len(s) /\ Len(s) \in 0 .. Len(s)  BY <2>5, <1>1
      <4> QED BY <4>1, <1>3, <1>6
    <3> QED BY <3>1, <3>2, <2>2, <2>4 DEF Texts
  <2>6. CASE x # 0
    <3> DEFINE j == Len(s) + x
    <3>1. /\ j \in 1 .. Len(s) + Len(t) /\ ~ (j <= Len(s)) /\ j - Len(s) = x /\ j # 0
          /\ j \in 0 .. Len(u) /\ j - 1 = Len(s) + (x - 1)
          /\ x - 1 \in 0 .. Len(t) /\ ~ (x <= x - 1)
        BY <1>1, <2>2, <2>6
    <3>2. k[Len(s) + (x - 1)] = Kept(s) \o h[x - 1]
      <4>1. x - 1 \notin B  BY <2>1, <3>1
      <4> QED BY <4>1, <3>1
    <3> HIDE DEF j
    <3>3. u[j] = t[x]  BY <1>1, <3>1
    <3>4. k[j] = KeptAt(u, k, j)  BY <1>1, <1>5, <3>1, KeptValues
    <3>5. h[x - 1] \in Texts /\ t[x] \in Int
      <4>1. x \in 1 .. Len(t)  BY <2>2, <2>6, <1>1
      <4>2. t[x] \in Int  BY <4>1 DEF Texts
      <4> QED BY <4>2, <3>1
    <3>6. Append(Kept(s) \o h[x - 1], t[x]) = Kept(s) \o Append(h[x - 1], t[x])
        BY <2>4, <3>5, AppendBehind
    <3>7. k[j] = Kept(s) \o h[x]
      <4>1. k[j - 1] = Kept(s) \o h[x - 1]  BY <3>1, <3>2
      <4> QED BY <4>1, <3>1, <3>3, <3>4, <3>6, <2>3, <2>6 DEF KeptAt
    <3> QED BY <3>7, <2>2 DEF j
  <2> QED BY <2>5, <2>6
<1>8. k[Len(s) + Len(t)] = Kept(s) \o h[Len(t)]
  <2>1. Len(t) \in 0 .. Len(t)  BY <1>1
  <2> QED BY <2>1, <1>7
<1> QED BY <1>1, <1>4, <1>5, <1>8 DEF u

(* A text of separators, and one of characters that all count.             *)
LEMMA KeptNone ==
    ASSUME NEW s \in Texts, \A i \in 1 .. Len(s) : s[i] \in Skipped
    PROVE  Kept(s) = <<>>
<1>1. PICK g \in [0 .. Len(s) -> Texts] : Keeps(s, g) /\ Kept(s) = g[Len(s)]  BY KeptIs
<1>2. Len(s) \in Nat  BY DEF Texts
<1> DEFINE B == {i \in 0 .. Len(s) : g[i] # <<>>}
<1>3. ASSUME B # {} PROVE FALSE
  <2>1. PICK x \in B : \A y \in B : x <= y
    <3>1. B \subseteq Nat  BY <1>2
    <3> HIDE DEF B
    <3> QED BY <1>3, <3>1, LeastElement
  <2>2. x \in 0 .. Len(s) /\ g[x] # <<>>  BY <2>1
  <2>3. g[x] = KeptAt(s, g, x)  BY <1>1, <2>2, KeptValues
  <2>4. x # 0  BY <2>2, <2>3 DEF KeptAt
  <2>5. x \in 1 .. Len(s) /\ x - 1 \in 0 .. Len(s) /\ ~ (x <= x - 1)  BY <1>2, <2>2, <2>4
  <2>6. g[x - 1] = <<>>
    <3>1. x - 1 \notin B  BY <2>1, <2>5
    <3> QED BY <3>1, <2>5
  <2> QED BY <2>2, <2>3, <2>4, <2>5, <2>6 DEF KeptAt
<1>4. Len(s) \in 0 .. Len(s)  BY <1>2
<1> QED BY <1>1, <1>3, <1>4

LEMMA KeptEmpty == Kept(<<>>) = <<>>
<1>1. <<>> \in Texts /\ \A i \in 1 .. Len(<<>>) : <<>>[i] \in Skipped
  <2>1. Len(<<>>) = 0 /\ <<>> \in Texts  BY DEF Texts
  <2>2. 1 .. Len(<<>>) = {}  BY <2>1
  <2> QED BY <2>1, <2>2
<1> QED BY <1>1, KeptNone

LEMMA TwoAre ==
    ASSUME NEW a \in Int, NEW b \in Int
    PROVE  /\ <<a, b>> \in Texts /\ Len(<<a, b>>) = 2 /\ <<a, b>>[1] = a /\ <<a, b>>[2] = b
           /\ Append(<<a>>, b) = <<a, b>>
<1> DEFINE t == <<a, b>>
           u == Append(<<a>>, b)
<1>1. t \in Seq(Int) /\ Len(t) = 2 /\ t[1] = a /\ t[2] = b  OBVIOUS
<1>2. u \in Seq(Int) /\ Len(u) = 2 /\ u[1] = a /\ u[2] = b  OBVIOUS
<1> HIDE DEF t, u
<1>3. \A i \in 1 .. Len(t) : t[i] = u[i]
  <2>1. \A i \in 1 .. Len(t) : i = 1 \/ i = 2  BY <1>1
  <2> QED BY <2>1, <1>1, <1>2
<1>4. t = u  BY <1>1, <1>2, <1>3, SeqEqual
<1> QED BY <1>1, <1>4 DEF t, u, Texts

(* Two digits with what may stand around them, and one.                    *)
LEMMA KeptOfPart ==
    ASSUME NEW s \in Texts
    PROVE  /\ Len(s) = 1 /\ s[1] \notin Skipped => Kept(s) = <<s[1]>>
           /\ Len(s) = 2 /\ s[1] \notin Skipped /\ s[2] \notin Skipped => Kept(s) = <<s[1], s[2]>>
           /\ Len(s) = 3 /\ s[1] \in Skipped /\ s[2] \notin Skipped /\ s[3] \in Skipped
                 => Kept(s) = <<s[2]>>
           /\ Len(s) = 3 /\ s[1] \in Skipped /\ s[2] \notin Skipped /\ s[3] \notin Skipped
                 => Kept(s) = <<s[2], s[3]>>
           /\ Len(s) = 5 /\ s[1] \in Skipped /\ s[2] \notin Skipped /\ s[3] \in Skipped
                         /\ s[4] \notin Skipped /\ s[5] \in Skipped
                 => Kept(s) = <<s[2], s[4]>>
<1>1. PICK g \in [0 .. Len(s) -> Texts] : Keeps(s, g) /\ Kept(s) = g[Len(s)]  BY KeptIs
<1>2. \A i \in 0 .. Len(s) : g[i] = KeptAt(s, g, i)  BY <1>1, KeptValues
<1>3. Len(s) \in Nat /\ \A i \in 1 .. Len(s) : s[i] \in Int  BY DEF Texts
<1>4. g[0] = <<>>  BY <1>2, <1>3 DEF KeptAt
<1>5. \A i \in 1 .. Len(s) :
          g[i] = IF s[i] \in Skipped THEN g[i - 1] ELSE Append(g[i - 1], s[i])
  <2> TAKE i \in 1 .. Len(s)
  <2>1. i \in 0 .. Len(s) /\ i # 0  BY <1>3
  <2>2. g[i] = KeptAt(s, g, i)  BY <2>1, <1>2
  <2> QED BY <2>1, <2>2, Zenon DEF KeptAt
<1>6. \A c \in Int : Append(<<>>, c) = <<c>>  OBVIOUS
<1>7. \A c, d \in Int : Append(<<c>>, d) = <<c, d>>  BY TwoAre
<1>8. ASSUME Len(s) >= 1
      PROVE  /\ 1 \in 1 .. Len(s) /\ s[1] \in Int
             /\ g[1] = IF s[1] \in Skipped THEN <<>> ELSE <<s[1]>>
  <2>1. 1 \in 1 .. Len(s) /\ s[1] \in Int /\ 1 - 1 = 0  BY <1>8, <1>3
  <2>2. g[1] = IF s[1] \in Skipped THEN g[1 - 1] ELSE Append(g[1 - 1], s[1])  BY <2>1, <1>5
  <2> QED BY <2>1, <2>2, <1>4, <1>6
<1>9. ASSUME Len(s) >= 2
      PROVE  s[2] \in Int /\ g[2] = IF s[2] \in Skipped THEN g[1] ELSE Append(g[1], s[2])
  <2>1. 2 \in 1 .. Len(s) /\ s[2] \in Int /\ 2 - 1 = 1  BY <1>9, <1>3
  <2> QED BY <2>1, <1>5
<1>10. ASSUME Len(s) >= 3
       PROVE  s[3] \in Int /\ g[3] = IF s[3] \in Skipped THEN g[2] ELSE Append(g[2], s[3])
  <2>1. 3 \in 1 .. Len(s) /\ s[3] \in Int /\ 3 - 1 = 2  BY <1>10, <1>3
  <2> QED BY <2>1, <1>5
<1>11. ASSUME Len(s) = 5
       PROVE  /\ s[4] \in Int /\ g[4] = IF s[4] \in Skipped THEN g[3] ELSE Append(g[3], s[4])
              /\ g[5] = IF s[5] \in Skipped THEN g[4] ELSE Append(g[4], s[5])
  <2>1. 4 \in 1 .. Len(s) /\ s[4] \in Int /\ 5 \in 1 .. Len(s) /\ 4 - 1 = 3 /\ 5 - 1 = 4
      BY <1>11, <1>3
  <2> QED BY <2>1, <1>5
<1>12. ASSUME Len(s) = 1, s[1] \notin Skipped PROVE Kept(s) = <<s[1]>>
    BY <1>12, <1>1, <1>8
<1>13. ASSUME Len(s) = 2, s[1] \notin Skipped, s[2] \notin Skipped PROVE Kept(s) = <<s[1], s[2]>>
    BY <1>13, <1>1, <1>7, <1>8, <1>9
<1>14. ASSUME Len(s) >= 3, s[1] \in Skipped, s[2] \notin Skipped
       PROVE  g[2] = <<s[2]>> /\ s[2] \in Int /\ s[3] \in Int
    BY <1>14, <1>3, <1>6, <1>8, <1>9, <1>10
<1>15. ASSUME Len(s) = 3, s[1] \in Skipped, s[2] \notin Skipped, s[3] \in Skipped
       PROVE  Kept(s) = <<s[2]>>
    BY <1>15, <1>1, <1>10, <1>14
<1>16. ASSUME Len(s) = 3, s[1] \in Skipped, s[2] \notin Skipped, s[3] \notin Skipped
       PROVE  Kept(s) = <<s[2], s[3]>>
    BY <1>16, <1>1, <1>7, <1>10, <1>14
<1>17. ASSUME Len(s) = 5, s[1] \in Skipped, s[2] \notin Skipped, s[3] \in Skipped,
              s[4] \notin Skipped, s[5] \in Skipped
       PROVE  Kept(s) = <<s[2], s[4]>>
    BY <1>17, <1>1, <1>7, <1>10, <1>11, <1>14
<1> QED BY <1>12, <1>13, <1>15, <1>16, <1>17

(***************************************************************************)
(* Digits.                                                                 *)
(***************************************************************************)
(* h and l are the two digits of a byte.                                   *)
Spells(h, l, b) ==
    /\ h \in Int /\ h \notin Skipped \cup ExMarks /\ HexDigit(h) = b \div 16
    /\ l \in Int /\ l \notin Skipped \cup ExMarks /\ HexDigit(l) = b % 16

LEMMA DigitIs ==
    ASSUME NEW n \in 0 .. 15, NEW c \in Int,
           IF n < 10 THEN c = n + 48 ELSE c = n + 55 \/ c = n + 87
    PROVE  HexDigit(c) = n /\ c \notin Skipped \cup ExMarks
<1>1. c \in 48 .. 57 \/ c \in 65 .. 70 \/ c \in 97 .. 102  OBVIOUS
<1>2. c \notin Skipped \cup ExMarks
    BY <1>1 DEF Skipped, Blank, Colon, Dash, ExMarks
<1>3. CASE c \in 48 .. 57
  <2>1. HexDigit(c) = c - 48  BY <1>3 DEF HexDigit
  <2> QED BY <1>2, <1>3, <2>1
<1>4. CASE c \in 65 .. 70
  <2>1. c \notin 48 .. 57 /\ c \notin 97 .. 102  BY <1>4
  <2>2. HexDigit(c) = c - 65 + 10  BY <1>4, <2>1 DEF HexDigit
  <2> QED BY <1>2, <1>4, <2>2
<1>5. CASE c \in 97 .. 102
  <2>1. c \notin 48 .. 57 /\ c \notin 65 .. 70  BY <1>5
  <2>2. HexDigit(c) = c - 97 + 10  BY <1>5, <2>1 DEF HexDigit
  <2> QED BY <1>2, <1>5, <2>2
<1> QED BY <1>1, <1>3, <1>4, <1>5

LEMMA CharIs ==
    ASSUME NEW n \in 0 .. 15, NEW u
    PROVE  /\ HexChar(n, u) \in Int
           /\ HexDigit(HexChar(n, u)) = n /\ HexChar(n, u) \notin Skipped \cup ExMarks
<1> DEFINE c == HexChar(n, u)
<1>1. c = IF n < 10 THEN n + 48 ELSE IF u THEN n + 55 ELSE n + 87
    BY Zenon DEF HexChar
<1> HIDE DEF c
<1>2. c \in Int /\ IF n < 10 THEN c = n + 48 ELSE c = n + 55 \/ c = n + 87
  <2>1. CASE u
    <3>1. c = IF n < 10 THEN n + 48 ELSE n + 55  BY <1>1, <2>1, Zenon
    <3> QED BY <3>1
  <2>2. CASE ~ u
    <3>1. c = IF n < 10 THEN n + 48 ELSE n + 87  BY <1>1, <2>2, Zenon
    <3> QED BY <3>1
  <2> QED BY <2>1, <2>2, Zenon
<1>3. HexDigit(c) = n /\ c \notin Skipped \cup ExMarks  BY <1>2, DigitIs
<1> QED BY <1>2, <1>3 DEF c

LEMMA CharsSpell ==
    ASSUME NEW b \in Byte, NEW u
    PROVE  Spells(HexChar(b \div 16, u), HexChar(b % 16, u), b)
<1>1. b \div 16 \in 0 .. 15 /\ b % 16 \in 0 .. 15  BY DEF Byte
<1> QED BY <1>1, CharIs, Zenon DEF Spells

LEMMA SpellsByte ==
    ASSUME NEW b \in Byte, NEW h, NEW l, Spells(h, l, b)
    PROVE  IsHexDigit(h) /\ IsHexDigit(l) /\ Pair(h, l) = b
<1>1. /\ b \div 16 \in 0 .. 15 /\ b % 16 \in 0 .. 15
      /\ 16 * (b \div 16) + (b % 16) = b
    BY DEF Byte
<1> QED BY <1>1 DEF Spells, IsHexDigit, Pair

(* A hex digit is no separator and no x.                                   *)
LEMMA DigitCounts ==
    ASSUME NEW c \in Int, IsHexDigit(c)
    PROVE  c \notin Skipped \cup ExMarks
<1>1. SUFFICES ASSUME c \in Skipped \cup ExMarks PROVE FALSE  OBVIOUS
<1>2. c \in {9, 10, 11, 12, 13, 32, 58, 45, 120, 88}
    BY <1>1 DEF Skipped, Blank, Colon, Dash, ExMarks
<1>3. c \notin 48 .. 57 /\ c \notin 97 .. 102 /\ c \notin 65 .. 70  BY <1>2
<1>4. HexDigit(c) = -1  BY <1>3 DEF HexDigit
<1> QED BY <1>4 DEF IsHexDigit

(***************************************************************************)
(* The text behind its blanks and its 0x.                                  *)
(***************************************************************************)
LeadsAt(text, f) ==
    /\ f \in 1 .. (Len(text) + 1)
    /\ f = Len(text) + 1 \/ text[f] \notin Blank
    /\ \A j \in 1 .. (f - 1) : text[j] \in Blank

Marked(s) == Len(s) >= 2 /\ s[1] = Zero /\ s[2] \in ExMarks

LEMMA UnprefixedAt ==
    ASSUME NEW text \in Texts, NEW f \in Nat, LeadsAt(text, f)
    PROVE  Unprefixed(text) =
              IF Marked(From(text, f)) THEN From(From(text, f), 3) ELSE From(text, f)
<1>1. Len(text) \in Nat  BY DEF Texts
<1> DEFINE P(i) == /\ i = Len(text) + 1 \/ text[i] \notin Blank
                   /\ \A j \in 1 .. (i - 1) : ~ (text[j] \notin Blank)
           first == CHOOSE i \in 1 .. (Len(text) + 1) : P(i)
<1>2. P(f) /\ f \in 1 .. (Len(text) + 1)  BY DEF LeadsAt
<1>3. ASSUME NEW i \in 1 .. (Len(text) + 1), P(i) PROVE i = f
  <2>1. CASE i < f
    <3>1. i \in 1 .. (f - 1) /\ i # Len(text) + 1  BY <1>1, <1>2, <2>1
    <3> QED BY <3>1, <1>2, <1>3
  <2>2. CASE f < i
    <3>1. f \in 1 .. (i - 1) /\ f # Len(text) + 1  BY <1>1, <1>2, <2>2
    <3> QED BY <3>1, <1>2, <1>3
  <2> QED BY <2>1, <2>2, <1>1
<1>4. first = f
  <2> HIDE DEF P
  <2> QED BY <1>2, <1>3
<1>5. Unprefixed(text) =
          LET s == From(text, first)
          IN  IF Len(s) >= 2 /\ s[1] = Zero /\ s[2] \in ExMarks THEN From(s, 3) ELSE s
    BY Zenon DEF Unprefixed, First
<1> HIDE DEF first
<1> QED BY <1>4, <1>5, Zenon DEF Marked

LEMMA FromIs ==
    ASSUME NEW s \in Texts, NEW f \in 1 .. (Len(s) + 1)
    PROVE  /\ From(s, f) \in Texts /\ Len(From(s, f)) = Len(s) - f + 1
           /\ \A i \in 1 .. (Len(s) - f + 1) : From(s, f)[i] = s[f + i - 1]
<1>1. Len(s) \in Nat /\ f \in Int /\ Len(s) \in Int /\ \A i \in f .. Len(s) : s[i] \in Int
    BY DEF Texts
<1>2. /\ SubSeq(s, f, Len(s)) \in Seq(Int)
      /\ Len(SubSeq(s, f, Len(s))) = IF f <= Len(s) THEN Len(s) - f + 1 ELSE 0
      /\ \A i \in 1 .. Len(s) - f + 1 : SubSeq(s, f, Len(s))[i] = s[f + i - 1]
    BY <1>1, SubSeqProperties
<1>3. f <= Len(s) \/ Len(s) - f + 1 = 0  BY <1>1
<1> QED BY <1>1, <1>2, <1>3 DEF From, Texts

LEMMA SameSeq ==
    ASSUME NEW s \in Texts, NEW t \in Texts, Len(s) = Len(t),
           \A i \in 1 .. Len(s) : s[i] = t[i]
    PROVE  s = t
BY SeqEqual DEF Texts

(* Behind a text with something in it that is not blank, a part goes where *)
(* it goes, and blanks, prefix and all stay what they were.                *)
LEMMA UnprefixedGrows ==
    ASSUME NEW s \in Texts, NEW p \in Texts, NEW f \in Nat, LeadsAt(s, f), f < Len(s)
    PROVE  /\ Unprefixed(s) \in Texts
           /\ Unprefixed(s \o p) = Unprefixed(s) \o p
<1> DEFINE t == s \o p
           a == From(s, f)
           b == From(t, f)
<1>1. /\ t \in Texts /\ Len(t) = Len(s) + Len(p) /\ Len(s) \in Nat /\ Len(p) \in Nat
      /\ \A i \in 1 .. Len(s) + Len(p) : t[i] = IF i <= Len(s) THEN s[i] ELSE p[i - Len(s)]
    BY ConcatProperties DEF Texts
<1> HIDE DEF t
<1>2. f \in 1 .. Len(s) /\ f \in 1 .. (Len(s) + 1) /\ f \in 1 .. (Len(t) + 1)
    BY <1>1 DEF LeadsAt
<1>3. LeadsAt(t, f)
  <2>1. t[f] = s[f] /\ s[f] \notin Blank  BY <1>1, <1>2 DEF LeadsAt
  <2>2. \A j \in 1 .. (f - 1) : t[j] = s[j] /\ s[j] \in Blank  BY <1>1, <1>2 DEF LeadsAt
  <2> QED BY <1>2, <2>1, <2>2 DEF LeadsAt
<1>4. /\ a \in Texts /\ Len(a) = Len(s) - f + 1
      /\ \A i \in 1 .. (Len(s) - f + 1) : a[i] = s[f + i - 1]
    BY <1>2, FromIs
<1>5. /\ b \in Texts /\ Len(b) = Len(t) - f + 1
      /\ \A i \in 1 .. (Len(t) - f + 1) : b[i] = t[f + i - 1]
    BY <1>1, <1>2, FromIs
<1>6. Len(a) >= 2 /\ Len(b) >= 2 /\ 3 \in 1 .. (Len(a) + 1) /\ 3 \in 1 .. (Len(b) + 1)
    BY <1>1, <1>2, <1>4, <1>5
<1> HIDE DEF a, b
<1>7. \A i \in 1 .. Len(b) : b[i] = IF i <= Len(a) THEN a[i] ELSE p[i - Len(a)]
  <2> TAKE i \in 1 .. Len(b)
  <2>1. b[i] = t[f + i - 1] /\ f + i - 1 \in 1 .. Len(s) + Len(p)  BY <1>1, <1>2, <1>5
  <2>2. CASE i <= Len(a)
    <3>1. f + i - 1 <= Len(s) /\ i \in 1 .. (Len(s) - f + 1)  BY <2>2, <1>1, <1>2, <1>4
    <3> QED BY <2>1, <2>2, <3>1, <1>1, <1>4
  <2>3. CASE ~ (i <= Len(a))
    <3>1. ~ (f + i - 1 <= Len(s)) /\ f + i - 1 - Len(s) = i - Len(a)
        BY <2>3, <1>1, <1>2, <1>4
    <3>2. t[f + i - 1] = p[f + i - 1 - Len(s)]  BY <2>1, <3>1, <1>1
    <3> QED BY <2>1, <2>3, <3>1, <3>2
  <2> QED BY <2>2, <2>3
<1>8. Marked(a) <=> Marked(b)
  <2>1. b[1] = a[1] /\ b[2] = a[2]  BY <1>6, <1>7
  <2> QED BY <2>1, <1>6 DEF Marked
<1>9. CASE ~ Marked(a)
  <2>1. Unprefixed(s) = a /\ Unprefixed(t) = b
      BY <1>1, <1>3, <1>8, <1>9, UnprefixedAt, Zenon DEF a, b
  <2>2. b = a \o p
    <3> DEFINE u == a \o p
    <3>1. /\ u \in Texts /\ Len(u) = Len(a) + Len(p)
          /\ \A i \in 1 .. Len(a) + Len(p) : u[i] = IF i <= Len(a) THEN a[i] ELSE p[i - Len(a)]
        BY <1>4, ConcatProperties DEF Texts
    <3> HIDE DEF u
    <3>2. Len(b) = Len(u)  BY <3>1, <1>1, <1>2, <1>4, <1>5
    <3>3. \A i \in 1 .. Len(b) : b[i] = u[i]  BY <3>1, <3>2, <1>7
    <3>4. b = u  BY <3>1, <3>2, <3>3, <1>5, SameSeq
    <3> QED BY <3>4 DEF u
  <2> QED BY <2>1, <2>2, <1>4 DEF t
<1>10. CASE Marked(a)
  <2> DEFINE c == From(a, 3)
             d == From(b, 3)
             u == c \o p
  <2>1. Unprefixed(s) = c /\ Unprefixed(t) = d
      BY <1>1, <1>3, <1>8, <1>10, UnprefixedAt, Zenon DEF a, b
  <2>2. /\ c \in Texts /\ Len(c) = Len(a) - 3 + 1
        /\ \A i \in 1 .. (Len(a) - 3 + 1) : c[i] = a[3 + i - 1]
      BY <1>4, <1>6, FromIs
  <2>3. /\ d \in Texts /\ Len(d) = Len(b) - 3 + 1
        /\ \A i \in 1 .. (Len(b) - 3 + 1) : d[i] = b[3 + i - 1]
      BY <1>5, <1>6, FromIs
  <2> HIDE DEF c, d
  <2>4. /\ u \in Texts /\ Len(u) = Len(c) + Len(p)
        /\ \A i \in 1 .. Len(c) + Len(p) : u[i] = IF i <= Len(c) THEN c[i] ELSE p[i - Len(c)]
      BY <2>2, ConcatProperties DEF Texts
  <2> HIDE DEF u
  <2>5. Len(a) \in Nat /\ Len(b) = Len(a) + Len(p)  BY <1>1, <1>2, <1>4, <1>5
  <2>6. Len(d) = Len(u)  BY <1>1, <1>6, <2>2, <2>3, <2>4, <2>5
  <2>7. ASSUME NEW i \in 1 .. Len(d) PROVE d[i] = u[i]
    <3> DEFINE j == 3 + i - 1
    <3>1. /\ j \in 1 .. Len(b) /\ i \in 1 .. (Len(b) - 3 + 1) /\ i \in 1 .. Len(c) + Len(p)
          /\ (j <= Len(a) <=> i <= Len(c)) /\ j - Len(a) = i - Len(c)
          /\ (i <= Len(c) => i \in 1 .. (Len(a) - 3 + 1))
        BY <1>1, <1>6, <2>2, <2>3, <2>4, <2>5, <2>6
    <3>2. d[i] = b[j]  BY <2>3, <3>1
    <3>3. i <= Len(c) => c[i] = a[j]  BY <2>2, <3>1
    <3> HIDE DEF j
    <3> QED BY <1>7, <2>4, <3>1, <3>2, <3>3
  <2>8. d = u  BY <2>3, <2>4, <2>6, <2>7, SameSeq
  <2> QED BY <2>1, <2>2, <2>8 DEF t, u
<1> QED BY <1>9, <1>10

(* A part of a text: one character that counts, with a blank before it or  *)
(* not, and then no x.                                                     *)
IsPart(p) ==
    /\ p \in Texts
    /\ \/ Len(p) >= 1 /\ p[1] \notin Blank /\ (Len(p) >= 2 => p[2] \notin ExMarks)
       \/ Len(p) >= 2 /\ p[1] \in Blank /\ p[2] \notin Blank /\ (Len(p) >= 3 => p[3] \notin ExMarks)

(* Something that is not blank is there, and something behind it.          *)
Leads(s) == \E f \in Nat : LeadsAt(s, f) /\ f < Len(s)

LEMMA EmptyText == <<>> \in Texts /\ Len(<<>>) = 0 /\ Digits(<<>>) = <<>>
<1>1. <<>> \in Texts /\ Len(<<>>) = 0  BY DEF Texts
<1>2. LeadsAt(<<>>, 1)  BY <1>1 DEF LeadsAt
<1>3. From(<<>>, 1) \in Texts /\ Len(From(<<>>, 1)) = 0
  <2>1. 1 \in 1 .. (Len(<<>>) + 1) /\ Len(<<>>) - 1 + 1 = 0  BY <1>1
  <2> QED BY <1>1, <2>1, FromIs
<1>4. From(<<>>, 1) = <<>> /\ ~ Marked(<<>>)  BY <1>1, <1>3 DEF Texts, Marked
<1>5. Unprefixed(<<>>) = <<>>
  <2>1. Unprefixed(<<>>) = IF Marked(From(<<>>, 1)) THEN From(From(<<>>, 1), 3) ELSE From(<<>>, 1)
      BY <1>1, <1>2, UnprefixedAt
  <2> QED BY <2>1, <1>4
<1> QED BY <1>1, <1>5, KeptEmpty DEF Digits

LEMMA DigitsOfPart ==
    ASSUME NEW p, IsPart(p)
    PROVE  Digits(p) = Kept(p)
<1>1. p \in Texts /\ Len(p) \in Nat  BY DEF IsPart, Texts
<1>2. CASE Len(p) >= 1 /\ p[1] \notin Blank /\ (Len(p) >= 2 => p[2] \notin ExMarks)
  <2>1. LeadsAt(p, 1)  BY <1>1, <1>2 DEF LeadsAt
  <2> DEFINE a == From(p, 1)
  <2>2. a = p
    <3>1. /\ a \in Texts /\ Len(a) = Len(p) - 1 + 1
          /\ \A i \in 1 .. (Len(p) - 1 + 1) : a[i] = p[1 + i - 1]
      <4>1. 1 \in 1 .. (Len(p) + 1)  BY <1>1
      <4> QED BY <4>1, <1>1, FromIs
    <3> HIDE DEF a
    <3>2. Len(a) = Len(p) /\ \A i \in 1 .. Len(a) : a[i] = p[i]  BY <1>1, <3>1
    <3> QED BY <1>1, <3>1, <3>2, SameSeq
  <2>3. ~ Marked(a)  BY <2>2, <1>2 DEF Marked
  <2>4. Unprefixed(p) = IF Marked(a) THEN From(a, 3) ELSE a  BY <1>1, <2>1, UnprefixedAt
  <2> QED BY <2>2, <2>3, <2>4 DEF Digits
<1>3. CASE Len(p) >= 2 /\ p[1] \in Blank /\ p[2] \notin Blank /\ (Len(p) >= 3 => p[3] \notin ExMarks)
  <2>1. LeadsAt(p, 2)  BY <1>1, <1>3 DEF LeadsAt
  <2> DEFINE a == From(p, 2)
             c == <<p[1]>>
  <2>2. /\ a \in Texts /\ Len(a) = Len(p) - 2 + 1
        /\ \A i \in 1 .. (Len(p) - 2 + 1) : a[i] = p[2 + i - 1]
    <3>1. 2 \in 1 .. (Len(p) + 1)  BY <1>1, <1>3
    <3> QED BY <3>1, <1>1, FromIs
  <2>3. p[1] \in Int  BY <1>1, <1>3 DEF Texts
  <2>4. c \in Texts /\ Len(c) = 1 /\ c[1] = p[1]  BY <2>3 DEF Texts
  <2> HIDE DEF a, c
  <2>5. ~ Marked(a)
    <3>1. Len(a) >= 2 => Len(p) >= 3 /\ a[2] = p[3]  BY <1>1, <2>2
    <3> QED BY <3>1, <1>3 DEF Marked
  <2>6. Unprefixed(p) = IF Marked(a) THEN From(a, 3) ELSE a
      BY <1>1, <2>1, UnprefixedAt DEF a
  <2>7. p = c \o a
    <3> DEFINE u == c \o a
    <3>1. /\ u \in Texts /\ Len(u) = Len(c) + Len(a)
          /\ \A i \in 1 .. Len(c) + Len(a) : u[i] = IF i <= Len(c) THEN c[i] ELSE a[i - Len(c)]
        BY <2>2, <2>4, ConcatProperties DEF Texts
    <3> HIDE DEF u
    <3>2. Len(p) = Len(u)  BY <3>1, <2>2, <2>4, <1>1
    <3>3. ASSUME NEW i \in 1 .. Len(p) PROVE p[i] = u[i]
      <4>1. CASE i = 1  BY <4>1, <2>4, <3>1, <3>2
      <4>2. CASE i # 1
        <5>1. /\ i - 1 \in 1 .. (Len(p) - 2 + 1) /\ 2 + (i - 1) - 1 = i
              /\ ~ (i <= Len(c)) /\ i - Len(c) = i - 1 /\ i \in 1 .. Len(c) + Len(a)
            BY <4>2, <1>1, <2>2, <2>4
        <5>2. a[i - 1] = p[2 + (i - 1) - 1]  BY <5>1, <2>2
        <5>3. u[i] = a[i - Len(c)]  BY <5>1, <3>1
        <5> QED BY <5>1, <5>2, <5>3, Zenon
      <4> QED BY <4>1, <4>2
    <3>4. p = u  BY <1>1, <3>1, <3>2, <3>3, SameSeq
    <3> QED BY <3>4 DEF u
  <2>8. Kept(c) = <<>>
    <3>1. \A i \in 1 .. Len(c) : c[i] \in Skipped  BY <2>4, <1>3 DEF Skipped
    <3> QED BY <3>1, <2>4, KeptNone
  <2>9. Kept(p) = Kept(a)
    <3>1. Kept(p) = Kept(c) \o Kept(a)  BY <2>2, <2>4, <2>7, KeptConcat
    <3>2. Kept(a) \in Texts  BY <2>2, KeptIn
    <3> QED BY <3>1, <3>2, <2>8, ConcatEmptySeq DEF Texts
  <2> QED BY <2>5, <2>6, <2>9 DEF Digits
<1> QED BY <1>2, <1>3 DEF IsPart

(* What a part adds to a text that is empty, or has something to lead it.  *)
LEMMA DigitsGrow ==
    ASSUME NEW s \in Texts, NEW p, IsPart(p), s = <<>> \/ Leads(s)
    PROVE  Digits(s \o p) = Digits(s) \o Kept(p)
<1>1. p \in Texts /\ Kept(p) \in Texts  BY KeptIn DEF IsPart
<1>2. CASE s = <<>>
  <2>1. s \o p = p /\ Digits(s) \o Kept(p) = Kept(p)
      BY <1>1, <1>2, EmptyText, ConcatEmptySeq DEF Texts
  <2> QED BY <2>1, DigitsOfPart
<1>3. CASE Leads(s)
  <2>1. PICK f \in Nat : LeadsAt(s, f) /\ f < Len(s)  BY <1>3 DEF Leads
  <2>2. Unprefixed(s) \in Texts /\ Unprefixed(s \o p) = Unprefixed(s) \o p
      BY <1>1, <2>1, UnprefixedGrows
  <2> QED BY <1>1, <2>2, KeptConcat DEF Digits
<1> QED BY <1>2, <1>3

LEMMA LeadsGrow ==
    ASSUME NEW s \in Texts, NEW p, IsPart(p), s = <<>> \/ Leads(s),
           Len(p) >= 2, p[1] \in Blank => Len(p) >= 3
    PROVE  s \o p \in Texts /\ Leads(s \o p) /\ Len(s \o p) = Len(s) + Len(p)
<1> DEFINE t == s \o p
<1>1. /\ t \in Texts /\ Len(t) = Len(s) + Len(p) /\ Len(s) \in Nat /\ Len(p) \in Nat
      /\ \A i \in 1 .. Len(s) + Len(p) : t[i] = IF i <= Len(s) THEN s[i] ELSE p[i - Len(s)]
  <2>1. p \in Texts  BY DEF IsPart
  <2> QED BY <2>1, ConcatProperties DEF Texts
<1> HIDE DEF t
<1>2. CASE s = <<>>
  <2>1. Len(s) = 0 /\ \A i \in 1 .. Len(p) : t[i] = p[i]
    <3>1. Len(s) = 0  BY <1>2
    <3> QED BY <3>1, <1>1
  <2>2. CASE p[1] \notin Blank
    <3>1. LeadsAt(t, 1) /\ 1 < Len(t)  BY <1>1, <2>1, <2>2 DEF LeadsAt
    <3> QED BY <3>1, <1>1 DEF Leads, t
  <2>3. CASE p[1] \in Blank
    <3>1. LeadsAt(t, 2) /\ 2 < Len(t)  BY <1>1, <2>1, <2>3 DEF LeadsAt, IsPart
    <3> QED BY <3>1, <1>1 DEF Leads, t
  <2> QED BY <2>2, <2>3
<1>3. CASE Leads(s)
  <2>1. PICK f \in Nat : LeadsAt(s, f) /\ f < Len(s)  BY <1>3 DEF Leads
  <2>2. f \in 1 .. (Len(t) + 1) /\ f < Len(t)  BY <1>1, <2>1 DEF LeadsAt
  <2>3. t[f] = s[f] /\ s[f] \notin Blank  BY <1>1, <2>1 DEF LeadsAt
  <2>4. \A j \in 1 .. (f - 1) : t[j] = s[j] /\ s[j] \in Blank  BY <1>1, <2>1 DEF LeadsAt
  <2>5. LeadsAt(t, f)  BY <2>2, <2>3, <2>4 DEF LeadsAt
  <2> QED BY <1>1, <2>2, <2>5 DEF Leads, t
<1> QED BY <1>2, <1>3

(***************************************************************************)
(* The spellings of a byte behind -x, and the half of one.                 *)
(***************************************************************************)
HalfOf(p) == SubSeq(p, 1, Len(p) - (IF p[Len(p)] = Colon THEN 2 ELSE 1))

LEMMA SubSeqFromOne ==
    ASSUME NEW s \in Texts, NEW n \in 0 .. Len(s)
    PROVE  /\ SubSeq(s, 1, n) \in Texts /\ Len(SubSeq(s, 1, n)) = n
           /\ \A i \in 1 .. n : SubSeq(s, 1, n)[i] = s[i]
<1>1. Len(s) \in Nat /\ 1 \in Int /\ n \in Int /\ \A i \in 1 .. n : s[i] \in Int
    BY DEF Texts
<1>2. /\ SubSeq(s, 1, n) \in Seq(Int)
      /\ Len(SubSeq(s, 1, n)) = IF 1 <= n THEN n - 1 + 1 ELSE 0
      /\ \A i \in 1 .. n - 1 + 1 : SubSeq(s, 1, n)[i] = s[1 + i - 1]
    BY <1>1, SubSeqProperties
<1>3. n - 1 + 1 = n /\ (1 <= n \/ n = 0)  BY <1>1
<1>4. \A i \in 1 .. n : SubSeq(s, 1, n)[i] = s[i]
  <2> TAKE i \in 1 .. n
  <2>1. 1 + i - 1 = i /\ i \in 1 .. n - 1 + 1  BY <1>1
  <2> QED BY <1>2, <2>1
<1> QED BY <1>2, <1>3, <1>4 DEF Texts

LEMMA PairsOf ==
    ASSUME NEW b \in Byte, NEW p \in Pairs(b)
    PROVE  \E h, l :
              /\ Spells(h, l, b)
              /\ p \in Texts
              /\ \/ Len(p) = 2 /\ p[1] = h /\ p[2] = l
                 \/ Len(p) = 5 /\ p[1] = 32 /\ p[2] = h /\ p[3] = Dash /\ p[4] = l /\ p[5] = Colon
<1> DEFINE H(u) == HexChar(b \div 16, u)
           L(u) == HexChar(b % 16, u)
<1>1. Spells(H(TRUE), L(TRUE), b) /\ Spells(H(FALSE), L(FALSE), b)  BY CharsSpell, Zenon
<1>2. p = <<H(TRUE), L(TRUE)>> \/ p = <<32, <<H(FALSE), L(FALSE)>>[1], Dash, <<H(FALSE), L(FALSE)>>[2], Colon>>
    BY Zenon DEF Pairs, Hex2
<1>3. \A x, y \in Int :
          /\ <<x, y>> \in Texts /\ Len(<<x, y>>) = 2 /\ <<x, y>>[1] = x /\ <<x, y>>[2] = y
          /\ <<32, x, Dash, y, Colon>> \in Texts /\ Len(<<32, x, Dash, y, Colon>>) = 5
          /\ <<32, x, Dash, y, Colon>>[1] = 32 /\ <<32, x, Dash, y, Colon>>[2] = x
          /\ <<32, x, Dash, y, Colon>>[3] = Dash /\ <<32, x, Dash, y, Colon>>[4] = y
          /\ <<32, x, Dash, y, Colon>>[5] = Colon
    BY DEF Texts, Dash, Colon
<1>4. \A h, l : Spells(h, l, b) => h \in Int /\ l \in Int  BY DEF Spells
<1> HIDE DEF H, L
<1>5. CASE p = <<H(TRUE), L(TRUE)>>
  <2>1. H(TRUE) \in Int /\ L(TRUE) \in Int  BY <1>1, <1>4, Zenon
  <2> QED BY <1>1, <1>3, <1>5, <2>1, Zenon
<1>6. CASE p = <<32, <<H(FALSE), L(FALSE)>>[1], Dash, <<H(FALSE), L(FALSE)>>[2], Colon>>
  <2>1. H(FALSE) \in Int /\ L(FALSE) \in Int  BY <1>1, <1>4, Zenon
  <2>2. <<H(FALSE), L(FALSE)>>[1] = H(FALSE) /\ <<H(FALSE), L(FALSE)>>[2] = L(FALSE)
      BY <1>3, <2>1, Zenon
  <2>3. p = <<32, H(FALSE), Dash, L(FALSE), Colon>>  BY <1>6, <2>2, Zenon
  <2> QED BY <1>1, <1>3, <2>1, <2>3, Zenon
<1> QED BY <1>2, <1>5, <1>6

LEMMA SpellingIs ==
    ASSUME NEW b \in Byte, NEW p \in Pairs(b)
    PROVE  \E h, l :
              /\ Spells(h, l, b)
              /\ IsPart(p) /\ Len(p) >= 2 /\ (p[1] \in Blank => Len(p) >= 3)
              /\ Kept(p) = <<h, l>>
              /\ IsPart(HalfOf(p)) /\ Kept(HalfOf(p)) = <<h>>
<1>1. PICK h, l :
         /\ Spells(h, l, b)
         /\ p \in Texts
         /\ \/ Len(p) = 2 /\ p[1] = h /\ p[2] = l
            \/ Len(p) = 5 /\ p[1] = 32 /\ p[2] = h /\ p[3] = Dash /\ p[4] = l /\ p[5] = Colon
    BY PairsOf
<1>2. /\ h \in Int /\ h \notin Skipped /\ h \notin ExMarks /\ h \notin Blank /\ h # Colon
      /\ l \in Int /\ l \notin Skipped /\ l \notin ExMarks /\ l \notin Blank /\ l # Colon
    BY <1>1 DEF Spells, Skipped
<1>3. /\ 32 \in Blank /\ 32 \in Skipped /\ Dash \in Skipped /\ Colon \in Skipped
      /\ Dash \notin ExMarks
    BY DEF Blank, Skipped, Dash, Colon, ExMarks
<1> DEFINE q == HalfOf(p)
<1>4. CASE Len(p) = 2 /\ p[1] = h /\ p[2] = l
  <2>1. IsPart(p) /\ Len(p) >= 2 /\ p[1] \notin Blank  BY <1>1, <1>2, <1>4 DEF IsPart
  <2>2. Kept(p) = <<h, l>>
    <3>1. p[1] \notin Skipped /\ p[2] \notin Skipped  BY <1>2, <1>4
    <3>2. Kept(p) = <<p[1], p[2]>>  BY <1>1, <1>4, <3>1, KeptOfPart
    <3> QED BY <1>4, <3>2
  <2>3. q = SubSeq(p, 1, 1)
    <3>1. p[Len(p)] # Colon /\ Len(p) - 1 = 1  BY <1>2, <1>4
    <3> QED BY <3>1 DEF HalfOf
  <2> HIDE DEF q
  <2>4. q \in Texts /\ Len(q) = 1 /\ q[1] = h
    <3>1. 1 \in 0 .. Len(p) /\ 1 \in 1 .. 1  BY <1>4
    <3> QED BY <3>1, <1>1, <1>4, <2>3, SubSeqFromOne
  <2>5. IsPart(q)  BY <1>2, <2>4 DEF IsPart
  <2>6. Kept(q) = <<h>>
    <3>1. Kept(q) = <<q[1]>>  BY <1>2, <2>4, KeptOfPart
    <3> QED BY <2>4, <3>1
  <2> QED BY <1>1, <2>1, <2>2, <2>5, <2>6 DEF q
<1>5. CASE Len(p) = 5 /\ p[1] = 32 /\ p[2] = h /\ p[3] = Dash /\ p[4] = l /\ p[5] = Colon
  <2>1. IsPart(p) /\ Len(p) >= 3  BY <1>1, <1>2, <1>3, <1>5 DEF IsPart
  <2>2. Kept(p) = <<h, l>>
    <3>1. Kept(p) = <<p[2], p[4]>>  BY <1>1, <1>2, <1>3, <1>5, KeptOfPart
    <3> QED BY <1>5, <3>1
  <2>3. q = SubSeq(p, 1, 3)
    <3>1. p[Len(p)] = Colon /\ Len(p) - 2 = 3  BY <1>5
    <3> QED BY <3>1 DEF HalfOf
  <2> HIDE DEF q
  <2>4. q \in Texts /\ Len(q) = 3 /\ q[1] = 32 /\ q[2] = h /\ q[3] = Dash
    <3>1. 3 \in 0 .. Len(p) /\ 1 \in 1 .. 3 /\ 2 \in 1 .. 3 /\ 3 \in 1 .. 3  BY <1>5
    <3> QED BY <3>1, <1>1, <1>5, <2>3, SubSeqFromOne
  <2>5. IsPart(q)  BY <1>2, <1>3, <2>4 DEF IsPart
  <2>6. Kept(q) = <<h>>
    <3>1. Kept(q) = <<q[2]>>  BY <1>2, <1>3, <2>4, KeptOfPart
    <3> QED BY <2>4, <3>1
  <2>7. Len(p) >= 2  BY <1>5
  <2> QED BY <1>1, <2>1, <2>2, <2>5, <2>6, <2>7 DEF q
<1> QED BY <1>1, <1>4, <1>5

(***************************************************************************)
(* hex_to_bytes on digits.                                                 *)
(***************************************************************************)
Payloads == Seq(Byte)

(* Two digits for every byte, in order.                                    *)
AreDigits(ds, bs) ==
    /\ ds \in Texts /\ Len(ds) = 2 * Len(bs)
    /\ \A i \in 1 .. Len(bs) :
          /\ IsHexDigit(ds[2 * i - 1]) /\ IsHexDigit(ds[2 * i])
          /\ Pair(ds[2 * i - 1], ds[2 * i]) = bs[i]

LEMMA AllAreDigits ==
    ASSUME NEW bs \in Payloads, NEW ds, AreDigits(ds, bs)
    PROVE  \A j \in 1 .. Len(ds) : IsHexDigit(ds[j])
<1> TAKE j \in 1 .. Len(ds)
<1> DEFINE i == (j + 1) \div 2
<1>1. Len(bs) \in Nat /\ Len(ds) = 2 * Len(bs)  BY DEF Payloads, AreDigits
<1>2. i \in 1 .. Len(bs) /\ (j = 2 * i - 1 \/ j = 2 * i)  BY <1>1
<1> HIDE DEF i
<1> QED BY <1>2 DEF AreDigits

LEMMA DigitsAppend ==
    ASSUME NEW bs \in Payloads, NEW ds, AreDigits(ds, bs), NEW b \in Byte, NEW h, NEW l,
           Spells(h, l, b)
    PROVE  AreDigits(ds \o <<h, l>>, Append(bs, b))
<1> DEFINE p == <<h, l>>
           u == ds \o p
           cs == Append(bs, b)
<1>1. p \in Texts /\ Len(p) = 2 /\ p[1] = h /\ p[2] = l
  <2>1. h \in Int /\ l \in Int  BY DEF Spells
  <2> QED BY <2>1, TwoAre
<1>2. Len(bs) \in Nat /\ ds \in Texts /\ Len(ds) = 2 * Len(bs)  BY DEF Payloads, AreDigits
<1>3. /\ cs \in Payloads /\ Len(cs) = Len(bs) + 1 /\ cs[Len(bs) + 1] = b
      /\ \A i \in 1 .. Len(bs) : cs[i] = bs[i]
    BY DEF Payloads
<1> HIDE DEF p, cs
<1>4. /\ u \in Texts /\ Len(u) = Len(ds) + Len(p)
      /\ \A i \in 1 .. Len(ds) + Len(p) : u[i] = IF i <= Len(ds) THEN ds[i] ELSE p[i - Len(ds)]
    BY <1>1, <1>2, ConcatProperties DEF Texts
<1> HIDE DEF u
<1>5. Len(u) = 2 * Len(cs)  BY <1>1, <1>2, <1>3, <1>4
<1>6. ASSUME NEW i \in 1 .. Len(cs)
      PROVE  /\ IsHexDigit(u[2 * i - 1]) /\ IsHexDigit(u[2 * i])
             /\ Pair(u[2 * i - 1], u[2 * i]) = cs[i]
  <2>1. CASE i <= Len(bs)
    <3>1. /\ i \in 1 .. Len(bs) /\ 2 * i - 1 \in 1 .. Len(ds) + Len(p)
          /\ 2 * i \in 1 .. Len(ds) + Len(p) /\ 2 * i - 1 <= Len(ds) /\ 2 * i <= Len(ds)
        BY <2>1, <1>1, <1>2, <1>3
    <3>2. u[2 * i - 1] = ds[2 * i - 1] /\ u[2 * i] = ds[2 * i] /\ cs[i] = bs[i]
        BY <3>1, <1>3, <1>4
    <3> QED BY <3>1, <3>2 DEF AreDigits
  <2>2. CASE ~ (i <= Len(bs))
    <3>1. /\ i = Len(bs) + 1 /\ 2 * i - 1 - Len(ds) = 1 /\ 2 * i - Len(ds) = 2
          /\ ~ (2 * i - 1 <= Len(ds)) /\ ~ (2 * i <= Len(ds))
          /\ 2 * i - 1 \in 1 .. Len(ds) + Len(p) /\ 2 * i \in 1 .. Len(ds) + Len(p)
        BY <2>2, <1>1, <1>2, <1>3
    <3>2. u[2 * i - 1] = p[2 * i - 1 - Len(ds)] /\ u[2 * i] = p[2 * i - Len(ds)]
        BY <3>1, <1>4
    <3>3. u[2 * i - 1] = h /\ u[2 * i] = l /\ cs[i] = b  BY <3>1, <3>2, <1>1, <1>3
    <3>4. IsHexDigit(h) /\ IsHexDigit(l) /\ Pair(h, l) = b  BY SpellsByte
    <3> QED BY <3>3, <3>4
  <2> QED BY <2>1, <2>2
<1> QED BY <1>4, <1>5, <1>6 DEF AreDigits, u, p, cs

LEMMA HalfDigits ==
    ASSUME NEW bs \in Payloads, NEW ds, AreDigits(ds, bs), NEW h \in Int, IsHexDigit(h)
    PROVE  /\ ds \o <<h>> \in Texts /\ Len(ds \o <<h>>) = 2 * Len(bs) + 1
           /\ \A j \in 1 .. Len(ds \o <<h>>) : IsHexDigit((ds \o <<h>>)[j])
<1> DEFINE p == <<h>>
           u == ds \o p
<1>1. p \in Texts /\ Len(p) = 1 /\ p[1] = h  BY DEF Texts
<1>2. Len(bs) \in Nat /\ ds \in Texts /\ Len(ds) = 2 * Len(bs)  BY DEF Payloads, AreDigits
<1> HIDE DEF p
<1>3. /\ u \in Texts /\ Len(u) = Len(ds) + Len(p)
      /\ \A i \in 1 .. Len(ds) + Len(p) : u[i] = IF i <= Len(ds) THEN ds[i] ELSE p[i - Len(ds)]
    BY <1>1, <1>2, ConcatProperties DEF Texts
<1>4. \A j \in 1 .. Len(ds) : IsHexDigit(ds[j])  BY AllAreDigits
<1> HIDE DEF u
<1>5. ASSUME NEW j \in 1 .. Len(u) PROVE IsHexDigit(u[j])
  <2>1. CASE j <= Len(ds)  BY <2>1, <1>1, <1>2, <1>3, <1>4
  <2>2. CASE ~ (j <= Len(ds))
    <3>1. j - Len(ds) = 1 /\ j \in 1 .. Len(ds) + Len(p)  BY <2>2, <1>1, <1>2, <1>3
    <3>2. u[j] = h  BY <3>1, <2>2, <1>1, <1>3
    <3> QED BY <3>2
  <2> QED BY <2>1, <2>2
<1>6. Len(u) = 2 * Len(bs) + 1  BY <1>1, <1>2, <1>3
<1> QED BY <1>3, <1>5, <1>6 DEF u, p

LEMMA HexToBytesIs ==
    ASSUME NEW text, NEW ds \in Texts, ds = Digits(text), NEW max \in Nat,
           \A j \in 1 .. Len(ds) : IsHexDigit(ds[j])
    PROVE  HexToBytes(text, max) =
              IF 2 * max + 2 <= Len(ds) THEN Converted(-2, <<>>)
              ELSE IF Len(ds) % 2 = 1 THEN Converted(-1, <<>>)
              ELSE Converted(0, [i \in 1 .. (Len(ds) \div 2) |-> Pair(ds[2 * i - 1], ds[2 * i])])
<1> DEFINE bad == CHOOSE i \in 1 .. (Len(ds) + 1) :
                      /\ i = Len(ds) + 1 \/ ~ IsHexDigit(ds[i])
                      /\ \A j \in 1 .. (i - 1) : ~ ~ IsHexDigit(ds[j])
           made == [i \in 1 .. (Len(ds) \div 2) |-> Pair(ds[2 * i - 1], ds[2 * i])]
<1>1. Len(ds) \in Nat  BY DEF Texts
<1>2. bad = Len(ds) + 1
  <2>1. Len(ds) + 1 \in 1 .. (Len(ds) + 1) /\ \A j \in 1 .. (Len(ds) + 1 - 1) : IsHexDigit(ds[j])
      BY <1>1
  <2>2. \A i \in 1 .. (Len(ds) + 1) : i = Len(ds) + 1 \/ i \in 1 .. Len(ds)  BY <1>1
  <2> QED BY <2>1, <2>2
<1>3. HexToBytes(text, max) =
          IF 2 * max + 2 <= Len(ds) /\ 2 * max + 2 < bad THEN Converted(-2, <<>>)
          ELSE IF bad <= Len(ds) \/ Len(ds) % 2 = 1 THEN Converted(-1, <<>>)
          ELSE Converted(0, made)
    BY Zenon DEF HexToBytes, First
<1> HIDE DEF bad, made
<1>4. ~ (bad <= Len(ds)) /\ (2 * max + 2 <= Len(ds) => 2 * max + 2 < bad)  BY <1>1, <1>2
<1>5. HexToBytes(text, max) =
          IF 2 * max + 2 <= Len(ds) THEN Converted(-2, <<>>)
          ELSE IF Len(ds) % 2 = 1 THEN Converted(-1, <<>>)
          ELSE Converted(0, made)
    BY <1>3, <1>4, Zenon
<1> QED BY <1>5 DEF made

LEMMA HexToBytesReads ==
    ASSUME NEW text, NEW bs \in Payloads, AreDigits(Digits(text), bs), NEW max \in Nat
    PROVE  HexToBytes(text, max) = IF Len(bs) <= max THEN Converted(0, bs) ELSE Converted(-2, <<>>)
<1> DEFINE ds == Digits(text)
           made == [i \in 1 .. (Len(ds) \div 2) |-> Pair(ds[2 * i - 1], ds[2 * i])]
<1>1. ds \in Texts /\ Len(ds) = 2 * Len(bs) /\ Len(bs) \in Nat  BY DEF AreDigits, Payloads
<1>2. \A j \in 1 .. Len(ds) : IsHexDigit(ds[j])  BY AllAreDigits
<1>3. HexToBytes(text, max) =
          IF 2 * max + 2 <= Len(ds) THEN Converted(-2, <<>>)
          ELSE IF Len(ds) % 2 = 1 THEN Converted(-1, <<>>) ELSE Converted(0, made)
  <2> HIDE DEF ds
  <2>1. ds = Digits(text)  BY DEF ds
  <2> QED BY <1>1, <1>2, <2>1, HexToBytesIs
<1>4. \A i \in 1 .. Len(bs) : Pair(ds[2 * i - 1], ds[2 * i]) = bs[i]  BY DEF AreDigits
<1> HIDE DEF ds
<1>5. Len(ds) \div 2 = Len(bs) /\ Len(ds) % 2 = 0 /\ (2 * max + 2 <= Len(ds) <=> ~ (Len(bs) <= max))
    BY <1>1
<1>6. made = bs
  <2>1. made = [i \in 1 .. Len(bs) |-> Pair(ds[2 * i - 1], ds[2 * i])]  BY <1>5
  <2>2. made = [i \in 1 .. Len(bs) |-> bs[i]]  BY <1>4, <2>1
  <2>3. bs = [i \in 1 .. Len(bs) |-> bs[i]]  BY DEF Payloads
  <2> QED BY <2>2, <2>3
<1> HIDE DEF made
<1> QED BY <1>3, <1>5, <1>6

LEMMA HexToBytesRefuses ==
    ASSUME NEW text, NEW n \in Nat, NEW max \in Nat, n < max, Digits(text) \in Texts,
           Len(Digits(text)) = 2 * n + 1,
           \A j \in 1 .. Len(Digits(text)) : IsHexDigit(Digits(text)[j])
    PROVE  HexToBytes(text, max).rc = -1
<1> DEFINE ds == Digits(text)
           made == [i \in 1 .. (Len(ds) \div 2) |-> Pair(ds[2 * i - 1], ds[2 * i])]
<1> HIDE DEF ds
<1>1. ds \in Texts /\ Len(ds) = 2 * n + 1 /\ ds = Digits(text)
      /\ \A j \in 1 .. Len(ds) : IsHexDigit(ds[j])
    BY DEF ds
<1>2. HexToBytes(text, max) =
          IF 2 * max + 2 <= Len(ds) THEN Converted(-2, <<>>)
          ELSE IF Len(ds) % 2 = 1 THEN Converted(-1, <<>>) ELSE Converted(0, made)
    BY <1>1, HexToBytesIs
<1> HIDE DEF made
<1>3. ~ (2 * max + 2 <= Len(ds)) /\ Len(ds) % 2 = 1  BY <1>1
<1>4. HexToBytes(text, max) = Converted(-1, <<>>)  BY <1>2, <1>3
<1> QED BY <1>4 DEF Converted

(***************************************************************************)
(* The text of -x, as it grows.                                            *)
(***************************************************************************)
HexInv ==
    /\ bytes \in Payloads
    /\ hex \in Texts /\ (hex = <<>> \/ Leads(hex))
    /\ AreDigits(Digits(hex), bytes)
    /\ bytes # <<>> =>
          /\ Digits(Half) \in Texts /\ Len(Digits(Half)) = 2 * Len(bytes) - 1
          /\ \A j \in 1 .. Len(Digits(Half)) : IsHexDigit(Digits(Half)[j])

LEMMA NoDigits == AreDigits(<<>>, <<>>)
<1>1. <<>> \in Texts /\ Len(<<>>) = 0 /\ 2 * 0 = 0  BY DEF Texts
<1>2. 1 .. Len(<<>>) = {}  BY <1>1
<1> QED BY <1>1, <1>2 DEF AreDigits

LEMMA PrefixIs ==
    ASSUME NEW s \in Texts, NEW f \in Nat, LeadsAt(s, f), Len(s) = f + 1,
           s[f] = Zero, s[f + 1] \in ExMarks
    PROVE  Leads(s) /\ Digits(s) = <<>>
<1> DEFINE a == From(s, f)
           c == From(a, 3)
<1>1. f \in 1 .. (Len(s) + 1)  BY DEF LeadsAt
<1>2. /\ a \in Texts /\ Len(a) = Len(s) - f + 1
      /\ \A i \in 1 .. (Len(s) - f + 1) : a[i] = s[f + i - 1]
    BY <1>1, FromIs
<1>3. Unprefixed(s) = IF Marked(a) THEN c ELSE a  BY UnprefixedAt, Zenon
<1> HIDE DEF a
<1>4. Len(a) = 2 /\ 1 \in 1 .. (Len(s) - f + 1) /\ 2 \in 1 .. (Len(s) - f + 1)
      /\ f + 1 - 1 = f /\ f + 2 - 1 = f + 1
    BY <1>2
<1>5. a[1] = s[f] /\ a[2] = s[f + 1]
  <2>1. a[1] = s[f + 1 - 1] /\ a[2] = s[f + 2 - 1]  BY <1>2, <1>4
  <2> QED BY <2>1, <1>4, Zenon
<1>6. Marked(a)  BY <1>4, <1>5 DEF Marked
<1>7. c = <<>>
  <2>1. 3 \in 1 .. (Len(a) + 1) /\ Len(a) - 3 + 1 = 0  BY <1>4
  <2>2. c \in Texts /\ Len(c) = 0  BY <1>2, <2>1, FromIs
  <2> QED BY <2>2 DEF Texts
<1> HIDE DEF c
<1>8. Leads(s)  BY <1>1 DEF Leads
<1> QED BY <1>3, <1>6, <1>7, <1>8, KeptEmpty DEF Digits

LEMMA HexStarts == Init => HexInv
<1> SUFFICES ASSUME Init PROVE HexInv  OBVIOUS
<1>1. bytes = <<>> /\ bytes \in Payloads /\ hex \in Prefixes  BY DEF Init, Payloads
<1>2. hex \in Texts /\ (hex = <<>> \/ Leads(hex)) /\ Digits(hex) = <<>>
  <2>1. CASE hex = <<>>  BY <2>1, EmptyText
  <2>2. CASE hex = <<32, 48, 120>>
    <3>1. hex \in Texts /\ Len(hex) = 3 /\ hex[1] = 32 /\ hex[2] = 48 /\ hex[3] = 120
        BY <2>2 DEF Texts
    <3>2. LeadsAt(hex, 2)  BY <3>1 DEF LeadsAt, Blank
    <3>3. Len(hex) = 2 + 1 /\ hex[2] = Zero /\ hex[2 + 1] \in ExMarks  BY <3>1 DEF Zero, ExMarks
    <3> QED BY <3>1, <3>2, <3>3, PrefixIs
  <2>3. CASE hex = <<48, 88>>
    <3>1. hex \in Texts /\ Len(hex) = 2 /\ hex[1] = 48 /\ hex[2] = 88  BY <2>3 DEF Texts
    <3>2. LeadsAt(hex, 1)  BY <3>1 DEF LeadsAt, Blank
    <3>3. Len(hex) = 1 + 1 /\ hex[1] = Zero /\ hex[1 + 1] \in ExMarks  BY <3>1 DEF Zero, ExMarks
    <3> QED BY <3>1, <3>2, <3>3, PrefixIs
  <2> QED BY <1>1, <2>1, <2>2, <2>3 DEF Prefixes
<1> QED BY <1>1, <1>2, NoDigits DEF HexInv

LEMMA HexStep ==
    ASSUME HexInv, NEW b \in Samples, Add(b)
    PROVE  HexInv'
<1>1. b \in Byte /\ bytes' = Append(bytes, b)  BY Constants DEF Add
<1>2. PICK p \in Pairs(b) : hex' = hex \o p  BY DEF Add
<1>3. PICK h, l :
         /\ Spells(h, l, b)
         /\ IsPart(p) /\ Len(p) >= 2 /\ (p[1] \in Blank => Len(p) >= 3)
         /\ Kept(p) = <<h, l>>
         /\ IsPart(HalfOf(p)) /\ Kept(HalfOf(p)) = <<h>>
    BY <1>1, SpellingIs
<1>4. bytes \in Payloads /\ hex \in Texts /\ (hex = <<>> \/ Leads(hex)) /\ AreDigits(Digits(hex), bytes)
    BY DEF HexInv
<1>5. hex' \in Texts /\ Leads(hex') /\ Len(hex') = Len(hex) + Len(p)
    BY <1>2, <1>3, <1>4, LeadsGrow
<1>6. Digits(hex') = Digits(hex) \o <<h, l>>  BY <1>2, <1>3, <1>4, DigitsGrow
<1>7. AreDigits(Digits(hex'), bytes')  BY <1>1, <1>3, <1>4, <1>6, DigitsAppend
<1>8. /\ bytes' \in Payloads /\ Len(bytes') = Len(bytes) + 1 /\ Len(bytes) \in Nat
    BY <1>1, <1>4 DEF Payloads
<1>9. Half' = hex \o HalfOf(p)
  <2> DEFINE t == hex \o p
             k == IF p[Len(p)] = Colon THEN 2 ELSE 1
  <2>1. /\ p \in Texts /\ t \in Texts /\ Len(t) = Len(hex) + Len(p)
        /\ Len(hex) \in Nat /\ Len(p) \in Nat
        /\ \A i \in 1 .. Len(hex) + Len(p) : t[i] = IF i <= Len(hex) THEN hex[i] ELSE p[i - Len(hex)]
    <3>1. p \in Texts  BY <1>3 DEF IsPart
    <3> QED BY <3>1, <1>4, ConcatProperties DEF Texts
  <2> HIDE DEF t
  <2>2. t[Len(t)] = p[Len(p)]
    <3>1. /\ Len(t) \in 1 .. Len(hex) + Len(p) /\ ~ (Len(t) <= Len(hex))
          /\ Len(t) - Len(hex) = Len(p)
        BY <1>3, <2>1
    <3> QED BY <3>1, <2>1
  <2>3. Half' = SubSeq(t, 1, Len(t) - k)
    <3>1. Half' = SubSeq(t, 1, Len(t) - (IF t[Len(t)] = Colon THEN 2 ELSE 1))
        BY <1>2, Zenon DEF Half, t
    <3> QED BY <3>1, <2>2, Zenon
  <2>4. k \in 1 .. 2  OBVIOUS
  <2>5. HalfOf(p) = SubSeq(p, 1, Len(p) - k)  BY DEF HalfOf
  <2> HIDE DEF k
  <2> DEFINE q == SubSeq(p, 1, Len(p) - k)
             w == SubSeq(t, 1, Len(t) - k)
             u == hex \o q
  <2>6. q \in Texts /\ Len(q) = Len(p) - k /\ \A i \in 1 .. Len(p) - k : q[i] = p[i]
    <3>1. Len(p) - k \in 0 .. Len(p)  BY <1>3, <2>1, <2>4
    <3> QED BY <3>1, <2>1, SubSeqFromOne
  <2>7. w \in Texts /\ Len(w) = Len(t) - k /\ \A i \in 1 .. Len(t) - k : w[i] = t[i]
    <3>1. Len(t) - k \in 0 .. Len(t)  BY <1>3, <2>1, <2>4
    <3> QED BY <3>1, <2>1, SubSeqFromOne
  <2> HIDE DEF q, w
  <2>8. /\ u \in Texts /\ Len(u) = Len(hex) + Len(q)
        /\ \A i \in 1 .. Len(hex) + Len(q) : u[i] = IF i <= Len(hex) THEN hex[i] ELSE q[i - Len(hex)]
      BY <1>4, <2>6, ConcatProperties DEF Texts
  <2> HIDE DEF u
  <2>9. Len(w) = Len(u)  BY <2>1, <2>4, <2>6, <2>7, <2>8
  <2>10. ASSUME NEW i \in 1 .. Len(w) PROVE w[i] = u[i]
    <3>1. /\ i \in 1 .. Len(t) - k /\ i \in 1 .. Len(hex) + Len(p) /\ i \in 1 .. Len(hex) + Len(q)
        BY <2>1, <2>4, <2>6, <2>7, <2>8, <2>9
    <3>2. CASE i <= Len(hex)  BY <3>1, <3>2, <2>1, <2>7, <2>8
    <3>3. CASE ~ (i <= Len(hex))
      <4>1. i - Len(hex) \in 1 .. Len(p) - k  BY <3>1, <3>3, <2>1, <2>4
      <4> QED BY <4>1, <3>1, <3>3, <2>1, <2>6, <2>7, <2>8
    <3> QED BY <3>2, <3>3
  <2>11. w = u  BY <2>7, <2>8, <2>9, <2>10, SameSeq
  <2> QED BY <2>3, <2>5, <2>11 DEF w, u, q
<1>10. Digits(Half') = Digits(hex) \o <<h>>  BY <1>3, <1>4, <1>9, DigitsGrow
<1>11. /\ Digits(Half') \in Texts /\ Len(Digits(Half')) = 2 * Len(bytes) + 1
       /\ \A j \in 1 .. Len(Digits(Half')) : IsHexDigit(Digits(Half')[j])
  <2>1. h \in Int /\ IsHexDigit(h)  BY <1>1, <1>3, SpellsByte DEF Spells
  <2> QED BY <2>1, <1>4, <1>10, HalfDigits
<1>12. 2 * Len(bytes') - 1 = 2 * Len(bytes) + 1  BY <1>8
<1>13. Digits(Half)' = Digits(Half') /\ Digits(hex)' = Digits(hex')  OBVIOUS
<1> QED BY <1>5, <1>7, <1>8, <1>11, <1>12, <1>13 DEF HexInv

(***************************************************************************)
(* parse_hex_byte.                                                         *)
(***************************************************************************)
LEMMA FirstBlank ==
    ASSUME NEW s \in Texts
    PROVE  \E f \in 1 .. (Len(s) + 1) :
              /\ f = (CHOOSE i \in 1 .. (Len(s) + 1) :
                        /\ i = Len(s) + 1 \/ s[i] \in Blank
                        /\ \A j \in 1 .. (i - 1) : ~ (s[j] \in Blank))
              /\ f = Len(s) + 1 \/ s[f] \in Blank
              /\ \A j \in 1 .. (f - 1) : s[j] \notin Blank
<1> DEFINE P(i) == /\ i = Len(s) + 1 \/ s[i] \in Blank
                   /\ \A j \in 1 .. (i - 1) : ~ (s[j] \in Blank)
           B == {i \in 1 .. (Len(s) + 1) : i = Len(s) + 1 \/ s[i] \in Blank}
           f == CHOOSE i \in 1 .. (Len(s) + 1) : P(i)
<1>1. Len(s) \in Nat  BY DEF Texts
<1>2. PICK x \in B : \A y \in B : x <= y
  <2>1. B \subseteq Nat /\ Len(s) + 1 \in B  BY <1>1
  <2> HIDE DEF B
  <2> QED BY <2>1, LeastElement
<1>3. x \in 1 .. (Len(s) + 1) /\ P(x)
  <2>1. x \in 1 .. (Len(s) + 1) /\ (x = Len(s) + 1 \/ s[x] \in Blank)  BY <1>2
  <2>2. ASSUME NEW j \in 1 .. (x - 1) PROVE ~ (s[j] \in Blank)
    <3>1. j \in 1 .. (Len(s) + 1) /\ ~ (x <= j)  BY <1>1, <2>1
    <3> QED BY <3>1, <1>2
  <2> QED BY <2>1, <2>2
<1>4. f \in 1 .. (Len(s) + 1) /\ P(f)
  <2> HIDE DEF P
  <2> QED BY <1>3, Zenon
<1> HIDE DEF f
<1>5. \E g \in 1 .. (Len(s) + 1) : g = f /\ P(g)  BY <1>4
<1> QED BY <1>5, Zenon DEF f

LEMMA OneByte ==
    ASSUME NEW text, Unprefixed(text) \in Texts, NEW bs \in Payloads,
           AreDigits(Kept(Unprefixed(text)), bs), ParseHexByte(text).rc = 0
    PROVE  Len(bs) = 1 /\ ParseHexByte(text) = Converted(0, bs)
<1> DEFINE s == Unprefixed(text)
<1>0. s \in Texts /\ AreDigits(Kept(s), bs)  OBVIOUS
<1>1. PICK f \in 1 .. (Len(s) + 1) :
         /\ f = (CHOOSE i \in 1 .. (Len(s) + 1) :
                   /\ i = Len(s) + 1 \/ s[i] \in Blank
                   /\ \A j \in 1 .. (i - 1) : ~ (s[j] \in Blank))
         /\ f = Len(s) + 1 \/ s[f] \in Blank
         /\ \A j \in 1 .. (f - 1) : s[j] \notin Blank
    BY <1>0, FirstBlank
<1> DEFINE word  == SubSeq(s, 1, f - 1)
           after == From(s, f)
           value == IF Len(word) = 1 THEN HexDigit(word[1]) ELSE Pair(word[1], word[2])
           good  == /\ Len(word) \in 1 .. 2
                    /\ \A i \in 1 .. Len(word) : IsHexDigit(word[i])
                    /\ \A i \in 1 .. Len(after) : after[i] \in Blank
<1>2. ParseHexByte(text) = IF good THEN Converted(0, <<value>>) ELSE Converted(-1, <<>>)
  <2> DEFINE g == CHOOSE i \in 1 .. (Len(s) + 1) :
                   /\ i = Len(s) + 1 \/ s[i] \in Blank
                   /\ \A j \in 1 .. (i - 1) : ~ (s[j] \in Blank)
             aword == SubSeq(s, 1, g - 1)
             aafter == From(s, g)
  <2>1. ParseHexByte(text) =
            IF /\ Len(aword) \in 1 .. 2
               /\ \A i \in 1 .. Len(aword) : IsHexDigit(aword[i])
               /\ \A i \in 1 .. Len(aafter) : aafter[i] \in Blank
            THEN Converted(0, <<IF Len(aword) = 1 THEN HexDigit(aword[1]) ELSE Pair(aword[1], aword[2])>>)
            ELSE Converted(-1, <<>>)
      BY Zenon DEF ParseHexByte, First
  <2>2. g = f  BY <1>1
  <2> HIDE DEF g, s
  <2> QED BY <2>1, <2>2, Zenon
<1> HIDE DEF s
<1>3. Len(s) \in Nat /\ s \in Texts  BY <1>0 DEF Texts
<1>4. /\ word \in Texts /\ Len(word) = f - 1
      /\ \A i \in 1 .. f - 1 : word[i] = s[i]
    BY <1>3, SubSeqFromOne
<1>5. after \in Texts  BY <1>3, FromIs
<1>6. word \o after = s
  <2>1. /\ s \in Seq(Int) /\ 1 \in 1 .. Len(s) + 1 /\ f - 1 \in 1 - 1 .. Len(s)
        /\ Len(s) \in f - 1 .. Len(s) /\ f - 1 + 1 = f
      BY <1>3 DEF Texts
  <2>2. SubSeq(s, 1, f - 1) \o SubSeq(s, f - 1 + 1, Len(s)) = SubSeq(s, 1, Len(s))
      BY <2>1, ConcatAdjacentSubSeq
  <2>3. SubSeq(s, 1, Len(s)) = s  BY <2>1, SubSeqFull
  <2> QED BY <2>1, <2>2, <2>3, Zenon DEF From
<1> HIDE DEF word, after, value
<1>7. good
  <2>1. CASE ~ good
    <3>1. ParseHexByte(text) = Converted(-1, <<>>)  BY <1>2, <2>1, Zenon
    <3>2. ParseHexByte(text).rc = -1  BY <3>1 DEF Converted
    <3> QED BY <3>2
  <2> QED BY <2>1
<1>8. Kept(s) = Kept(word)
  <2>1. Kept(s) = Kept(word) \o Kept(after)  BY <1>4, <1>5, <1>6, KeptConcat
  <2>2. \A i \in 1 .. Len(after) : after[i] \in Skipped  BY <1>7 DEF Skipped
  <2>3. Kept(after) = <<>>  BY <1>5, <2>2, KeptNone
  <2>4. Kept(word) \in Texts  BY <1>4, KeptIn
  <2> QED BY <2>1, <2>3, <2>4, ConcatEmptySeq DEF Texts
<1>9. \A i \in 1 .. Len(word) : word[i] \in Int /\ word[i] \notin Skipped
  <2> TAKE i \in 1 .. Len(word)
  <2>1. word[i] \in Int /\ IsHexDigit(word[i])  BY <1>4, <1>7 DEF Texts
  <2> QED BY <2>1, DigitCounts
<1>10. Kept(s) \in Texts /\ Len(Kept(s)) = 2 * Len(bs) /\ Len(bs) \in Nat
    BY <1>0 DEF AreDigits, Payloads
<1>11. Len(word) = 2
  <2>1. CASE Len(word) = 1
    <3>1. Kept(word) = <<word[1]>>
      <4>1. 1 \in 1 .. Len(word)  BY <2>1
      <4> QED BY <4>1, <2>1, <1>4, <1>9, KeptOfPart
    <3>2. Len(<<word[1]>>) = 1  OBVIOUS
    <3>3. 2 * Len(bs) = 1  BY <3>1, <3>2, <1>8, <1>10
    <3> QED BY <3>3, <1>10
  <2>2. Len(word) = 1 \/ Len(word) = 2  BY <1>7
  <2> QED BY <2>1, <2>2
<1>12. word[1] \in Int /\ word[2] \in Int /\ Kept(s) = <<word[1], word[2]>>
  <2>1. 1 \in 1 .. Len(word) /\ 2 \in 1 .. Len(word)  BY <1>11
  <2>2. word[1] \in Int /\ word[1] \notin Skipped /\ word[2] \in Int /\ word[2] \notin Skipped
      BY <2>1, <1>9
  <2>3. Kept(word) = <<word[1], word[2]>>  BY <2>2, <1>4, <1>11, KeptOfPart
  <2> QED BY <2>2, <2>3, <1>8
<1>13. Len(bs) = 1 /\ Kept(s)[1] = word[1] /\ Kept(s)[2] = word[2]
  <2>1. Len(Kept(s)) = 2 /\ Kept(s)[1] = word[1] /\ Kept(s)[2] = word[2]  BY <1>12, TwoAre
  <2>2. 2 * Len(bs) = 2  BY <2>1, <1>10, Zenon
  <2>3. \A m \in Nat : 2 * m = 2 => m = 1  OBVIOUS
  <2>4. Len(bs) = 1  BY <2>2, <2>3, <1>10, Zenon
  <2> QED BY <2>1, <2>4
<1>14. value = bs[1]
  <2>1. 1 \in 1 .. Len(bs) /\ 2 * 1 - 1 = 1 /\ 2 * 1 = 2  BY <1>13
  <2>2. Pair(Kept(s)[2 * 1 - 1], Kept(s)[2 * 1]) = bs[1]  BY <2>1, <1>0 DEF AreDigits
  <2>3. Pair(word[1], word[2]) = bs[1]  BY <2>1, <2>2, <1>13, Zenon
  <2> QED BY <2>3, <1>11 DEF value
<1>15. bs = <<bs[1]>>
  <2> DEFINE u == <<bs[1]>>
  <2>1. bs[1] \in Byte
    <3>1. bs \in Seq(Byte) /\ 1 \in 1 .. Len(bs)  BY <1>13 DEF Payloads
    <3> QED BY <3>1
  <2>2. u \in Seq(Byte) /\ Len(u) = 1 /\ u[1] = bs[1]  BY <2>1
  <2> HIDE DEF u
  <2>3. \A i \in 1 .. Len(bs) : bs[i] = u[i]  BY <1>13, <2>2
  <2>4. bs = u  BY <1>13, <2>2, <2>3, SeqEqual DEF Payloads
  <2> QED BY <2>4 DEF u
<1>16. ParseHexByte(text) = Converted(0, bs)
  <2>1. ParseHexByte(text) = Converted(0, <<value>>)  BY <1>2, <1>7, Zenon
  <2> QED BY <2>1, <1>14, <1>15, Zenon
<1> QED BY <1>13, <1>16

LEMMA MeansIs ==
    ASSUME NEW c, bytes \in Payloads,
           c = IF Len(bytes) <= Room THEN Converted(0, bytes) ELSE Converted(-2, <<>>)
    PROVE  Means(c)
<1>1. CASE Len(bytes) <= Room  BY <1>1 DEF Means, Fits
<1>2. CASE ~ (Len(bytes) <= Room)
  <2>1. c = Converted(-2, <<>>)  BY <1>2
  <2>2. c.rc = -2  BY <2>1 DEF Converted
  <2> QED BY <1>2, <2>2 DEF Means, Fits
<1> QED BY <1>1, <1>2

LEMMA HexMeans == HexInv => PairsMeanBytes
<1> SUFFICES ASSUME HexInv PROVE PairsMeanBytes  OBVIOUS
<1>1. /\ bytes \in Payloads /\ hex \in Texts /\ (hex = <<>> \/ Leads(hex))
      /\ AreDigits(Digits(hex), bytes) /\ Room \in Nat /\ Len(bytes) \in Nat
    BY Constants DEF HexInv, Payloads
<1>2. Means(HexToBytes(hex, Room))  BY <1>1, HexToBytesReads, MeansIs
<1>3. ASSUME bytes # <<>>, Fits PROVE HexToBytes(Half, Room).rc = -1
  <2> DEFINE n == Len(bytes) - 1
  <2>1. /\ Digits(Half) \in Texts /\ Len(Digits(Half)) = 2 * Len(bytes) - 1
        /\ \A j \in 1 .. Len(Digits(Half)) : IsHexDigit(Digits(Half)[j])
      BY <1>3 DEF HexInv
  <2>2. Len(bytes) # 0  BY <1>3, <1>1 DEF Payloads
  <2>3. n \in Nat /\ n < Room /\ 2 * Len(bytes) - 1 = 2 * n + 1  BY <1>1, <1>3, <2>2 DEF Fits
  <2> HIDE DEF n
  <2> QED BY <1>1, <2>1, <2>3, HexToBytesRefuses
<1>4. ASSUME ParseHexByte(hex).rc = 0
      PROVE  Len(bytes) = 1 /\ ParseHexByte(hex) = Converted(0, bytes)
  <2>1. Unprefixed(hex) \in Texts
    <3>1. CASE hex = <<>>
      <4>1. LeadsAt(hex, 1) /\ From(hex, 1) \in Texts /\ Len(From(hex, 1)) = 0
        <5>1. Len(hex) = 0 /\ 1 \in 1 .. (Len(hex) + 1) /\ Len(hex) - 1 + 1 = 0  BY <3>1
        <5> QED BY <5>1, <1>1, FromIs DEF LeadsAt
      <4>2. ~ Marked(From(hex, 1))  BY <4>1 DEF Marked
      <4> QED BY <4>1, <4>2, <1>1, UnprefixedAt
    <3>2. CASE Leads(hex)
      <4>1. PICK f \in Nat : LeadsAt(hex, f) /\ f < Len(hex)  BY <3>2 DEF Leads
      <4> QED BY <4>1, <1>1, UnprefixedGrows
    <3> QED BY <1>1, <3>1, <3>2
  <2>2. AreDigits(Kept(Unprefixed(hex)), bytes)  BY <1>1 DEF Digits
  <2> QED BY <1>1, <1>4, <2>1, <2>2, OneByte
<1> QED BY <1>2, <1>3, <1>4 DEF PairsMeanBytes

(***************************************************************************)
(* The bytes as text and back.                                             *)
(***************************************************************************)
(* What bytes_to_hex writes, without the test of the size.                 *)
Width(sp) == IF sp THEN 3 ELSE 2
Widths == {2, 3}
CharAt(bs, w, u, i) ==
    LET b == bs[((i - 1) \div w) + 1]
    IN  CASE (i - 1) % w = 0 -> HexChar(b \div 16, u)
          [] (i - 1) % w = 1 -> HexChar(b % 16, u)
          [] OTHER -> 32
Size(n, sp) == IF sp /\ n > 0 THEN 3 * n - 1 ELSE 2 * n
Printed(bs, u, sp) == [i \in 1 .. Size(Len(bs), sp) |-> CharAt(bs, Width(sp), u, i)]

LEMMA SizeIs ==
    ASSUME NEW n \in Nat, NEW sp
    PROVE  /\ Required(n, sp) = Size(n, sp) + 1 /\ Size(n, sp) \in Nat
           /\ Width(sp) \in {2, 3}
           /\ Size(n, sp) = IF n = 0 THEN 0 ELSE Width(sp) * n - (Width(sp) - 2)
<1>1. CASE sp
  <2>1. Size(n, sp) = IF n > 0 THEN 3 * n - 1 ELSE 2 * n  BY <1>1, Zenon DEF Size
  <2>2. Required(n, sp) = Size(n, sp) + 1  BY Zenon DEF Size, Required
  <2>3. Width(sp) = 3  BY <1>1, Zenon DEF Width
  <2> QED BY <2>1, <2>2, <2>3
<1>2. CASE ~ sp
  <2>1. Size(n, sp) = 2 * n  BY <1>2, Zenon DEF Size
  <2>2. Required(n, sp) = Size(n, sp) + 1  BY Zenon DEF Size, Required
  <2>3. Width(sp) = 2  BY <1>2, Zenon DEF Width
  <2> QED BY <2>1, <2>2, <2>3
<1> QED BY <1>1, <1>2, Zenon

LEMMA BytesToHexIs ==
    ASSUME NEW bs \in Payloads, NEW u, NEW sp
    PROVE  /\ BytesToHex(bs, Required(Len(bs), sp), u, sp) = Converted(0, Printed(bs, u, sp))
           /\ BytesToHex(bs, Required(Len(bs), sp) - 1, u, sp) = Converted(-1, <<>>)
<1> DEFINE n == Len(bs)
           R == Required(n, sp)
<1>1. n \in Nat  BY DEF Payloads
<1>2. R = Size(n, sp) + 1 /\ Size(n, sp) \in Nat  BY <1>1, SizeIs, Zenon
<1>3. \A size : BytesToHex(bs, size, u, sp) =
                   IF size = 0 \/ size < R THEN Converted(-1, <<>>)
                   ELSE Converted(0, [i \in 1 .. (R - 1) |-> CharAt(bs, Width(sp), u, i)])
    BY Zenon DEF BytesToHex, CharAt, Width
<1> HIDE DEF R
<1>4. ~ (R = 0 \/ R < R) /\ (R - 1 = 0 \/ R - 1 < R) /\ R - 1 = Size(n, sp)
  <2> DEFINE m == Size(n, sp)
  <2>1. m \in Nat /\ R = m + 1  BY <1>2
  <2> HIDE DEF m
  <2>2. ~ (R = 0 \/ R < R) /\ (R - 1 = 0 \/ R - 1 < R) /\ R - 1 = m  BY <2>1
  <2> QED BY <2>2 DEF m
<1>5. BytesToHex(bs, R, u, sp) = Converted(0, Printed(bs, u, sp))
    BY <1>3, <1>4, Zenon DEF Printed
<1>6. BytesToHex(bs, R - 1, u, sp) = Converted(-1, <<>>)  BY <1>3, <1>4, Zenon
<1> QED BY <1>5, <1>6 DEF R

(* The part of the text that one more byte adds.                           *)
LEMMA CharAtIs ==
    ASSUME NEW bs, NEW w \in Widths, NEW u, NEW k \in Nat, NEW i \in Int
    PROVE  /\ i = w * k + 1 => CharAt(bs, w, u, i) = HexChar(bs[k + 1] \div 16, u)
           /\ i = w * k + 2 => CharAt(bs, w, u, i) = HexChar(bs[k + 1] % 16, u)
           /\ w = 3 /\ i = 3 * k + 3 => CharAt(bs, w, u, i) = 32
<1>1. ASSUME i = w * k + 1 PROVE CharAt(bs, w, u, i) = HexChar(bs[k + 1] \div 16, u)
  <2>1. ((i - 1) \div w) + 1 = k + 1 /\ (i - 1) % w = 0 /\ ~ (0 = 1)
    <3>1. CASE w = 2  BY <1>1, <3>1
    <3>2. CASE w = 3  BY <1>1, <3>2
    <3> QED BY <3>1, <3>2 DEF Widths
  <2> DEFINE b == bs[((i - 1) \div w) + 1]
             r == (i - 1) % w
  <2>2. CharAt(bs, w, u, i) =
            CASE r = 0 -> HexChar(b \div 16, u) [] r = 1 -> HexChar(b % 16, u) [] OTHER -> 32
      BY Zenon DEF CharAt
  <2> HIDE DEF b, r
  <2>3. r = 0 /\ ~ (r = 1)  BY <2>1 DEF r
  <2>4. CharAt(bs, w, u, i) = HexChar(b \div 16, u)  BY <2>2, <2>3, Zenon
  <2> QED BY <2>1, <2>4, Zenon DEF b
<1>2. ASSUME i = w * k + 2 PROVE CharAt(bs, w, u, i) = HexChar(bs[k + 1] % 16, u)
  <2>1. ((i - 1) \div w) + 1 = k + 1 /\ (i - 1) % w = 1 /\ ~ (1 = 0)
    <3>1. CASE w = 2  BY <1>2, <3>1
    <3>2. CASE w = 3  BY <1>2, <3>2
    <3> QED BY <3>1, <3>2 DEF Widths
  <2> DEFINE b == bs[((i - 1) \div w) + 1]
             r == (i - 1) % w
  <2>2. CharAt(bs, w, u, i) =
            CASE r = 0 -> HexChar(b \div 16, u) [] r = 1 -> HexChar(b % 16, u) [] OTHER -> 32
      BY Zenon DEF CharAt
  <2> HIDE DEF b, r
  <2>3. r = 1 /\ ~ (r = 0)  BY <2>1 DEF r
  <2>4. CharAt(bs, w, u, i) = HexChar(b % 16, u)  BY <2>2, <2>3, Zenon
  <2> QED BY <2>1, <2>4, Zenon DEF b
<1>3. ASSUME w = 3, i = 3 * k + 3 PROVE CharAt(bs, w, u, i) = 32
  <2>1. (i - 1) % w = 2 /\ ~ (2 = 0) /\ ~ (2 = 1)  BY <1>3
  <2> DEFINE b == bs[((i - 1) \div w) + 1]
             r == (i - 1) % w
  <2>2. CharAt(bs, w, u, i) =
            CASE r = 0 -> HexChar(b \div 16, u) [] r = 1 -> HexChar(b % 16, u) [] OTHER -> 32
      BY Zenon DEF CharAt
  <2> HIDE DEF b, r
  <2>3. ~ (r = 0) /\ ~ (r = 1)  BY <2>1 DEF r
  <2> QED BY <2>2, <2>3, Zenon
<1> QED BY <1>1, <1>2, <1>3

LEMMA CharHigh ==
    ASSUME NEW cs, NEW w \in Widths, NEW u, NEW n \in Nat, NEW i \in Int, i = w * n + 1
    PROVE  CharAt(cs, w, u, i) = HexChar(cs[n + 1] \div 16, u)
BY CharAtIs, Zenon

LEMMA CharLow ==
    ASSUME NEW cs, NEW w \in Widths, NEW u, NEW n \in Nat, NEW i \in Int, i = w * n + 2
    PROVE  CharAt(cs, w, u, i) = HexChar(cs[n + 1] % 16, u)
BY CharAtIs, Zenon

LEMMA SameRange ==
    ASSUME NEW m \in Nat, NEW n \in Nat, 1 .. m = 1 .. n
    PROVE  m = n
<1>1. m # 0 => m \in 1 .. m  OBVIOUS
<1>2. n # 0 => n \in 1 .. n  OBVIOUS
<1>3. m # 0 => m \in 1 .. n  BY <1>1
<1>4. n # 0 => n \in 1 .. m  BY <1>2
<1> QED BY <1>3, <1>4

LEMMA CharAtSame ==
    ASSUME NEW bs \in Payloads, NEW b \in Byte, NEW w \in {2, 3}, NEW u,
           NEW i \in 1 .. w * Len(bs)
    PROVE  CharAt(Append(bs, b), w, u, i) = CharAt(bs, w, u, i)
<1> DEFINE k == ((i - 1) \div w) + 1
<1>1. Len(bs) \in Nat  BY DEF Payloads
<1>2. k \in 1 .. Len(bs)
  <2>1. CASE w = 2  BY <1>1, <2>1
  <2>2. CASE w = 3  BY <1>1, <2>2
  <2> QED BY <2>1, <2>2
<1> HIDE DEF k
<1>3. Append(bs, b)[k] = bs[k]  BY <1>2 DEF Payloads
<1> QED BY <1>3, Zenon DEF CharAt, k

(* The text of one byte: its two digits, behind a blank or not.            *)
Prints(p, b, u) ==
    \/ Len(p) = 2 /\ p[1] = HexChar(b \div 16, u) /\ p[2] = HexChar(b % 16, u)
    \/ Len(p) = 3 /\ p[1] = 32 /\ p[2] = HexChar(b \div 16, u) /\ p[3] = HexChar(b % 16, u)

PrintsMore(p, bs, b, u, sp) ==
    Prints(p, b, u) /\ Printed(Append(bs, b), u, sp) = Printed(bs, u, sp) \o p

LEMMA PrintedGrows ==
    ASSUME NEW bs \in Payloads, NEW b \in Byte, NEW u, NEW sp,
           Printed(bs, u, sp) \in Texts
    PROVE  \E p \in Texts : PrintsMore(p, bs, b, u, sp)
<1> DEFINE n == Len(bs)
           w == Width(sp)
           cs == Append(bs, b)
           t == Printed(bs, u, sp)
           H == HexChar(b \div 16, u)
           L == HexChar(b % 16, u)
           D(i) == CharAt(cs, w, u, i)
<1>1. n \in Nat /\ Len(cs) = n + 1 /\ cs[n + 1] = b  BY DEF Payloads
<1>2. w \in {2, 3}  BY <1>1, SizeIs, Zenon
<1>3. Len(t) = Size(n, sp) /\ \A i \in 1 .. Size(n, sp) : t[i] = CharAt(bs, w, u, i)
  <2>1. Size(n, sp) \in Nat  BY <1>1, SizeIs, Zenon
  <2> DEFINE z == Size(n, sp)
             f == [i \in 1 .. z |-> CharAt(bs, w, u, i)]
  <2>2. t = f  BY Zenon DEF Printed
  <2> HIDE DEF z
  <2>3. \A i \in 1 .. z : f[i] = CharAt(bs, w, u, i)  OBVIOUS
  <2>4. DOMAIN f = 1 .. z  OBVIOUS
  <2> HIDE DEF f
  <2>5. t \in Texts /\ z \in Nat  BY <2>1 DEF z
  <2> HIDE DEF t
  <2>6. Len(t) = z
    <3>1. DOMAIN t = 1 .. Len(t) /\ Len(t) \in Nat  BY <2>5, LenProperties DEF Texts
    <3>2. 1 .. Len(t) = 1 .. z  BY <2>2, <2>4, <3>1
    <3> QED BY <3>1, <3>2, <2>5, SameRange
  <2> QED BY <2>2, <2>3, <2>6, Zenon DEF z
<1>4. Printed(cs, u, sp) = [i \in 1 .. Size(n + 1, sp) |-> D(i)]
    BY <1>1, Zenon DEF Printed
<1> DEFINE S0 == Size(n, sp)
           S1 == Size(n + 1, sp)
<1>5. /\ S0 = IF n = 0 THEN 0 ELSE w * n - (w - 2)
      /\ S1 = IF n + 1 = 0 THEN 0 ELSE w * (n + 1) - (w - 2)
  <2>1. n + 1 \in Nat  BY <1>1
  <2> QED BY <1>1, <2>1, SizeIs, Zenon
<1> HIDE DEF S0, S1
<1>6. /\ S0 \in Nat /\ S1 = w * n + 2 /\ S0 <= w * n
      /\ n = 0 => S0 = 0
      /\ n # 0 /\ w = 2 => S0 = w * n
      /\ n # 0 /\ w = 3 => S0 = 3 * n - 1
  <2> HIDE DEF n, w
  <2>1. CASE w = 2  BY <1>1, <1>5, <2>1
  <2>2. CASE w = 3  BY <1>1, <1>5, <2>2
  <2> QED BY <1>2, <2>1, <2>2
<1>7. D(w * n + 1) = H /\ D(w * n + 2) = L
  <2>1. n \in Nat /\ w \in Widths /\ cs[n + 1] = b  BY <1>1, <1>2 DEF Widths
  <2> HIDE DEF n, w, cs
  <2>2. w * n + 1 \in Int /\ w * n + 2 \in Int  BY <2>1 DEF Widths
  <2>3. n \in Nat  BY <2>1
  <2>4. w \in Widths  BY <2>1
  <2>7. ASSUME NEW i \in Int, i = w * n + 1
        PROVE  CharAt(cs, w, u, i) = HexChar(cs[n + 1] \div 16, u)
      BY <2>3, <2>4, <2>7, CharHigh, Zenon
  <2>8. ASSUME NEW i \in Int, i = w * n + 2
        PROVE  CharAt(cs, w, u, i) = HexChar(cs[n + 1] % 16, u)
      BY <2>3, <2>4, <2>8, CharLow, Zenon
  <2> HIDE DEF D
  <2>5. D(w * n + 1) = HexChar(cs[n + 1] \div 16, u)  BY <2>2, <2>7, Zenon DEF D
  <2>6. D(w * n + 2) = HexChar(cs[n + 1] % 16, u)  BY <2>2, <2>8, Zenon DEF D
  <2> QED BY <2>1, <2>5, <2>6, Zenon
<1>8. ASSUME n # 0, w = 3 PROVE D(3 * n) = 32
  <2> HIDE DEF n, w, cs
  <2> DEFINE k == n - 1
  <2>1. k \in Nat /\ 3 * n = 3 * k + 3 /\ 3 * n \in Int /\ w \in Widths
      BY <1>1, <1>8 DEF Widths
  <2> HIDE DEF k
  <2> QED BY <2>1, <1>8, CharAtIs, Zenon
<1>9. \A i \in 1 .. S0 : D(i) = CharAt(bs, w, u, i)
  <2> TAKE i \in 1 .. S0
  <2>1. i \in 1 .. w * n
    <3> HIDE DEF n, w
    <3> QED BY <1>1, <1>2, <1>6
  <2> QED BY <2>1, <1>2, CharAtSame, Zenon
<1>10. H \in Int /\ L \in Int
  <2>1. b \div 16 \in 0 .. 15 /\ b % 16 \in 0 .. 15  BY DEF Byte
  <2> QED BY <2>1, CharIs, Zenon
<1> HIDE DEF D, H, L, w, n, t, cs
<1>11. ASSUME NEW p \in Texts, Len(p) = S1 - S0, \A j \in 1 .. S1 - S0 : p[j] = D(S0 + j)
       PROVE  Printed(cs, u, sp) = t \o p
  <2> DEFINE v == t \o p
             f == [i \in 1 .. S1 |-> D(i)]
  <2>1. /\ v \in Texts /\ Len(v) = Len(t) + Len(p)
        /\ \A i \in 1 .. Len(t) + Len(p) : v[i] = IF i <= Len(t) THEN t[i] ELSE p[i - Len(t)]
    <3>1. t \in Texts  BY DEF t
    <3> QED BY <3>1, <1>11, ConcatProperties DEF Texts
  <2> HIDE DEF v
  <2>2. Len(t) = S0 /\ \A i \in 1 .. S0 : t[i] = CharAt(bs, w, u, i)  BY <1>3 DEF S0
  <2>3. S1 \in Nat /\ S0 <= S1 /\ Len(t) + Len(p) = S1
    <3>1. CASE w = 2  BY <3>1, <1>1, <1>6, <1>11, <2>2
    <3>2. CASE w = 3  BY <3>2, <1>1, <1>6, <1>11, <2>2
    <3> QED BY <3>1, <3>2, <1>2
  <2>4. ASSUME NEW i \in 1 .. S1 PROVE v[i] = D(i)
    <3>1. CASE i <= S0
      <4>1. i \in 1 .. S0 /\ v[i] = t[i]  BY <3>1, <1>6, <2>1, <2>2, <2>3
      <4> QED BY <4>1, <1>9, <2>2
    <3>2. CASE ~ (i <= S0)
      <4>1. i - S0 \in 1 .. S1 - S0 /\ S0 + (i - S0) = i  BY <3>2, <1>6, <2>3
      <4>2. v[i] = p[i - S0]  BY <3>2, <2>1, <2>2, <2>3
      <4>3. p[i - S0] = D(S0 + (i - S0))  BY <4>1, <1>11
      <4> QED BY <4>1, <4>2, <4>3
    <3> QED BY <3>1, <3>2
  <2>5. v = [i \in 1 .. S1 |-> v[i]]
    <3>1. Len(v) = S1  BY <2>1, <2>3
    <3> QED BY <3>1, <2>1 DEF Texts
  <2>6. f = [i \in 1 .. S1 |-> v[i]]  BY <2>4
  <2>7. v = f  BY <2>5, <2>6
  <2> QED BY <2>7, <1>4 DEF v, S1
<1>12. CASE n = 0 \/ w = 2
  <2> DEFINE p == <<H, L>>
  <2>1. p \in Texts /\ Len(p) = 2 /\ p[1] = H /\ p[2] = L  BY <1>10, TwoAre
  <2> HIDE DEF p
  <2>2. S1 - S0 = 2 /\ S0 = w * n  BY <1>1, <1>2, <1>6, <1>12
  <2>3. \A j \in 1 .. S1 - S0 : p[j] = D(S0 + j)
    <3> TAKE j \in 1 .. S1 - S0
    <3>1. j = 1 \/ j = 2  BY <2>2
    <3>2. CASE j = 1
      <4>1. S0 + j = w * n + 1  BY <3>2, <2>2
      <4> QED BY <4>1, <3>2, <2>1, <1>7, Zenon
    <3>3. CASE j = 2
      <4>1. S0 + j = w * n + 2  BY <3>3, <2>2
      <4> QED BY <4>1, <3>3, <2>1, <1>7, Zenon
    <3> QED BY <3>1, <3>2, <3>3
  <2>4. Printed(cs, u, sp) = t \o p  BY <2>1, <2>2, <2>3, <1>11
  <2>5. Prints(p, b, u)  BY <2>1, Zenon DEF Prints, H, L
  <2>6. PrintsMore(p, bs, b, u, sp)  BY <2>4, <2>5, Zenon DEF PrintsMore, t, cs
  <2> QED BY <2>1, <2>6, Zenon
<1>13. CASE n # 0 /\ w = 3
  <2> DEFINE p == <<32, H, L>>
  <2>1. p \in Texts /\ Len(p) = 3 /\ p[1] = 32 /\ p[2] = H /\ p[3] = L  BY <1>10 DEF Texts
  <2> HIDE DEF p
  <2>2. S1 - S0 = 3 /\ S0 + 1 = 3 * n /\ S0 + 2 = w * n + 1 /\ S0 + 3 = w * n + 2
      BY <1>1, <1>6, <1>13
  <2>3. \A j \in 1 .. S1 - S0 : p[j] = D(S0 + j)
    <3> TAKE j \in 1 .. S1 - S0
    <3>1. j = 1 \/ j = 2 \/ j = 3  BY <2>2
    <3>2. CASE j = 1  BY <3>2, <2>1, <2>2, <1>8, <1>13, Zenon
    <3>3. CASE j = 2  BY <3>3, <2>1, <2>2, <1>7, Zenon
    <3>4. CASE j = 3  BY <3>4, <2>1, <2>2, <1>7, Zenon
    <3> QED BY <3>1, <3>2, <3>3, <3>4
  <2>4. Printed(cs, u, sp) = t \o p  BY <2>1, <2>2, <2>3, <1>11
  <2>5. Prints(p, b, u)  BY <2>1, Zenon DEF Prints, H, L
  <2>6. PrintsMore(p, bs, b, u, sp)  BY <2>4, <2>5, Zenon DEF PrintsMore, t, cs
  <2> QED BY <2>1, <2>6, Zenon
<1> QED BY <1>2, <1>12, <1>13

(* What -X and -D print holds the digits of the bytes, and no prefix.       *)
PrintedStands(bs, u, sp) ==
    LET t == Printed(bs, u, sp)
    IN  t \in Texts /\ (t = <<>> \/ Leads(t)) /\ AreDigits(Digits(t), bs)

PrintedInv == \A u, sp \in BOOLEAN : PrintedStands(bytes, u, sp)

LEMMA PrintedStarts == Init => PrintedInv
<1> SUFFICES ASSUME Init, NEW u \in BOOLEAN, NEW sp \in BOOLEAN
             PROVE  PrintedStands(bytes, u, sp)
    BY Zenon DEF PrintedInv
<1>1. bytes = <<>> /\ Len(bytes) = 0 /\ 0 \in Nat  BY DEF Init
<1> DEFINE z == Size(0, sp)
<1>2. z = 0
  <2>1. Size(0, sp) = IF sp /\ 0 > 0 THEN 3 * 0 - 1 ELSE 2 * 0  BY Zenon DEF Size
  <2>2. ~ (0 > 0) /\ 2 * 0 = 0  OBVIOUS
  <2> QED BY <2>1, <2>2, Zenon
<1>3. Printed(bytes, u, sp) = [i \in 1 .. z |-> CharAt(bytes, Width(sp), u, i)]
    BY <1>1, Zenon DEF Printed
<1> HIDE DEF z
<1>4. Printed(bytes, u, sp) = <<>>
  <2>1. 1 .. z = {}  BY <1>2
  <2>2. [i \in 1 .. z |-> CharAt(bytes, Width(sp), u, i)] = <<>>  BY <2>1
  <2> QED BY <1>3, <2>2
<1> QED BY <1>1, <1>4, EmptyText, NoDigits, Zenon DEF PrintedStands

LEMMA PrintedStandsOn ==
    ASSUME NEW bs \in Payloads, NEW b \in Byte, NEW u, NEW sp,
           PrintedStands(bs, u, sp)
    PROVE  PrintedStands(Append(bs, b), u, sp)
<1> DEFINE t == Printed(bs, u, sp)
<1>2. t \in Texts /\ (t = <<>> \/ Leads(t)) /\ AreDigits(Digits(t), bs)
    BY Zenon DEF PrintedStands
<1> DEFINE H == HexChar(b \div 16, u)
           L == HexChar(b % 16, u)
<1>1. PICK p \in Texts : PrintsMore(p, bs, b, u, sp)  BY <1>2, PrintedGrows, Zenon
<1>3. Prints(p, b, u) /\ Printed(Append(bs, b), u, sp) = t \o p
    BY <1>1, Zenon DEF PrintsMore
<1>11. \/ Len(p) = 2 /\ p[1] = H /\ p[2] = L
       \/ Len(p) = 3 /\ p[1] = 32 /\ p[2] = H /\ p[3] = L
    BY <1>3, Zenon DEF Prints
<1>4. Spells(H, L, b)  BY CharsSpell, Zenon
<1> HIDE DEF H, L, t
<1>5. /\ H \in Int /\ H \notin Skipped /\ H \notin Blank /\ H \notin ExMarks
      /\ L \in Int /\ L \notin Skipped /\ L \notin ExMarks
      /\ 32 \in Blank /\ 32 \in Skipped
    BY <1>4 DEF Spells, Skipped, Blank
<1>6. IsPart(p) /\ Len(p) >= 2 /\ (p[1] \in Blank => Len(p) >= 3)  BY <1>11, <1>5 DEF IsPart
<1>7. Kept(p) = <<H, L>>
  <2>1. CASE Len(p) = 2 /\ p[1] = H /\ p[2] = L
    <3>1. Kept(p) = <<p[1], p[2]>>  BY <2>1, <1>5, KeptOfPart
    <3> QED BY <2>1, <3>1
  <2>2. CASE Len(p) = 3 /\ p[1] = 32 /\ p[2] = H /\ p[3] = L
    <3>1. Kept(p) = <<p[2], p[3]>>  BY <2>2, <1>5, KeptOfPart
    <3> QED BY <2>2, <3>1
  <2> QED BY <1>11, <2>1, <2>2
<1>8. t \o p \in Texts /\ Leads(t \o p)  BY <1>2, <1>6, LeadsGrow
<1>9. Digits(t \o p) = Digits(t) \o <<H, L>>  BY <1>2, <1>6, <1>7, DigitsGrow
<1>10. AreDigits(Digits(t \o p), Append(bs, b))  BY <1>2, <1>4, <1>9, DigitsAppend
<1> QED BY <1>3, <1>8, <1>10, Zenon DEF PrintedStands

LEMMA PrintedStep ==
    ASSUME bytes \in Payloads, PrintedInv, NEW b \in Samples, Add(b)
    PROVE  PrintedInv'
<1>1. b \in Byte /\ bytes' = Append(bytes, b)  BY Constants DEF Add
<1>2. \A u, sp \in BOOLEAN : PrintedStands(Append(bytes, b), u, sp)
    BY <1>1, PrintedStandsOn, Zenon DEF PrintedInv
<1> QED BY <1>1, <1>2, Zenon DEF PrintedInv

LEMMA PrintedMeans == bytes \in Payloads /\ PrintedInv => PrintedIsRead
<1> SUFFICES ASSUME bytes \in Payloads, PrintedInv, NEW u \in BOOLEAN, NEW sp \in BOOLEAN
             PROVE  LET size    == Required(Len(bytes), sp)
                        printed == BytesToHex(bytes, size, u, sp)
                    IN  /\ printed.rc = 0 /\ Len(printed.bytes) + 1 = size
                        /\ BytesToHex(bytes, size - 1, u, sp).rc = -1
                        /\ HexToBytes(printed.bytes, Len(bytes)) = Converted(0, bytes)
    BY Zenon DEF PrintedIsRead
<1> DEFINE size    == Required(Len(bytes), sp)
           printed == BytesToHex(bytes, size, u, sp)
           t       == Printed(bytes, u, sp)
           n       == Len(bytes)
<1>1. n \in Nat  BY DEF Payloads
<1>2. printed = Converted(0, t) /\ BytesToHex(bytes, size - 1, u, sp) = Converted(-1, <<>>)
    BY BytesToHexIs, Zenon
<1>3. t \in Texts /\ AreDigits(Digits(t), bytes)  BY Zenon DEF PrintedInv, PrintedStands
<1>4. size = Size(n, sp) + 1 /\ Size(n, sp) \in Nat  BY <1>1, SizeIs, Zenon
<1>5. Len(t) + 1 = size
  <2> DEFINE z == Size(n, sp)
             f == [i \in 1 .. z |-> CharAt(bytes, Width(sp), u, i)]
  <2>1. t = f  BY Zenon DEF Printed
  <2>2. DOMAIN f = 1 .. z  OBVIOUS
  <2>3. z \in Nat /\ size = z + 1  BY <1>4
  <2> HIDE DEF z, f, t
  <2>4. DOMAIN t = 1 .. Len(t) /\ Len(t) \in Nat  BY <1>3, LenProperties DEF Texts
  <2>5. 1 .. Len(t) = 1 .. z  BY <2>1, <2>2, <2>4
  <2>6. Len(t) = z  BY <2>3, <2>4, <2>5, SameRange
  <2> QED BY <2>3, <2>6, Zenon
<1>6. HexToBytes(t, n) = Converted(0, bytes)
  <2>1. HexToBytes(t, n) = IF Len(bytes) <= n THEN Converted(0, bytes) ELSE Converted(-2, <<>>)
      BY <1>1, <1>3, HexToBytesReads
  <2>2. Len(bytes) <= n  BY <1>1
  <2> QED BY <2>1, <2>2
<1>7. printed.rc = 0 /\ printed.bytes = t
  <2> HIDE DEF printed, t
  <2> QED BY <1>2 DEF Converted
<1>8. BytesToHex(bytes, size - 1, u, sp).rc = -1
  <2>1. Converted(-1, <<>>).rc = -1  BY DEF Converted
  <2> HIDE DEF size
  <2> QED BY <1>2, <2>1, Zenon
<1> QED BY <1>5, <1>6, <1>7, <1>8, Zenon

(***************************************************************************)
(* The text of -a: what stands at a position, and what one more spelling   *)
(* leaves of it.                                                           *)
(***************************************************************************)
Reads(w, b) == [width |-> w, byte |-> b, good |-> TRUE]

(* The item at i says nothing about what may follow the text.              *)
Closed(s, i) == s[i] = Backslash => i < Len(s)

LEMMA ItemFits ==
    ASSUME NEW s \in Texts, NEW i \in 1 .. Len(s), Item(s, i).good
    PROVE  Item(s, i).width \in Nat /\ Item(s, i).width >= 1 /\ i + Item(s, i).width <= Len(s) + 1
<1>1. Len(s) \in Nat  BY DEF Texts
<1>2. CASE s[i] # Backslash \/ i = Len(s)
  <2>1. Item(s, i) = Reads(1, s[i])  BY <1>2 DEF Item, Reads
  <2> QED BY <1>1, <2>1 DEF Reads
<1>3. CASE ~ (s[i] # Backslash \/ i = Len(s)) /\ s[i + 1] \notin ExMarks
  <2>1. Item(s, i) = Reads(2, Letter(s[i + 1]))  BY <1>3 DEF Item, Reads
  <2> QED BY <1>1, <1>3, <2>1 DEF Reads
<1>4. CASE ~ (s[i] # Backslash \/ i = Len(s)) /\ s[i + 1] \in ExMarks
  <2>1. CASE i + 3 <= Len(s) /\ IsHexDigit(s[i + 2]) /\ IsHexDigit(s[i + 3])
    <3>1. Item(s, i) = Reads(4, Pair(s[i + 2], s[i + 3]))  BY <1>4, <2>1 DEF Item, Reads
    <3> QED BY <1>1, <2>1, <3>1 DEF Reads
  <2>2. CASE ~ (i + 3 <= Len(s) /\ IsHexDigit(s[i + 2]) /\ IsHexDigit(s[i + 3]))
    <3>1. Item(s, i) = [width |-> 2, byte |-> 0, good |-> FALSE]  BY <1>4, <2>2 DEF Item
    <3> QED BY <3>1
  <2> QED BY <2>1, <2>2
<1> QED BY <1>2, <1>3, <1>4

(* An item depends on its own characters only: where another text repeats  *)
(* them at another place, it stands there too.                             *)
LEMMA ItemMoves ==
    ASSUME NEW s \in Texts, NEW t \in Texts, NEW i \in 1 .. Len(s), NEW d \in Nat,
           Len(s) + d <= Len(t), \A j \in i .. Len(s) : t[j + d] = s[j],
           Item(s, i).good, Closed(s, i)
    PROVE  Item(t, i + d) = Item(s, i) /\ Closed(t, i + d)
<1>1. Len(s) \in Nat /\ Len(t) \in Nat /\ i \in Nat  BY DEF Texts
<1>2. t[i + d] = s[i]  BY <1>1
<1>3. CASE s[i] # Backslash
  <2>1. Item(s, i) = Reads(1, s[i]) /\ Item(t, i + d) = Reads(1, s[i])
      BY <1>2, <1>3 DEF Item, Reads
  <2> QED BY <1>2, <1>3, <2>1 DEF Closed
<1>4. CASE s[i] = Backslash
  <2>1. i < Len(s) /\ i # Len(s) /\ i + d # Len(t) /\ i + d < Len(t)  BY <1>1, <1>4 DEF Closed
  <2>2. t[(i + d) + 1] = s[i + 1]
    <3>1. i + 1 \in i .. Len(s) /\ (i + 1) + d = (i + d) + 1  BY <1>1, <2>1
    <3>2. t[(i + 1) + d] = s[i + 1]  BY <3>1
    <3> QED BY <3>1, <3>2
  <2>3. CASE s[i + 1] \notin ExMarks
    <3>1. Item(s, i) = Reads(2, Letter(s[i + 1]))  BY <1>4, <2>1, <2>3 DEF Item, Reads
    <3>2. Item(t, i + d) = Reads(2, Letter(s[i + 1]))  BY <1>2, <1>4, <2>1, <2>2, <2>3 DEF Item, Reads
    <3> QED BY <2>1, <3>1, <3>2 DEF Closed
  <2>4. CASE s[i + 1] \in ExMarks
    <3>1. i + 3 <= Len(s) /\ IsHexDigit(s[i + 2]) /\ IsHexDigit(s[i + 3])
      <4>1. SUFFICES ASSUME ~ (i + 3 <= Len(s) /\ IsHexDigit(s[i + 2]) /\ IsHexDigit(s[i + 3]))
                     PROVE  FALSE
          OBVIOUS
      <4>2. Item(s, i) = [width |-> 2, byte |-> 0, good |-> FALSE]
          BY <1>4, <2>1, <2>4, <4>1 DEF Item
      <4> QED BY <4>2
    <3>2. /\ i + 2 \in i .. Len(s) /\ (i + 2) + d = (i + d) + 2
          /\ i + 3 \in i .. Len(s) /\ (i + 3) + d = (i + d) + 3
          /\ (i + d) + 3 <= Len(t)
        BY <1>1, <3>1
    <3>3. t[(i + 2) + d] = s[i + 2] /\ t[(i + 3) + d] = s[i + 3]  BY <3>2
    <3>4. t[(i + d) + 2] = s[i + 2] /\ t[(i + d) + 3] = s[i + 3]  BY <3>2, <3>3
    <3>5. Item(s, i) = Reads(4, Pair(s[i + 2], s[i + 3]))
        BY <1>4, <2>1, <2>4, <3>1 DEF Item, Reads
    <3>6. Item(t, i + d) = Reads(4, Pair(s[i + 2], s[i + 3]))
      <4> DEFINE k == i + d
      <4>1. t[k] = Backslash /\ k # Len(t) /\ t[k + 1] \in ExMarks /\ k + 3 <= Len(t)
            /\ t[k + 2] = s[i + 2] /\ t[k + 3] = s[i + 3]
          BY <1>2, <1>4, <2>1, <2>2, <2>4, <3>2, <3>4
      <4> HIDE DEF k
      <4>2. Item(t, k) = Reads(4, Pair(s[i + 2], s[i + 3]))  BY <3>1, <4>1 DEF Item, Reads
      <4> QED BY <4>2 DEF k
    <3> QED BY <2>1, <3>5, <3>6 DEF Closed
  <2> QED BY <2>3, <2>4
<1> QED BY <1>3, <1>4

(* Each of the spellings is one item, which stands for the byte.           *)
LEMMA EscapeIs ==
    ASSUME NEW b \in Byte, NEW e \in Escapes(b)
    PROVE  /\ e \in Texts /\ Len(e) >= 1 /\ Closed(e, 1)
           /\ Item(e, 1) = Reads(Len(e), b)
<1>1. ASSUME NEW x \in ExMarks, NEW u, e = <<Backslash, x>> \o Hex2(b, u)
      PROVE  /\ e \in Texts /\ Len(e) >= 1 /\ Closed(e, 1)
             /\ Item(e, 1) = Reads(Len(e), b)
  <2> DEFINE h == HexChar(b \div 16, u)
             l == HexChar(b % 16, u)
  <2>2. e = <<Backslash, x>> \o <<h, l>>  BY <1>1, Zenon DEF Hex2
  <2>3. Spells(h, l, b)  BY CharsSpell, Zenon
  <2> HIDE DEF h, l
  <2>4. h \in Int /\ l \in Int /\ x \in Int  BY <2>3 DEF Spells, ExMarks
  <2>5. /\ e \in Texts /\ Len(e) = 4 /\ e[1] = Backslash /\ e[2] = x
        /\ e[3] = h /\ e[4] = l
    <3> DEFINE a == <<Backslash, x>>
               c == <<h, l>>
    <3>1. /\ a \in Texts /\ Len(a) = 2 /\ a[1] = Backslash /\ a[2] = x
          /\ c \in Texts /\ Len(c) = 2 /\ c[1] = h /\ c[2] = l
        BY <2>4 DEF Texts, Backslash
    <3>2. e = a \o c  BY <2>2
    <3> HIDE DEF a, c
    <3>3. /\ e \in Texts /\ Len(e) = Len(a) + Len(c)
          /\ \A i \in 1 .. Len(a) + Len(c) : e[i] = IF i <= Len(a) THEN a[i] ELSE c[i - Len(a)]
        BY <3>1, <3>2, ConcatProperties DEF Texts
    <3> QED BY <3>1, <3>3
  <2>6. IsHexDigit(h) /\ IsHexDigit(l) /\ Pair(h, l) = b  BY <2>3, SpellsByte
  <2>7. Item(e, 1) = Reads(4, Pair(h, l))
    <3>1. e[1 + 1] = x /\ e[1 + 2] = h /\ e[1 + 3] = l /\ 1 # Len(e) /\ 1 + 3 <= Len(e)
        BY <2>5
    <3> QED BY <2>5, <2>6, <3>1 DEF Item, Reads
  <2> QED BY <2>5, <2>6, <2>7 DEF Closed
<1>2. ASSUME NEW c \in Int, e = <<Backslash, c>>, c \notin ExMarks, Letter(c) = b
      PROVE  /\ e \in Texts /\ Len(e) >= 1 /\ Closed(e, 1)
             /\ Item(e, 1) = Reads(Len(e), b)
  <2>1. e \in Texts /\ Len(e) = 2 /\ e[1] = Backslash /\ e[2] = c  BY <1>2 DEF Texts, Backslash
  <2>2. e[1 + 1] = c /\ 1 # Len(e)  BY <2>1
  <2>3. Item(e, 1) = Reads(2, Letter(c))  BY <1>2, <2>1, <2>2 DEF Item, Reads
  <2> QED BY <1>2, <2>1, <2>3 DEF Closed
<1>3. CASE e \in Lettered(b)
  <2>1. PICK n \in Named : n[2] = b /\ e = <<Backslash, n[1]>>  BY <1>3 DEF Lettered
  <2>2. n[1] \in Int /\ n[1] \notin ExMarks /\ Letter(n[1]) = n[2]
      BY DEF Named, ExMarks, Letter, Zero
  <2> QED BY <1>2, <2>1, <2>2
<1>4. CASE e \in Quoted(b)
  <2>4. b \notin {0} \cup ExMarks \cup {n[1] : n \in Named} /\ e = <<Backslash, b>>
      BY <1>4 DEF Quoted
  <2>1. b \in Int /\ b \notin ExMarks  BY <2>4 DEF Byte
  <2>2. b # 114 /\ b # 110 /\ b # 116 /\ b # 48
    <3>1. \A n \in Named : b # n[1]  BY <2>4
    <3>2. b # <<114, 13>>[1] /\ b # <<110, 10>>[1] /\ b # <<116, 9>>[1] /\ b # <<48, 0>>[1]
        BY <3>1 DEF Named
    <3> QED BY <3>2
  <2>3. Letter(b) = b  BY <2>2 DEF Letter, Zero
  <2> QED BY <1>2, <2>1, <2>3, <2>4
<1>5. CASE e \in Plain(b)
  <2>1. b # Backslash /\ e = <<b>>  BY <1>5 DEF Plain
  <2>2. e \in Texts /\ Len(e) = 1 /\ e[1] = b  BY <2>1 DEF Texts, Byte
  <2>3. Item(e, 1) = Reads(1, b)  BY <2>1, <2>2 DEF Item, Reads
  <2> QED BY <2>1, <2>2, <2>3 DEF Closed
<1>6. CASE e \in Numbered(b)
  <2>1. CASE e \in {<<Backslash, x>> \o Hex2(b, TRUE) : x \in ExMarks}
    <3>1. PICK x \in ExMarks : e = <<Backslash, x>> \o Hex2(b, TRUE)  BY <2>1
    <3> QED BY <3>1, <1>1, Zenon
  <2>2. CASE e \in {<<Backslash, x>> \o Hex2(b, FALSE) : x \in ExMarks}
    <3>1. PICK x \in ExMarks : e = <<Backslash, x>> \o Hex2(b, FALSE)  BY <2>2
    <3> QED BY <3>1, <1>1, Zenon
  <2> QED BY <1>6, <2>1, <2>2, Zenon DEF Numbered
<1> QED BY <1>3, <1>4, <1>5, <1>6 DEF Escapes

(***************************************************************************)
(* What unescape_string makes of a text: read from each of its positions.  *)
(***************************************************************************)
ReadAt(s, g, i) ==
    IF i > Len(s) THEN [bytes |-> <<>>, good |-> TRUE]
    ELSE IF ~Item(s, i).good THEN [bytes |-> <<>>, good |-> FALSE]
    ELSE LET rest == g[i + Item(s, i).width]
         IN  [bytes |-> <<Item(s, i).byte>> \o rest.bytes, good |-> rest.good]

(* There is such a function: it is built from the end of the text.         *)
LEMMA ReadExists ==
    ASSUME NEW s \in Texts
    PROVE  \E g : g = [i \in 1 .. (Len(s) + 1) |-> ReadAt(s, g, i)]
<1> DEFINE N == Len(s) + 1
           From1(m) == (N - m) .. N
           Good(m) == \E g : \A i \in From1(m) : g[i] = ReadAt(s, g, i)
           B == {m \in 0 .. Len(s) : ~ Good(m)}
<1>1. Len(s) \in Nat /\ N \in Nat /\ N = Len(s) + 1  BY DEF Texts
<1> HIDE DEF N
<1>2. ASSUME B # {} PROVE FALSE
  <2>1. PICK x \in B : \A y \in B : x <= y
    <3>1. B \subseteq Nat  OBVIOUS
    <3> HIDE DEF B
    <3> QED BY <1>2, <3>1, LeastElement
  <2>2. x \in 0 .. Len(s) /\ ~ Good(x) /\ x \in Nat  BY <2>1
  <2>3. CASE x = 0
    <3> DEFINE v == [bytes |-> <<>>, good |-> TRUE]
               g == [i \in {N} |-> v]
    <3>1. ASSUME NEW i \in From1(x) PROVE g[i] = ReadAt(s, g, i)
      <4>1. i = N /\ i > Len(s)  BY <1>1, <2>3
      <4>2. ReadAt(s, g, i) = v  BY <4>1 DEF ReadAt
      <4> QED BY <4>1, <4>2
    <3> HIDE DEF g
    <3> QED BY <3>1, <2>2
  <2>4. CASE x # 0
    <3>1. x - 1 \in 0 .. Len(s) /\ ~ (x <= x - 1)  BY <2>2, <2>4
    <3>2. Good(x - 1)  BY <2>1, <3>1
    <3>3. PICK g : \A i \in From1(x - 1) : g[i] = ReadAt(s, g, i)  BY <3>2
    <3> DEFINE n == N - x
               h == [i \in From1(x) |-> IF i = n THEN ReadAt(s, g, n) ELSE g[i]]
    <3>4. n \in 1 .. Len(s) /\ n \in From1(x) /\ \A i \in From1(x) : i # n => i \in From1(x - 1)
        BY <1>1, <2>2, <2>4
    <3>5. \A i \in From1(x - 1) : i \in From1(x) /\ i # n  BY <1>1, <2>2, <2>4
    <3>6. \A i \in From1(x - 1) : h[i] = g[i]  BY <3>5
    <3>7. h[n] = ReadAt(s, g, n)  BY <3>4
    <3> HIDE DEF h
    <3>8. ASSUME NEW i \in From1(x) PROVE ReadAt(s, h, i) = ReadAt(s, g, i)
      <4>1. i \in 1 .. N  BY <1>1, <2>2
      <4>2. CASE i > Len(s)  BY <4>2 DEF ReadAt
      <4>3. CASE ~ (i > Len(s)) /\ ~ Item(s, i).good  BY <4>3 DEF ReadAt
      <4>4. CASE ~ (i > Len(s)) /\ Item(s, i).good
        <5> DEFINE k == i + Item(s, i).width
        <5>1. i \in 1 .. Len(s)  BY <1>1, <4>1, <4>4
        <5>2. Item(s, i).width \in Nat /\ Item(s, i).width >= 1 /\ k <= Len(s) + 1
            BY <4>4, <5>1, ItemFits
        <5>3. k \in From1(x - 1)
          <6> DEFINE w == Item(s, i).width
          <6>1. w \in Nat /\ w >= 1 /\ i + w <= Len(s) + 1  BY <5>2
          <6> HIDE DEF w
          <6>2. i + w \in From1(x - 1)  BY <1>1, <2>2, <5>1, <6>1
          <6> QED BY <6>2 DEF w
        <5>4. h[k] = g[k]  BY <5>3, <3>6
        <5> QED BY <4>4, <5>4, Zenon DEF ReadAt
      <4> QED BY <4>2, <4>3, <4>4
    <3>9. ASSUME NEW i \in From1(x) PROVE h[i] = ReadAt(s, h, i)
      <4>1. CASE i = n  BY <4>1, <3>7, <3>8
      <4>2. CASE i # n
        <5>1. i \in From1(x - 1)  BY <3>4, <4>2
        <5> QED BY <5>1, <3>3, <3>6, <3>8
      <4> QED BY <4>1, <4>2
    <3> HIDE DEF From1
    <3> QED BY <3>9, <2>2
  <2> QED BY <2>3, <2>4
<1>3. Good(Len(s))
  <2>1. Len(s) \in 0 .. Len(s)  BY <1>1
  <2> QED BY <1>2, <2>1
<1>4. PICK g : \A i \in 1 .. N : g[i] = ReadAt(s, g, i)
  <2>1. From1(Len(s)) = 1 .. N  BY <1>1
  <2> QED BY <1>3, <2>1
<1> DEFINE f == [i \in 1 .. N |-> g[i]]
<1>5. \A i \in 1 .. N : f[i] = g[i]  OBVIOUS
<1>6. f = [i \in 1 .. N |-> f[i]]  OBVIOUS
<1> HIDE DEF f
<1>7. ASSUME NEW i \in 1 .. N PROVE f[i] = ReadAt(s, f, i)
  <2>1. CASE i > Len(s)
    <3>1. ReadAt(s, f, i) = ReadAt(s, g, i)  BY <2>1 DEF ReadAt
    <3> QED BY <3>1, <1>4, <1>5
  <2>2. CASE ~ (i > Len(s)) /\ ~ Item(s, i).good
    <3>1. ReadAt(s, f, i) = ReadAt(s, g, i)  BY <2>2 DEF ReadAt
    <3> QED BY <3>1, <1>4, <1>5
  <2>3. CASE ~ (i > Len(s)) /\ Item(s, i).good
    <3> DEFINE k == i + Item(s, i).width
    <3>1. i \in 1 .. Len(s)  BY <1>1, <2>3
    <3>2. Item(s, i).width \in Nat /\ Item(s, i).width >= 1 /\ k <= Len(s) + 1
        BY <2>3, <3>1, ItemFits
    <3>3. k \in 1 .. N  BY <1>1, <3>1, <3>2
    <3>4. f[k] = g[k]  BY <1>5, <3>3
    <3>5. ReadAt(s, f, i) = ReadAt(s, g, i)  BY <2>3, <3>4, Zenon DEF ReadAt
    <3> QED BY <3>5, <1>4, <1>5
  <2> QED BY <2>1, <2>2, <2>3
<1>8. f = [i \in 1 .. N |-> ReadAt(s, f, i)]  BY <1>6, <1>7
<1> QED BY <1>1, <1>8

LEMMA UnescapedIs ==
    ASSUME NEW s \in Texts
    PROVE  \E g : /\ \A i \in 1 .. (Len(s) + 1) : g[i] = ReadAt(s, g, i)
                  /\ Unescaped(s) = g[1]
<1> DEFINE k == CHOOSE k : k = [i \in 1 .. (Len(s) + 1) |-> ReadAt(s, k, i)]
<1>1. Unescaped(s) = k[1]  BY Zenon DEF Unescaped, ReadAt
<1>2. k = [i \in 1 .. (Len(s) + 1) |-> ReadAt(s, k, i)]
  <2>1. PICK g : g = [i \in 1 .. (Len(s) + 1) |-> ReadAt(s, g, i)]  BY ReadExists
  <2> QED BY <2>1, Zenon
<1> HIDE DEF k
<1> DEFINE f == [i \in 1 .. (Len(s) + 1) |-> ReadAt(s, k, i)]
<1>3. \A i \in 1 .. (Len(s) + 1) : f[i] = ReadAt(s, k, i)  OBVIOUS
<1>4. k = f  BY <1>2
<1> HIDE DEF f
<1>5. \A i \in 1 .. (Len(s) + 1) : k[i] = ReadAt(s, k, i)  BY <1>3, <1>4, Zenon
<1> QED BY <1>1, <1>5, Zenon

(***************************************************************************)
(* A text of -a that spells a payload: item k of it starts at cut[k] and   *)
(* stands for byte k.                                                      *)
(***************************************************************************)
ItemSpells(s, bs, cut, k) ==
    /\ cut[k] \in 1 .. Len(s) /\ Closed(s, cut[k])
    /\ Item(s, cut[k]) = Reads(cut[k + 1] - cut[k], bs[k])

Cuts(s, bs, cut) ==
    /\ cut \in [1 .. (Len(bs) + 1) -> Nat]
    /\ cut[1] = 1 /\ cut[Len(bs) + 1] = Len(s) + 1
    /\ \A k \in 1 .. Len(bs) : ItemSpells(s, bs, cut, k)

LEMMA CutsMean ==
    ASSUME NEW s \in Texts, NEW bs \in Payloads, NEW cut, Cuts(s, bs, cut)
    PROVE  Unescaped(s) = [bytes |-> bs, good |-> TRUE]
<1> DEFINE n == Len(bs)
<1>1. n \in Nat /\ Len(s) \in Nat  BY DEF Payloads, Texts
<1>2. PICK g : /\ \A i \in 1 .. (Len(s) + 1) : g[i] = ReadAt(s, g, i)
               /\ Unescaped(s) = g[1]
    BY UnescapedIs
<1> DEFINE Rest(k) == [bytes |-> SubSeq(bs, k, n), good |-> TRUE]
           B == {m \in 0 .. n : g[cut[n + 1 - m]] # Rest(n + 1 - m)}
<1>3. ASSUME B # {} PROVE FALSE
  <2>1. PICK x \in B : \A y \in B : x <= y
    <3>1. B \subseteq Nat  OBVIOUS
    <3> HIDE DEF B
    <3> QED BY <1>3, <3>1, LeastElement
  <2> DEFINE k == n + 1 - x
  <2>2. x \in 0 .. n /\ g[cut[k]] # Rest(k)  BY <2>1
  <2>3. CASE x = 0
    <3>1. k = n + 1 /\ cut[k] = Len(s) + 1  BY <1>1, <2>3 DEF Cuts
    <3>2. g[Len(s) + 1] = ReadAt(s, g, Len(s) + 1)
      <4>1. Len(s) + 1 \in 1 .. (Len(s) + 1)  BY <1>1
      <4> QED BY <4>1, <1>2
    <3>3. ReadAt(s, g, Len(s) + 1) = [bytes |-> <<>>, good |-> TRUE]
      <4>1. Len(s) + 1 > Len(s)  BY <1>1
      <4> QED BY <4>1 DEF ReadAt
    <3>4. SubSeq(bs, n + 1, n) = <<>>  BY <1>1 DEF Payloads
    <3> QED BY <2>2, <3>1, <3>2, <3>3, <3>4
  <2>4. CASE x # 0
    <3>1. k \in 1 .. n /\ k + 1 = n + 1 - (x - 1) /\ x - 1 \in 0 .. n /\ ~ (x <= x - 1)
        BY <1>1, <2>2, <2>4
    <3>2. g[cut[k + 1]] = Rest(k + 1)
      <4>1. x - 1 \notin B  BY <2>1, <3>1
      <4>2. g[cut[n + 1 - (x - 1)]] = Rest(n + 1 - (x - 1))  BY <3>1, <4>1
      <4> QED BY <3>1, <4>2
    <3> HIDE DEF B, k
    <3>3. ItemSpells(s, bs, cut, k)  BY <3>1 DEF Cuts
    <3> DEFINE i == cut[k]
               w == cut[k + 1] - i
    <3>4. i \in 1 .. Len(s) /\ Item(s, i) = Reads(w, bs[k])  BY <3>3 DEF ItemSpells
    <3>5. i + w = cut[k + 1]
      <4>1. cut[k + 1] \in Nat /\ i \in Nat
        <5>1. k \in 1 .. (n + 1) /\ k + 1 \in 1 .. (n + 1)  BY <1>1, <3>1
        <5> QED BY <5>1 DEF Cuts
      <4> QED BY <4>1
    <3> HIDE DEF w, i
    <3>6. g[i] = ReadAt(s, g, i) /\ ~ (i > Len(s))
      <4>1. i \in 1 .. (Len(s) + 1)  BY <1>1, <3>4
      <4> QED BY <4>1, <1>1, <1>2, <3>4
    <3>7. Item(s, i).good /\ Item(s, i).width = w /\ Item(s, i).byte = bs[k]
        BY <3>4 DEF Reads
    <3>8. ReadAt(s, g, i) =
              LET rest == g[i + w]
              IN  [bytes |-> <<bs[k]>> \o rest.bytes, good |-> rest.good]
        BY <3>6, <3>7, Zenon DEF ReadAt
    <3>9. g[i + w] = Rest(k + 1)  BY <3>2, <3>5
    <3>10. ReadAt(s, g, i) = [bytes |-> <<bs[k]>> \o SubSeq(bs, k + 1, n), good |-> TRUE]
        BY <3>8, <3>9
    <3>11. <<bs[k]>> \o SubSeq(bs, k + 1, n) = SubSeq(bs, k, n)
      <4> DEFINE u == SubSeq(bs, k, n)
                 v == SubSeq(bs, k + 1, n)
                 t == <<bs[k]>> \o v
      <4>1. bs[k] \in Byte  BY <3>1 DEF Payloads
      <4>2. u \in Payloads /\ Len(u) = n - k + 1 /\ \A j \in 1 .. (n - k + 1) : u[j] = bs[k + j - 1]
          BY <1>1, <3>1, SubSeqProperties DEF Payloads
      <4>3. v \in Payloads /\ Len(v) = n - k /\ \A j \in 1 .. (n - k) : v[j] = bs[(k + 1) + j - 1]
          BY <1>1, <3>1, SubSeqProperties DEF Payloads
      <4> HIDE DEF u, v
      <4>4. /\ t \in Payloads /\ Len(t) = n - k + 1
            /\ \A j \in 1 .. (n - k + 1) : t[j] = IF j = 1 THEN bs[k] ELSE v[j - 1]
          BY <1>1, <3>1, <4>1, <4>3 DEF Payloads
      <4> HIDE DEF t
      <4>5. ASSUME NEW j \in 1 .. (n - k + 1) PROVE t[j] = u[j]
        <5>1. CASE j = 1
          <6>1. u[1] = bs[k + 1 - 1] /\ k + 1 - 1 = k  BY <5>1, <3>1, <4>2
          <6> QED BY <5>1, <6>1, <4>4
        <5>2. CASE j # 1
          <6>1. j - 1 \in 1 .. (n - k) /\ (k + 1) + (j - 1) - 1 = k + j - 1  BY <5>2, <1>1, <3>1
          <6>2. v[j - 1] = bs[(k + 1) + (j - 1) - 1]  BY <6>1, <4>3
          <6> QED BY <5>2, <6>1, <6>2, <4>2, <4>4
        <5> QED BY <5>1, <5>2
      <4>6. t = u
        <5>1. t \in Seq(Byte) /\ u \in Seq(Byte) /\ Len(t) = Len(u) /\ \A j \in 1 .. Len(t) : t[j] = u[j]
            BY <4>2, <4>4, <4>5 DEF Payloads
        <5> QED BY <5>1, SeqEqual
      <4> QED BY <4>6 DEF t, u, v
    <3>12. g[i] = Rest(k)  BY <3>6, <3>10, <3>11
    <3> QED BY <3>12, <2>2 DEF i, k
  <2> QED BY <2>3, <2>4
<1>4. g[1] = Rest(1)
  <2>1. n \in 0 .. n /\ n + 1 - n = 1  BY <1>1
  <2>2. g[cut[n + 1 - n]] = Rest(n + 1 - n)
    <3>1. B = {}
      <4> HIDE DEF B
      <4> QED BY <1>3
    <3>2. n \notin B  BY <3>1
    <3> QED BY <2>1, <3>2
  <2> QED BY <2>1, <2>2 DEF Cuts
<1>5. SubSeq(bs, 1, n) = bs
  <2> DEFINE u == SubSeq(bs, 1, n)
  <2>1. u \in Payloads /\ Len(u) = n /\ \A j \in 1 .. n : u[j] = bs[j]
      BY <1>1 DEF Payloads
  <2> HIDE DEF u
  <2>2. u = bs  BY <2>1, SeqEqual DEF Payloads
  <2> QED BY <2>2 DEF u
<1> QED BY <1>2, <1>4, <1>5

(* One more spelling is one more item, and it leaves the others alone.     *)
LEMMA CutsGrow ==
    ASSUME NEW s \in Texts, NEW bs \in Payloads, NEW b \in Byte, NEW e \in Escapes(b),
           NEW cut, Cuts(s, bs, cut)
    PROVE  /\ s \o e \in Texts
           /\ \E more : Cuts(s \o e, Append(bs, b), more)
<1> DEFINE n == Len(bs)
           t == s \o e
           cs == Append(bs, b)
           z == Len(s) + Len(e) + 1
           more == [k \in 1 .. (n + 2) |-> IF k <= n + 1 THEN cut[k] ELSE z]
<1>1. /\ e \in Texts /\ Len(e) >= 1 /\ Closed(e, 1) /\ Item(e, 1) = Reads(Len(e), b)
      /\ n \in Nat /\ Len(s) \in Nat /\ Len(e) \in Nat
    BY EscapeIs DEF Payloads, Texts
<1>2. /\ t \in Texts /\ Len(t) = Len(s) + Len(e)
      /\ \A i \in 1 .. Len(s) + Len(e) : t[i] = IF i <= Len(s) THEN s[i] ELSE e[i - Len(s)]
    BY <1>1, ConcatProperties DEF Texts
<1>3. Len(cs) = n + 1 /\ cs[n + 1] = b /\ \A k \in 1 .. n : cs[k] = bs[k]
    BY DEF Payloads
<1>4. cut \in [1 .. (n + 1) -> Nat] /\ cut[1] = 1 /\ cut[n + 1] = Len(s) + 1  BY DEF Cuts
<1>5. /\ more \in [1 .. (n + 2) -> Nat]
      /\ \A k \in 1 .. (n + 1) : more[k] = cut[k]
      /\ more[n + 2] = z
  <2>1. z \in Nat  BY <1>1
  <2> HIDE DEF z
  <2> QED BY <1>1, <1>4, <2>1
<1> HIDE DEF more, t, cs
<1>6. ASSUME NEW k \in 1 .. n PROVE ItemSpells(t, cs, more, k)
  <2>1. k \in 1 .. (n + 1) /\ k + 1 \in 1 .. (n + 1)  BY <1>1
  <2>2. more[k] = cut[k] /\ more[k + 1] = cut[k + 1] /\ cs[k] = bs[k]  BY <2>1, <1>3, <1>5
  <2> DEFINE i == cut[k]
  <2>3. i \in 1 .. Len(s) /\ Closed(s, i) /\ Item(s, i) = Reads(cut[k + 1] - i, bs[k])
      BY DEF Cuts, ItemSpells
  <2> HIDE DEF i
  <2>4. Item(s, i).good  BY <2>3 DEF Reads
  <2>5. /\ 0 \in Nat /\ Len(s) + 0 <= Len(t) /\ i + 0 = i
        /\ \A j \in i .. Len(s) : t[j + 0] = s[j]
      BY <1>1, <1>2, <2>3
  <2>6. Item(t, i + 0) = Item(s, i) /\ Closed(t, i + 0)
      BY <1>2, <2>3, <2>4, <2>5, ItemMoves
  <2>7. i \in 1 .. Len(t)  BY <1>1, <1>2, <2>3
  <2> QED BY <2>2, <2>3, <2>5, <2>6, <2>7 DEF ItemSpells, i
<1>7. ItemSpells(t, cs, more, n + 1)
  <2> DEFINE d == Len(s)
  <2>1. more[n + 1] = d + 1 /\ more[(n + 1) + 1] = z
    <3>1. n + 1 \in 1 .. (n + 1) /\ (n + 1) + 1 = n + 2  BY <1>1
    <3> QED BY <3>1, <1>4, <1>5
  <2>2. /\ 1 \in 1 .. Len(e) /\ d \in Nat /\ Len(e) + d <= Len(t) /\ 1 + d = d + 1
        /\ d + 1 \in 1 .. Len(t) /\ z - (d + 1) = Len(e)
      BY <1>1, <1>2
  <2>3. ASSUME NEW j \in 1 .. Len(e) PROVE t[j + d] = e[j]
    <3>1. j + d \in 1 .. Len(s) + Len(e) /\ ~ (j + d <= Len(s)) /\ (j + d) - Len(s) = j
        BY <1>1
    <3> QED BY <3>1, <1>2
  <2>4. Item(e, 1).good  BY <1>1 DEF Reads
  <2>5. Item(t, 1 + d) = Item(e, 1) /\ Closed(t, 1 + d)
    <3> HIDE DEF d
    <3> QED BY <1>1, <1>2, <2>2, <2>3, <2>4, ItemMoves
  <2> HIDE DEF d, z
  <2> QED BY <1>1, <1>3, <2>1, <2>2, <2>5 DEF ItemSpells
<1>8. Cuts(t, cs, more)
  <2>1. more \in [1 .. (Len(cs) + 1) -> Nat] /\ more[1] = 1 /\ more[Len(cs) + 1] = Len(t) + 1
    <3>1. Len(cs) + 1 = n + 2 /\ 1 \in 1 .. (n + 1) /\ z = Len(t) + 1  BY <1>1, <1>2, <1>3
    <3> HIDE DEF z
    <3> QED BY <3>1, <1>4, <1>5
  <2>2. ASSUME NEW k \in 1 .. Len(cs) PROVE ItemSpells(t, cs, more, k)
    <3>1. k \in 1 .. n \/ k = n + 1  BY <1>1, <1>3
    <3> QED BY <3>1, <1>6, <1>7
  <2> QED BY <2>1, <2>2 DEF Cuts
<1> QED BY <1>2, <1>8 DEF t, cs

EscapedInv == escaped \in Texts /\ \E cut : Cuts(escaped, bytes, cut)

LEMMA EscapedStarts == Init => EscapedInv
<1> SUFFICES ASSUME Init PROVE EscapedInv  OBVIOUS
<1> DEFINE cut == [k \in {1} |-> 1]
<1>1. bytes = <<>> /\ escaped = <<>> /\ Len(bytes) = 0 /\ Len(escaped) = 0  BY DEF Init
<1>2. cut \in [1 .. (Len(bytes) + 1) -> Nat] /\ cut[1] = 1  BY <1>1
<1>3. 1 .. Len(bytes) = {} /\ Len(bytes) + 1 = 1 /\ Len(escaped) + 1 = 1  BY <1>1
<1> HIDE DEF cut
<1>4. Cuts(escaped, bytes, cut)  BY <1>2, <1>3 DEF Cuts
<1> QED BY <1>1, <1>4, EmptyText DEF EscapedInv

LEMMA EscapedStep ==
    ASSUME bytes \in Payloads, EscapedInv, NEW b \in Samples, Add(b)
    PROVE  EscapedInv'
<1>1. b \in Byte /\ bytes' = Append(bytes, b)  BY Constants DEF Add
<1>2. PICK e \in Escapes(b) : escaped' = escaped \o e  BY DEF Add
<1>3. escaped \in Texts /\ \E cut : Cuts(escaped, bytes, cut)  BY DEF EscapedInv
<1>4. escaped \o e \in Texts /\ \E more : Cuts(escaped \o e, Append(bytes, b), more)
    BY <1>1, <1>3, CutsGrow
<1> QED BY <1>1, <1>2, <1>4 DEF EscapedInv

LEMMA EscapedMeans == bytes \in Payloads /\ EscapedInv => EscapesMeanBytes
<1> SUFFICES ASSUME bytes \in Payloads, EscapedInv PROVE EscapesMeanBytes  OBVIOUS
<1> DEFINE u == [bytes |-> bytes, good |-> TRUE]
<1>1. Unescaped(escaped) = u  BY CutsMean DEF EscapedInv
<1>2. Len(bytes) \in Nat /\ Room \in Nat  BY Constants DEF Payloads
<1>3. Unescape(escaped, Room) =
          IF Len(u.bytes) > Room \/ (~u.good /\ Len(u.bytes) = Room) THEN Converted(-2, <<>>)
          ELSE IF ~u.good THEN Converted(-1, <<>>) ELSE Converted(0, u.bytes)
    BY <1>1, Zenon DEF Unescape
<1>4. u.bytes = bytes /\ u.good  OBVIOUS
<1> HIDE DEF u
<1>5. Unescape(escaped, Room) = IF Len(bytes) <= Room THEN Converted(0, bytes) ELSE Converted(-2, <<>>)
  <2>1. CASE Len(bytes) <= Room
    <3>1. ~ (Len(bytes) > Room)  BY <2>1, <1>2
    <3> QED BY <2>1, <3>1, <1>3, <1>4, Zenon
  <2>2. CASE ~ (Len(bytes) <= Room)
    <3>1. Len(bytes) > Room  BY <2>2, <1>2
    <3> QED BY <2>2, <3>1, <1>3, <1>4, Zenon
  <2> QED BY <2>1, <2>2
<1> QED BY <1>5, MeansIs DEF EscapesMeanBytes

(***************************************************************************)
(* The theorems.                                                           *)
(***************************************************************************)
SpellingInv == HexInv /\ EscapedInv /\ PrintedInv

(* Whatever the bytes and however they are spelled, the two texts spell    *)
(* the payload: the argument of -a item by item, the argument of -x pair   *)
(* by pair, and what -X prints of it holds its digits (hex_utils.c, 13 to  *)
(* 199).                                                                   *)
THEOREM SpellingInvariant == Spec => []SpellingInv
<1>1. Init => SpellingInv
    BY HexStarts, EscapedStarts, PrintedStarts DEF SpellingInv
<1>2. SpellingInv /\ [Next]_vars => SpellingInv'
  <2> SUFFICES ASSUME SpellingInv, [Next]_vars PROVE SpellingInv'  OBVIOUS
  <2>1. HexInv /\ EscapedInv /\ PrintedInv /\ bytes \in Payloads  BY DEF SpellingInv, HexInv
  <2>2. ASSUME NEW b \in Samples, Add(b) PROVE SpellingInv'
    <3>1. HexInv'  BY <2>1, <2>2, HexStep
    <3>2. EscapedInv'  BY <2>1, <2>2, EscapedStep
    <3>3. PrintedInv'  BY <2>1, <2>2, PrintedStep
    <3> QED BY <3>1, <3>2, <3>3 DEF SpellingInv
  <2>3. CASE UNCHANGED vars
    <3>1. bytes' = bytes /\ escaped' = escaped /\ hex' = hex  BY <2>3 DEF vars
    <3>2. HexInv'  BY <2>1, <3>1 DEF HexInv, Half
    <3>3. EscapedInv'  BY <2>1, <3>1 DEF EscapedInv
    <3>4. PrintedInv'  BY <2>1, <3>1, Zenon DEF PrintedInv
    <3> QED BY <3>2, <3>3, <3>4 DEF SpellingInv
  <2> QED BY <2>2, <2>3 DEF Next, Full
<1> QED BY <1>1, <1>2, PTL DEF Spec

(* Every argument of -a is read as the payload it spells, whichever escape *)
(* stands against the next, or refused for its size (hex_utils.c, 148 to   *)
(* 199).                                                                   *)
THEOREM EscapesAlwaysMeanBytes == Spec => []EscapesMeanBytes
<1>1. SpellingInv => EscapesMeanBytes  BY EscapedMeans DEF SpellingInv, HexInv
<1> QED BY <1>1, SpellingInvariant, PTL

(* Every argument of -x is read as the payload it spells, whatever stands  *)
(* between the digits; half a byte is refused, and -T agrees with -x       *)
(* (hex_utils.c, 14 to 65 and 98 to 146).                                 *)
THEOREM PairsAlwaysMeanBytes == Spec => []PairsMeanBytes
<1>1. SpellingInv => PairsMeanBytes  BY HexMeans DEF SpellingInv
<1> QED BY <1>1, SpellingInvariant, PTL

(* What is printed reads back as the same bytes, and the buffer asked for  *)
(* is exactly large enough for it (hex_utils.c, 67 to 96).                 *)
THEOREM PrintedIsAlwaysRead == Spec => []PrintedIsRead
<1>1. SpellingInv => PrintedIsRead  BY PrintedMeans DEF SpellingInv, HexInv
<1> QED BY <1>1, SpellingInvariant, PTL
=============================================================================
