------------------------------ MODULE HexText ------------------------------
(***************************************************************************)
(* hex_utils.c: the text of -x, -a and -T to bytes, and bytes to the text  *)
(* of -X and -D.  Texts are sequences of character codes, without the NUL  *)
(* that ends them in C.  A conversion returns [rc, bytes], and bytes only  *)
(* mean something with rc = 0.                                             *)
(***************************************************************************)
EXTENDS Integers, Sequences

Blank == {9, 10, 11, 12, 13, 32}    \* isspace
Colon == 58   Dash == 45   Backslash == 92
Zero  == 48   ExMarks == {120, 88}  \* x X

(* hex_char_to_int: -1 for what is no digit.                               *)
HexDigit(c) ==
    CASE c \in 48 .. 57  -> c - 48
      [] c \in 97 .. 102 -> c - 97 + 10
      [] c \in 65 .. 70  -> c - 65 + 10
      [] OTHER -> -1

IsHexDigit(c) == HexDigit(c) >= 0

Pair(high, low) == 16 * HexDigit(high) + HexDigit(low)

First(s, Test(_)) ==
    CHOOSE i \in 1 .. (Len(s) + 1) :
        /\ i = Len(s) + 1 \/ Test(s[i])
        /\ \A j \in 1 .. (i - 1) : ~Test(s[j])

From(s, i) == SubSeq(s, i, Len(s))

(* Leading blanks, then one 0x.                                            *)
Unprefixed(text) ==
    LET Visible(c) == c \notin Blank
        s == From(text, First(text, Visible))
    IN  IF Len(s) >= 2 /\ s[1] = Zero /\ s[2] \in ExMarks THEN From(s, 3) ELSE s

(* Blanks, colons and dashes are skipped, inside a pair of digits too.     *)
Skipped == Blank \cup {Colon, Dash}

Kept(s) ==
    LET kept[i \in 0 .. Len(s)] ==
            IF i = 0 THEN <<>>
            ELSE IF s[i] \in Skipped THEN kept[i - 1]
            ELSE Append(kept[i - 1], s[i])
    IN  kept[Len(s)]

Digits(text) == Kept(Unprefixed(text))

Converted(rc, bytes) == [rc |-> rc, bytes |-> bytes]

(* hex_to_bytes: the first error on the way from left to right decides.    *)
HexToBytes_HalfByteKept(text, max) ==
    LET ds       == Digits(text)
        NoHex(c) == ~IsHexDigit(c)
        bad      == First(ds, NoHex)
        bytes    == [i \in 1 .. (Len(ds) \div 2) |-> Pair(ds[2 * i - 1], ds[2 * i])]
    IN  IF 2 * max + 2 <= Len(ds) /\ 2 * max + 2 < bad THEN Converted(-2, <<>>)
        ELSE IF bad <= Len(ds) THEN Converted(-1, <<>>)
        ELSE Converted(0, bytes)

HexToBytes(text, max) ==
    LET ds       == Digits(text)
        NoHex(c) == ~IsHexDigit(c)
        bad      == First(ds, NoHex)
        bytes    == [i \in 1 .. (Len(ds) \div 2) |-> Pair(ds[2 * i - 1], ds[2 * i])]
    IN  IF 2 * max + 2 <= Len(ds) /\ 2 * max + 2 < bad THEN Converted(-2, <<>>)
        ELSE IF bad <= Len(ds) \/ Len(ds) % 2 = 1 THEN Converted(-1, <<>>)
        ELSE Converted(0, bytes)

(* bytes_to_hex into a buffer of a given size, which has to hold the NUL.  *)
HexChar(n, uppercase) == IF n < 10 THEN n + 48 ELSE IF uppercase THEN n + 55 ELSE n + 87

Required_NoNul(n, spaces) == IF spaces /\ n > 0 THEN 3 * n - 1 ELSE 2 * n
Required(n, spaces) == (IF spaces /\ n > 0 THEN 3 * n - 1 ELSE 2 * n) + 1

BytesToHex(bytes, size, uppercase, spaces) ==
    LET width == IF spaces THEN 3 ELSE 2
        Char(i) ==
            LET b == bytes[((i - 1) \div width) + 1]
            IN  CASE (i - 1) % width = 0 -> HexChar(b \div 16, uppercase)
                  [] (i - 1) % width = 1 -> HexChar(b % 16, uppercase)
                  [] OTHER -> 32
    IN  IF size = 0 \/ size < Required(Len(bytes), spaces) THEN Converted(-1, <<>>)
        ELSE Converted(0, [i \in 1 .. (Required(Len(bytes), spaces) - 1) |-> Char(i)])

(* parse_hex_byte: one or two digits, with blanks around them.             *)
ParseHexByte(text) ==
    LET s        == Unprefixed(text)
        IsBlank(c) == c \in Blank
        word     == SubSeq(s, 1, First(s, IsBlank) - 1)
        after    == From(s, First(s, IsBlank))
    IN  IF /\ Len(word) \in 1 .. 2
           /\ \A i \in 1 .. Len(word) : IsHexDigit(word[i])
           /\ \A i \in 1 .. Len(after) : IsBlank(after[i])
        THEN Converted(0, <<IF Len(word) = 1 THEN HexDigit(word[1]) ELSE Pair(word[1], word[2])>>)
        ELSE Converted(-1, <<>>)

(* unescape_string.  What stands at position i: how many characters, for   *)
(* which byte.  A backslash at the very end stands for itself; \x wants    *)
(* two digits; any other character behind a backslash, but r n t 0, stands *)
(* for itself.                                                             *)
Letter(c) == CASE c = 114 -> 13 [] c = 110 -> 10 [] c = 116 -> 9 [] c = Zero -> 0 [] OTHER -> c

Item(s, i) ==
    LET Is(width, byte) == [width |-> width, byte |-> byte, good |-> TRUE]
    IN  IF s[i] # Backslash \/ i = Len(s) THEN Is(1, s[i])
        ELSE IF s[i + 1] \notin ExMarks THEN Is(2, Letter(s[i + 1]))
        ELSE IF i + 3 <= Len(s) /\ IsHexDigit(s[i + 2]) /\ IsHexDigit(s[i + 3])
             THEN Is(4, Pair(s[i + 2], s[i + 3]))
        ELSE [width |-> 2, byte |-> 0, good |-> FALSE]

(* The bytes up to the first malformed item, and whether there is one.     *)
Unescaped(s) ==
    LET read[i \in 1 .. (Len(s) + 1)] ==
            IF i > Len(s) THEN [bytes |-> <<>>, good |-> TRUE]
            ELSE IF ~Item(s, i).good THEN [bytes |-> <<>>, good |-> FALSE]
            ELSE LET rest == read[i + Item(s, i).width]
                 IN  [bytes |-> <<Item(s, i).byte>> \o rest.bytes, good |-> rest.good]
    IN  read[1]

Unescape_LateLimit(s, max) ==
    LET u == Unescaped(s)
    IN  IF Len(u.bytes) > max + 1 \/ (~u.good /\ Len(u.bytes) = max) THEN Converted(-2, <<>>)
        ELSE IF ~u.good THEN Converted(-1, <<>>)
        ELSE Converted(0, u.bytes)

Unescape(s, max) ==
    LET u == Unescaped(s)
    IN  IF Len(u.bytes) > max \/ (~u.good /\ Len(u.bytes) = max) THEN Converted(-2, <<>>)
        ELSE IF ~u.good THEN Converted(-1, <<>>)
        ELSE Converted(0, u.bytes)
=============================================================================
