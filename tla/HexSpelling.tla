---------------------------- MODULE HexSpelling ----------------------------
(***************************************************************************)
(* A payload that grows byte by byte, spelled in every way as the argument *)
(* of -a and of -x: the conversions against what the spelling means.       *)
(***************************************************************************)
EXTENDS HexText

CONSTANTS
    Samples,    \* the bytes a payload may hold
    MaxBytes,   \* bound on the payload
    Room        \* size of the buffer that receives the bytes

ASSUME HexTextAssumption ==
    Samples \subseteq 0 .. 255 /\ MaxBytes \in Nat /\ Room \in Nat

VARIABLES bytes, escaped, hex

vars == <<bytes, escaped, hex>>

Hex2(b, upper) == << HexChar(b \div 16, upper), HexChar(b % 16, upper) >>

(* \r \n \t \0 and what they stand for.                                    *)
Named == {<<114, 13>>, <<110, 10>>, <<116, 9>>, <<48, 0>>}

(* The spellings of a byte behind -a: \xHH, a letter, \ and the character, *)
(* and the character itself unless it is a backslash.                      *)
Numbered(b) ==
    {<<Backslash, x>> \o Hex2(b, TRUE) : x \in ExMarks}
        \cup {<<Backslash, x>> \o Hex2(b, FALSE) : x \in ExMarks}
Lettered(b) == {<<Backslash, n[1]>> : n \in {n \in Named : n[2] = b}}
Quoted(b)   == {<<Backslash, c>> : c \in {b} \ ({0} \cup ExMarks \cup {n[1] : n \in Named})}
Plain(b)    == {<<c>> : c \in {b} \ {0, Backslash}}

Escapes(b) == Numbered(b) \cup Lettered(b) \cup Quoted(b) \cup Plain(b)

(* The spellings of a byte behind -x.                                      *)
Pairs(b) ==
    LET h == Hex2(b, TRUE) l == Hex2(b, FALSE)
    IN  {h, <<32, l[1], Dash, l[2], Colon>>}

Prefixes == {<<>>, <<32, 48, 120>>, <<48, 88>>}

Init == bytes = <<>> /\ escaped = <<>> /\ hex \in Prefixes

Add(b) ==
    /\ Len(bytes) < MaxBytes
    /\ bytes' = Append(bytes, b)
    /\ \E e \in Escapes(b) : escaped' = escaped \o e
    /\ \E p \in Pairs(b) : hex' = hex \o p

Full == Len(bytes) = MaxBytes /\ UNCHANGED vars

Next == (\E b \in Samples : Add(b)) \/ Full

Spec == Init /\ [][Next]_vars

-----------------------------------------------------------------------------
Fits == Len(bytes) <= Room

(* The bytes, or an error exactly when there is no room for them.          *)
Means(c) == IF Fits THEN c = Converted(0, bytes) ELSE c.rc = -2

(* Every spelling behind -a is read as the payload it spells, also where   *)
(* one escape stands against the next (hex_utils.c, 148 to 199).           *)
EscapesMeanBytes == Means(Unescape(escaped, Room))

(* The text up to the middle of its last byte.                             *)
Half == SubSeq(hex, 1, Len(hex) - (IF hex[Len(hex)] = Colon THEN 2 ELSE 1))

(* Every spelling behind -x likewise, whatever separates the digits; a text *)
(* that stops in the middle of a byte is refused, and -T reads one byte as  *)
(* -x does (hex_utils.c, 13 to 64 and 100 to 146).                          *)
PairsMeanBytes ==
    /\ Means(HexToBytes(hex, Room))
    /\ bytes # <<>> /\ Fits => HexToBytes(Half, Room).rc = -1
    /\ LET byte == ParseHexByte(hex)
       IN  byte.rc = 0 => Len(bytes) = 1 /\ byte = Converted(0, bytes)

(* What -X and -D print is text that -x reads as the same bytes, and the   *)
(* size asked of the buffer is that of the text and its NUL, no more and   *)
(* no less.                                                                *)
PrintedIsRead ==
    \A uppercase, spaces \in BOOLEAN :
        LET size    == Required(Len(bytes), spaces)
            printed == BytesToHex(bytes, size, uppercase, spaces)
        IN  /\ printed.rc = 0 /\ Len(printed.bytes) + 1 = size
            /\ BytesToHex(bytes, size - 1, uppercase, spaces).rc = -1
            /\ HexToBytes(printed.bytes, Len(bytes)) = Converted(0, bytes)
=============================================================================
