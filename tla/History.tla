------------------------------ MODULE History ------------------------------
(* The history list of linenoise.c, a sequence of lines, oldest first.     *)
EXTENDS Integers, Sequences

Last(h) == h[Len(h)]

(* linenoiseHistoryAdd: empty lines and a repetition of the last one are   *)
(* not kept; a full list loses its oldest line.                            *)
HistoryAdd_KeepsRepeats(h, line, max) ==
    IF line = <<>> THEN h
    ELSE IF Len(h) >= max THEN Append(Tail(h), line) ELSE Append(h, line)

HistoryAdd(h, line, max) ==
    IF line = <<>> \/ (h # <<>> /\ Last(h) = line) THEN h
    ELSE IF Len(h) >= max THEN Append(Tail(h), line) ELSE Append(h, line)

(* What every list so built is like: within its bound, no empty line, no   *)
(* line twice in a row.                                                    *)
WellKept(h, max) ==
    /\ Len(h) <= max
    /\ \A i \in 1 .. Len(h) : h[i] # <<>>
    /\ \A i \in 1 .. (Len(h) - 1) : h[i] # h[i + 1]

(* Every line of a sequence is added, one after the other.                 *)
AddAll(h, lines, max) ==
    LET added[i \in 0 .. Len(lines)] ==
            IF i = 0 THEN h ELSE HistoryAdd(added[i - 1], lines[i], max)
    IN  added[Len(lines)]

(* fgets takes at most width characters at a time: a longer line comes in  *)
(* pieces.                                                                 *)
Pieces(line, width) ==
    [k \in 1 .. ((Len(line) + width - 1) \div width) |->
        SubSeq(line, (k - 1) * width + 1,
               IF k * width <= Len(line) THEN k * width ELSE Len(line))]

FileReads(file, width) ==
    LET reads[i \in 0 .. Len(file)] ==
            IF i = 0 THEN <<>> ELSE reads[i - 1] \o Pieces(file[i], width)
    IN  reads[Len(file)]

(* linenoiseHistoryLoad: whatever fgets returns becomes an entry.          *)
HistoryLoad(h, file, max, width) == AddAll(h, FileReads(file, width), max)
=============================================================================
