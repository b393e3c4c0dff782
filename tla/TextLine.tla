------------------------------ MODULE TextLine ------------------------------
(***************************************************************************)
(* What a user expects of a line being edited: some text before the cursor *)
(* and some behind it, at most Capacity characters together, and keys that *)
(* change nothing else.                                                    *)
(***************************************************************************)
EXTENDS Integers, Sequences

CONSTANTS Char, Capacity

VARIABLES left, right

vars == <<left, right>>

Init == left = <<>> /\ right = <<>>

Insert(c) ==
    /\ Len(left) + Len(right) < Capacity
    /\ left' = Append(left, c) /\ right' = right

Front(s) == SubSeq(s, 1, Len(s) - 1)

Backspace == left # <<>> /\ left' = Front(left) /\ right' = right
Delete    == right # <<>> /\ right' = Tail(right) /\ left' = left

MoveLeft ==
    /\ left # <<>>
    /\ left' = Front(left) /\ right' = <<left[Len(left)]>> \o right

MoveRight ==
    /\ right # <<>>
    /\ left' = Append(left, Head(right)) /\ right' = Tail(right)

ToStart == left' = <<>> /\ right' = left \o right
ToEnd   == left' = left \o right /\ right' = <<>>

KillToEnd == left' = left /\ right' = <<>>
KillLine  == left' = <<>> /\ right' = <<>>

(* Another line in its place: from the history, or a completion.           *)
Replace == left' \in Seq(Char) /\ Len(left') <= Capacity /\ right' = <<>>

Next ==
    \/ \E c \in Char : Insert(c)
    \/ Backspace \/ Delete \/ MoveLeft \/ MoveRight \/ ToStart \/ ToEnd
    \/ KillToEnd \/ KillLine \/ Replace

Spec == Init /\ [][Next]_vars
=============================================================================
