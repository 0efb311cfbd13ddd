------------------------------- MODULE Stream -------------------------------
(* What a buffer of sources promises its reader: one text, read front to    *)
(* back, to which more may be added, and again from the front on demand.    *)
EXTENDS Integers, Sequences

CONSTANTS Sizes, More(_)

VARIABLES text, read, answer

Init == text = <<>> /\ read = <<>> /\ answer = 0

\* More(text): the texts adding a source may lead to.
Extend == text' \in More(text) /\ UNCHANGED <<read, answer>>

\* As much as was asked for or is left: 0 is returned at the end only.
Read(n) ==
    LET left == Len(text) - Len(read)
        got == IF left < n THEN left ELSE n
    IN  /\ read' = SubSeq(text, 1, Len(read) + got)
        /\ answer' = got /\ UNCHANGED text

Again == read' = <<>> /\ UNCHANGED <<text, answer>>

Next == Extend \/ Again \/ \E n \in Sizes : Read(n)

Spec == Init /\ [][Next]_<<text, read, answer>>
=============================================================================
