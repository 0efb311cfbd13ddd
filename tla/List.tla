-------------------------------- MODULE List --------------------------------
(* What a list promises: a sequence, each operation at once, and an         *)
(* iteration that hands out the items in order.                             *)
EXTENDS Integers, Sequences, SequencesExt

CONSTANTS Items, Null

VARIABLES list, answer, seen

Init == list = <<>> /\ answer = Null /\ seen = <<>>

Insert(x, i) == list' = InsertAt(list, i, x) /\ UNCHANGED <<answer, seen>>
Get(i) == answer' = list[i] /\ UNCHANGED <<list, seen>>
Put(x, i) == list' = [list EXCEPT ![i] = x] /\ UNCHANGED <<answer, seen>>
Delete(i) == list' = RemoveAt(list, i) /\ UNCHANGED <<answer, seen>>
IndexOf(x) ==
    LET found == {i \in DOMAIN list : list[i] = x}
    IN  /\ answer' = IF found = {} THEN -1 ELSE (CHOOSE i \in found : \A j \in found : i <= j) - 1
        /\ UNCHANGED <<list, seen>>
Clear == list' = <<>> /\ seen' = <<>> /\ UNCHANGED answer
\* The next item is handed out, and the caller may add one on the way.
Visit(more) ==
    /\ Len(seen) < Len(list)
    /\ seen' = Append(seen, list[Len(seen) + 1])
    /\ list' = list \o more /\ UNCHANGED answer
Finish == seen' = <<>> /\ UNCHANGED <<list, answer>>

Next ==
    \/ \E x \in Items : \E i \in 1..(Len(list) + 1) : Insert(x, i)
    \/ \E i \in DOMAIN list : Get(i) \/ Delete(i) \/ \E x \in Items : Put(x, i)
    \/ \E x \in Items : IndexOf(x) \/ Visit(<<x>>)
    \/ Clear \/ Visit(<<>>) \/ Finish

Spec == Init /\ [][Next]_<<list, answer, seen>>
=============================================================================
