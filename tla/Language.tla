------------------------------ MODULE Language ------------------------------
(***************************************************************************)
(* The reference for core/regex.c: regular expressions as trees and the    *)
(* strings each of them means.                                             *)
(***************************************************************************)
EXTENDS Integers, Sequences

CONSTANT Code     \* the characters' codes, those of ASCII

Lit(c) == [op |-> "lit", c |-> c]
AnyChar == [op |-> "any"]
\* \d, \s, \w and their opposites.
Predef(c) == [op |-> "predef", c |-> c]
\* A class of ranges <<a, b>>.
Cls(neg, ranges) == [op |-> "class", neg |-> neg, ranges |-> ranges]
Cat(l, r) == [op |-> "cat", l |-> l, r |-> r]
Alt(l, r) == [op |-> "alt", l |-> l, r |-> r]
Star(e) == [op |-> "*", e |-> e]
Plus(e) == [op |-> "+", e |-> e]
Opt(e) == [op |-> "?", e |-> e]

InRange(c, r) == Code[r[1]] <= Code[c] /\ Code[c] <= Code[r[2]]
Digits == Code["0"]..Code["9"]
Members(c) ==
    CASE c \in {"d", "D"} -> Digits
      [] c \in {"s", "S"} -> 9..13 \cup {Code[" "]}
      [] c \in {"w", "W"} -> Digits \cup Code["A"]..Code["Z"] \cup Code["a"]..Code["z"] \cup {Code["_"]}
InClass(c, e) == (\E n \in 1..Len(e.ranges) : InRange(c, e.ranges[n])) # e.neg

RECURSIVE Means(_, _)
Means(e, s) ==
    LET Splits(l, r) == \E n \in 0..Len(s) :
                           Means(l, SubSeq(s, 1, n)) /\ Means(r, SubSeq(s, n + 1, Len(s)))
        Repeats == s = <<>> \/ \E n \in 1..Len(s) :
                           Means(e.e, SubSeq(s, 1, n)) /\ Means(Star(e.e), SubSeq(s, n + 1, Len(s)))
    IN  CASE e.op = "lit"   -> s = <<e.c>>
          [] e.op = "any"   -> Len(s) = 1
          [] e.op = "predef" -> Len(s) = 1 /\ (Code[s[1]] \in Members(e.c)) # (e.c \in {"D", "S", "W"})
          [] e.op = "class" -> Len(s) = 1 /\ InClass(s[1], e)
          [] e.op = "cat"   -> Splits(e.l, e.r)
          [] e.op = "alt"   -> Means(e.l, s) \/ Means(e.r, s)
          [] e.op = "*"     -> Repeats
          [] e.op = "+"     -> Splits(e.e, Star(e.e))
          [] e.op = "?"     -> s = <<>> \/ Means(e.e, s)
=============================================================================
