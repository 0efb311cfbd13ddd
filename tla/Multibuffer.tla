---------------------------- MODULE Multibuffer ----------------------------
(***************************************************************************)
(* core/multibuffer.c: the files and strings of one compilation, read as   *)
(* one text by two passes of the lexer, with a reset between two sources.  *)
(***************************************************************************)
EXTENDS Integers, Sequences, SequencesExt

CONSTANTS
    Texts,        \* what a source may hold
    Reset,        \* "=== RESET ==="
    Sizes,        \* the max_size the lexer asks for
    MaxNodes      \* bound on the nodes

\* Sources are sequences, and the lexer never asks for nothing: mb_buffer
\* would answer 1.
ASSUME BufferAssumption ==
    /\ \A t \in Texts \cup {Reset} : t \in Seq({t[i] : i \in DOMAIN t})
    /\ Sizes \subseteq Nat \ {0}

VARIABLES
    nodes,        \* the chain: [type, text, pos], pos the file's or bufpt
    cur,          \* the node mb_buffer starts at, 0 when there is none
    read,         \* what was handed to the reader since the last rewind
    length        \* the length mb_buffer returned

mbVars == <<nodes, cur, read, length>>

\* mb_create_node.
Node(type, text) == [type |-> type, text |-> text, pos |-> 0]

MbInit == nodes = <<>> /\ cur = 0 /\ read = <<>> /\ length = 0

\* mb_add_file and mb_add_str, with mb_add_reset and mb_append_node.
Add(type, text) ==
    /\ Len(nodes) < MaxNodes
    /\ LET behind == IF nodes = <<>> THEN nodes ELSE Append(nodes, Node("str", Reset))
       IN  nodes' = Append(behind, Node(type, text))
    /\ cur' = IF nodes = <<>> THEN 1 ELSE cur
    /\ UNCHANGED <<read, length>>

\* What is left of node n, and the nodes when up to left of it were taken.
Left(n) == Len(nodes[n].text) - nodes[n].pos
Least(a, b) == IF a < b THEN a ELSE b

\* How much mb_buffer takes of each node: the loop stops at a node that fills
\* what is left, or behind the last.
Taken(max) ==
    LET before[n \in cur..(Len(nodes) + 1)] ==
            IF n = cur THEN 0 ELSE before[n - 1] + Least(Left(n - 1), max - before[n - 1])
    IN  [n \in 1..Len(nodes) |-> IF n < cur THEN 0 ELSE Least(Left(n), max - before[n])]

\* Mutant: a call moves on to the node it stopped at, whose rest it has.
BufferMovesOn(max) ==
    LET taken == Taken(max)
        stops == {n \in cur..Len(nodes) : taken[n] > 0}
        Part(n) == SubSeq(nodes[n].text, nodes[n].pos + 1, nodes[n].pos + taken[n])
        got == FlattenSeq([n \in 1..Len(nodes) |-> Part(n)])
    IN  /\ cur # 0
        /\ read' = read \o got /\ length' = Len(got)
        /\ nodes' = [n \in 1..Len(nodes) |-> [nodes[n] EXCEPT !.pos = @ + taken[n]]]
        /\ cur' = IF stops = {} THEN cur
                  ELSE Least(Len(nodes), 1 + CHOOSE n \in stops : \A m \in stops : m <= n)

\* mb_buffer: each node's part, and cur stays where it is.
Buffer(max) ==
    LET taken == Taken(max)
        Part(n) == SubSeq(nodes[n].text, nodes[n].pos + 1, nodes[n].pos + taken[n])
        got == FlattenSeq([n \in 1..Len(nodes) |-> Part(n)])
    IN  /\ cur # 0
        /\ read' = read \o got /\ length' = Len(got)
        /\ nodes' = [n \in 1..Len(nodes) |-> [nodes[n] EXCEPT !.pos = @ + taken[n]]]
        /\ UNCHANGED cur

\* mb_buffer of an empty buffer.
BufferNothing == cur = 0 /\ length' = 0 /\ UNCHANGED <<nodes, cur, read>>

\* mb_rewind.
Rewind ==
    /\ nodes' = [n \in 1..Len(nodes) |-> [nodes[n] EXCEPT !.pos = 0]]
    /\ cur' = IF nodes = <<>> THEN 0 ELSE 1
    /\ read' = <<>> /\ UNCHANGED length

MbNext ==
    \/ \E type \in {"file", "str"}, text \in Texts : Add(type, text)
    \/ \E max \in Sizes : Buffer(max)
    \/ BufferNothing \/ Rewind

MbSpec == MbInit /\ [][MbNext]_mbVars

-----------------------------------------------------------------------------
(* Property.                                                                *)

AllText == FlattenSeq([n \in 1..Len(nodes) |-> nodes[n].text])
Extended(text) == {text \o t : t \in Texts} \cup {text \o Reset \o t : t \in Texts}

Text == INSTANCE Stream WITH answer <- length, text <- AllText, More <- Extended

\* Both passes read the same text: every source in the order it was added, a
\* reset between two of them, nothing twice and nothing left out whatever the
\* sizes of the reads, empty sources among them; the end is reported when
\* all was read and not before.
IsStream == Text!Spec
=============================================================================
