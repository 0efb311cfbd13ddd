----------------------------- MODULE Arraylist -----------------------------
(***************************************************************************)
(* core/arraylist.c: a growing array, with arr_for_each open to callbacks  *)
(* that append to the list.  Cells count from 0, as in the code.           *)
(***************************************************************************)
EXTENDS Integers, Sequences, FiniteSets

CONSTANTS
    Items,        \* what a list may hold
    Null,         \* a cell that was set to NULL
    Junk,         \* what fresh memory holds
    First,        \* the count of arr_create
    Big,          \* 10000: from here on the array grows by as much
    MaxCount      \* bound: no list is filled beyond it

ASSUME GrowthAssumption == First \in Nat \ {0} /\ Big \in Nat \ {0}

VARIABLES
    items,        \* the cells, a function on 0..(allocated - 1)
    count,
    answer,       \* what the last call returned
    at,           \* the index arr_for_each stands at, or -1
    seen          \* what its callback was given

arrVars == <<items, count, answer, at, seen>>

\* arr_manage_size.
Managed ==
    LET alloc == Cardinality(DOMAIN items)
        nl == IF alloc * 2 < Big THEN alloc * 2 ELSE alloc + Big
    IN  IF count # alloc THEN items
        ELSE [c \in 0..(nl - 1) |-> IF c < alloc THEN items[c] ELSE Junk]

\* Mutant: the items are moved up from the front, each over the next.
OpenedUpwards(cells, idx) ==
    [c \in DOMAIN cells |-> IF c \in (idx + 1)..count THEN cells[idx] ELSE cells[c]]

\* arr_insert moves the items from idx on, the last one first.
Opened(cells, idx) ==
    [c \in DOMAIN cells |-> IF c \in (idx + 1)..count THEN cells[c - 1] ELSE cells[c]]

-----------------------------------------------------------------------------
ArrInit ==
    /\ items = [c \in 0..(First - 1) |-> Null]
    /\ count = 0 /\ answer = Null /\ at = -1 /\ seen = <<>>

Filling == count < MaxCount /\ count' = count + 1

\* arr_append.
AppendItem(x) ==
    /\ Filling
    /\ items' = [Managed EXCEPT ![count] = x]

ArrAppend(x) == at = -1 /\ AppendItem(x) /\ UNCHANGED <<answer, at, seen>>

ArrInsert(x, idx) ==
    /\ at = -1 /\ Filling
    /\ items' = [Opened(Managed, idx) EXCEPT ![idx] = x]
    /\ UNCHANGED <<answer, at, seen>>

ArrGet(idx) == at = -1 /\ answer' = items[idx] /\ UNCHANGED <<items, count, at, seen>>

ArrSet(x, idx) ==
    /\ at = -1
    /\ items' = [items EXCEPT ![idx] = x]
    /\ UNCHANGED <<count, answer, at, seen>>

IndexOf(x) ==
    LET found == {i \in 0..(count - 1) : items[i] = x}
    IN  IF found = {} THEN -1 ELSE CHOOSE i \in found : \A j \in found : i <= j

ArrIndexOf(x) == at = -1 /\ answer' = IndexOf(x) /\ UNCHANGED <<items, count, at, seen>>

\* remove_at_index.
RemoveAtIndex(idx) ==
    /\ items' = [c \in DOMAIN items |->
                    IF c \notin idx..(count - 1) THEN items[c]
                    ELSE IF c < count - 1 THEN items[c + 1] ELSE Null]
    /\ count' = count - 1
    /\ UNCHANGED <<answer, at, seen>>

\* arr_remove: by the item when one is given (it is in the list), else by
\* the index.
ArrRemove(idx) == at = -1 /\ RemoveAtIndex(idx)
ArrRemoveItem(x) == at = -1 /\ IndexOf(x) # -1 /\ RemoveAtIndex(IndexOf(x))

ArrClear ==
    /\ at = -1
    /\ items' = [c \in DOMAIN items |-> IF c < count THEN Null ELSE items[c]]
    /\ count' = 0
    /\ UNCHANGED <<answer, at, seen>>

\* arr_for_each: the callback is given the next item; it may append one to
\* the list (more), and its result goes on or stops.
ForEach == at = -1 /\ at' = 0 /\ seen' = <<>> /\ UNCHANGED <<items, count, answer>>

Callback(more) ==
    /\ at \in 0..(count - 1)
    /\ seen' = Append(seen, items[at])
    /\ IF more = Null THEN UNCHANGED <<items, count>> ELSE AppendItem(more)
    /\ at' = at + 1 /\ UNCHANGED answer

EndForEach ==
    /\ at # -1 /\ (at = count \/ at > 0)
    /\ at' = -1 /\ seen' = <<>> /\ UNCHANGED <<items, count, answer>>

ArrNext ==
    \/ ForEach \/ EndForEach \/ ArrClear
    \/ \E idx \in 0..(count - 1) : ArrGet(idx) \/ ArrRemove(idx)
    \/ \E x \in Items :
          \/ ArrAppend(x) \/ ArrIndexOf(x) \/ ArrRemoveItem(x)
          \/ \E idx \in 0..(count - 1) : ArrSet(x, idx)
          \/ \E idx \in 0..count : ArrInsert(x, idx)
    \/ \E more \in Items \cup {Null} : Callback(more)

ArrSpec == ArrInit /\ [][ArrNext]_arrVars

-----------------------------------------------------------------------------
(* Property.                                                                *)

\* The array is a sequence: nothing that was put in is lost, moved over or
\* read from fresh memory while the array grows, items are inserted, removed
\* or cleared, also when the callback of an iteration appends to the list it
\* is given: the items come out in order, the new ones included.
Abstract == INSTANCE List WITH list <- [i \in 1..count |-> items[i - 1]]
IsList == Abstract!Spec
=============================================================================
