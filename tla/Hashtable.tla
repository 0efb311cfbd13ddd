----------------------------- MODULE Hashtable -----------------------------
(***************************************************************************)
(* core/hashtable.c: chained buckets.  The keys are strings in the memory  *)
(* of callers, who use it again: a table whose duplicate_keys is set keeps *)
(* copies.  NO_RESIZE is defined in the source, so hst_put does not grow   *)
(* the table; both builds are considered.                                  *)
(***************************************************************************)
EXTENDS Integers, Sequences, SequencesExt

CONSTANTS
    Keys, Values, None,
    Hash,         \* hashfunc: Keys -> Nat
    Size,         \* the number of buckets of hst_create
    MaxSize,      \* bound: a table of this size grows no more
    Resizes       \* the builds considered: is NO_RESIZE undefined?

ASSUME SizesAssumption ==
    Size \in Nat \ {0} /\ MaxSize \in Nat /\ Hash \in [Keys -> Nat]

VARIABLES
    tables,       \* two tables: [size, count, buckets]
    text,         \* the buffer the caller holds its key in: yytext
    found,       \* what the last call returned
    resizes

hstVars == <<tables, text, found, resizes>>

\* hst_create.
HstCreate == [size |-> Size, count |-> 0, buckets |-> [b \in 0..(Size - 1) |-> <<>>]]

\* The key of a node: its copy, or what the caller's memory holds by now.
KeyOf(node) == IF node.dup THEN node.key ELSE text

Bucket(table, k) == Hash[k] % table.size

\* EQU_CHECK along a chain: the position of the node with key k, or 0.
Position(chain, k) == SelectInSeq(chain, LAMBDA n : KeyOf(n) = k)

\* Mutant: the key of the caller is kept, not a copy.
MakeNodeShares(k, v) == [hash |-> Hash[k], dup |-> FALSE, key |-> k, val |-> v]

\* hst_make_node in a table with duplicate_keys.
MakeNode(k, v) == [hash |-> Hash[k], dup |-> TRUE, key |-> k, val |-> v]

\* All nodes in the order of hst_for_each.
Nodes(table) ==
    LET upto[b \in 0..table.size] ==
            IF b = 0 THEN <<>> ELSE upto[b - 1] \o table.buckets[b - 1]
    IN  upto[table.size]

\* hst_resize moves the nodes one by one, each behind those that its hash leads
\* to as well.
Resized(table) ==
    LET ns == IF table.size > 1000 THEN table.size + 1000 ELSE 2 * table.size
        nodes == Nodes(table)
        moved[n \in 0..Len(nodes)] ==
            IF n = 0 THEN [b \in 0..(ns - 1) |-> <<>>]
            ELSE [moved[n - 1] EXCEPT ![nodes[n].hash % ns] = Append(@, nodes[n])]
    IN  [table EXCEPT !.size = ns, !.buckets = moved[Len(nodes)]]

\* The table hst_put searches: two thirds full, it has grown.
Grown(table) ==
    IF resizes /\ 100 * (table.count + 1) > 66 * table.size /\ table.size < MaxSize
    THEN Resized(table) ELSE table

\* hst_put.
WithEntry(table, k, v) ==
    LET t == Grown(table)
        b == Bucket(t, k)
        i == Position(t.buckets[b], k)
    IN  IF i # 0 THEN [t EXCEPT !.buckets[b][i].val = v]
        ELSE [t EXCEPT !.buckets[b] = Append(@, MakeNode(k, v)), !.count = @ + 1]

\* hst_get.
ValueOf(table, k) ==
    LET chain == table.buckets[Bucket(table, k)]
        i == Position(chain, k)
    IN  IF i = 0 THEN None ELSE chain[i].val

\* hst_add_all_from: one hst_put for every node of the other table.
WithAll(table, other) ==
    LET nodes == Nodes(other)
        put[n \in 0..Len(nodes)] ==
            IF n = 0 THEN table ELSE WithEntry(put[n - 1], KeyOf(nodes[n]), nodes[n].val)
    IN  put[Len(nodes)]

-----------------------------------------------------------------------------
HstInit ==
    /\ tables = [t \in {1, 2} |-> HstCreate]
    /\ text \in Keys /\ found = None
    /\ resizes \in Resizes

\* The caller reads its next key into the buffer.
Fill(k) == text' = k /\ UNCHANGED <<tables, found, resizes>>

Put(t, v) ==
    /\ tables' = [tables EXCEPT ![t] = WithEntry(@, text, v)]
    /\ UNCHANGED <<text, found, resizes>>

Get(t) == found' = ValueOf(tables[t], text) /\ UNCHANGED <<tables, text, resizes>>

\* hst_remove_key.
RemoveKey(t) ==
    LET b == Bucket(tables[t], text)
        i == Position(tables[t].buckets[b], text)
    IN  /\ found' = ValueOf(tables[t], text)
        /\ tables' = IF i = 0 THEN tables
                     ELSE [tables EXCEPT ![t].buckets[b] = RemoveAt(@, i),
                                         ![t].count = @ - 1]
        /\ UNCHANGED <<text, resizes>>

AddAllFrom(t, u) ==
    /\ tables' = [tables EXCEPT ![t] = WithAll(@, tables[u])]
    /\ UNCHANGED <<text, found, resizes>>

\* hst_free, and hst_create for the next use.
Free(t) == tables' = [tables EXCEPT ![t] = HstCreate] /\ UNCHANGED <<text, found, resizes>>

HstNext ==
    \/ \E k \in Keys : Fill(k)
    \/ \E t \in {1, 2} :
          \/ Get(t) \/ RemoveKey(t) \/ Free(t)
          \/ \E v \in Values : Put(t, v)
    \/ AddAllFrom(1, 2)

HstSpec == HstInit /\ [][HstNext]_hstVars

-----------------------------------------------------------------------------
(* Properties.                                                              *)

Contents(table) ==
    LET here == {KeyOf(Nodes(table)[n]) : n \in 1..Len(Nodes(table))}
    IN  [k \in here |-> (CHOOSE n \in ToSet(Nodes(table)) : KeyOf(n) = k).val]

Maps == INSTANCE Dictionary WITH answer <- found, maps <- [t \in {1, 2} |-> Contents(tables[t])]

\* The tables are dictionaries: what was put under a key is found under it
\* until it is replaced or removed, whatever shares its bucket, however often
\* the table has grown, and whatever became of the memory the key was read
\* from.
Implements == Maps!Spec
=============================================================================
