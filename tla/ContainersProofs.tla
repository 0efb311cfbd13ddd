-------------------------- MODULE ContainersProofs --------------------------
(***************************************************************************)
(* The containers of core/ implement what they promise, for any contents:  *)
(* hashtable.c two functions from keys to values, arraylist.c a sequence,  *)
(* multibuffer.c one text that is read from front to back.                 *)
(***************************************************************************)
EXTENDS Hashtable, Arraylist, Multibuffer, FiniteSetTheorems, SequenceTheorems,
        WellFoundedInduction, TLAPS

-----------------------------------------------------------------------------
(* Induction and recursion over the natural numbers.                        *)

LEMMA Induction ==
    ASSUME NEW S \in SUBSET Nat, 0 \in S, \A n \in S : n + 1 \in S
    PROVE  S = Nat
<1> SUFFICES ASSUME Nat \ S # {} PROVE FALSE
  OBVIOUS
<1> DEFINE R == OpToRel(<, Nat)
<1>1. IsWellFoundedOn(R, Nat)
  BY NatLessThanWellFounded
<1>2. PICK n \in Nat \ S : \A m \in Nat \ S : <<m, n>> \notin R
  BY <1>1, WFMin
<1>3. n # 0 /\ n - 1 \in Nat
  OBVIOUS
<1>4. <<n - 1, n>> \in R
  BY <1>3 DEF OpToRel
<1>5. n - 1 \in S
  BY <1>2, <1>3, <1>4
<1> QED
  BY <1>5

\* f goes from base by n steps.
Run(f, n, base, step) ==
    f[0] = base /\ \A i \in 1..n : f[i] = step[<<i, f[i - 1]>>]

LEMMA RunExists ==
    ASSUME NEW X, NEW base \in X, NEW step \in [Nat \X X -> X]
    PROVE  \A n \in Nat : \E f \in [0..n -> X] : Run(f, n, base, step)
<1> DEFINE S == {n \in Nat : \E f \in [0..n -> X] : Run(f, n, base, step)}
<1>1. 0 \in S
  <2> DEFINE f == [i \in 0..0 |-> base]
  <2>1. f \in [0..0 -> X] /\ Run(f, 0, base, step)
    BY DEF Run
  <2> HIDE DEF f
  <2> QED
    BY <2>1
<1>2. ASSUME NEW n \in S PROVE n + 1 \in S
  <2>1. PICK f \in [0..n -> X] : Run(f, n, base, step)
    OBVIOUS
  <2> DEFINE g == [i \in 0..(n + 1) |-> IF i = n + 1 THEN step[<<i, f[n]>>] ELSE f[i]]
  <2>2. f[n] \in X /\ step[<<n + 1, f[n]>>] \in X
    <3>1. f[n] \in X
      OBVIOUS
    <3>2. <<n + 1, f[n]>> \in Nat \X X
      BY <3>1
    <3> QED
      BY <3>1, <3>2
  <2>3. g \in [0..(n + 1) -> X]
    BY <2>2
  <2>4. g[0] = base
    BY <2>1 DEF Run
  <2>5. ASSUME NEW i \in 1..(n + 1) PROVE g[i] = step[<<i, g[i - 1]>>]
    <3>1. CASE i = n + 1
      BY <3>1
    <3>2. CASE i # n + 1
      <4>1. i \in 1..n /\ i - 1 \in 0..n /\ i - 1 # n + 1
        BY <3>2
      <4>2. f[i] = step[<<i, f[i - 1]>>]
        BY <2>1, <4>1 DEF Run
      <4>3. g[i] = f[i] /\ g[i - 1] = f[i - 1]
        BY <3>2, <4>1
      <4> HIDE DEF g
      <4> QED
        BY <4>2, <4>3
    <3> QED
      BY <3>1, <3>2
  <2> HIDE DEF g
  <2>6. Run(g, n + 1, base, step)
    BY <2>4, <2>5 DEF Run
  <2> QED
    BY <2>3, <2>6
<1> HIDE DEF S
<1>3. S \in SUBSET Nat
  BY DEF S
<1>4. S = Nat
  BY <1>1, <1>2, <1>3, Induction
<1> QED
  BY <1>4 DEF S

-----------------------------------------------------------------------------
(* Sequences.                                                               *)

LEMMA Joined ==
    ASSUME NEW S, NEW s \in Seq(S), NEW t \in Seq(S)
    PROVE  /\ s \o t \in Seq(S) /\ Len(s \o t) = Len(s) + Len(t)
           /\ \A j \in 1..Len(s) : (s \o t)[j] = s[j]
           /\ \A j \in 1..Len(t) : (s \o t)[Len(s) + j] = t[j]
  BY ConcatProperties, LenProperties

-----------------------------------------------------------------------------
(* The hash table: Hashtable refines Dictionary, for any keys, values and  *)
(* hash function, any number of buckets and both builds.                   *)

\* The nodes of a table that keeps copies of its keys.
HashNode == {MakeNode(k, v) : k \in Keys, v \in Values}

InChain(chain, x) == \E i \in 1..Len(chain) : chain[i] = x
Once(chain) == \A i, j \in 1..Len(chain) : chain[i].key = chain[j].key => i = j

\* The chain of bucket b of n: nodes whose hashes lead there, no key twice.
GoodChain(chain, n, b) ==
    /\ chain \in Seq(HashNode)
    /\ \A i \in 1..Len(chain) : chain[i].hash % n = b
    /\ Once(chain)

GoodBuckets(n) ==
    {bs \in [0..(n - 1) -> Seq(HashNode)] : \A b \in 0..(n - 1) : GoodChain(bs[b], n, b)}

Tables == UNION {[size : {n}, count : Int, buckets : GoodBuckets(n)] : n \in Nat \ {0}}

\* The node is in the table.
Has(table, x) == \E b \in 0..(table.size - 1) : InChain(table.buckets[b], x)

\* What a table maps keys to, by the keys its nodes keep.
Inside(table) ==
    [k \in {x.key : x \in {y \in HashNode : Has(table, y)}} |->
        CHOOSE v \in Values : Has(table, MakeNode(k, v))]

HstIInv == tables \in [{1, 2} -> Tables] /\ text \in Keys

-----------------------------------------------------------------------------
(* Chains of nodes.                                                         *)

LEMMA ListedJoined ==
    ASSUME NEW S, NEW s \in Seq(S), NEW t \in Seq(S), NEW x
    PROVE  InChain(s \o t, x) <=> InChain(s, x) \/ InChain(t, x)
<1> DEFINE r == s \o t
<1>1. /\ Len(r) = Len(s) + Len(t)
      /\ \A j \in 1..Len(s) : r[j] = s[j]
      /\ \A j \in 1..Len(t) : r[Len(s) + j] = t[j]
  BY Joined
<1>2. Len(s) \in Nat /\ Len(t) \in Nat
  BY LenProperties
<1> HIDE DEF r
<1>3. ASSUME InChain(s, x) PROVE InChain(r, x)
  BY <1>1, <1>2, <1>3 DEF InChain
<1>4. ASSUME InChain(t, x) PROVE InChain(r, x)
  <2>1. PICK j \in 1..Len(t) : t[j] = x
    BY <1>4 DEF InChain
  <2>2. Len(s) + j \in 1..Len(r) /\ r[Len(s) + j] = x
    BY <1>1, <1>2, <2>1
  <2> QED
    BY <2>2 DEF InChain
<1>5. ASSUME InChain(r, x) PROVE InChain(s, x) \/ InChain(t, x)
  <2>1. PICK j \in 1..Len(r) : r[j] = x
    BY <1>5 DEF InChain
  <2>2. CASE j \in 1..Len(s)
    BY <1>1, <2>1, <2>2 DEF InChain
  <2>3. CASE j \notin 1..Len(s)
    <3> DEFINE h == j - Len(s)
    <3>1. h \in 1..Len(t) /\ Len(s) + h = j
      BY <1>1, <1>2, <2>3
    <3>2. t[h] = x
      BY <1>1, <2>1, <3>1
    <3> QED
      BY <3>1, <3>2 DEF InChain
  <2> QED
    BY <2>2, <2>3
<1> QED
  BY <1>3, <1>4, <1>5 DEF r

LEMMA OnceJoined ==
    ASSUME NEW S, NEW s \in Seq(S), NEW t \in Seq(S), Once(s), Once(t),
           \A i \in 1..Len(s), j \in 1..Len(t) : s[i].key # t[j].key
    PROVE  Once(s \o t)
<1> DEFINE r == s \o t
<1>1. /\ Len(r) = Len(s) + Len(t)
      /\ \A j \in 1..Len(s) : r[j] = s[j]
      /\ \A j \in 1..Len(t) : r[Len(s) + j] = t[j]
  BY Joined
<1>2. Len(s) \in Nat /\ Len(t) \in Nat
  BY LenProperties
<1> HIDE DEF r
<1>3. ASSUME NEW i \in 1..Len(r), i \notin 1..Len(s)
      PROVE  i - Len(s) \in 1..Len(t) /\ r[i] = t[i - Len(s)]
  <2>1. i - Len(s) \in 1..Len(t) /\ Len(s) + (i - Len(s)) = i
    BY <1>1, <1>2, <1>3
  <2> QED
    BY <1>1, <2>1
<1>4. ASSUME NEW i \in 1..Len(r), NEW j \in 1..Len(r), r[i].key = r[j].key
      PROVE  i = j
  <2>1. CASE i \in 1..Len(s) /\ j \in 1..Len(s)
    BY <1>1, <1>4, <2>1 DEF Once
  <2>2. CASE i \in 1..Len(s) /\ j \notin 1..Len(s)
    BY <1>1, <1>3, <1>4, <2>2
  <2>3. CASE i \notin 1..Len(s) /\ j \in 1..Len(s)
    BY <1>1, <1>3, <1>4, <2>3
  <2>4. CASE i \notin 1..Len(s) /\ j \notin 1..Len(s)
    <3> DEFINE a == i - Len(s)
               b == j - Len(s)
    <3>1. a \in 1..Len(t) /\ r[i] = t[a]
      BY <1>3, <2>4
    <3>2. b \in 1..Len(t) /\ r[j] = t[b]
      BY <1>3, <2>4
    <3>3. i = Len(s) + a /\ j = Len(s) + b
      BY <1>1, <1>2
    <3> HIDE DEF a, b
    <3>4. t[a].key = t[b].key
      BY <1>4, <3>1, <3>2
    <3>5. a = b
      BY <3>1, <3>2, <3>4 DEF Once
    <3> QED
      BY <3>3, <3>5
  <2> QED
    BY <2>1, <2>2, <2>3, <2>4
<1> QED
  BY <1>4 DEF r, Once

LEMMA NodeFacts ==
    ASSUME NEW x \in HashNode
    PROVE  /\ x.key \in Keys /\ x.val \in Values /\ x.dup = TRUE
           /\ x.hash = Hash[x.key] /\ x.hash \in Nat
           /\ x = MakeNode(x.key, x.val)
<1>1. PICK k \in Keys, v \in Values : x = MakeNode(k, v)
  BY DEF HashNode
<1>2. Hash[k] \in Nat
  BY SizesAssumption
<1> QED
  BY <1>1, <1>2 DEF MakeNode

LEMMA MakeNodeFacts ==
    ASSUME NEW k \in Keys, NEW v \in Values
    PROVE  /\ MakeNode(k, v) \in HashNode /\ MakeNode(k, v).key = k
           /\ MakeNode(k, v).val = v /\ MakeNode(k, v).hash = Hash[k]
<1>1. MakeNode(k, v) \in HashNode
  BY DEF HashNode
<1> QED
  BY <1>1 DEF MakeNode

LEMMA NodeExcept ==
    ASSUME NEW h, NEW k, NEW w, NEW v
    PROVE  [[hash |-> h, dup |-> TRUE, key |-> k, val |-> w] EXCEPT !.val = v]
              = [hash |-> h, dup |-> TRUE, key |-> k, val |-> v]
<1> DEFINE r == [hash |-> h, dup |-> TRUE, key |-> k, val |-> w]
           m == [hash |-> h, dup |-> TRUE, key |-> k, val |-> v]
           e == [r EXCEPT !.val = v]
<1>1. r \in [hash : {h}, dup : {TRUE}, key : {k}, val : {v, w}]
  OBVIOUS
<1>2. r.hash = h /\ r.dup = TRUE /\ r.key = k
  OBVIOUS
<1> HIDE DEF r
<1>3. e \in [hash : {h}, dup : {TRUE}, key : {k}, val : {v, w}] /\ e.val = v
  BY <1>1
<1> HIDE DEF e
<1>4. e = [hash |-> e.hash, dup |-> e.dup, key |-> e.key, val |-> e.val]
  BY <1>3
<1>5. e.hash = h /\ e.dup = TRUE /\ e.key = k
  BY <1>3
<1>6. e = m
  BY <1>3, <1>4, <1>5
<1> QED
  BY <1>6 DEF e, r

LEMMA ListedSingle ==
    ASSUME NEW x, NEW y
    PROVE  InChain(<<y>>, x) <=> x = y
  BY DEF InChain

LEMMA ListedNode ==
    ASSUME NEW s \in Seq(HashNode), NEW x, InChain(s, x)
    PROVE  x \in HashNode
<1>1. PICK i \in 1..Len(s) : s[i] = x
  BY DEF InChain
<1> QED
  BY <1>1, ElementOfSeq

\* A chain that gets one node more.
LEMMA Appended ==
    ASSUME NEW n, NEW b, NEW c, GoodChain(c, n, b), NEW x \in HashNode, x.hash % n = b,
           \A y \in HashNode : InChain(c, y) => y.key # x.key
    PROVE  /\ GoodChain(Append(c, x), n, b)
           /\ \A y : InChain(Append(c, x), y) <=> InChain(c, y) \/ y = x
<1>1. c \in Seq(HashNode) /\ Len(c) \in Nat
  BY LenProperties DEF GoodChain
<1> DEFINE r == Append(c, x)
<1>2. /\ r \in Seq(HashNode) /\ Len(r) = Len(c) + 1
      /\ \A i \in 1..Len(c) : r[i] = c[i]
      /\ r[Len(c) + 1] = x
  BY <1>1, AppendProperties
<1>3. \A i \in 1..Len(c) : c[i].key # x.key
  BY <1>1, ElementOfSeq DEF InChain
<1> HIDE DEF r
<1>4. ASSUME NEW i \in 1..Len(r) PROVE i \in 1..Len(c) \/ i = Len(c) + 1
  BY <1>1, <1>2
<1>5. Once(r)
  <2> SUFFICES ASSUME NEW i \in 1..Len(r), NEW j \in 1..Len(r), r[i].key = r[j].key
               PROVE  i = j
    BY DEF Once
  <2>1. CASE i \in 1..Len(c) /\ j \in 1..Len(c)
    BY <1>2, <2>1 DEF GoodChain, Once
  <2>2. CASE ~ (i \in 1..Len(c) /\ j \in 1..Len(c))
    BY <1>2, <1>3, <1>4, <2>2
  <2> QED
    BY <2>1, <2>2
<1>6. \A i \in 1..Len(r) : r[i].hash % n = b
  BY <1>2, <1>4 DEF GoodChain
<1>7. ASSUME NEW y PROVE InChain(r, y) <=> InChain(c, y) \/ y = x
  <2>1. ASSUME InChain(c, y) PROVE InChain(r, y)
    BY <1>1, <1>2, <2>1 DEF InChain
  <2>2. InChain(r, x)
    <3>1. Len(c) + 1 \in 1..Len(r)
      BY <1>1, <1>2
    <3> QED
      BY <1>2, <3>1 DEF InChain
  <2>3. ASSUME InChain(r, y) PROVE InChain(c, y) \/ y = x
    BY <1>2, <1>4, <2>3 DEF InChain
  <2> QED
    BY <2>1, <2>2, <2>3
<1> QED
  BY <1>2, <1>5, <1>6, <1>7 DEF GoodChain, r

\* A node of a chain gets another value.
LEMMA Replaced ==
    ASSUME NEW n, NEW b, NEW c, GoodChain(c, n, b), NEW i \in 1..Len(c),
           NEW v \in Values
    PROVE  LET r == [c EXCEPT ![i].val = v]
           IN  /\ GoodChain(r, n, b)
               /\ \A y \in HashNode : InChain(r, y) <=>
                     y = MakeNode(c[i].key, v) \/ (InChain(c, y) /\ y.key # c[i].key)
<1> DEFINE x == MakeNode(c[i].key, v)
           r == [c EXCEPT ![i].val = v]
<1>1. c \in Seq(HashNode) /\ Len(c) \in Nat /\ \A j \in 1..Len(c) : c[j] \in HashNode
  BY LenProperties, ElementOfSeq DEF GoodChain
<1>2. [c[i] EXCEPT !.val = v] = x
  <2>1. c[i] = MakeNode(c[i].key, c[i].val)
    BY <1>1, NodeFacts
  <2>2. ASSUME NEW k, NEW w PROVE [MakeNode(k, w) EXCEPT !.val = v] = MakeNode(k, v)
    <3>1. [[hash |-> Hash[k], dup |-> TRUE, key |-> k, val |-> w] EXCEPT !.val = v]
            = [hash |-> Hash[k], dup |-> TRUE, key |-> k, val |-> v]
      BY NodeExcept
    <3> QED
      BY <3>1 DEF MakeNode
  <2> QED
    BY <2>1, <2>2
<1>3. x \in HashNode /\ x.key = c[i].key /\ x.hash = c[i].hash
  <2>1. c[i].key \in Keys /\ c[i].hash = Hash[c[i].key]
    BY <1>1, NodeFacts
  <2> QED
    BY <2>1, MakeNodeFacts
<1>4. r = [c EXCEPT ![i] = x]
  BY <1>2
<1> HIDE DEF x, r
<1>5. /\ r \in Seq(HashNode) /\ Len(r) = Len(c)
      /\ \A j \in 1..Len(c) : r[j] = IF j = i THEN x ELSE c[j]
  BY <1>1, <1>3, <1>4, ExceptSeq
<1>6. \A j \in 1..Len(r) : r[j].key = c[j].key /\ r[j].hash = c[j].hash
  BY <1>3, <1>5
<1>7. GoodChain(r, n, b)
  BY <1>5, <1>6 DEF GoodChain, Once
<1>8. ASSUME NEW y \in HashNode
      PROVE  InChain(r, y) <=> y = x \/ (InChain(c, y) /\ y.key # c[i].key)
  <2>1. InChain(r, x)
    BY <1>5 DEF InChain
  <2>2. ASSUME InChain(c, y), y.key # c[i].key PROVE InChain(r, y)
    BY <1>5, <2>2 DEF InChain
  <2>3. ASSUME InChain(r, y), y # x PROVE InChain(c, y) /\ y.key # c[i].key
    <3>1. PICK j \in 1..Len(c) : r[j] = y
      BY <1>5, <2>3 DEF InChain
    <3>2. j # i /\ c[j] = y
      BY <1>5, <2>3, <3>1
    <3> QED
      BY <3>2 DEF InChain, GoodChain, Once
  <2> QED
    BY <2>1, <2>2, <2>3
<1> QED
  BY <1>7, <1>8 DEF r, x

LEMMA Slice ==
    ASSUME NEW S, NEW s \in Seq(S), NEW i \in 1..(Len(s) + 1), NEW k \in (i - 1)..Len(s)
    PROVE  /\ SubSeq(s, i, k) \in Seq(S) /\ Len(SubSeq(s, i, k)) = k - i + 1
           /\ \A j \in 1..(k - i + 1) : SubSeq(s, i, k)[j] = s[i + j - 1]
<1>1. Len(s) \in Nat /\ \A j \in 1..Len(s) : s[j] \in S
  BY LenProperties, ElementOfSeq
<1>2. \A j \in i..k : s[j] \in S
  BY <1>1
<1>3. /\ SubSeq(s, i, k) \in Seq(S) /\ Len(SubSeq(s, i, k)) = IF i <= k THEN k - i + 1 ELSE 0
      /\ \A j \in 1..(k - i + 1) : SubSeq(s, i, k)[j] = s[i + j - 1]
  BY <1>1, <1>2, SubSeqProperties
<1> QED
  BY <1>1, <1>3

\* A chain that loses a node.
LEMMA Dropped ==
    ASSUME NEW n, NEW b, NEW c, GoodChain(c, n, b), NEW i \in 1..Len(c)
    PROVE  /\ GoodChain(RemoveAt(c, i), n, b)
           /\ \A y \in HashNode : InChain(RemoveAt(c, i), y) <=> InChain(c, y) /\ y.key # c[i].key
<1> DEFINE f == SubSeq(c, 1, i - 1)
           g == SubSeq(c, i + 1, Len(c))
           r == f \o g
<1>1. c \in Seq(HashNode) /\ Len(c) \in Nat
  BY LenProperties DEF GoodChain
<1>2. f \in Seq(HashNode) /\ Len(f) = i - 1 /\ \A j \in 1..(i - 1) : f[j] = c[j]
  <2>1. 1 \in 1..(Len(c) + 1) /\ i - 1 \in (1 - 1)..Len(c)
    BY <1>1
  <2>2. /\ f \in Seq(HashNode) /\ Len(f) = (i - 1) - 1 + 1
        /\ \A j \in 1..((i - 1) - 1 + 1) : f[j] = c[1 + j - 1]
    BY <1>1, <2>1, Slice
  <2> QED
    BY <2>2
<1>3. g \in Seq(HashNode) /\ Len(g) = Len(c) - i /\ \A j \in 1..(Len(c) - i) : g[j] = c[i + j]
  <2>1. i + 1 \in 1..(Len(c) + 1) /\ Len(c) \in ((i + 1) - 1)..Len(c)
    BY <1>1
  <2>2. /\ g \in Seq(HashNode) /\ Len(g) = Len(c) - (i + 1) + 1
        /\ \A j \in 1..(Len(c) - (i + 1) + 1) : g[j] = c[(i + 1) + j - 1]
    BY <1>1, <2>1, Slice
  <2>3. Len(c) - (i + 1) + 1 = Len(c) - i
    BY <1>1
  <2>4. ASSUME NEW j \in 1..(Len(c) - i) PROVE g[j] = c[i + j]
    <3>1. g[j] = c[(i + 1) + j - 1]
      BY <2>2, <2>3
    <3>2. (i + 1) + j - 1 = i + j
      BY <1>1
    <3> QED
      BY <3>1, <3>2
  <2> HIDE DEF g
  <2> QED
    BY <2>2, <2>3, <2>4
<1>4. RemoveAt(c, i) = r
  BY DEF RemoveAt
<1> HIDE DEF f, g
<1>5. ASSUME NEW j \in 1..Len(f) PROVE j \in 1..Len(c) /\ j # i /\ f[j] = c[j]
  BY <1>1, <1>2
<1>6. ASSUME NEW j \in 1..Len(g)
      PROVE  i + j \in 1..Len(c) /\ i + j # i /\ g[j] = c[i + j]
  BY <1>1, <1>3
<1>7. Once(f)
  BY <1>5 DEF Once, GoodChain
<1>8. Once(g)
  <2> SUFFICES ASSUME NEW j \in 1..Len(g), NEW k \in 1..Len(g), g[j].key = g[k].key
               PROVE  j = k
    BY DEF Once
  <2>1. i + j = i + k
    BY <1>6 DEF Once, GoodChain
  <2>2. j \in Int /\ k \in Int /\ i \in Int
    BY <1>1, <1>3
  <2> QED
    BY <2>1, <2>2
<1>9. ASSUME NEW j \in 1..Len(f), NEW k \in 1..Len(g) PROVE f[j].key # g[k].key
  <2>1. j # i + k
    BY <1>1, <1>2, <1>3
  <2> QED
    BY <1>5, <1>6, <2>1 DEF Once, GoodChain
<1>10. r \in Seq(HashNode) /\ Once(r)
  BY <1>2, <1>3, <1>7, <1>8, <1>9, Joined, OnceJoined
<1>11. \A y : InChain(r, y) <=> InChain(f, y) \/ InChain(g, y)
  BY <1>2, <1>3, ListedJoined
<1> HIDE DEF r
<1>12. ASSUME NEW y PROVE InChain(r, y) <=> InChain(c, y) /\ y.key # c[i].key
  <2>1. ASSUME InChain(f, y) PROVE InChain(c, y) /\ y.key # c[i].key
    BY <1>5, <2>1 DEF InChain, Once, GoodChain
  <2>2. ASSUME InChain(g, y) PROVE InChain(c, y) /\ y.key # c[i].key
    BY <1>6, <2>2 DEF InChain, Once, GoodChain
  <2>3. ASSUME InChain(c, y), y.key # c[i].key PROVE InChain(f, y) \/ InChain(g, y)
    <3>1. PICK j \in 1..Len(c) : c[j] = y
      BY <2>3 DEF InChain
    <3>2. CASE j < i
      <4>1. j \in 1..Len(f) /\ f[j] = y
        BY <1>2, <3>1, <3>2
      <4> QED
        BY <4>1 DEF InChain
    <3>3. CASE j > i
      <4> DEFINE k == j - i
      <4>1. k \in 1..Len(g) /\ i + k = j
        BY <1>1, <1>3, <3>3
      <4>2. g[k] = y
        BY <1>3, <3>1, <4>1
      <4> QED
        BY <4>1, <4>2 DEF InChain
    <3>4. j # i
      BY <2>3, <3>1
    <3> QED
      BY <1>1, <3>2, <3>3, <3>4
  <2> QED
    BY <1>11, <2>1, <2>2, <2>3
<1>13. ASSUME NEW j \in 1..Len(r) PROVE r[j].hash % n = b
  <2>1. InChain(r, r[j])
    BY DEF InChain
  <2>2. PICK k \in 1..Len(c) : c[k] = r[j]
    BY <1>12, <2>1 DEF InChain
  <2> QED
    BY <2>2 DEF GoodChain
<1> QED
  BY <1>4, <1>10, <1>12, <1>13 DEF GoodChain

-----------------------------------------------------------------------------
(* Tables.                                                                  *)

Table(n, c, bs) == [size |-> n, count |-> c, buckets |-> bs]

LEMMA TableFields ==
    ASSUME NEW n, NEW c, NEW bs
    PROVE  /\ Table(n, c, bs).size = n /\ Table(n, c, bs).count = c
           /\ Table(n, c, bs).buckets = bs
  BY DEF Table

LEMMA TableMade ==
    ASSUME NEW n \in Nat \ {0}, NEW c \in Int, NEW bs \in GoodBuckets(n)
    PROVE  Table(n, c, bs) \in Tables
<1>1. Table(n, c, bs) \in [size : {n}, count : Int, buckets : GoodBuckets(n)]
  BY DEF Table
<1> QED
  BY <1>1 DEF Tables

LEMMA TableParts ==
    ASSUME NEW t \in Tables
    PROVE  /\ t.size \in Nat \ {0} /\ t.count \in Int
           /\ t.buckets \in [0..(t.size - 1) -> Seq(HashNode)]
           /\ \A b \in 0..(t.size - 1) : GoodChain(t.buckets[b], t.size, b)
           /\ t = Table(t.size, t.count, t.buckets)
<1>1. PICK n \in Nat \ {0} : t \in [size : {n}, count : Int, buckets : GoodBuckets(n)]
  BY DEF Tables
<1>2. t.size = n /\ t.count \in Int /\ t.buckets \in GoodBuckets(n)
  BY <1>1
<1>3. t = Table(t.size, t.count, t.buckets)
  BY <1>1 DEF Table
<1> QED
  BY <1>2, <1>3 DEF GoodBuckets

\* A table with another chain in bucket b, and with another count as well.
NewChain(t, b, chain) == [t EXCEPT !.buckets[b] = chain]
NewChainCount(t, b, chain, e) == [t EXCEPT !.buckets[b] = chain, !.count = e]
Chains(bs, b, chain) == [bs EXCEPT ![b] = chain]

LEMMA TableExcept ==
    ASSUME NEW n, NEW c, NEW bs, NEW b, NEW chain, NEW e
    PROVE  /\ NewChain(Table(n, c, bs), b, chain) = Table(n, c, Chains(bs, b, chain))
           /\ NewChainCount(Table(n, c, bs), b, chain, e) = Table(n, e, Chains(bs, b, chain))
<1> DEFINE cs == [bs EXCEPT ![b] = chain]
           T == [size : {n}, count : {c, e}, buckets : {bs, cs}]
           r == Table(n, c, bs)
           u == [r EXCEPT !.buckets[b] = chain]
           w == [r EXCEPT !.buckets[b] = chain, !.count = e]
<1>1. r \in T /\ r.size = n /\ r.count = c /\ r.buckets = bs
  BY DEF Table
<1> HIDE DEF r
<1>2. u = [r EXCEPT !.buckets = cs]
  BY <1>1
<1>3. w = [[r EXCEPT !.buckets = cs] EXCEPT !.count = e]
  BY <1>1
<1> HIDE DEF cs, u, w
<1>4. u \in T /\ u.size = n /\ u.count = c /\ u.buckets = cs
  BY <1>1, <1>2
<1>5. w \in T /\ w.size = n /\ w.count = e /\ w.buckets = cs
  BY <1>2, <1>3, <1>4
<1>6. \A x \in T : x = Table(x.size, x.count, x.buckets)
  BY DEF Table
<1>7. u = Table(n, c, cs) /\ w = Table(n, e, cs)
  BY <1>4, <1>5, <1>6
<1> QED
  BY <1>7 DEF r, u, w, cs, NewChain, NewChainCount, Chains

\* A bucket gets another chain.
LEMMA BucketSet ==
    ASSUME NEW t \in Tables, NEW b \in 0..(t.size - 1), NEW chain,
           GoodChain(chain, t.size, b), NEW e \in Int
    PROVE  LET u == Table(t.size, e, [t.buckets EXCEPT ![b] = chain])
           IN  /\ u \in Tables
               /\ \A x \in HashNode : Has(u, x) <=>
                     InChain(chain, x) \/ (Has(t, x) /\ x.hash % t.size # b)
<1> DEFINE n == t.size
           bs == t.buckets
           cs == [bs EXCEPT ![b] = chain]
           u == Table(n, e, cs)
<1>1. /\ n \in Nat \ {0} /\ bs \in [0..(n - 1) -> Seq(HashNode)]
      /\ \A a \in 0..(n - 1) : GoodChain(bs[a], n, a)
  BY TableParts
<1>2. chain \in Seq(HashNode) /\ b \in 0..(n - 1)
  BY DEF GoodChain
<1>3. /\ cs \in [0..(n - 1) -> Seq(HashNode)]
      /\ \A a \in 0..(n - 1) : cs[a] = IF a = b THEN chain ELSE bs[a]
  BY <1>1, <1>2
<1>4. u.size = n /\ u.buckets = cs
  BY TableFields
<1>5. \A x : Has(t, x) <=> \E a \in 0..(n - 1) : InChain(bs[a], x)
  BY DEF Has
<1>6. \A x : Has(u, x) <=> \E a \in 0..(n - 1) : InChain(cs[a], x)
  BY <1>4 DEF Has
<1>7. GoodChain(chain, n, b)
  OBVIOUS
<1> HIDE DEF n, bs, cs, u
<1>8. \A a \in 0..(n - 1) : GoodChain(cs[a], n, a)
  BY <1>1, <1>3, <1>7
<1>9. u \in Tables
  <2>1. cs \in GoodBuckets(n)
    BY <1>3, <1>8 DEF GoodBuckets
  <2> QED
    BY <1>1, <2>1, TableMade DEF u
<1>10. ASSUME NEW a \in 0..(n - 1), NEW x, InChain(bs[a], x) PROVE x.hash % n = a
  BY <1>1, <1>10 DEF GoodChain, InChain
<1>11. ASSUME NEW x \in HashNode
       PROVE  Has(u, x) <=> InChain(chain, x) \/ (Has(t, x) /\ x.hash % n # b)
  <2>1. ASSUME InChain(chain, x) PROVE Has(u, x)
    BY <1>2, <1>3, <1>6, <2>1
  <2>2. ASSUME Has(t, x), x.hash % n # b PROVE Has(u, x)
    <3>1. PICK a \in 0..(n - 1) : InChain(bs[a], x)
      BY <1>5, <2>2
    <3>2. a # b
      BY <1>10, <2>2, <3>1
    <3> QED
      BY <1>3, <1>6, <3>1, <3>2
  <2>3. ASSUME Has(u, x), ~ InChain(chain, x) PROVE Has(t, x) /\ x.hash % n # b
    <3>1. PICK a \in 0..(n - 1) : InChain(cs[a], x)
      BY <1>6, <2>3
    <3>2. a # b /\ InChain(bs[a], x)
      BY <1>3, <2>3, <3>1
    <3> QED
      BY <1>5, <1>10, <3>2
  <2> QED
    BY <2>1, <2>2, <2>3
<1> QED
  BY <1>9, <1>11 DEF u, n, bs, cs

LEMMA Remainder ==
    ASSUME NEW h \in Nat, NEW n \in Nat \ {0}
    PROVE  h % n \in 0..(n - 1)
  OBVIOUS

\* A node is in the bucket its hash leads to, and a key in one node only.
LEMMA HasBucket ==
    ASSUME NEW t \in Tables, NEW x \in HashNode
    PROVE  /\ x.hash % t.size \in 0..(t.size - 1)
           /\ Has(t, x) <=> InChain(t.buckets[x.hash % t.size], x)
<1>1. t.size \in Nat \ {0} /\ \A b \in 0..(t.size - 1) : GoodChain(t.buckets[b], t.size, b)
  BY TableParts
<1>2. x.hash % t.size \in 0..(t.size - 1)
  <2>1. x.hash \in Nat
    BY NodeFacts
  <2> QED
    BY <1>1, <2>1, Remainder
<1>3. ASSUME NEW b \in 0..(t.size - 1), InChain(t.buckets[b], x) PROVE b = x.hash % t.size
  BY <1>1, <1>3 DEF GoodChain, InChain
<1> QED
  BY <1>2, <1>3 DEF Has

LEMMA HasOne ==
    ASSUME NEW t \in Tables, NEW x \in HashNode, NEW y \in HashNode, Has(t, x), Has(t, y),
           x.key = y.key
    PROVE  x = y
<1> DEFINE b == x.hash % t.size
<1>1. y.hash = x.hash
  BY NodeFacts
<1>2. b \in 0..(t.size - 1) /\ InChain(t.buckets[b], x) /\ InChain(t.buckets[b], y)
  BY <1>1, HasBucket
<1>3. Once(t.buckets[b])
  BY <1>2, TableParts DEF GoodChain
<1> QED
  BY <1>2, <1>3 DEF Once, InChain

\* EQU_CHECK finds the node with the key.
LEMMA PositionIs ==
    ASSUME NEW chain \in Seq(HashNode), NEW k
    PROVE  \/ Position(chain, k) = 0 /\ \A x \in HashNode : InChain(chain, x) => x.key # k
           \/ /\ Position(chain, k) \in 1..Len(chain)
              /\ chain[Position(chain, k)].key = k
<1> DEFINE I == {i \in 1..Len(chain) : KeyOf(chain[i]) = k}
<1>1. \A i \in 1..Len(chain) : KeyOf(chain[i]) = chain[i].key
  BY ElementOfSeq, NodeFacts DEF KeyOf
<1>2. Position(chain, k) = IF I # {} THEN Min(I) ELSE 0
  BY DEF Position, SelectInSeq
<1>3. CASE I = {}
  BY <1>1, <1>2, <1>3 DEF InChain
<1>4. CASE I # {}
  <2>1. Min(I) \in I
    <3> DEFINE S == {i \in 1..Len(chain) : i \in I}
    <3>1. Len(chain) \in Nat
      BY LenProperties
    <3>2. \E i \in I : \A j \in I : i <= j
      <4> DEFINE R == OpToRel(<, Nat)
      <4>1. I \subseteq Nat
        BY <3>1
      <4>2. PICK i \in I : \A j \in I : <<j, i>> \notin R
        BY <1>4, <4>1, NatLessThanWellFounded, WFMin
      <4>3. ASSUME NEW j \in I PROVE i <= j
        <5>1. i \in Nat /\ j \in Nat
          BY <4>1
        <5>2. <<j, i>> \notin R
          BY <4>2
        <5>3. ~ (j < i)
          BY <5>1, <5>2 DEF OpToRel
        <5> QED
          BY <5>1, <5>3
      <4> QED
        BY <4>3
    <3> QED
      BY <3>2 DEF Min
  <2> QED
    BY <1>1, <1>2, <1>4, <2>1
<1> QED
  BY <1>3, <1>4

-----------------------------------------------------------------------------
(* hst_for_each comes to every node once.                                   *)

\* What Nodes builds, bucket by bucket.
Chained(t, f) ==
    /\ f \in [0..t.size -> Seq(HashNode)]
    /\ f[0] = <<>> /\ \A b \in 1..t.size : f[b] = f[b - 1] \o t.buckets[b - 1]

LEMMA NodesAre ==
    ASSUME NEW t \in Tables
    PROVE  \E f : Chained(t, f) /\ Nodes(t) = f[t.size]
<1> DEFINE n == t.size
           bs == t.buckets
<1>1. n \in Nat \ {0} /\ bs \in [0..(n - 1) -> Seq(HashNode)]
  BY TableParts
<1> DEFINE step == [p \in Nat \X Seq(HashNode) |->
                       IF p[1] \in 1..n THEN p[2] \o bs[p[1] - 1] ELSE p[2]]
           IsUpto(f) == f = [b \in 0..n |-> IF b = 0 THEN <<>> ELSE f[b - 1] \o bs[b - 1]]
           upto == CHOOSE f : IsUpto(f)
<1>2. Nodes(t) = upto[n]
  BY DEF Nodes
<1> HIDE DEF n, bs
<1>3. step \in [Nat \X Seq(HashNode) -> Seq(HashNode)]
  <2> SUFFICES ASSUME NEW p \in Nat \X Seq(HashNode)
               PROVE  (IF p[1] \in 1..n THEN p[2] \o bs[p[1] - 1] ELSE p[2]) \in Seq(HashNode)
    OBVIOUS
  <2>1. p[2] \in Seq(HashNode)
    OBVIOUS
  <2>2. ASSUME p[1] \in 1..n PROVE p[2] \o bs[p[1] - 1] \in Seq(HashNode)
    <3>1. p[1] - 1 \in 0..(n - 1)
      BY <1>1, <2>2
    <3>2. bs[p[1] - 1] \in Seq(HashNode)
      BY <1>1, <3>1
    <3> QED
      BY <2>1, <3>2, Joined
  <2> QED
    BY <2>1, <2>2
<1>4. ASSUME NEW i \in 1..n, NEW s \in Seq(HashNode) PROVE step[<<i, s>>] = s \o bs[i - 1]
  <2>1. i \in Nat
    BY <1>1
  <2>2. <<i, s>> \in Nat \X Seq(HashNode) /\ <<i, s>>[1] = i /\ <<i, s>>[2] = s
    BY <2>1
  <2> QED
    BY <2>2
<1> HIDE DEF step
<1>5. PICK g \in [0..n -> Seq(HashNode)] : Run(g, n, <<>>, step)
  <2>1. <<>> \in Seq(HashNode) /\ n \in Nat
    BY <1>1
  <2> QED
    BY <1>3, <2>1, RunExists
<1>6. IsUpto(g)
  <2> DEFINE h == [b \in 0..n |-> IF b = 0 THEN <<>> ELSE g[b - 1] \o bs[b - 1]]
  <2>1. g[0] = h[0]
    BY <1>1, <1>5 DEF Run
  <2>2. ASSUME NEW b \in 1..n PROVE g[b] = h[b]
    <3>1. b - 1 \in 0..n /\ b # 0 /\ b \in 0..n
      BY <1>1
    <3>2. g[b] = step[<<b, g[b - 1]>>] /\ g[b - 1] \in Seq(HashNode)
      BY <1>5, <3>1 DEF Run
    <3> QED
      BY <1>4, <3>1, <3>2
  <2>3. \A b \in 0..n : g[b] = h[b]
    <3>1. \A b \in 0..n : b = 0 \/ b \in 1..n
      BY <1>1
    <3> QED
      BY <2>1, <2>2, <3>1
  <2>4. g = [b \in 0..n |-> g[b]] /\ h = [b \in 0..n |-> h[b]]
    OBVIOUS
  <2> HIDE DEF h
  <2>5. g = h
    BY <2>3, <2>4
  <2> QED
    BY <2>5 DEF h
<1>7. IsUpto(upto)
  BY <1>6
<1> HIDE DEF upto
<1>8. upto[0] = <<>> /\ \A b \in 1..n : upto[b] = upto[b - 1] \o bs[b - 1]
  <2>1. \A b \in 0..n : upto[b] = IF b = 0 THEN <<>> ELSE upto[b - 1] \o bs[b - 1]
    BY <1>7
  <2>2. 0 \in 0..n /\ \A b \in 1..n : b \in 0..n /\ b # 0
    BY <1>1
  <2> QED
    BY <2>1, <2>2
<1>9. \A b \in 0..n : upto[b] \in Seq(HashNode)
  <2> DEFINE S == {b \in Nat : b \in 0..n => upto[b] \in Seq(HashNode)}
  <2>1. 0 \in S
    <3>1. upto[0] \in Seq(HashNode)
      BY <1>8
    <3> QED
      BY <3>1
  <2>2. ASSUME NEW b \in S PROVE b + 1 \in S
    <3>1. CASE b + 1 \notin 0..n
      BY <3>1
    <3>2. CASE b + 1 \in 0..n
      <4>1. b \in 0..n /\ b + 1 \in 1..n /\ (b + 1) - 1 = b /\ b \in 0..(n - 1)
        BY <1>1, <3>2
      <4>2. upto[b + 1] = upto[b] \o bs[b] /\ upto[b] \in Seq(HashNode) /\ bs[b] \in Seq(HashNode)
        BY <1>1, <1>8, <4>1
      <4>3. upto[b + 1] \in Seq(HashNode)
        BY <4>2, Joined
      <4> QED
        BY <4>3
    <3> QED
      BY <3>1, <3>2
  <2> HIDE DEF S
  <2>3. S \in SUBSET Nat
    BY DEF S
  <2>4. S = Nat
    BY <2>1, <2>2, <2>3, Induction
  <2>5. \A b \in 0..n : b \in S
    BY <1>1, <2>4
  <2> QED
    BY <2>5 DEF S
<1>10. upto \in [0..n -> Seq(HashNode)]
  <2>1. upto = [b \in 0..n |-> upto[b]]
    BY <1>7
  <2> QED
    BY <1>9, <2>1
<1>11. Chained(t, upto)
  BY <1>8, <1>10 DEF Chained, n, bs
<1> QED
  BY <1>2, <1>11 DEF n

\* The nodes of the buckets before b.
Before(t, b, x) == \E a \in 0..(b - 1) : InChain(t.buckets[a], x)

\* s holds the nodes of the buckets before b, each once.
Collected(t, b, s) ==
    s \in Seq(HashNode) /\ Once(s) /\ \A x \in HashNode : InChain(s, x) <=> Before(t, b, x)

LEMMA CollectNext ==
    ASSUME NEW t \in Tables, NEW b \in 0..(t.size - 1), NEW s, Collected(t, b, s)
    PROVE  Collected(t, b + 1, s \o t.buckets[b])
<1> DEFINE c == t.buckets[b]
<1>1. t.size \in Nat \ {0} /\ GoodChain(c, t.size, b) /\ b \in Nat
  BY TableParts
<1>2. ASSUME NEW a \in 0..(t.size - 1), NEW x, InChain(t.buckets[a], x)
      PROVE  x \in HashNode /\ x.hash % t.size = a
  <2>1. GoodChain(t.buckets[a], t.size, a)
    BY TableParts
  <2> QED
    BY <1>2, <2>1, ListedNode DEF GoodChain, InChain
<1>3. c \in Seq(HashNode) /\ Once(c) /\ s \in Seq(HashNode) /\ Once(s)
  BY <1>1 DEF GoodChain, Collected
<1>4. ASSUME NEW i \in 1..Len(s), NEW j \in 1..Len(c) PROVE s[i].key # c[j].key
  <2>1. s[i] \in HashNode /\ c[j] \in HashNode /\ InChain(s, s[i]) /\ InChain(c, c[j])
    BY <1>3, ElementOfSeq DEF InChain
  <2>2. PICK a \in 0..(b - 1) : InChain(t.buckets[a], s[i])
    BY <2>1 DEF Collected, Before
  <2>3. a \in 0..(t.size - 1) /\ a # b
    BY <1>1
  <2>4. s[i].hash % t.size = a /\ c[j].hash % t.size = b
    BY <1>2, <2>1, <2>2, <2>3
  <2> QED
    BY <2>1, <2>3, <2>4, NodeFacts
<1>5. s \o c \in Seq(HashNode) /\ Once(s \o c)
  BY <1>3, <1>4, Joined, OnceJoined
<1>6. \A x : InChain(s \o c, x) <=> InChain(s, x) \/ InChain(c, x)
  BY <1>3, ListedJoined
<1>7. ASSUME NEW x \in HashNode PROVE Before(t, b + 1, x) <=> Before(t, b, x) \/ InChain(c, x)
  <2>1. \A a : a \in 0..((b + 1) - 1) <=> a \in 0..(b - 1) \/ a = b
    BY <1>1
  <2> QED
    BY <2>1 DEF Before
<1> QED
  BY <1>5, <1>6, <1>7 DEF Collected

LEMMA NodesFacts ==
    ASSUME NEW t \in Tables
    PROVE  /\ Nodes(t) \in Seq(HashNode) /\ Once(Nodes(t))
           /\ \A x \in HashNode : InChain(Nodes(t), x) <=> Has(t, x)
<1>1. PICK f : Chained(t, f) /\ Nodes(t) = f[t.size]
  BY NodesAre
<1>2. t.size \in Nat \ {0}
  BY TableParts
<1> DEFINE S == {b \in Nat : b \in 0..t.size => Collected(t, b, f[b])}
<1>3. 0 \in S
  <2>1. f[0] = <<>>
    BY <1>1 DEF Chained
  <2>2. Collected(t, 0, <<>>)
    BY DEF Collected, Once, InChain, Before
  <2> QED
    BY <2>1, <2>2
<1>4. ASSUME NEW b \in S PROVE b + 1 \in S
  <2>1. CASE b + 1 \notin 0..t.size
    BY <2>1
  <2>2. CASE b + 1 \in 0..t.size
    <3>1. b \in 0..t.size /\ b \in 0..(t.size - 1) /\ b + 1 \in 1..t.size /\ (b + 1) - 1 = b
      BY <1>2, <2>2
    <3>2. f[b + 1] = f[b] \o t.buckets[b]
      BY <1>1, <3>1 DEF Chained
    <3>3. Collected(t, b, f[b])
      BY <3>1
    <3>4. Collected(t, b + 1, f[b + 1])
      BY <3>1, <3>2, <3>3, CollectNext
    <3> QED
      BY <3>4
  <2> QED
    BY <2>1, <2>2
<1> HIDE DEF S
<1>5. S \in SUBSET Nat
  BY DEF S
<1>6. t.size \in S
  BY <1>2, <1>3, <1>4, <1>5, Induction
<1>7. Collected(t, t.size, Nodes(t))
  BY <1>1, <1>2, <1>6 DEF S
<1> QED
  BY <1>7 DEF Collected, Before, Has

-----------------------------------------------------------------------------
(* hst_resize.                                                              *)

\* A node whose key is new goes to the end of its chain.
LEMMA EntryAdded ==
    ASSUME NEW t \in Tables, NEW x \in HashNode, NEW e \in Int,
           \A y \in HashNode : Has(t, y) => y.key # x.key
    PROVE  LET b == x.hash % t.size
               u == Table(t.size, e, [t.buckets EXCEPT ![b] = Append(@, x)])
           IN  u \in Tables /\ \A y \in HashNode : Has(u, y) <=> Has(t, y) \/ y = x
<1> DEFINE b == x.hash % t.size
           c == t.buckets[b]
           r == Append(c, x)
           u == Table(t.size, e, [t.buckets EXCEPT ![b] = r])
<1>1. b \in 0..(t.size - 1)
  BY HasBucket
<1>2. GoodChain(c, t.size, b)
  BY <1>1, TableParts
<1>3. \A y \in HashNode : InChain(c, y) => y.key # x.key
  BY <1>1 DEF Has
<1>4. GoodChain(r, t.size, b) /\ \A y : InChain(r, y) <=> InChain(c, y) \/ y = x
  BY <1>2, <1>3, Appended
<1>5. \A y \in HashNode : y.hash % t.size = b => (Has(t, y) <=> InChain(c, y))
  BY HasBucket
<1>6. \A y \in HashNode : InChain(c, y) => Has(t, y)
  BY <1>1 DEF Has
<1> HIDE DEF b, r
<1>7. /\ u \in Tables
      /\ \A y \in HashNode : Has(u, y) <=> InChain(r, y) \/ (Has(t, y) /\ y.hash % t.size # b)
  BY <1>1, <1>4, BucketSet
<1> HIDE DEF u, c
<1>8. \A y \in HashNode : Has(u, y) <=> Has(t, y) \/ y = x
  <2> SUFFICES ASSUME NEW y \in HashNode PROVE Has(u, y) <=> Has(t, y) \/ y = x
    OBVIOUS
  <2>1. Has(u, y) <=> InChain(r, y) \/ (Has(t, y) /\ y.hash % t.size # b)
    BY <1>7
  <2>2. InChain(r, y) <=> InChain(c, y) \/ y = x
    BY <1>4
  <2>3. (y.hash % t.size = b => (Has(t, y) <=> InChain(c, y))) /\ (InChain(c, y) => Has(t, y))
    BY <1>5, <1>6
  <2> QED
    BY ONLY <2>1, <2>2, <2>3
<1> QED
  BY <1>7, <1>8 DEF u, b, c, r

\* Where the nodes of t are when hst_resize has moved i of them to n buckets.
NodesMoved(t, n, f) ==
    LET chained == Nodes(t)
    IN  /\ f \in [0..Len(chained) -> [0..(n - 1) -> Seq(HashNode)]]
        /\ f[0] = [b \in 0..(n - 1) |-> <<>>]
        /\ \A i \in 1..Len(chained) :
              f[i] = [f[i - 1] EXCEPT ![chained[i].hash % n] = Append(@, chained[i])]

NewSize(t) == IF t.size > 1000 THEN t.size + 1000 ELSE 2 * t.size

LEMMA MovedExists ==
    ASSUME NEW t \in Tables
    PROVE  \E f : /\ NodesMoved(t, NewSize(t), f)
                  /\ Resized(t) = [t EXCEPT !.size = NewSize(t), !.buckets = f[Len(Nodes(t))]]
<1> DEFINE n == NewSize(t)
           chained == Nodes(t)
           X == [0..(n - 1) -> Seq(HashNode)]
           base == [b \in 0..(n - 1) |-> <<>>]
           Next1(m, i) == [m EXCEPT ![chained[i].hash % n] = Append(@, chained[i])]
           IsMoved(f) == f = [i \in 0..Len(chained) |-> IF i = 0 THEN base ELSE Next1(f[i - 1], i)]
           moved == CHOOSE f : IsMoved(f)
<1>1. Resized(t) = [t EXCEPT !.size = n, !.buckets = moved[Len(chained)]]
  BY DEF Resized, NewSize
<1>2. n \in Nat \ {0}
  BY TableParts DEF NewSize
<1>3. chained \in Seq(HashNode) /\ Len(chained) \in Nat
  BY NodesFacts, LenProperties
<1> HIDE DEF n, chained
<1>4. base \in X
  OBVIOUS
<1>5. ASSUME NEW m \in X, NEW i \in 1..Len(chained) PROVE Next1(m, i) \in X
  <2> DEFINE b == chained[i].hash % n
  <2>1. chained[i] \in HashNode /\ chained[i].hash \in Nat
    BY <1>3, ElementOfSeq, NodeFacts
  <2>2. b \in 0..(n - 1)
    BY <1>2, <2>1, Remainder
  <2>3. Append(m[b], chained[i]) \in Seq(HashNode)
    BY <2>1, <2>2, AppendProperties
  <2> HIDE DEF b
  <2>4. [m EXCEPT ![b] = Append(m[b], chained[i])] \in X
    BY <2>2, <2>3
  <2> QED
    BY <2>4 DEF b
<1> HIDE DEF base
<1> DEFINE step == [p \in Nat \X X |-> IF p[1] \in 1..Len(chained) THEN Next1(p[2], p[1]) ELSE p[2]]
<1> HIDE DEF Next1, X
<1>6. step \in [Nat \X X -> X]
  BY <1>5
<1>7. ASSUME NEW i \in 1..Len(chained), NEW m \in X PROVE step[<<i, m>>] = Next1(m, i)
  <2>1. i \in Nat
    BY <1>3
  <2>2. <<i, m>> \in Nat \X X /\ <<i, m>>[1] = i /\ <<i, m>>[2] = m
    BY <2>1
  <2> QED
    BY <2>2
<1> HIDE DEF step
<1>8. PICK g \in [0..Len(chained) -> X] : Run(g, Len(chained), base, step)
  BY <1>3, <1>4, <1>6, RunExists
<1>9. IsMoved(g)
  <2> DEFINE h == [i \in 0..Len(chained) |-> IF i = 0 THEN base ELSE Next1(g[i - 1], i)]
  <2>1. g[0] = h[0]
    BY <1>3, <1>8 DEF Run
  <2>2. ASSUME NEW i \in 1..Len(chained) PROVE g[i] = h[i]
    <3>1. i - 1 \in 0..Len(chained) /\ i # 0 /\ i \in 0..Len(chained)
      BY <1>3
    <3>2. g[i] = step[<<i, g[i - 1]>>] /\ g[i - 1] \in X
      BY <1>8, <3>1 DEF Run
    <3> QED
      BY <1>7, <3>1, <3>2
  <2>3. \A i \in 0..Len(chained) : g[i] = h[i]
    <3>1. \A i \in 0..Len(chained) : i = 0 \/ i \in 1..Len(chained)
      BY <1>3
    <3> QED
      BY <2>1, <2>2, <3>1
  <2>4. g = [i \in 0..Len(chained) |-> g[i]] /\ h = [i \in 0..Len(chained) |-> h[i]]
    OBVIOUS
  <2> HIDE DEF h
  <2>5. g = h
    BY <2>3, <2>4
  <2> QED
    BY <2>5 DEF h
<1>10. IsMoved(moved)
  BY <1>9
<1> HIDE DEF moved
<1>11. moved[0] = base /\ \A i \in 1..Len(chained) : moved[i] = Next1(moved[i - 1], i)
  <2>1. \A i \in 0..Len(chained) : moved[i] = IF i = 0 THEN base ELSE Next1(moved[i - 1], i)
    BY <1>10
  <2>2. 0 \in 0..Len(chained) /\ \A i \in 1..Len(chained) : i \in 0..Len(chained) /\ i # 0
    BY <1>3
  <2> QED
    BY <2>1, <2>2
<1>12. \A i \in 0..Len(chained) : moved[i] \in X
  <2> DEFINE S == {i \in Nat : i \in 0..Len(chained) => moved[i] \in X}
  <2>1. 0 \in S
    BY <1>4, <1>11
  <2>2. ASSUME NEW i \in S PROVE i + 1 \in S
    <3>1. CASE i + 1 \notin 0..Len(chained)
      BY <3>1
    <3>2. CASE i + 1 \in 0..Len(chained)
      <4>1. i \in 0..Len(chained) /\ i + 1 \in 1..Len(chained) /\ (i + 1) - 1 = i
        BY <1>3, <3>2
      <4>2. moved[i + 1] = Next1(moved[i], i + 1) /\ moved[i] \in X
        BY <1>11, <4>1
      <4>3. moved[i + 1] \in X
        BY <1>5, <4>1, <4>2
      <4> QED
        BY <4>3
    <3> QED
      BY <3>1, <3>2
  <2> HIDE DEF S
  <2>3. S \in SUBSET Nat
    BY DEF S
  <2>4. S = Nat
    BY <2>1, <2>2, <2>3, Induction
  <2>5. \A i \in 0..Len(chained) : i \in S
    BY <1>3, <2>4
  <2> QED
    BY <2>5 DEF S
<1>13. moved \in [0..Len(chained) -> X]
  <2>1. moved = [i \in 0..Len(chained) |-> moved[i]]
    BY <1>10
  <2> QED
    BY <1>12, <2>1
<1>14. NodesMoved(t, n, moved)
  BY <1>11, <1>13 DEF NodesMoved, X, base, chained, Next1
<1> QED
  BY <1>1, <1>14 DEF n, chained

LEMMA ResizedIs ==
    ASSUME NEW t \in Tables
    PROVE  /\ Resized(t) \in Tables
           /\ \A x \in HashNode : Has(Resized(t), x) <=> Has(t, x)
<1> DEFINE n == NewSize(t)
           chained == Nodes(t)
<1>1. PICK f : /\ NodesMoved(t, n, f)
               /\ Resized(t) = [t EXCEPT !.size = n, !.buckets = f[Len(chained)]]
  BY MovedExists
<1>2. n \in Nat \ {0} /\ t.count \in Int
  BY TableParts DEF NewSize
<1>3. /\ chained \in Seq(HashNode) /\ Len(chained) \in Nat /\ Once(chained)
      /\ \A x \in HashNode : InChain(chained, x) <=> Has(t, x)
  BY NodesFacts, LenProperties
<1>4. Resized(t) = Table(n, t.count, f[Len(chained)])
  <2> DEFINE bs == f[Len(chained)]
             T == [size : {t.size, n}, count : {t.count}, buckets : {t.buckets, bs}]
             r == [t EXCEPT !.size = n, !.buckets = bs]
  <2>1. t \in T
    <3>1. t = Table(t.size, t.count, t.buckets)
      BY TableParts
    <3>2. Table(t.size, t.count, t.buckets) \in T
      BY DEF Table
    <3> QED
      BY <3>1, <3>2
  <2> HIDE DEF n, bs
  <2>2. r \in T /\ r.size = n /\ r.count = t.count /\ r.buckets = bs
    BY <2>1
  <2> HIDE DEF r
  <2>3. r = [size |-> r.size, count |-> r.count, buckets |-> r.buckets]
    BY <2>2
  <2>4. r = Table(n, t.count, bs)
    BY <2>2, <2>3 DEF Table
  <2> QED
    BY <1>1, <2>4 DEF r, n, bs
<1> DEFINE u(i) == Table(n, t.count, f[i])
           Good(i) == /\ u(i) \in Tables
                      /\ \A x \in HashNode : Has(u(i), x) <=> \E j \in 1..i : chained[j] = x
           S == {i \in Nat : i \in 0..Len(chained) => Good(i)}
<1>5. NodesMoved(t, n, f)
  BY <1>1
<1> HIDE DEF n
<1>6. 0 \in S
  <2> DEFINE bs == [b \in 0..(n - 1) |-> <<>>]
  <2>1. f[0] = bs
    BY <1>5 DEF NodesMoved
  <2>2. \A b \in 0..(n - 1) : bs[b] = <<>>
    OBVIOUS
  <2>3. bs \in [0..(n - 1) -> Seq(HashNode)]
    OBVIOUS
  <2> HIDE DEF bs
  <2>4. \A b \in 0..(n - 1) : GoodChain(<<>>, n, b)
    BY DEF GoodChain, Once
  <2>5. bs \in GoodBuckets(n)
    BY <2>2, <2>3, <2>4 DEF GoodBuckets
  <2>6. u(0) \in Tables
    BY <1>2, <2>1, <2>5, TableMade
  <2>7. \A x \in HashNode : ~ Has(u(0), x)
    <3>1. u(0).size = n /\ u(0).buckets = bs
      BY <2>1, TableFields
    <3>2. \A x : ~ InChain(<<>>, x)
      BY DEF InChain
    <3> QED
      BY <2>2, <3>1, <3>2 DEF Has
  <2>8. Good(0)
    BY <2>6, <2>7
  <2> QED
    BY <2>8
<1>7. ASSUME NEW i \in S PROVE i + 1 \in S
  <2>1. CASE i + 1 \notin 0..Len(chained)
    BY <2>1
  <2>2. CASE i + 1 \in 0..Len(chained)
    <3> DEFINE x == chained[i + 1]
               b == x.hash % n
    <3>1. i \in Nat /\ i \in 0..Len(chained) /\ i + 1 \in 1..Len(chained) /\ (i + 1) - 1 = i
      BY <1>3, <2>2
    <3>2. Good(i)
      BY <3>1
    <3>3. f[i + 1] = [f[i] EXCEPT ![b] = Append(@, x)]
      BY <1>5, <3>1 DEF NodesMoved
    <3>4. x \in HashNode
      BY <1>3, <3>1, ElementOfSeq
    <3>5. \A y \in HashNode : Has(u(i), y) => y.key # x.key
      <4> SUFFICES ASSUME NEW y \in HashNode, Has(u(i), y) PROVE y.key # x.key
        OBVIOUS
      <4>1. PICK j \in 1..i : chained[j] = y
        BY <3>2
      <4>2. j \in 1..Len(chained) /\ j # i + 1
        BY <3>1
      <4> QED
        BY <1>3, <3>1, <4>1, <4>2 DEF Once
    <3>6. u(i).size = n /\ u(i).buckets = f[i] /\ u(i + 1) = Table(n, t.count, f[i + 1])
      BY TableFields
    <3> HIDE DEF u, x
    <3>7. /\ u(i + 1) \in Tables
          /\ \A y \in HashNode : Has(u(i + 1), y) <=> Has(u(i), y) \/ y = x
      <4> DEFINE w == u(i)
                 z == u(i + 1)
                 e == t.count
      <4>1. z = Table(w.size, e, [w.buckets EXCEPT ![x.hash % w.size] = Append(@, x)])
        BY <3>3, <3>6
      <4>2. w \in Tables /\ e \in Int /\ \A y \in HashNode : Has(w, y) => y.key # x.key
        BY <1>2, <3>2, <3>5
      <4> HIDE DEF w, z, e
      <4>3. z \in Tables /\ \A y \in HashNode : Has(z, y) <=> Has(w, y) \/ y = x
        BY ONLY SMTT(30), <3>4, <4>1, <4>2, EntryAdded
      <4> QED
        BY <4>3 DEF w, z
    <3>8. \A y \in HashNode : (\E j \in 1..(i + 1) : chained[j] = y)
                             <=> (\E j \in 1..i : chained[j] = y) \/ y = x
      <4>1. \A j : j \in 1..(i + 1) <=> j \in 1..i \/ j = i + 1
        BY <3>1
      <4> QED
        BY <4>1 DEF x
    <3>9. Good(i + 1)
      BY <3>2, <3>7, <3>8
    <3> QED
      BY <3>9
  <2> QED
    BY <2>1, <2>2
<1> HIDE DEF S, u
<1>8. S \in SUBSET Nat
  BY DEF S
<1>9. Len(chained) \in S
  BY <1>3, <1>6, <1>7, <1>8, Induction
<1>10. Good(Len(chained))
  BY <1>3, <1>9 DEF S
<1>11. Resized(t) = u(Len(chained))
  BY <1>4 DEF u
<1>12. \A x \in HashNode : Has(u(Len(chained)), x) <=> InChain(chained, x)
  BY <1>10 DEF InChain
<1> QED
  BY <1>3, <1>10, <1>11, <1>12

LEMMA GrownIs ==
    ASSUME NEW t \in Tables
    PROVE  /\ Grown(t) \in Tables
           /\ \A x \in HashNode : Has(Grown(t), x) <=> Has(t, x)
<1>1. Grown(t) = t \/ Grown(t) = Resized(t)
  BY DEF Grown
<1> QED
  BY <1>1, ResizedIs

-----------------------------------------------------------------------------
(* hst_put, hst_get, hst_remove_key, hst_add_all_from.                      *)

\* The key k is in no node of the chain it belongs to.
LEMMA KeyAbsent ==
    ASSUME NEW t \in Tables, NEW k \in Keys,
           \A x \in HashNode : InChain(t.buckets[Bucket(t, k)], x) => x.key # k
    PROVE  \A x \in HashNode : Has(t, x) => x.key # k
<1> SUFFICES ASSUME NEW x \in HashNode, Has(t, x), x.key = k PROVE FALSE
  OBVIOUS
<1>1. InChain(t.buckets[x.hash % t.size], x)
  BY HasBucket
<1>2. x.hash % t.size = Bucket(t, k)
  BY NodeFacts DEF Bucket
<1> QED
  BY <1>1, <1>2

LEMMA BucketIn ==
    ASSUME NEW t \in Tables, NEW k \in Keys
    PROVE  /\ Bucket(t, k) \in 0..(t.size - 1)
           /\ GoodChain(t.buckets[Bucket(t, k)], t.size, Bucket(t, k))
<1>1. t.size \in Nat \ {0} /\ Hash[k] \in Nat
  BY TableParts, SizesAssumption
<1>2. Bucket(t, k) \in 0..(t.size - 1)
  BY <1>1, Remainder DEF Bucket
<1> QED
  BY <1>2, TableParts

LEMMA PutIs ==
    ASSUME NEW t \in Tables, NEW k \in Keys, NEW v \in Values
    PROVE  LET u == WithEntry(t, k, v)
           IN  /\ u \in Tables
               /\ \A x \in HashNode : Has(u, x) <=> x = MakeNode(k, v) \/ (Has(t, x) /\ x.key # k)
<1> DEFINE g == Grown(t)
           b == Bucket(g, k)
           c == g.buckets[b]
           i == Position(c, k)
           n == MakeNode(k, v)
           u == WithEntry(t, k, v)
<1>1. g \in Tables /\ \A x \in HashNode : Has(g, x) <=> Has(t, x)
  BY GrownIs
<1> HIDE DEF g
<1>2. b \in 0..(g.size - 1) /\ GoodChain(c, g.size, b)
  BY <1>1, BucketIn
<1>3. n \in HashNode /\ n.key = k /\ n.val = v /\ n.hash % g.size = b
  BY MakeNodeFacts DEF Bucket
<1>4. g.count \in Int /\ g.count + 1 \in Int /\ g = Table(g.size, g.count, g.buckets)
  BY <1>1, TableParts
<1>5. u = IF i # 0 THEN [g EXCEPT !.buckets[b][i].val = v]
          ELSE [g EXCEPT !.buckets[b] = Append(@, n), !.count = @ + 1]
  BY DEF WithEntry, g
<1>6. c \in Seq(HashNode)
  BY <1>2 DEF GoodChain
<1> HIDE DEF b, n, u
<1>7. CASE i = 0
  <2>1. \A x \in HashNode : InChain(c, x) => x.key # k
    <3>1. ~ (i \in 1..Len(c))
      BY <1>7
    <3> QED
      BY <1>6, <3>1, PositionIs
  <2>2. \A x \in HashNode : Has(g, x) => x.key # n.key
    BY <1>1, <1>3, <2>1, KeyAbsent DEF b
  <2> DEFINE w == Table(g.size, g.count + 1, [g.buckets EXCEPT ![b] = Append(c, n)])
  <2>3. u = w
    <3> DEFINE ch == Append(c, n)
               e == g.count + 1
    <3>1. u = [g EXCEPT !.buckets[b] = ch, !.count = e]
      BY <1>5, <1>7
    <3> HIDE DEF ch, e
    <3>2. NewChainCount(Table(g.size, g.count, g.buckets), b, ch, e)
             = Table(g.size, e, Chains(g.buckets, b, ch))
      BY ONLY TableExcept
    <3>3. u = NewChainCount(g, b, ch, e)
      BY <3>1 DEF NewChainCount
    <3>4. u = Table(g.size, e, Chains(g.buckets, b, ch))
      BY ONLY <1>4, <3>2, <3>3
    <3> QED
      BY ONLY <3>4 DEF ch, e, Chains
  <2>4. w \in Tables /\ \A x \in HashNode : Has(w, x) <=> Has(g, x) \/ x = n
    <3> DEFINE e == g.count + 1
    <3>1. w = Table(g.size, e, [g.buckets EXCEPT ![n.hash % g.size] = Append(@, n)])
      BY <1>3
    <3>2. g \in Tables /\ n \in HashNode /\ e \in Int
      BY <1>1, <1>3, <1>4
    <3> HIDE DEF w, e
    <3> QED
      BY ONLY <2>2, <3>1, <3>2, EntryAdded
  <2> HIDE DEF w
  <2> QED
    BY <1>1, <1>3, <2>2, <2>3, <2>4 DEF u, n
<1>8. CASE i # 0
  <2>1. i \in 1..Len(c) /\ c[i].key = k
    BY <1>6, <1>8, PositionIs
  <2> DEFINE r == [c EXCEPT ![i].val = v]
             w == Table(g.size, g.count, [g.buckets EXCEPT ![b] = r])
  <2>2. u = w
    <3>1. u = [g EXCEPT !.buckets[b] = r]
      BY <1>5, <1>8
    <3> HIDE DEF r
    <3>2. NewChain(Table(g.size, g.count, g.buckets), b, r)
             = Table(g.size, g.count, Chains(g.buckets, b, r))
      BY ONLY TableExcept
    <3>3. u = NewChain(g, b, r)
      BY <3>1 DEF NewChain
    <3>4. u = Table(g.size, g.count, Chains(g.buckets, b, r))
      BY ONLY <1>4, <3>2, <3>3
    <3> QED
      BY ONLY <3>4 DEF Chains
  <2>3. /\ GoodChain(r, g.size, b)
        /\ \A x \in HashNode : InChain(r, x) <=> x = n \/ (InChain(c, x) /\ x.key # k)
    BY <1>2, <2>1, Replaced DEF n
  <2> HIDE DEF r
  <2>4. /\ w \in Tables
        /\ \A x \in HashNode : Has(w, x) <=> InChain(r, x) \/ (Has(g, x) /\ x.hash % g.size # b)
    BY <1>1, <1>2, <1>4, <2>3, BucketSet
  <2> HIDE DEF w
  <2>5. ASSUME NEW x \in HashNode
        PROVE  Has(w, x) <=> x = n \/ (Has(g, x) /\ x.key # k)
    <3>1. Has(w, x) <=> x = n \/ (InChain(c, x) /\ x.key # k) \/ (Has(g, x) /\ x.hash % g.size # b)
      BY <2>3, <2>4
    <3>2. x.hash % g.size = b => (Has(g, x) <=> InChain(c, x))
      BY <1>1, HasBucket
    <3>3. InChain(c, x) => Has(g, x)
      BY <1>2 DEF Has
    <3>4. x.key = k => x.hash % g.size = b
      BY NodeFacts DEF b, Bucket
    <3> HIDE DEF c
    <3> QED
      BY ONLY <3>1, <3>2, <3>3, <3>4
  <2> QED
    BY <1>1, <2>2, <2>4, <2>5 DEF u, n
<1> QED
  BY <1>7, <1>8

LEMMA ValueIs ==
    ASSUME NEW t \in Tables, NEW k \in Keys
    PROVE  \/ \E x \in HashNode : Has(t, x) /\ x.key = k /\ ValueOf(t, k) = x.val
           \/ (\A x \in HashNode : Has(t, x) => x.key # k) /\ ValueOf(t, k) = None
<1> DEFINE b == Bucket(t, k)
           c == t.buckets[b]
           i == Position(c, k)
<1>1. b \in 0..(t.size - 1) /\ c \in Seq(HashNode)
  BY BucketIn DEF GoodChain
<1>2. ValueOf(t, k) = IF i = 0 THEN None ELSE c[i].val
  BY DEF ValueOf
<1>3. CASE i = 0
  <2>1. ~ (i \in 1..Len(c))
    BY <1>3
  <2>2. \A x \in HashNode : InChain(c, x) => x.key # k
    BY <1>1, <2>1, PositionIs
  <2> QED
    BY <1>2, <1>3, <2>2, KeyAbsent
<1>4. CASE i # 0
  <2>1. i \in 1..Len(c) /\ c[i].key = k
    BY <1>1, <1>4, PositionIs
  <2>2. c[i] \in HashNode /\ InChain(c, c[i])
    BY <1>1, <2>1, ElementOfSeq DEF InChain
  <2>3. Has(t, c[i])
    BY <1>1, <2>2 DEF Has
  <2> QED
    BY <1>2, <1>4, <2>1, <2>2, <2>3
<1> QED
  BY <1>3, <1>4

\* What hst_remove_key leaves of a table.
Without(t, k) ==
    LET b == Bucket(t, k)
        i == Position(t.buckets[b], k)
    IN  IF i = 0 THEN t
        ELSE Table(t.size, t.count - 1, [t.buckets EXCEPT ![b] = RemoveAt(@, i)])

LEMMA RemoveIs ==
    ASSUME NEW t \in Tables, NEW k \in Keys
    PROVE  /\ Without(t, k) \in Tables
           /\ \A x \in HashNode : Has(Without(t, k), x) <=> Has(t, x) /\ x.key # k
<1> DEFINE b == Bucket(t, k)
           c == t.buckets[b]
           i == Position(c, k)
<1>1. b \in 0..(t.size - 1) /\ GoodChain(c, t.size, b) /\ c \in Seq(HashNode)
  BY BucketIn DEF GoodChain
<1>2. CASE i = 0
  <2>1. ~ (i \in 1..Len(c))
    BY <1>2
  <2>2. \A x \in HashNode : InChain(c, x) => x.key # k
    BY <1>1, <2>1, PositionIs
  <2>3. \A x \in HashNode : Has(t, x) => x.key # k
    BY <2>2, KeyAbsent
  <2>4. Without(t, k) = t
    BY <1>2 DEF Without
  <2> QED
    BY <2>3, <2>4
<1>3. CASE i # 0
  <2>1. i \in 1..Len(c) /\ c[i].key = k
    BY <1>1, <1>3, PositionIs
  <2> DEFINE r == RemoveAt(c, i)
             w == Table(t.size, t.count - 1, [t.buckets EXCEPT ![b] = r])
  <2>2. Without(t, k) = w
    BY <1>3 DEF Without
  <2>3. /\ GoodChain(r, t.size, b)
        /\ \A x \in HashNode : InChain(r, x) <=> InChain(c, x) /\ x.key # k
    BY <1>1, <2>1, Dropped
  <2>4. t.count - 1 \in Int
    BY TableParts
  <2> HIDE DEF r, b
  <2>5. /\ w \in Tables
        /\ \A x \in HashNode : Has(w, x) <=> InChain(r, x) \/ (Has(t, x) /\ x.hash % t.size # b)
    BY <1>1, <2>3, <2>4, BucketSet
  <2> HIDE DEF w
  <2>6. ASSUME NEW x \in HashNode PROVE Has(w, x) <=> Has(t, x) /\ x.key # k
    <3>1. Has(w, x) <=> (InChain(c, x) /\ x.key # k) \/ (Has(t, x) /\ x.hash % t.size # b)
      BY <2>3, <2>5
    <3>2. x.hash % t.size = b => (Has(t, x) <=> InChain(c, x))
      BY HasBucket
    <3>3. InChain(c, x) => Has(t, x)
      BY <1>1 DEF Has
    <3>4. x.key = k => x.hash % t.size = b
      BY NodeFacts DEF b, Bucket
    <3> HIDE DEF c
    <3> QED
      BY ONLY <3>1, <3>2, <3>3, <3>4
  <2> QED
    BY <2>2, <2>5, <2>6
<1> QED
  BY <1>2, <1>3

\* The table when hst_add_all_from has put i nodes of o into t.
Filled(t, o, f) ==
    LET chained == Nodes(o)
    IN  /\ f \in [0..Len(chained) -> Tables]
        /\ f[0] = t
        /\ \A i \in 1..Len(chained) :
              f[i] = WithEntry(f[i - 1], KeyOf(chained[i]), chained[i].val)

LEMMA FilledExists ==
    ASSUME NEW t \in Tables, NEW o \in Tables
    PROVE  \E f : Filled(t, o, f) /\ WithAll(t, o) = f[Len(Nodes(o))]
<1> DEFINE chained == Nodes(o)
           Step1(m, i) == WithEntry(m, KeyOf(chained[i]), chained[i].val)
           IsPut(f) == f = [i \in 0..Len(chained) |-> IF i = 0 THEN t ELSE Step1(f[i - 1], i)]
           put == CHOOSE f : IsPut(f)
<1>1. WithAll(t, o) = put[Len(chained)]
  BY DEF WithAll
<1>3. chained \in Seq(HashNode) /\ Len(chained) \in Nat
  BY NodesFacts, LenProperties
<1> HIDE DEF chained
<1>5. ASSUME NEW m \in Tables, NEW i \in 1..Len(chained) PROVE Step1(m, i) \in Tables
  <2>1. chained[i] \in HashNode
    BY <1>3, ElementOfSeq
  <2>2. KeyOf(chained[i]) \in Keys /\ chained[i].val \in Values
    BY <2>1, NodeFacts DEF KeyOf
  <2> QED
    BY <2>2, PutIs
<1> DEFINE step == [p \in Nat \X Tables |->
                       IF p[1] \in 1..Len(chained) THEN Step1(p[2], p[1]) ELSE p[2]]
<1> HIDE DEF Step1
<1>6. step \in [Nat \X Tables -> Tables]
  BY <1>5
<1>7. ASSUME NEW i \in 1..Len(chained), NEW m \in Tables PROVE step[<<i, m>>] = Step1(m, i)
  <2>1. i \in Nat
    BY <1>3
  <2>2. <<i, m>> \in Nat \X Tables /\ <<i, m>>[1] = i /\ <<i, m>>[2] = m
    BY <2>1
  <2> QED
    BY <2>2
<1> HIDE DEF step
<1>8. PICK g \in [0..Len(chained) -> Tables] : Run(g, Len(chained), t, step)
  BY <1>3, <1>6, RunExists
<1>9. IsPut(g)
  <2> DEFINE h == [i \in 0..Len(chained) |-> IF i = 0 THEN t ELSE Step1(g[i - 1], i)]
  <2>1. g[0] = h[0]
    BY <1>3, <1>8 DEF Run
  <2>2. ASSUME NEW i \in 1..Len(chained) PROVE g[i] = h[i]
    <3>1. i - 1 \in 0..Len(chained) /\ i # 0 /\ i \in 0..Len(chained)
      BY <1>3
    <3>2. g[i] = step[<<i, g[i - 1]>>] /\ g[i - 1] \in Tables
      BY <1>8, <3>1 DEF Run
    <3> QED
      BY <1>7, <3>1, <3>2
  <2>3. \A i \in 0..Len(chained) : g[i] = h[i]
    <3>1. \A i \in 0..Len(chained) : i = 0 \/ i \in 1..Len(chained)
      BY <1>3
    <3> QED
      BY <2>1, <2>2, <3>1
  <2>4. g = [i \in 0..Len(chained) |-> g[i]] /\ h = [i \in 0..Len(chained) |-> h[i]]
    OBVIOUS
  <2> HIDE DEF h
  <2>5. g = h
    BY <2>3, <2>4
  <2> QED
    BY <2>5 DEF h
<1>10. IsPut(put)
  BY <1>9
<1> HIDE DEF put
<1>11. put[0] = t /\ \A i \in 1..Len(chained) : put[i] = Step1(put[i - 1], i)
  <2>1. \A i \in 0..Len(chained) : put[i] = IF i = 0 THEN t ELSE Step1(put[i - 1], i)
    BY <1>10
  <2>2. 0 \in 0..Len(chained) /\ \A i \in 1..Len(chained) : i \in 0..Len(chained) /\ i # 0
    BY <1>3
  <2> QED
    BY <2>1, <2>2
<1>12. \A i \in 0..Len(chained) : put[i] \in Tables
  <2> DEFINE S == {i \in Nat : i \in 0..Len(chained) => put[i] \in Tables}
  <2>1. 0 \in S
    BY <1>11
  <2>2. ASSUME NEW i \in S PROVE i + 1 \in S
    <3>1. CASE i + 1 \notin 0..Len(chained)
      BY <3>1
    <3>2. CASE i + 1 \in 0..Len(chained)
      <4>1. i \in 0..Len(chained) /\ i + 1 \in 1..Len(chained) /\ (i + 1) - 1 = i
        BY <1>3, <3>2
      <4>2. put[i + 1] = Step1(put[i], i + 1) /\ put[i] \in Tables
        BY <1>11, <4>1
      <4>3. put[i + 1] \in Tables
        BY <1>5, <4>1, <4>2
      <4> QED
        BY <4>3
    <3> QED
      BY <3>1, <3>2
  <2> HIDE DEF S
  <2>3. S \in SUBSET Nat
    BY DEF S
  <2>4. S = Nat
    BY <2>1, <2>2, <2>3, Induction
  <2>5. \A i \in 0..Len(chained) : i \in S
    BY <1>3, <2>4
  <2> QED
    BY <2>5 DEF S
<1>13. put \in [0..Len(chained) -> Tables]
  <2>1. put = [i \in 0..Len(chained) |-> put[i]]
    BY <1>10
  <2> QED
    BY <1>12, <2>1
<1>14. Filled(t, o, put)
  BY <1>11, <1>13 DEF Filled, chained, Step1
<1> QED
  BY <1>1, <1>14 DEF chained

LEMMA AddAllIs ==
    ASSUME NEW t \in Tables, NEW o \in Tables
    PROVE  /\ WithAll(t, o) \in Tables
           /\ \A x \in HashNode : Has(WithAll(t, o), x) <=>
                 Has(o, x) \/ (Has(t, x) /\ \A y \in HashNode : Has(o, y) => y.key # x.key)
<1> DEFINE chained == Nodes(o)
<1>1. PICK f : Filled(t, o, f) /\ WithAll(t, o) = f[Len(chained)]
  BY FilledExists
<1>2. /\ chained \in Seq(HashNode) /\ Len(chained) \in Nat /\ Once(chained)
      /\ \A x \in HashNode : InChain(chained, x) <=> Has(o, x)
  BY NodesFacts, LenProperties
<1>3. /\ f \in [0..Len(chained) -> Tables] /\ f[0] = t
      /\ \A i \in 1..Len(chained) : f[i] = WithEntry(f[i - 1], KeyOf(chained[i]), chained[i].val)
  BY <1>1 DEF Filled
<1> HIDE DEF chained
<1> DEFINE Put1(i, x) == \E j \in 1..i : chained[j] = x
           Free1(i, x) == \A j \in 1..i : chained[j].key # x.key
           Good(i) == \A x \in HashNode : Has(f[i], x) <=> Put1(i, x) \/ (Has(t, x) /\ Free1(i, x))
           S == {i \in Nat : i \in 0..Len(chained) => Good(i)}
<1>4. 0 \in S
  BY <1>3
<1>5. ASSUME NEW i \in S PROVE i + 1 \in S
  <2>1. CASE i + 1 \notin 0..Len(chained)
    BY <2>1
  <2>2. CASE i + 1 \in 0..Len(chained)
    <3> DEFINE n == chained[i + 1]
    <3>1. i \in Nat /\ i \in 0..Len(chained) /\ i + 1 \in 1..Len(chained) /\ (i + 1) - 1 = i
      BY <1>2, <2>2
    <3>2. Good(i) /\ f[i] \in Tables
      BY <1>3, <3>1
    <3>3. n \in HashNode
      BY <1>2, <3>1, ElementOfSeq
    <3>4. n.key \in Keys /\ n.val \in Values /\ KeyOf(n) = n.key /\ n = MakeNode(n.key, n.val)
      BY <3>3, NodeFacts DEF KeyOf
    <3>5. f[i + 1] = WithEntry(f[i], n.key, n.val)
      BY <1>3, <3>1, <3>4
    <3>6. \A j : j \in 1..(i + 1) <=> j \in 1..i \/ j = i + 1
      BY <3>1
    <3>7. \A j \in 1..i : chained[j].key # n.key
      <4> SUFFICES ASSUME NEW j \in 1..i PROVE chained[j].key # n.key
        OBVIOUS
      <4>1. j \in 1..Len(chained) /\ j # i + 1
        BY <3>1
      <4> QED
        BY <1>2, <3>1, <4>1 DEF Once
    <3>8. ASSUME NEW x \in HashNode
          PROVE  /\ Put1(i + 1, x) <=> Put1(i, x) \/ x = n
                 /\ Free1(i + 1, x) <=> Free1(i, x) /\ x.key # n.key
                 /\ Put1(i, x) => x.key # n.key
      BY <3>6, <3>7
    <3> HIDE DEF n, Put1, Free1
    <3>9. \A x \in HashNode : Has(f[i + 1], x) <=> x = n \/ (Has(f[i], x) /\ x.key # n.key)
      BY <3>2, <3>4, <3>5, PutIs
    <3>10. Good(i + 1)
      <4> SUFFICES ASSUME NEW x \in HashNode
                   PROVE  Has(f[i + 1], x) <=>
                             Put1(i + 1, x) \/ (Has(t, x) /\ Free1(i + 1, x))
        OBVIOUS
      <4>1. Has(f[i + 1], x) <=> x = n \/ (Has(f[i], x) /\ x.key # n.key)
        BY <3>9
      <4>2. Has(f[i], x) <=> Put1(i, x) \/ (Has(t, x) /\ Free1(i, x))
        BY <3>2
      <4> QED
        BY ONLY <3>8, <4>1, <4>2
    <3> QED
      BY <3>10
  <2> QED
    BY <2>1, <2>2
<1> HIDE DEF S
<1>6. S \in SUBSET Nat
  BY DEF S
<1>7. Len(chained) \in S
  BY <1>2, <1>4, <1>5, <1>6, Induction
<1>8. Good(Len(chained))
  BY <1>2, <1>7 DEF S
<1>9. \A x \in HashNode : Put1(Len(chained), x) <=> Has(o, x)
  BY <1>2 DEF InChain
<1>10. \A x \in HashNode : Free1(Len(chained), x) <=> \A y \in HashNode : Has(o, y) => y.key # x.key
  <2>1. \A j \in 1..Len(chained) : chained[j] \in HashNode /\ InChain(chained, chained[j])
    BY <1>2, ElementOfSeq DEF InChain
  <2>2. \A y : InChain(chained, y) => \E j \in 1..Len(chained) : chained[j] = y
    BY DEF InChain
  <2> QED
    BY <1>2, <2>1, <2>2
<1>11. f[Len(chained)] \in Tables
  BY <1>2, <1>3
<1> HIDE DEF Put1, Free1
<1> QED
  BY <1>1, <1>8, <1>9, <1>10, <1>11 DEF chained

-----------------------------------------------------------------------------
(* Tables as functions.                                                     *)

LEMMA InsideIs ==
    ASSUME NEW t \in Tables
    PROVE  /\ \A k : k \in DOMAIN Inside(t) <=> \E x \in HashNode : Has(t, x) /\ x.key = k
           /\ \A x \in HashNode : Has(t, x) => Inside(t)[x.key] = x.val
           /\ Inside(t) = [k \in DOMAIN Inside(t) |-> Inside(t)[k]]
<1> DEFINE D == {x.key : x \in {y \in HashNode : Has(t, y)}}
<1>1. DOMAIN Inside(t) = D /\ \A k \in D : Inside(t)[k] = CHOOSE v \in Values : Has(t, MakeNode(k, v))
  BY DEF Inside
<1>2. \A k : k \in D <=> \E x \in HashNode : Has(t, x) /\ x.key = k
  OBVIOUS
<1>3. Inside(t) = [k \in DOMAIN Inside(t) |-> Inside(t)[k]]
  BY DEF Inside
<1> HIDE DEF D
<1>4. ASSUME NEW x \in HashNode, Has(t, x) PROVE Inside(t)[x.key] = x.val
  <2> DEFINE P(v) == v \in Values /\ Has(t, MakeNode(x.key, v))
  <2>1. Inside(t)[x.key] = CHOOSE v : P(v)
    BY <1>1, <1>2, <1>4
  <2>2. P(x.val)
    BY <1>4, NodeFacts
  <2>3. ASSUME NEW v, P(v) PROVE v = x.val
    <3>1. x.key \in Keys
      BY NodeFacts
    <3>2. MakeNode(x.key, v) \in HashNode /\ MakeNode(x.key, v).key = x.key
          /\ MakeNode(x.key, v).val = v
      BY <2>3, <3>1, MakeNodeFacts
    <3>3. MakeNode(x.key, v) = x
      BY <1>4, <2>3, <3>2, HasOne
    <3> QED
      BY <3>2, <3>3
  <2> HIDE DEF P
  <2> QED
    BY <2>1, <2>2, <2>3
<1> QED
  BY <1>1, <1>2, <1>3, <1>4

LEMMA InsideBy ==
    ASSUME NEW t \in Tables, NEW m, m = [k \in DOMAIN m |-> m[k]],
           \A k \in DOMAIN m : \E x \in HashNode : Has(t, x) /\ x.key = k /\ x.val = m[k],
           \A x \in HashNode : Has(t, x) => x.key \in DOMAIN m
    PROVE  Inside(t) = m
<1>1. DOMAIN Inside(t) = DOMAIN m
  BY InsideIs
<1>2. \A k \in DOMAIN m : Inside(t)[k] = m[k]
  BY InsideIs
<1>3. Inside(t) = [k \in DOMAIN Inside(t) |-> Inside(t)[k]]
  BY InsideIs
<1> QED
  BY <1>1, <1>2, <1>3

\* Contents, when the caller's memory holds tx.
KeyWith(x, tx) == IF x.dup THEN x.key ELSE tx
AsRead(t, tx) ==
    LET here == {KeyWith(Nodes(t)[n], tx) : n \in 1..Len(Nodes(t))}
    IN  [k \in here |-> (CHOOSE n \in ToSet(Nodes(t)) : KeyWith(n, tx) = k).val]

LEMMA ReadIs ==
    ASSUME NEW t \in Tables, NEW tx
    PROVE  AsRead(t, tx) = Inside(t)
<1> DEFINE chained == Nodes(t)
           here == {KeyWith(chained[n], tx) : n \in 1..Len(chained)}
           m == [k \in here |-> (CHOOSE n \in ToSet(chained) : KeyWith(n, tx) = k).val]
<1>1. AsRead(t, tx) = m
  BY DEF AsRead
<1>2. chained \in Seq(HashNode) /\ \A x \in HashNode : InChain(chained, x) <=> Has(t, x)
  BY NodesFacts
<1>3. ToSet(chained) = {chained[n] : n \in 1..Len(chained)}
  BY <1>2, LenProperties DEF ToSet
<1> HIDE DEF chained
<1>4. \A n \in 1..Len(chained) : chained[n] \in HashNode /\ Has(t, chained[n])
  BY <1>2, ElementOfSeq DEF InChain
<1>5. \A x \in HashNode : KeyWith(x, tx) = x.key
  BY NodeFacts DEF KeyWith
<1>6. \A x : x \in ToSet(chained) <=> x \in HashNode /\ Has(t, x)
  BY <1>2, <1>3, <1>4 DEF InChain
<1>7. ASSUME NEW k \in here
      PROVE  \E x \in HashNode : Has(t, x) /\ x.key = k /\ x.val = m[k]
  <2> DEFINE P(x) == x \in ToSet(chained) /\ KeyWith(x, tx) = k
  <2>1. \E x : P(x)
    BY <1>3
  <2>2. m[k] = (CHOOSE x : P(x)).val
    OBVIOUS
  <2> DEFINE y == CHOOSE x : P(x)
  <2>3. P(y)
    BY <2>1
  <2> HIDE DEF y
  <2>4. y \in HashNode /\ Has(t, y) /\ y.key = k
    BY <1>5, <1>6, <2>3
  <2> QED
    BY <2>2, <2>4 DEF y
<1>8. ASSUME NEW x \in HashNode, Has(t, x) PROVE x.key \in here
  <2>1. PICK n \in 1..Len(chained) : chained[n] = x
    BY <1>2, <1>8 DEF InChain
  <2> QED
    BY <1>5, <2>1
<1>9. DOMAIN m = here /\ m = [k \in DOMAIN m |-> m[k]]
  OBVIOUS
<1> HIDE DEF m, here
<1>10. Inside(t) = m
  BY <1>7, <1>8, <1>9, InsideBy
<1> QED
  BY <1>1, <1>10

LEMMA InsidePut ==
    ASSUME NEW t \in Tables, NEW k \in Keys, NEW v \in Values
    PROVE  Inside(WithEntry(t, k, v)) = Maps!Over([j \in {k} |-> v], Inside(t))
<1> DEFINE u == WithEntry(t, k, v)
           m == Maps!Over([j \in {k} |-> v], Inside(t))
<1>1. /\ u \in Tables
      /\ \A x \in HashNode : Has(u, x) <=> x = MakeNode(k, v) \/ (Has(t, x) /\ x.key # k)
  BY PutIs
<1> HIDE DEF u
<1>2. MakeNode(k, v) \in HashNode /\ MakeNode(k, v).key = k /\ MakeNode(k, v).val = v
  BY MakeNodeFacts
<1>3. /\ DOMAIN m = {k} \cup DOMAIN Inside(t)
      /\ m[k] = v /\ \A j \in DOMAIN Inside(t) : j # k => m[j] = Inside(t)[j]
      /\ m = [j \in DOMAIN m |-> m[j]]
  BY DEF Maps!Over
<1> HIDE DEF m
<1>4. ASSUME NEW j \in DOMAIN m PROVE \E x \in HashNode : Has(u, x) /\ x.key = j /\ x.val = m[j]
  <2>1. CASE j = k
    BY <1>1, <1>2, <1>3, <2>1
  <2>2. CASE j # k
    <3>1. j \in DOMAIN Inside(t)
      BY <1>3, <2>2
    <3>2. PICK x \in HashNode : Has(t, x) /\ x.key = j
      BY <3>1, InsideIs
    <3>3. m[j] = x.val
      BY <1>3, <2>2, <3>1, <3>2, InsideIs
    <3> QED
      BY <1>1, <2>2, <3>2, <3>3
  <2> QED
    BY <2>1, <2>2
<1>5. ASSUME NEW x \in HashNode, Has(u, x) PROVE x.key \in DOMAIN m
  BY <1>1, <1>2, <1>3, <1>5, InsideIs
<1>6. Inside(u) = m
  BY <1>1, <1>3, <1>4, <1>5, InsideBy
<1> QED
  BY <1>6 DEF u, m

LEMMA InsideRemove ==
    ASSUME NEW t \in Tables, NEW k \in Keys
    PROVE  Inside(Without(t, k)) = [j \in DOMAIN Inside(t) \ {k} |-> Inside(t)[j]]
<1> DEFINE u == Without(t, k)
           m == [j \in DOMAIN Inside(t) \ {k} |-> Inside(t)[j]]
<1>1. u \in Tables /\ \A x \in HashNode : Has(u, x) <=> Has(t, x) /\ x.key # k
  BY RemoveIs
<1> HIDE DEF u
<1>2. /\ DOMAIN m = DOMAIN Inside(t) \ {k} /\ m = [j \in DOMAIN m |-> m[j]]
      /\ \A j \in DOMAIN m : m[j] = Inside(t)[j]
  OBVIOUS
<1> HIDE DEF m
<1>3. ASSUME NEW j \in DOMAIN m PROVE \E x \in HashNode : Has(u, x) /\ x.key = j /\ x.val = m[j]
  <2>1. PICK x \in HashNode : Has(t, x) /\ x.key = j
    BY <1>2, InsideIs
  <2>2. m[j] = x.val /\ j # k
    BY <1>2, <2>1, InsideIs
  <2> QED
    BY <1>1, <2>1, <2>2
<1>4. ASSUME NEW x \in HashNode, Has(u, x) PROVE x.key \in DOMAIN m
  BY <1>1, <1>2, <1>4, InsideIs
<1>5. Inside(u) = m
  BY <1>1, <1>2, <1>3, <1>4, InsideBy
<1> QED
  BY <1>5 DEF u, m

LEMMA InsideAddAll ==
    ASSUME NEW t \in Tables, NEW o \in Tables
    PROVE  Inside(WithAll(t, o)) = Maps!Over(Inside(o), Inside(t))
<1> DEFINE u == WithAll(t, o)
           m == Maps!Over(Inside(o), Inside(t))
<1>1. /\ u \in Tables
      /\ \A x \in HashNode : Has(u, x) <=>
            Has(o, x) \/ (Has(t, x) /\ \A y \in HashNode : Has(o, y) => y.key # x.key)
  BY AddAllIs
<1> HIDE DEF u
<1>2. /\ DOMAIN m = DOMAIN Inside(o) \cup DOMAIN Inside(t) /\ m = [j \in DOMAIN m |-> m[j]]
      /\ \A j \in DOMAIN m : m[j] = IF j \in DOMAIN Inside(o) THEN Inside(o)[j] ELSE Inside(t)[j]
  BY DEF Maps!Over
<1> HIDE DEF m
<1>3. ASSUME NEW j \in DOMAIN m PROVE \E x \in HashNode : Has(u, x) /\ x.key = j /\ x.val = m[j]
  <2>1. CASE j \in DOMAIN Inside(o)
    <3>1. PICK x \in HashNode : Has(o, x) /\ x.key = j
      BY <2>1, InsideIs
    <3>2. m[j] = x.val
      BY <1>2, <2>1, <3>1, InsideIs
    <3> QED
      BY <1>1, <3>1, <3>2
  <2>2. CASE j \notin DOMAIN Inside(o)
    <3>1. PICK x \in HashNode : Has(t, x) /\ x.key = j
      BY <1>2, <2>2, InsideIs
    <3>2. m[j] = x.val
      BY <1>2, <2>2, <3>1, InsideIs
    <3>3. \A y \in HashNode : Has(o, y) => y.key # j
      BY <2>2, InsideIs
    <3> QED
      BY <1>1, <3>1, <3>2, <3>3
  <2> QED
    BY <2>1, <2>2
<1>4. ASSUME NEW x \in HashNode, Has(u, x) PROVE x.key \in DOMAIN m
  <2>1. Has(o, x) \/ Has(t, x)
    BY <1>1, <1>4
  <2> QED
    BY <1>2, <2>1, InsideIs
<1>5. Inside(u) = m
  BY <1>1, <1>2, <1>3, <1>4, InsideBy
<1> QED
  BY <1>5 DEF u, m

LEMMA InsideGet ==
    ASSUME NEW t \in Tables, NEW k \in Keys
    PROVE  ValueOf(t, k) = IF k \in DOMAIN Inside(t) THEN Inside(t)[k] ELSE None
<1>1. CASE \E x \in HashNode : Has(t, x) /\ x.key = k /\ ValueOf(t, k) = x.val
  BY <1>1, InsideIs
<1>2. CASE (\A x \in HashNode : Has(t, x) => x.key # k) /\ ValueOf(t, k) = None
  BY <1>2, InsideIs
<1> QED
  BY <1>1, <1>2, ValueIs

LEMMA InsideCreate == HstCreate \in Tables /\ Inside(HstCreate) = [k \in {} |-> None]
<1> DEFINE bs == [b \in 0..(Size - 1) |-> <<>>]
           m == [k \in {} |-> None]
<1>1. HstCreate = Table(Size, 0, bs)
  BY DEF HstCreate, Table
<1>2. bs \in [0..(Size - 1) -> Seq(HashNode)] /\ \A b \in 0..(Size - 1) : bs[b] = <<>>
  OBVIOUS
<1> HIDE DEF bs
<1>3. \A b \in 0..(Size - 1) : GoodChain(<<>>, Size, b)
  BY DEF GoodChain, Once
<1>4. bs \in GoodBuckets(Size)
  BY <1>2, <1>3 DEF GoodBuckets
<1>5. HstCreate \in Tables
  BY <1>1, <1>4, SizesAssumption, TableMade
<1>6. \A x \in HashNode : ~ Has(HstCreate, x)
  <2>1. HstCreate.size = Size /\ HstCreate.buckets = bs
    BY <1>1, TableFields
  <2>2. \A x : ~ InChain(<<>>, x)
    BY DEF InChain
  <2> QED
    BY <1>2, <2>1, <2>2 DEF Has
<1>7. m = [k \in DOMAIN m |-> m[k]] /\ DOMAIN m = {}
  OBVIOUS
<1> HIDE DEF m
<1>8. Inside(HstCreate) = m
  BY <1>5, <1>6, <1>7, InsideBy
<1> QED
  BY <1>5, <1>8 DEF m

-----------------------------------------------------------------------------
(* The refinement.                                                          *)

Views == [t \in {1, 2} |-> Contents(tables[t])]
Insides(ts) == [t \in {1, 2} |-> Inside(ts[t])]

LEMMA ViewsNow ==
    ASSUME HstIInv
    PROVE  Views = Insides(tables)
<1>1. ASSUME NEW t \in {1, 2} PROVE Contents(tables[t]) = Inside(tables[t])
  <2>1. tables[t] \in Tables
    BY DEF HstIInv
  <2>2. Contents(tables[t]) = AsRead(tables[t], text)
    BY DEF Contents, AsRead, KeyOf, KeyWith
  <2> QED
    BY <2>1, <2>2, ReadIs
<1> QED
  BY <1>1 DEF Views, Insides

LEMMA ViewsNext ==
    ASSUME HstIInv'
    PROVE  Views' = Insides(tables')
<1>1. ASSUME NEW t \in {1, 2} PROVE (Contents(tables[t]))' = Inside(tables'[t])
  <2>1. tables'[t] \in Tables
    BY DEF HstIInv
  <2>2. (Contents(tables[t]))' = AsRead(tables'[t], text')
    BY DEF Contents, AsRead, KeyOf, KeyWith
  <2> QED
    BY <2>1, <2>2, ReadIs
<1>2. Views' = [t \in {1, 2} |-> (Contents(tables[t]))']
  BY DEF Views
<1> QED
  BY <1>1, <1>2 DEF Insides

LEMMA HstInitStep ==
    ASSUME HstInit
    PROVE  HstIInv /\ Maps!Init
<1>1. HstCreate \in Tables /\ Inside(HstCreate) = [k \in {} |-> None]
  BY InsideCreate
<1>2. HstIInv
  BY <1>1 DEF HstInit, HstIInv
<1>3. Insides(tables) = [t \in {1, 2} |-> [k \in {} |-> None]]
  <2>1. \A t \in {1, 2} : tables[t] = HstCreate
    BY DEF HstInit
  <2> QED
    BY <1>1, <2>1 DEF Insides
<1>4. Views = [t \in {1, 2} |-> [k \in {} |-> None]]
  BY <1>2, <1>3, ViewsNow
<1>5. found = None
  BY DEF HstInit
<1> QED
  BY <1>2, <1>4, <1>5 DEF Views, Maps!Init

\* One table changes.
LEMMA TableStep ==
    ASSUME HstIInv, NEW t \in {1, 2}, NEW u \in Tables, tables' = [tables EXCEPT ![t] = u],
           text' = text
    PROVE  HstIInv' /\ Views' = [Views EXCEPT ![t] = Inside(u)] /\ Views[t] = Inside(tables[t])
<1>1. tables' \in [{1, 2} -> Tables]
  BY DEF HstIInv
<1>2. HstIInv'
  BY <1>1 DEF HstIInv
<1>3. Insides(tables') = [Insides(tables) EXCEPT ![t] = Inside(u)]
  <2>1. tables'[t] = u /\ \A s \in {1, 2} : s # t => tables'[s] = tables[s]
    BY DEF HstIInv
  <2>2. ASSUME NEW s \in {1, 2}
        PROVE  Inside(tables'[s]) = [Insides(tables) EXCEPT ![t] = Inside(u)][s]
    <3>1. CASE s = t
      BY <2>1, <3>1 DEF Insides
    <3>2. CASE s # t
      <4>1. tables'[s] = tables[s]
        BY <2>1, <3>2
      <4>2. Inside(tables'[s]) = Inside(tables[s])
        BY <4>1
      <4>3. [Insides(tables) EXCEPT ![t] = Inside(u)][s] = Inside(tables[s])
        BY <3>2 DEF Insides
      <4> QED
        BY <4>2, <4>3
    <3> QED
      BY <3>1, <3>2
  <2>3. DOMAIN Insides(tables) = {1, 2}
    BY DEF Insides
  <2>4. [Insides(tables) EXCEPT ![t] = Inside(u)]
          = [s \in {1, 2} |-> [Insides(tables) EXCEPT ![t] = Inside(u)][s]]
    BY <2>3
  <2>5. Insides(tables') = [s \in {1, 2} |-> Inside(tables'[s])]
    BY DEF Insides
  <2> DEFINE changed == [Insides(tables) EXCEPT ![t] = Inside(u)]
  <2>6. \A s \in {1, 2} : Inside(tables'[s]) = changed[s]
    BY <2>2
  <2>7. changed = [s \in {1, 2} |-> changed[s]]
    BY <2>4
  <2> HIDE DEF changed
  <2>8. Insides(tables') = changed
    BY ONLY <2>5, <2>6, <2>7
  <2> QED
    BY <2>8 DEF changed
<1>4. Insides(tables)[t] = Inside(tables[t])
  BY DEF Insides
<1> QED
  BY <1>2, <1>3, <1>4, ViewsNow, ViewsNext

\* No table changes.
LEMMA StillStep ==
    ASSUME HstIInv, tables' = tables, text' \in Keys
    PROVE  HstIInv' /\ Views' = Views
<1>1. HstIInv'
  BY DEF HstIInv
<1>2. Insides(tables') = Insides(tables)
  OBVIOUS
<1> QED
  BY <1>1, <1>2, ViewsNow, ViewsNext

MapsNext == [Maps!Next]_<<Views, found>>

LEMMA PutStep ==
    ASSUME HstIInv, NEW t \in {1, 2}, NEW v \in Values, Put(t, v)
    PROVE  HstIInv' /\ MapsNext
<1> DEFINE u == WithEntry(tables[t], text, v)
<1>1. tables[t] \in Tables /\ text \in Keys
  BY DEF HstIInv
<1>2. u \in Tables /\ Inside(u) = Maps!Over([j \in {text} |-> v], Inside(tables[t]))
  BY <1>1, PutIs, InsidePut
<1>3. tables' = [tables EXCEPT ![t] = u] /\ text' = text /\ found' = found
  BY DEF Put
<1> HIDE DEF u
<1>4. HstIInv' /\ Views' = [Views EXCEPT ![t] = Inside(u)] /\ Views[t] = Inside(tables[t])
  BY <1>2, <1>3, TableStep
<1>5. Maps!Put(t, text, v)
  BY <1>2, <1>3, <1>4 DEF Maps!Put, Views
<1>6. Maps!Next
  BY <1>1, <1>5 DEF Maps!Next
<1> QED
  BY <1>4, <1>6 DEF MapsNext

LEMMA FoundIs ==
    ASSUME HstIInv, NEW t \in {1, 2}
    PROVE  ValueOf(tables[t], text) = Maps!Lookup(t, text)
<1>1. tables[t] \in Tables /\ text \in Keys
  BY DEF HstIInv
<1>2. Views[t] = Inside(tables[t])
  BY ViewsNow DEF Insides
<1>3. Maps!Lookup(t, text) = IF text \in DOMAIN Views[t] THEN Views[t][text] ELSE None
  BY DEF Maps!Lookup, Views
<1> QED
  BY <1>1, <1>2, <1>3, InsideGet

LEMMA GetStep ==
    ASSUME HstIInv, NEW t \in {1, 2}, Get(t)
    PROVE  HstIInv' /\ MapsNext
<1>1. tables' = tables /\ text' = text /\ text \in Keys
  BY DEF Get, HstIInv
<1>2. HstIInv' /\ Views' = Views
  BY <1>1, StillStep
<1>3. Maps!Get(t, text)
  BY <1>2, FoundIs DEF Get, Maps!Get, Views
<1> QED
  BY <1>1, <1>2, <1>3 DEF MapsNext, Maps!Next

LEMMA FillStep ==
    ASSUME HstIInv, NEW k \in Keys, Fill(k)
    PROVE  HstIInv' /\ MapsNext
<1>1. tables' = tables /\ text' \in Keys /\ found' = found
  BY DEF Fill
<1> QED
  BY <1>1, StillStep DEF MapsNext

LEMMA RemoveStep ==
    ASSUME HstIInv, NEW t \in {1, 2}, RemoveKey(t)
    PROVE  HstIInv' /\ MapsNext
<1> DEFINE s == tables[t]
           u == Without(s, text)
           b == Bucket(s, text)
           i == Position(s.buckets[b], text)
<1>1. s \in Tables /\ text \in Keys /\ tables \in [{1, 2} -> Tables]
  BY DEF HstIInv
<1>2. u \in Tables /\ Inside(u) = [j \in DOMAIN Inside(s) \ {text} |-> Inside(s)[j]]
  BY <1>1, RemoveIs, InsideRemove
<1>3. tables' = [tables EXCEPT ![t] = u]
  <2>1. CASE i = 0
    <3>1. tables' = tables /\ u = s
      BY <2>1 DEF RemoveKey, Without
    <3> QED
      BY <1>1, <3>1
  <2>2. CASE i # 0
    <3> DEFINE r == RemoveAt(s.buckets[b], i)
               e == s.count - 1
    <3>1. tables' = [tables EXCEPT ![t] = NewChainCount(s, b, r, e)]
      <4>1. tables' = [tables EXCEPT ![t].buckets[b] = RemoveAt(@, i), ![t].count = @ - 1]
        BY <2>2 DEF RemoveKey
      <4> HIDE DEF b, i
      <4>2. tables' = [tables EXCEPT ![t] = [[@ EXCEPT !.buckets[b] = r] EXCEPT !.count = e]]
        BY <1>1, <4>1
      <4>3. NewChainCount(s, b, r, e) = [[s EXCEPT !.buckets[b] = r] EXCEPT !.count = e]
        BY DEF NewChainCount
      <4> QED
        BY <4>2, <4>3
    <3>2. u = Table(s.size, e, Chains(s.buckets, b, r))
      BY <2>2 DEF Without, Chains
    <3> HIDE DEF r, e, s, b, u
    <3>3. NewChainCount(Table(s.size, s.count, s.buckets), b, r, e)
             = Table(s.size, e, Chains(s.buckets, b, r))
      BY ONLY TableExcept
    <3>4. s = Table(s.size, s.count, s.buckets)
      BY <1>1, TableParts
    <3>5. NewChainCount(s, b, r, e) = u
      BY ONLY <3>2, <3>3, <3>4
    <3> QED
      BY ONLY <3>1, <3>5
  <2> QED
    BY <2>1, <2>2
<1>4. text' = text /\ found' = ValueOf(s, text)
  BY DEF RemoveKey
<1> HIDE DEF u, b, i
<1>5. HstIInv' /\ Views' = [Views EXCEPT ![t] = Inside(u)] /\ Views[t] = Inside(s)
  BY <1>2, <1>3, <1>4, TableStep
<1>6. found' = Maps!Lookup(t, text)
  BY <1>4, FoundIs
<1> HIDE DEF s
<1>7. Maps!Remove(t, text)
  BY <1>2, <1>5, <1>6 DEF Maps!Remove, Views
<1> QED
  BY <1>1, <1>5, <1>7 DEF MapsNext, Maps!Next

LEMMA AddAllStep ==
    ASSUME HstIInv, NEW t \in {1, 2}, NEW o \in {1, 2}, AddAllFrom(t, o)
    PROVE  HstIInv' /\ MapsNext
<1> DEFINE u == WithAll(tables[t], tables[o])
<1>1. tables[t] \in Tables /\ tables[o] \in Tables
  BY DEF HstIInv
<1>2. u \in Tables /\ Inside(u) = Maps!Over(Inside(tables[o]), Inside(tables[t]))
  BY <1>1, AddAllIs, InsideAddAll
<1>3. tables' = [tables EXCEPT ![t] = u] /\ text' = text /\ found' = found
  BY DEF AddAllFrom
<1> HIDE DEF u
<1>4. HstIInv' /\ Views' = [Views EXCEPT ![t] = Inside(u)] /\ Views[t] = Inside(tables[t])
  BY <1>2, <1>3, TableStep
<1>5. Views[o] = Inside(tables[o])
  BY ViewsNow DEF Insides
<1>6. Maps!AddAll(t, o)
  BY <1>2, <1>3, <1>4, <1>5 DEF Maps!AddAll, Views
<1> QED
  BY <1>4, <1>6 DEF MapsNext, Maps!Next

LEMMA FreeStep ==
    ASSUME HstIInv, NEW t \in {1, 2}, Free(t)
    PROVE  HstIInv' /\ MapsNext
<1>1. HstCreate \in Tables /\ Inside(HstCreate) = [k \in {} |-> None]
  BY InsideCreate
<1>2. tables' = [tables EXCEPT ![t] = HstCreate] /\ text' = text /\ found' = found
  BY DEF Free
<1>3. HstIInv' /\ Views' = [Views EXCEPT ![t] = Inside(HstCreate)]
  BY <1>1, <1>2, TableStep
<1>4. Maps!Clear(t)
  BY <1>1, <1>2, <1>3 DEF Maps!Clear, Views
<1> QED
  BY <1>3, <1>4 DEF MapsNext, Maps!Next

LEMMA StepMaps ==
    ASSUME HstIInv, [HstNext]_hstVars
    PROVE  HstIInv' /\ MapsNext
<1>1. CASE UNCHANGED hstVars
  <2>1. tables' = tables /\ text' \in Keys /\ found' = found
    BY <1>1 DEF hstVars, HstIInv
  <2> QED
    BY <2>1, StillStep DEF MapsNext
<1>2. CASE HstNext
  <2>1. ASSUME NEW k \in Keys, Fill(k) PROVE HstIInv' /\ MapsNext
    BY <2>1, FillStep
  <2>2. ASSUME NEW t \in {1, 2}, Get(t) PROVE HstIInv' /\ MapsNext
    BY <2>2, GetStep
  <2>3. ASSUME NEW t \in {1, 2}, RemoveKey(t) PROVE HstIInv' /\ MapsNext
    BY <2>3, RemoveStep
  <2>4. ASSUME NEW t \in {1, 2}, Free(t) PROVE HstIInv' /\ MapsNext
    BY <2>4, FreeStep
  <2>5. ASSUME NEW t \in {1, 2}, NEW v \in Values, Put(t, v) PROVE HstIInv' /\ MapsNext
    BY <2>5, PutStep
  <2>6. ASSUME AddAllFrom(1, 2) PROVE HstIInv' /\ MapsNext
    BY <2>6, AddAllStep
  <2> QED
    BY <1>2, <2>1, <2>2, <2>3, <2>4, <2>5, <2>6 DEF HstNext
<1> QED
  BY <1>1, <1>2

\* The tables of core/hashtable.c are two dictionaries, for any keys, values and
\* hash function, whether they grow or not: every call does to the functions
\* what it should, and hst_get and hst_remove_key return what was put last.
THEOREM TablesAreMaps == HstSpec => Implements
<1>1. HstInit => HstIInv /\ Maps!Init
  BY HstInitStep
<1>2. HstIInv /\ [HstNext]_hstVars => HstIInv' /\ [Maps!Next]_<<Views, found>>
  BY StepMaps DEF MapsNext
<1>3. Maps!Spec <=> Maps!Init /\ [][Maps!Next]_<<Views, found>>
  BY DEF Maps!Spec, Views
<1> QED
  BY <1>1, <1>2, <1>3, PTL DEF HstSpec, Implements

-----------------------------------------------------------------------------
(* The array list: Arraylist refines List, for any items, any first size   *)
(* and any size from which on the array grows linearly.                    *)

\* a is an array of n cells.
ArrayOf(a, n) == n \in Nat \ {0} /\ a = [c \in 0..(n - 1) |-> a[c]]

\* The cells in use fit in the array and hold items.
CellsInv ==
    /\ count \in Nat
    /\ \E n \in Nat : ArrayOf(items, n) /\ count <= n
    /\ \A c \in 0..(count - 1) : items[c] \in Items

\* An iteration stands behind the items it has handed out.
IterationInv ==
    \/ at = -1 /\ seen = <<>>
    \/ at \in 0..count /\ seen \in Seq(Items) /\ Len(seen) = at

ArrIInv == CellsInv /\ IterationInv

\* What the abstract list is.
Shown(a, n) == [i \in 1..n |-> a[i - 1]]

-----------------------------------------------------------------------------
(* The operators.                                                           *)

\* The number of cells is what the code keeps as allocated.
LEMMA Allocated ==
    ASSUME NEW a, NEW n \in Nat, ArrayOf(a, n)
    PROVE  DOMAIN a = 0..(n - 1) /\ Cardinality(DOMAIN a) = n
<1>1. DOMAIN a = 0..(n - 1)
  BY DEF ArrayOf
<1>2. Cardinality(0..(n - 1)) = n
  BY FS_Interval DEF ArrayOf
<1> QED
  BY <1>1, <1>2

\* arr_manage_size leaves a free cell behind the items and moves none.
LEMMA RoomForOne ==
    ASSUME CellsInv
    PROVE  \E m \in Nat : /\ ArrayOf(Managed, m) /\ count < m
                          /\ \A c \in 0..(count - 1) : Managed[c] = items[c]
<1>1. PICK n \in Nat : ArrayOf(items, n) /\ count <= n
  BY DEF CellsInv
<1>2. DOMAIN items = 0..(n - 1) /\ Cardinality(DOMAIN items) = n
  BY <1>1, Allocated
<1>3. count \in Nat /\ n \in Nat \ {0} /\ Big \in Nat \ {0}
  BY <1>1, GrowthAssumption DEF CellsInv, ArrayOf
<1>4. CASE count # n
  <2>1. Managed = items
    BY <1>2, <1>4 DEF Managed
  <2> QED
    BY <2>1, <1>1, <1>3, <1>4
<1>5. CASE count = n
  <2> DEFINE nl == IF n * 2 < Big THEN n * 2 ELSE n + Big
  <2>1. nl \in Nat \ {0} /\ n < nl
    BY <1>3
  <2> HIDE DEF nl
  <2>2. Managed = [c \in 0..(nl - 1) |-> IF c < n THEN items[c] ELSE Junk]
    BY <1>2, <1>5 DEF Managed, nl
  <2>3. ArrayOf(Managed, nl)
    BY <2>1, <2>2 DEF ArrayOf
  <2>4. \A c \in 0..(count - 1) : Managed[c] = items[c]
    BY <2>1, <2>2, <1>3, <1>5
  <2> QED
    BY <2>1, <2>3, <2>4, <1>5
<1> QED
  BY <1>4, <1>5

\* The cells in use, read as a sequence.
LEMMA ListedIsSeq ==
    ASSUME NEW a, NEW n \in Nat, \A c \in 0..(n - 1) : a[c] \in Items
    PROVE  /\ Shown(a, n) \in Seq(Items) /\ Len(Shown(a, n)) = n
           /\ \A i \in 1..n : Shown(a, n)[i] = a[i - 1]
<1>1. Shown(a, n) \in [1..n -> Items]
  <2> SUFFICES ASSUME NEW i \in 1..n PROVE a[i - 1] \in Items
    BY DEF Shown
  <2>1. i - 1 \in 0..(n - 1)
    OBVIOUS
  <2> QED
    BY <2>1
<1>2. Shown(a, n) \in Seq(Items)
  BY <1>1, SeqDef
<1>3. Len(Shown(a, n)) = n
  BY <1>1, <1>2, LenProperties
<1> QED
  BY <1>2, <1>3 DEF Shown

\* One sequence after the other.
LEMMA ItemsJoined ==
    ASSUME NEW s \in Seq(Items), NEW t \in Seq(Items)
    PROVE  /\ s \o t \in Seq(Items) /\ Len(s \o t) = Len(s) + Len(t)
           /\ \A j \in 1..Len(s) : (s \o t)[j] = s[j]
           /\ \A j \in 1..Len(t) : (s \o t)[Len(s) + j] = t[j]
  BY ConcatProperties, LenProperties

\* A part of a sequence.
LEMMA ItemsPart ==
    ASSUME NEW s \in Seq(Items), NEW i \in 1..(Len(s) + 1), NEW k \in (i - 1)..Len(s)
    PROVE  /\ SubSeq(s, i, k) \in Seq(Items) /\ Len(SubSeq(s, i, k)) = k - i + 1
           /\ \A j \in 1..(k - i + 1) : SubSeq(s, i, k)[j] = s[i + j - 1]
<1>1. Len(s) \in Nat /\ \A j \in 1..Len(s) : s[j] \in Items
  BY LenProperties, ElementOfSeq
<1>2. \A j \in i..k : s[j] \in Items
  BY <1>1
<1>3. /\ SubSeq(s, i, k) \in Seq(Items) /\ Len(SubSeq(s, i, k)) = IF i <= k THEN k - i + 1 ELSE 0
      /\ \A j \in 1..(k - i + 1) : SubSeq(s, i, k)[j] = s[i + j - 1]
  BY <1>1, <1>2, SubSeqProperties
<1> QED
  BY <1>1, <1>3

\* An item is put in front of the i-th.
LEMMA Inserted ==
    ASSUME NEW s \in Seq(Items), NEW i \in 1..(Len(s) + 1), NEW x \in Items
    PROVE  LET r == Abstract!InsertAt(s, i, x)
           IN  /\ r \in Seq(Items) /\ Len(r) = Len(s) + 1
               /\ \A j \in 1..(i - 1) : r[j] = s[j]
               /\ r[i] = x
               /\ \A j \in i..Len(s) : r[j + 1] = s[j]
<1> DEFINE front == SubSeq(s, 1, i - 1)
           middle == <<x>>
           back == SubSeq(s, i, Len(s))
           head == front \o middle
           r == head \o back
<1>1. Len(s) \in Nat
  BY LenProperties
<1>2. /\ front \in Seq(Items) /\ Len(front) = i - 1
      /\ \A j \in 1..(i - 1) : front[j] = s[j]
  <2>1. 1 \in 1..(Len(s) + 1) /\ i - 1 \in (1 - 1)..Len(s)
    BY <1>1
  <2>2. /\ front \in Seq(Items) /\ Len(front) = (i - 1) - 1 + 1
        /\ \A j \in 1..((i - 1) - 1 + 1) : front[j] = s[1 + j - 1]
    BY <2>1, ItemsPart
  <2> QED
    BY <2>2
<1>3. middle \in Seq(Items) /\ Len(middle) = 1 /\ middle[1] = x
  OBVIOUS
<1>4. /\ back \in Seq(Items) /\ Len(back) = Len(s) - i + 1
      /\ \A j \in 1..(Len(s) - i + 1) : back[j] = s[i + j - 1]
  <2>1. Len(s) \in (i - 1)..Len(s)
    BY <1>1
  <2> QED
    BY <2>1, ItemsPart
<1> HIDE DEF front, middle, back
<1>5. /\ head \in Seq(Items) /\ Len(head) = i
      /\ \A j \in 1..(i - 1) : head[j] = front[j]
      /\ head[i] = x
  <2>1. /\ head \in Seq(Items) /\ Len(head) = (i - 1) + 1
        /\ \A j \in 1..(i - 1) : head[j] = front[j]
        /\ \A j \in 1..1 : head[(i - 1) + j] = middle[j]
    <3>1. Len(front) = i - 1 /\ Len(middle) = 1
      BY <1>2, <1>3
    <3>2. /\ head \in Seq(Items) /\ Len(head) = Len(front) + Len(middle)
          /\ \A j \in 1..Len(front) : head[j] = front[j]
          /\ \A j \in 1..Len(middle) : head[Len(front) + j] = middle[j]
      <4>1. front \in Seq(Items) /\ middle \in Seq(Items)
        BY <1>2, <1>3
      <4> QED
        BY <4>1, ItemsJoined
    <3> QED
      BY <3>1, <3>2
  <2>2. head[(i - 1) + 1] = x
    BY <1>3, <2>1
  <2> QED
    BY <2>1, <2>2
<1> HIDE DEF head
<1>6. /\ r \in Seq(Items) /\ Len(r) = i + (Len(s) - i + 1)
      /\ \A j \in 1..i : r[j] = head[j]
      /\ \A j \in 1..(Len(s) - i + 1) : r[i + j] = back[j]
  BY <1>4, <1>5, ItemsJoined
<1>7. Abstract!InsertAt(s, i, x) = r
  BY DEF Abstract!InsertAt, front, middle, back, head
<1> HIDE DEF r
<1>8. \A j \in 1..(i - 1) : r[j] = s[j]
  BY <1>2, <1>5, <1>6
<1>9. r[i] = x
  BY <1>5, <1>6
<1>10. ASSUME NEW j \in i..Len(s) PROVE r[j + 1] = s[j]
  <2> DEFINE k == j - i + 1
  <2>1. k \in 1..(Len(s) - i + 1) /\ i + k = j + 1 /\ i + k - 1 = j
    BY <1>1
  <2>2. r[i + k] = back[k] /\ back[k] = s[i + k - 1]
    BY <1>4, <1>6, <2>1
  <2> QED
    BY <2>1, <2>2
<1>11. Len(r) = Len(s) + 1
  BY <1>1, <1>6
<1> QED
  BY <1>6, <1>7, <1>8, <1>9, <1>10, <1>11

\* The i-th item is taken out.
LEMMA Removed ==
    ASSUME NEW s \in Seq(Items), NEW i \in 1..Len(s)
    PROVE  LET r == Abstract!RemoveAt(s, i)
           IN  /\ r \in Seq(Items) /\ Len(r) = Len(s) - 1
               /\ \A j \in 1..(i - 1) : r[j] = s[j]
               /\ \A j \in i..(Len(s) - 1) : r[j] = s[j + 1]
<1> DEFINE front == SubSeq(s, 1, i - 1)
           back == SubSeq(s, i + 1, Len(s))
           r == front \o back
<1>1. Len(s) \in Nat
  BY LenProperties
<1>2. /\ front \in Seq(Items) /\ Len(front) = i - 1
      /\ \A j \in 1..(i - 1) : front[j] = s[j]
  <2>1. 1 \in 1..(Len(s) + 1) /\ i - 1 \in (1 - 1)..Len(s)
    BY <1>1
  <2>2. /\ front \in Seq(Items) /\ Len(front) = (i - 1) - 1 + 1
        /\ \A j \in 1..((i - 1) - 1 + 1) : front[j] = s[1 + j - 1]
    BY <2>1, ItemsPart
  <2> QED
    BY <2>2
<1>3. /\ back \in Seq(Items) /\ Len(back) = Len(s) - i
      /\ \A j \in 1..(Len(s) - i) : back[j] = s[i + j]
  <2>1. i + 1 \in 1..(Len(s) + 1) /\ Len(s) \in ((i + 1) - 1)..Len(s)
    BY <1>1
  <2>2. /\ back \in Seq(Items) /\ Len(back) = Len(s) - (i + 1) + 1
        /\ \A j \in 1..(Len(s) - (i + 1) + 1) : back[j] = s[(i + 1) + j - 1]
    BY <2>1, ItemsPart
  <2> QED
    BY <1>1, <2>2
<1> HIDE DEF front, back
<1>4. /\ r \in Seq(Items) /\ Len(r) = (i - 1) + (Len(s) - i)
      /\ \A j \in 1..(i - 1) : r[j] = front[j]
      /\ \A j \in 1..(Len(s) - i) : r[(i - 1) + j] = back[j]
  <2>1. Len(front) = i - 1 /\ Len(back) = Len(s) - i
    BY <1>2, <1>3
  <2>2. /\ r \in Seq(Items) /\ Len(r) = Len(front) + Len(back)
        /\ \A j \in 1..Len(front) : r[j] = front[j]
        /\ \A j \in 1..Len(back) : r[Len(front) + j] = back[j]
    <3>1. front \in Seq(Items) /\ back \in Seq(Items)
      BY <1>2, <1>3
    <3> QED
      BY <3>1, ItemsJoined
  <2> QED
    BY <2>1, <2>2
<1>5. Abstract!RemoveAt(s, i) = r
  BY DEF Abstract!RemoveAt, front, back
<1> HIDE DEF r
<1>6. \A j \in 1..(i - 1) : r[j] = s[j]
  BY <1>2, <1>4
<1>7. ASSUME NEW j \in i..(Len(s) - 1) PROVE r[j] = s[j + 1]
  <2> DEFINE k == j - i + 1
  <2>1. k \in 1..(Len(s) - i) /\ (i - 1) + k = j /\ i + k = j + 1
    BY <1>1
  <2>2. r[(i - 1) + k] = back[k] /\ back[k] = s[i + k]
    BY <1>3, <1>4, <2>1
  <2> QED
    BY <2>1, <2>2
<1>8. Len(r) = Len(s) - 1
  BY <1>1, <1>4
<1> QED
  BY <1>4, <1>5, <1>6, <1>7, <1>8

-----------------------------------------------------------------------------
(* What the operations do to the cells in use.                              *)

\* The item goes behind the others.
LEMMA AppendEffect ==
    ASSUME CellsInv, NEW x \in Items, AppendItem(x)
    PROVE  /\ CellsInv' /\ count' = count + 1 /\ items'[count] = x
           /\ \A c \in 0..(count - 1) : items'[c] = items[c]
<1>1. PICK m \in Nat : /\ ArrayOf(Managed, m) /\ count < m
                       /\ \A c \in 0..(count - 1) : Managed[c] = items[c]
  BY RoomForOne
<1>2. count \in Nat /\ m \in Nat \ {0} /\ DOMAIN Managed = 0..(m - 1)
  BY <1>1 DEF CellsInv, ArrayOf
<1>3. count' = count + 1 /\ items' = [Managed EXCEPT ![count] = x]
  BY DEF AppendItem, Filling
<1>4. /\ DOMAIN items' = 0..(m - 1)
      /\ \A c \in 0..(m - 1) : items'[c] = IF c = count THEN x ELSE Managed[c]
      /\ items' = [c \in 0..(m - 1) |-> items'[c]]
  BY <1>2, <1>3
<1>5. ArrayOf(items', m) /\ count' <= m
  BY <1>1, <1>2, <1>3, <1>4 DEF ArrayOf
<1>6. items'[count] = x /\ \A c \in 0..(count - 1) : items'[c] = items[c]
  BY <1>1, <1>2, <1>4
<1>7. \A c \in 0..(count' - 1) : items'[c] \in Items
  BY <1>2, <1>3, <1>6 DEF CellsInv
<1>8. CellsInv'
  <2>1. count' \in Nat /\ \E n \in Nat : ArrayOf(items', n) /\ count' <= n
    BY <1>2, <1>3, <1>5
  <2> QED
    BY <2>1, <1>7 DEF CellsInv, ArrayOf
<1> QED
  BY <1>3, <1>6, <1>8

\* The items from idx on move up by one cell.
LEMMA InsertEffect ==
    ASSUME CellsInv, NEW x \in Items, NEW idx \in 0..count, ArrInsert(x, idx)
    PROVE  /\ CellsInv' /\ count' = count + 1 /\ items'[idx] = x
           /\ \A c \in 0..(idx - 1) : items'[c] = items[c]
           /\ \A c \in idx..(count - 1) : items'[c + 1] = items[c]
<1>1. PICK m \in Nat : /\ ArrayOf(Managed, m) /\ count < m
                       /\ \A c \in 0..(count - 1) : Managed[c] = items[c]
  BY RoomForOne
<1>2. count \in Nat /\ m \in Nat \ {0} /\ DOMAIN Managed = 0..(m - 1)
  BY <1>1 DEF CellsInv, ArrayOf
<1>3. count' = count + 1 /\ items' = [Opened(Managed, idx) EXCEPT ![idx] = x]
  BY DEF ArrInsert, Filling
<1>4. Opened(Managed, idx) = [c \in 0..(m - 1) |->
          IF c \in (idx + 1)..count THEN Managed[c - 1] ELSE Managed[c]]
  BY <1>2 DEF Opened
<1>5. /\ DOMAIN items' = 0..(m - 1)
      /\ \A c \in 0..(m - 1) : items'[c] =
            IF c = idx THEN x
            ELSE IF c \in (idx + 1)..count THEN Managed[c - 1] ELSE Managed[c]
      /\ items' = [c \in 0..(m - 1) |-> items'[c]]
  BY <1>1, <1>2, <1>3, <1>4
<1>6. ArrayOf(items', m) /\ count' <= m
  BY <1>1, <1>2, <1>3, <1>5 DEF ArrayOf
<1>7. items'[idx] = x /\ \A c \in 0..(idx - 1) : items'[c] = items[c]
  BY <1>1, <1>2, <1>5
<1>8. ASSUME NEW c \in idx..(count - 1) PROVE items'[c + 1] = items[c]
  <2>1. /\ c + 1 \in 0..(m - 1) /\ c + 1 \in (idx + 1)..count /\ c + 1 # idx
        /\ (c + 1) - 1 = c /\ c \in 0..(count - 1)
    BY <1>1, <1>2
  <2>2. items'[c + 1] = Managed[(c + 1) - 1]
    BY <1>5, <2>1
  <2> QED
    BY <1>1, <2>1, <2>2
<1>9. ASSUME NEW c \in 0..(count' - 1) PROVE items'[c] \in Items
  <2>1. CASE c < idx
    BY <1>2, <1>7, <2>1 DEF CellsInv
  <2>2. CASE c = idx
    BY <1>7, <2>2
  <2>3. CASE c > idx
    <3>1. c - 1 \in idx..(count - 1) /\ (c - 1) + 1 = c /\ c - 1 \in 0..(count - 1)
      BY <1>2, <1>3, <2>3
    <3> QED
      BY <1>8, <3>1 DEF CellsInv
  <2> QED
    BY <1>2, <2>1, <2>2, <2>3
<1>10. CellsInv'
  <2>1. count' \in Nat /\ \E n \in Nat : ArrayOf(items', n) /\ count' <= n
    BY <1>2, <1>3, <1>6
  <2> QED
    BY <2>1, <1>9 DEF CellsInv, ArrayOf
<1> QED
  BY <1>3, <1>7, <1>8, <1>10

\* The items behind idx move down by one cell.
LEMMA RemoveEffect ==
    ASSUME CellsInv, NEW idx \in 0..(count - 1), RemoveAtIndex(idx)
    PROVE  /\ CellsInv' /\ count' = count - 1
           /\ \A c \in 0..(idx - 1) : items'[c] = items[c]
           /\ \A c \in idx..(count - 2) : items'[c] = items[c + 1]
<1>1. PICK n \in Nat : ArrayOf(items, n) /\ count <= n
  BY DEF CellsInv
<1>2. count \in Nat /\ n \in Nat \ {0} /\ DOMAIN items = 0..(n - 1)
  BY <1>1 DEF CellsInv, ArrayOf
<1>3. /\ count' = count - 1
      /\ items' = [c \in 0..(n - 1) |->
            IF c \notin idx..(count - 1) THEN items[c]
            ELSE IF c < count - 1 THEN items[c + 1] ELSE Null]
  BY <1>2 DEF RemoveAtIndex
<1>4. ArrayOf(items', n) /\ count' <= n /\ count' \in Nat
  BY <1>1, <1>2, <1>3 DEF ArrayOf
<1>5. \A c \in 0..(idx - 1) : items'[c] = items[c]
  BY <1>1, <1>2, <1>3
<1>6. \A c \in idx..(count - 2) : items'[c] = items[c + 1]
  BY <1>1, <1>2, <1>3
<1>7. ASSUME NEW c \in 0..(count' - 1) PROVE items'[c] \in Items
  <2>1. CASE c < idx
    BY <1>2, <1>3, <1>5, <2>1 DEF CellsInv
  <2>2. CASE c >= idx
    <3>1. c \in idx..(count - 2) /\ c + 1 \in 0..(count - 1)
      BY <1>2, <1>3, <2>2
    <3> QED
      BY <1>6, <3>1 DEF CellsInv
  <2> QED
    BY <2>1, <2>2
<1>8. CellsInv'
  BY <1>4, <1>7 DEF CellsInv, ArrayOf
<1> QED
  BY <1>3, <1>5, <1>6, <1>8

-----------------------------------------------------------------------------
(* The operations are those of a sequence.                                  *)

Cells == Shown(items, count)

\* The abstract list is the cells in use.
LEMMA CellsAreList ==
    ASSUME CellsInv
    PROVE  /\ Cells \in Seq(Items) /\ Len(Cells) = count /\ DOMAIN Cells = 1..count
           /\ \A i \in 1..count : Cells[i] = items[i - 1]
<1>1. count \in Nat /\ \A c \in 0..(count - 1) : items[c] \in Items
  BY DEF CellsInv
<1> QED
  BY <1>1, ListedIsSeq DEF Cells, Shown

\* The same of the next state.
LEMMA CellsAreListNext ==
    ASSUME CellsInv'
    PROVE  /\ Cells' \in Seq(Items) /\ Len(Cells') = count'
           /\ \A i \in 1..count' : Cells'[i] = items'[i - 1]
<1>1. count' \in Nat /\ \A c \in 0..(count' - 1) : items'[c] \in Items
  BY DEF CellsInv
<1>2. Cells' = Shown(items', count')
  BY DEF Cells, Shown
<1> QED
  BY <1>1, <1>2, ListedIsSeq

\* Appending, in an iteration or outside of one.
LEMMA AppendRefines ==
    ASSUME CellsInv, NEW x \in Items, AppendItem(x)
    PROVE  /\ Cells' = Abstract!InsertAt(Cells, count + 1, x)
           /\ Cells' = Cells \o <<x>>
<1>1. /\ CellsInv' /\ count' = count + 1 /\ items'[count] = x
      /\ \A c \in 0..(count - 1) : items'[c] = items[c]
  BY AppendEffect
<1>2. count \in Nat
  BY DEF CellsInv
<1>3. /\ Cells \in Seq(Items) /\ Len(Cells) = count
      /\ \A i \in 1..count : Cells[i] = items[i - 1]
  BY CellsAreList
<1>4. /\ Cells' \in Seq(Items) /\ Len(Cells') = count + 1
      /\ \A i \in 1..(count + 1) : Cells'[i] = items'[i - 1]
  BY <1>1, CellsAreListNext
<1>5. \A i \in 1..count : Cells'[i] = Cells[i]
  BY <1>1, <1>2, <1>3, <1>4
<1>6. Cells'[count + 1] = x
  BY <1>1, <1>2, <1>4
<1>7. Cells' = Abstract!InsertAt(Cells, count + 1, x)
  <2> DEFINE r == Abstract!InsertAt(Cells, count + 1, x)
  <2>1. count + 1 \in 1..(Len(Cells) + 1)
    BY <1>2, <1>3
  <2>2. /\ r \in Seq(Items) /\ Len(r) = Len(Cells) + 1
        /\ \A j \in 1..((count + 1) - 1) : r[j] = Cells[j]
        /\ r[count + 1] = x
    BY <1>3, <2>1, Inserted
  <2> HIDE DEF r
  <2>3. \A i \in 1..(count + 1) : Cells'[i] = r[i]
    BY <1>2, <1>5, <1>6, <2>2
  <2>4. Len(Cells') = Len(r)
    BY <1>3, <1>4, <2>2
  <2>5. Cells' = r
    BY <1>4, <2>2, <2>3, <2>4, SeqEqual
  <2> QED
    BY <2>5 DEF r
<1>8. Cells' = Cells \o <<x>>
  <2> DEFINE last == <<x>>
             r == Cells \o last
  <2>1. last \in Seq(Items) /\ Len(last) = 1 /\ last[1] = x
    OBVIOUS
  <2> HIDE DEF last
  <2>2. /\ r \in Seq(Items) /\ Len(r) = Len(Cells) + Len(last)
        /\ \A j \in 1..Len(Cells) : r[j] = Cells[j]
        /\ \A j \in 1..Len(last) : r[Len(Cells) + j] = last[j]
    BY <1>3, <2>1, ItemsJoined
  <2> HIDE DEF r
  <2>3. Len(r) = count + 1 /\ (\A j \in 1..count : r[j] = Cells[j]) /\ r[count + 1] = x
    <3>1. r[Len(Cells) + 1] = last[1]
      BY <2>1, <2>2
    <3> QED
      BY <1>3, <2>1, <2>2, <3>1
  <2>4. \A i \in 1..(count + 1) : Cells'[i] = r[i]
    BY <1>2, <1>5, <1>6, <2>3
  <2>5. Cells' = r
    BY <1>4, <2>2, <2>3, <2>4, SeqEqual
  <2> QED
    BY <2>5 DEF r, last
<1> QED
  BY <1>7, <1>8

\* Inserting.
LEMMA InsertRefines ==
    ASSUME CellsInv, NEW x \in Items, NEW idx \in 0..count, ArrInsert(x, idx)
    PROVE  Cells' = Abstract!InsertAt(Cells, idx + 1, x)
<1>1. /\ CellsInv' /\ count' = count + 1 /\ items'[idx] = x
      /\ \A c \in 0..(idx - 1) : items'[c] = items[c]
      /\ \A c \in idx..(count - 1) : items'[c + 1] = items[c]
  BY InsertEffect
<1>2. count \in Nat
  BY DEF CellsInv
<1>3. /\ Cells \in Seq(Items) /\ Len(Cells) = count
      /\ \A i \in 1..count : Cells[i] = items[i - 1]
  BY CellsAreList
<1>4. /\ Cells' \in Seq(Items) /\ Len(Cells') = count + 1
      /\ \A i \in 1..(count + 1) : Cells'[i] = items'[i - 1]
  BY <1>1, CellsAreListNext
<1> DEFINE r == Abstract!InsertAt(Cells, idx + 1, x)
<1>5. /\ r \in Seq(Items) /\ Len(r) = Len(Cells) + 1
      /\ \A j \in 1..((idx + 1) - 1) : r[j] = Cells[j]
      /\ r[idx + 1] = x
      /\ \A j \in (idx + 1)..Len(Cells) : r[j + 1] = Cells[j]
  <2>1. idx + 1 \in 1..(Len(Cells) + 1)
    BY <1>2, <1>3
  <2> QED
    BY <1>3, <2>1, Inserted
<1> HIDE DEF r
<1>6. ASSUME NEW i \in 1..(count + 1) PROVE Cells'[i] = r[i]
  <2>1. CASE i <= idx
    <3>1. i \in 1..((idx + 1) - 1) /\ i \in 1..count /\ i - 1 \in 0..(idx - 1)
      BY <1>2, <2>1
    <3> QED
      BY <1>1, <1>3, <1>4, <1>5, <3>1
  <2>2. CASE i = idx + 1
    <3>1. i - 1 = idx
      BY <2>2
    <3> QED
      BY <1>1, <1>4, <1>5, <2>2, <3>1
  <2>3. CASE i > idx + 1
    <3> DEFINE j == i - 1
               c == i - 2
    <3>1. /\ j \in (idx + 1)..count /\ j + 1 = i /\ j \in 1..count
          /\ c \in idx..(count - 1) /\ c + 1 = j /\ j - 1 = c
      BY <1>2, <2>3
    <3>2. r[j + 1] = Cells[j] /\ Cells[j] = items[j - 1] /\ items'[c + 1] = items[c]
      BY <1>1, <1>3, <1>5, <3>1
    <3>3. Cells'[i] = items'[j]
      BY <1>4
    <3> QED
      BY <3>1, <3>2, <3>3
  <2> QED
    BY <1>2, <2>1, <2>2, <2>3
<1>7. Cells' = r
  <2>1. Len(Cells') = Len(r)
    BY <1>3, <1>4, <1>5
  <2> QED
    BY <1>4, <1>5, <1>6, <2>1, SeqEqual
<1> QED
  BY <1>7 DEF r

\* Removing.
LEMMA RemoveRefines ==
    ASSUME CellsInv, NEW idx \in 0..(count - 1), RemoveAtIndex(idx)
    PROVE  Cells' = Abstract!RemoveAt(Cells, idx + 1)
<1>1. /\ CellsInv' /\ count' = count - 1
      /\ \A c \in 0..(idx - 1) : items'[c] = items[c]
      /\ \A c \in idx..(count - 2) : items'[c] = items[c + 1]
  BY RemoveEffect
<1>2. count \in Nat
  BY DEF CellsInv
<1>3. /\ Cells \in Seq(Items) /\ Len(Cells) = count
      /\ \A i \in 1..count : Cells[i] = items[i - 1]
  BY CellsAreList
<1>4. /\ Cells' \in Seq(Items) /\ Len(Cells') = count - 1
      /\ \A i \in 1..(count - 1) : Cells'[i] = items'[i - 1]
  BY <1>1, CellsAreListNext
<1> DEFINE r == Abstract!RemoveAt(Cells, idx + 1)
<1>5. /\ r \in Seq(Items) /\ Len(r) = Len(Cells) - 1
      /\ \A j \in 1..((idx + 1) - 1) : r[j] = Cells[j]
      /\ \A j \in (idx + 1)..(Len(Cells) - 1) : r[j] = Cells[j + 1]
  <2>1. idx + 1 \in 1..Len(Cells)
    BY <1>2, <1>3
  <2> QED
    BY <1>3, <2>1, Removed
<1> HIDE DEF r
<1>6. ASSUME NEW i \in 1..(count - 1) PROVE Cells'[i] = r[i]
  <2> DEFINE c == i - 1
  <2>1. Cells'[i] = items'[c]
    BY <1>4
  <2>2. CASE i <= idx
    <3>1. i \in 1..((idx + 1) - 1) /\ i \in 1..count /\ c \in 0..(idx - 1)
      BY <1>2, <2>2
    <3> QED
      BY <1>1, <1>3, <1>5, <2>1, <3>1
  <2>3. CASE i > idx
    <3>1. /\ i \in (idx + 1)..(count - 1) /\ i + 1 \in 1..count /\ (i + 1) - 1 = i
          /\ c \in idx..(count - 2) /\ c + 1 = i
      BY <1>2, <2>3
    <3>2. r[i] = Cells[i + 1] /\ Cells[i + 1] = items[i] /\ items'[c] = items[c + 1]
      BY <1>1, <1>3, <1>5, <3>1
    <3> QED
      BY <2>1, <3>1, <3>2
  <2> QED
    BY <1>2, <2>2, <2>3
<1>7. Cells' = r
  <2>1. Len(Cells') = Len(r)
    BY <1>3, <1>4, <1>5
  <2> QED
    BY <1>4, <1>5, <1>6, <2>1, SeqEqual
<1> QED
  BY <1>7 DEF r

\* Putting another item in a cell.
LEMMA SetEffect ==
    ASSUME CellsInv, NEW x \in Items, NEW idx \in 0..(count - 1), ArrSet(x, idx)
    PROVE  CellsInv' /\ Cells' = [Cells EXCEPT ![idx + 1] = x]
<1>1. PICK n \in Nat : ArrayOf(items, n) /\ count <= n
  BY DEF CellsInv
<1>2. count \in Nat /\ n \in Nat \ {0} /\ DOMAIN items = 0..(n - 1)
  BY <1>1 DEF CellsInv, ArrayOf
<1>3. count' = count /\ items' = [items EXCEPT ![idx] = x]
  BY DEF ArrSet
<1>4. /\ DOMAIN items' = 0..(n - 1) /\ items' = [c \in 0..(n - 1) |-> items'[c]]
      /\ \A c \in 0..(n - 1) : items'[c] = IF c = idx THEN x ELSE items[c]
  BY <1>2, <1>3
<1>5. CellsInv'
  <2>1. ArrayOf(items', n) /\ count' <= n
    BY <1>1, <1>2, <1>3, <1>4 DEF ArrayOf
  <2>2. \A c \in 0..(count - 1) : items'[c] \in Items
    <3>1. \A c \in 0..(count - 1) : c \in 0..(n - 1) /\ items[c] \in Items
      BY <1>1, <1>2 DEF CellsInv
    <3> QED
      BY <1>4, <3>1
  <2> QED
    BY <1>2, <1>3, <2>1, <2>2 DEF CellsInv, ArrayOf
<1>6. /\ DOMAIN Cells = 1..count /\ Cells = [i \in 1..count |-> items[i - 1]]
      /\ Cells' = [i \in 1..count |-> items'[i - 1]]
  BY <1>3 DEF Cells, Shown
<1>7. ASSUME NEW i \in 1..count
      PROVE  items'[i - 1] = [Cells EXCEPT ![idx + 1] = x][i]
  <2>1. i - 1 \in 0..(n - 1)
    BY <1>1, <1>2
  <2>2. i - 1 = idx <=> i = idx + 1
    BY <1>2
  <2> QED
    BY <1>4, <1>6, <2>1, <2>2
<1> QED
  BY <1>5, <1>6, <1>7

\* A set of cell numbers that is not empty has a least member.
LEMMA FirstOf ==
    ASSUME NEW S \in SUBSET Nat, S # {}
    PROVE  \E i \in S : \A j \in S : i <= j
<1> DEFINE R == OpToRel(<, Nat)
<1>1. PICK i \in S : \A j \in S : <<j, i>> \notin R
  <2>1. IsWellFoundedOn(R, Nat)
    BY NatLessThanWellFounded
  <2>2. IsWellFoundedOn(R, S)
    BY <2>1, IsWellFoundedOnSubset
  <2> QED
    BY <2>1, WFMin
<1>2. ASSUME NEW j \in S PROVE i <= j
  <2>1. i \in Nat /\ j \in Nat
    OBVIOUS
  <2>2. ~ (j < i)
    BY <1>1, <2>1 DEF OpToRel
  <2> QED
    BY <2>1, <2>2
<1> QED
  BY <1>2

\* Looking an item up: the first cell that holds it.
LEMMA IndexEffect ==
    ASSUME CellsInv, NEW x
    PROVE  LET hits == {i \in 1..count : Cells[i] = x}
           IN  IndexOf(x) = IF hits = {} THEN -1
                            ELSE (CHOOSE i \in hits : \A j \in hits : i <= j) - 1
<1> DEFINE hits == {i \in 1..count : Cells[i] = x}
           cells == {i \in 0..(count - 1) : items[i] = x}
<1>1. count \in Nat /\ \A i \in 1..count : Cells[i] = items[i - 1]
  BY CellsAreList DEF CellsInv
<1>2. \A i \in 0..(count - 1) : i \in cells <=> i + 1 \in hits
  BY <1>1
<1>3. hits = {} <=> cells = {}
  <2>1. ASSUME NEW i \in hits PROVE i - 1 \in cells
    BY <1>1
  <2> QED
    BY <1>2, <2>1
<1>4. CASE cells = {}
  BY <1>3, <1>4 DEF IndexOf
<1>5. CASE cells # {}
  <2> DEFINE first == CHOOSE i \in cells : \A j \in cells : i <= j
             abstract == CHOOSE i \in hits : \A j \in hits : i <= j
  <2>1. \E i \in cells : \A j \in cells : i <= j
    <3>1. cells \in SUBSET Nat
      BY <1>1
    <3> QED
      BY <1>5, <3>1, FirstOf
  <2>2. first \in cells /\ \A j \in cells : first <= j
    BY <2>1
  <2>3. first + 1 \in hits /\ \A j \in hits : first + 1 <= j
    <3>1. ASSUME NEW j \in hits PROVE first + 1 <= j
      <4>1. j - 1 \in cells
        BY <1>1
      <4> QED
        BY <2>2, <4>1, <1>1
    <3> QED
      BY <1>2, <2>2, <3>1
  <2>4. abstract \in hits /\ \A j \in hits : abstract <= j
    BY <2>3
  <2>5. first \in Int /\ abstract \in Int
    BY <1>1, <2>2, <2>4
  <2>6. abstract <= first + 1 /\ first + 1 <= abstract
    BY <2>3, <2>4
  <2> HIDE DEF first, abstract
  <2>7. first = abstract - 1
    BY <2>5, <2>6
  <2>8. IndexOf(x) = first
    BY <1>5 DEF IndexOf, first
  <2> QED
    BY <1>3, <1>5, <2>7, <2>8 DEF abstract
<1> QED
  BY <1>4, <1>5

\* The answer of a look-up that succeeds is a cell in use.
LEMMA IndexInRange ==
    ASSUME count \in Nat, NEW x, IndexOf(x) # -1
    PROVE  IndexOf(x) \in 0..(count - 1)
<1> DEFINE cells == {i \in 0..(count - 1) : items[i] = x}
<1>1. cells \in SUBSET Nat
  OBVIOUS
<1>2. cells # {}
  BY DEF IndexOf
<1>3. \E i \in cells : \A j \in cells : i <= j
  BY <1>1, <1>2, FirstOf
<1>4. (CHOOSE i \in cells : \A j \in cells : i <= j) \in cells
  BY <1>3
<1>5. IndexOf(x) = CHOOSE i \in cells : \A j \in cells : i <= j
  BY <1>2 DEF IndexOf
<1> QED
  BY <1>4, <1>5

\* Clearing.
LEMMA ClearEffect ==
    ASSUME CellsInv, ArrClear
    PROVE  CellsInv' /\ Cells' = <<>>
<1>1. PICK n \in Nat : ArrayOf(items, n) /\ count <= n
  BY DEF CellsInv
<1>2. count \in Nat /\ n \in Nat \ {0} /\ DOMAIN items = 0..(n - 1)
  BY <1>1 DEF CellsInv, ArrayOf
<1>3. count' = 0 /\ items' = [c \in 0..(n - 1) |-> IF c < count THEN Null ELSE items[c]]
  BY <1>2 DEF ArrClear
<1>4. ArrayOf(items', n) /\ count' <= n
  BY <1>2, <1>3 DEF ArrayOf
<1>5. CellsInv'
  BY <1>3, <1>4 DEF CellsInv, ArrayOf
<1>6. Cells' \in Seq(Items) /\ Len(Cells') = 0
  BY <1>3, <1>5, CellsAreListNext
<1> QED
  BY <1>5, <1>6, EmptySeq

\* The callback is given the item after those it was given before.
LEMMA CallbackEffect ==
    ASSUME ArrIInv, NEW more \in Items \cup {Null}, Callback(more)
    PROVE  /\ ArrIInv'
           /\ Len(seen) < Len(Cells) /\ seen' = Append(seen, Cells[Len(seen) + 1])
           /\ more = Null => Cells' = Cells
           /\ more # Null => Cells' = Cells \o <<more>>
<1>1. /\ at \in 0..(count - 1) /\ count \in Nat /\ seen \in Seq(Items) /\ Len(seen) = at
      /\ CellsInv
  BY DEF Callback, ArrIInv, IterationInv, CellsInv
<1>2. seen' = Append(seen, items[at]) /\ at' = at + 1 /\ items[at] \in Items
  BY <1>1 DEF Callback, CellsInv
<1>3. /\ Len(Cells) = count /\ at + 1 \in 1..count
      /\ \A i \in 1..count : Cells[i] = items[i - 1]
  BY <1>1, CellsAreList
<1>4. Cells[Len(seen) + 1] = items[at]
  <2>1. Cells[at + 1] = items[(at + 1) - 1] /\ (at + 1) - 1 = at
    BY <1>1, <1>3
  <2> QED
    BY <1>1, <2>1
<1>5. /\ CellsInv' /\ count <= count'
      /\ more = Null => Cells' = Cells
      /\ more # Null => Cells' = Cells \o <<more>>
  <2>1. CASE more = Null
    <3>1. items' = items /\ count' = count
      BY <2>1 DEF Callback
    <3>2. CellsInv'
      BY <1>1, <3>1 DEF CellsInv, ArrayOf
    <3>3. Cells' = Cells
      BY <3>1 DEF Cells, Shown
    <3> QED
      BY <1>1, <2>1, <3>1, <3>2, <3>3
  <2>2. CASE more # Null
    <3>1. more \in Items /\ AppendItem(more)
      BY <2>2 DEF Callback
    <3>2. CellsInv' /\ count' = count + 1 /\ Cells' = Cells \o <<more>>
      BY <1>1, <3>1, AppendEffect, AppendRefines
    <3> QED
      BY <1>1, <2>2, <3>2
  <2> QED
    BY <2>1, <2>2
<1>6. seen' \in Seq(Items) /\ Len(seen') = at'
  BY <1>1, <1>2
<1>7. at' \in 0..count'
  <2>1. count' \in Nat
    BY <1>5 DEF CellsInv
  <2> QED
    BY <1>1, <1>2, <1>5, <2>1
<1>8. ArrIInv'
  BY <1>5, <1>6, <1>7 DEF ArrIInv, IterationInv
<1> QED
  BY <1>1, <1>2, <1>3, <1>4, <1>5, <1>8

-----------------------------------------------------------------------------
(* The refinement.                                                          *)

LEMMA InitInv ==
    ASSUME ArrInit
    PROVE  ArrIInv /\ Abstract!Init
<1>1. /\ count = 0 /\ at = -1 /\ seen = <<>> /\ answer = Null
      /\ items = [c \in 0..(First - 1) |-> Null] /\ First \in Nat \ {0}
  BY GrowthAssumption DEF ArrInit
<1>2. ArrayOf(items, First)
  BY <1>1 DEF ArrayOf
<1>3. CellsInv
  <2>1. count \in Nat /\ First \in Nat /\ count <= First
    BY <1>1
  <2>2. \A c \in 0..(count - 1) : items[c] \in Items
    BY <1>1
  <2> QED
    BY <1>2, <2>1, <2>2 DEF CellsInv
<1>4. Cells \in Seq(Items) /\ Len(Cells) = 0
  BY <1>1, <1>3, CellsAreList
<1>5. Cells = <<>>
  BY <1>4, EmptySeq
<1> QED
  BY <1>1, <1>3, <1>5 DEF ArrIInv, IterationInv, Abstract!Init, Cells, Shown

\* An insertion is a step of the sequence.
LEMMA InsertIsStep ==
    ASSUME NEW x \in Items, NEW i \in 1..(Len(Cells) + 1), Abstract!Insert(x, i)
    PROVE  Abstract!Next
  BY DEF Abstract!Next, Cells, Shown

\* Every call of the code is the call of the sequence, or changes nothing of it.
LEMMA StepSimulates ==
    ASSUME ArrIInv, ArrNext
    PROVE  ArrIInv' /\ [Abstract!Next]_<<Cells, answer, seen>>
<1>1. CellsInv /\ IterationInv /\ count \in Nat /\ Len(Cells) = count /\ DOMAIN Cells = 1..count
  BY CellsAreList DEF ArrIInv, CellsInv
<1>2. Cells = [i \in 1..count |-> items[i - 1]]
  BY DEF Cells, Shown
<1>3. Cells' = [i \in 1..count' |-> items'[i - 1]]
  BY DEF Cells, Shown
<1>4. ASSUME UNCHANGED <<items, count>> PROVE CellsInv' /\ Cells' = Cells
  BY <1>1, <1>4 DEF CellsInv, ArrayOf, Cells, Shown
<1>5. CASE ForEach
  <2>1. at = -1 /\ at' = 0 /\ seen' = <<>> /\ UNCHANGED <<items, count, answer>>
    BY <1>5 DEF ForEach
  <2>2. seen = <<>>
    BY <1>1, <2>1 DEF IterationInv
  <2>3. seen' \in Seq(Items) /\ Len(seen') = 0 /\ at' \in 0..count'
    BY <1>1, <2>1
  <2> QED
    BY <1>4, <2>1, <2>2, <2>3 DEF ArrIInv, IterationInv
<1>6. CASE EndForEach
  <2>1. at' = -1 /\ seen' = <<>> /\ UNCHANGED <<items, count, answer>>
    BY <1>6 DEF EndForEach
  <2>2. Abstract!Finish
    BY <1>2, <1>3, <1>4, <2>1 DEF Abstract!Finish
  <2> QED
    BY <1>4, <2>1, <2>2 DEF ArrIInv, IterationInv, Abstract!Next
<1>7. CASE ArrClear
  <2>1. CellsInv' /\ Cells' = <<>>
    BY <1>1, <1>7, ClearEffect
  <2>2. at = -1 /\ UNCHANGED <<answer, at, seen>>
    BY <1>7 DEF ArrClear
  <2>3. IterationInv' /\ seen' = <<>>
    BY <1>1, <2>2 DEF IterationInv
  <2>4. Abstract!Clear
    BY <1>3, <2>1, <2>2, <2>3 DEF Abstract!Clear
  <2> QED
    BY <2>1, <2>3, <2>4 DEF ArrIInv, Abstract!Next
<1>8. ASSUME NEW idx \in 0..(count - 1), ArrGet(idx)
      PROVE  ArrIInv' /\ [Abstract!Next]_<<Cells, answer, seen>>
  <2>1. at = -1 /\ answer' = items[idx] /\ UNCHANGED <<items, count, at, seen>>
    BY <1>8 DEF ArrGet
  <2>2. idx + 1 \in 1..count /\ Cells[idx + 1] = items[idx]
    BY <1>1, <1>2
  <2>3. Abstract!Get(idx + 1)
    BY <1>2, <1>3, <1>4, <2>1, <2>2 DEF Abstract!Get
  <2>4. Abstract!Next
    BY <1>1, <1>2, <2>2, <2>3 DEF Abstract!Next
  <2>5. IterationInv'
    BY <1>1, <2>1 DEF IterationInv
  <2> QED
    BY <1>4, <2>1, <2>4, <2>5 DEF ArrIInv
<1>9. ASSUME NEW idx \in 0..(count - 1), at = -1, RemoveAtIndex(idx)
      PROVE  ArrIInv' /\ [Abstract!Next]_<<Cells, answer, seen>>
  <2>1. CellsInv' /\ Cells' = Abstract!RemoveAt(Cells, idx + 1)
    BY <1>1, <1>9, RemoveEffect, RemoveRefines
  <2>2. UNCHANGED <<answer, at, seen>>
    BY <1>9 DEF RemoveAtIndex
  <2>3. idx + 1 \in 1..count
    BY <1>1
  <2>4. Abstract!Delete(idx + 1)
    BY <1>2, <1>3, <2>1, <2>2 DEF Abstract!Delete
  <2>5. Abstract!Next
    BY <1>1, <1>2, <2>3, <2>4 DEF Abstract!Next
  <2>6. IterationInv'
    BY <1>1, <1>9, <2>2 DEF IterationInv
  <2> QED
    BY <2>1, <2>5, <2>6 DEF ArrIInv
<1>10. ASSUME NEW idx \in 0..(count - 1), ArrRemove(idx)
       PROVE  ArrIInv' /\ [Abstract!Next]_<<Cells, answer, seen>>
  BY <1>9, <1>10 DEF ArrRemove
<1>11. ASSUME NEW x \in Items, ArrRemoveItem(x)
       PROVE  ArrIInv' /\ [Abstract!Next]_<<Cells, answer, seen>>
  <2>1. at = -1 /\ IndexOf(x) # -1 /\ RemoveAtIndex(IndexOf(x))
    BY <1>11 DEF ArrRemoveItem
  <2>2. IndexOf(x) \in 0..(count - 1)
    BY <1>1, <2>1, IndexInRange
  <2> QED
    BY <1>9, <2>1, <2>2
<1>12. ASSUME NEW x \in Items, ArrAppend(x)
       PROVE  ArrIInv' /\ [Abstract!Next]_<<Cells, answer, seen>>
  <2>1. at = -1 /\ AppendItem(x) /\ UNCHANGED <<answer, at, seen>>
    BY <1>12 DEF ArrAppend
  <2>2. CellsInv' /\ Cells' = Abstract!InsertAt(Cells, count + 1, x)
    BY <1>1, <2>1, AppendEffect, AppendRefines
  <2>3. PICK i \in 1..(Len(Cells) + 1) : i = count + 1
    BY <1>1
  <2>4. Abstract!Next
    <3>1. Cells' = Abstract!InsertAt(Cells, i, x)
      BY <2>2, <2>3
    <3>2. Abstract!Insert(x, i)
      BY <2>1, <3>1 DEF Abstract!Insert, Cells, Shown
    <3> QED
      BY <3>2, InsertIsStep
  <2>5. IterationInv'
    BY <1>1, <2>1 DEF IterationInv
  <2> QED
    BY <2>2, <2>4, <2>5 DEF ArrIInv
<1>13. ASSUME NEW x \in Items, NEW idx \in 0..count, ArrInsert(x, idx)
       PROVE  ArrIInv' /\ [Abstract!Next]_<<Cells, answer, seen>>
  <2>1. at = -1 /\ UNCHANGED <<answer, at, seen>>
    BY <1>13 DEF ArrInsert
  <2>2. CellsInv' /\ Cells' = Abstract!InsertAt(Cells, idx + 1, x)
    BY <1>1, <1>13, InsertEffect, InsertRefines
  <2>3. Abstract!Insert(x, idx + 1) /\ idx + 1 \in 1..(Len(Cells) + 1)
    <3>1. Abstract!Insert(x, idx + 1)
      BY <2>1, <2>2 DEF Abstract!Insert, Cells, Shown
    <3>2. idx + 1 \in 1..(Len(Cells) + 1)
      BY <1>1
    <3> QED
      BY <3>1, <3>2
  <2>4. Abstract!Next
    BY <2>3, InsertIsStep
  <2>5. IterationInv'
    BY <1>1, <2>1 DEF IterationInv
  <2> QED
    BY <2>2, <2>4, <2>5 DEF ArrIInv
<1>14. ASSUME NEW x \in Items, NEW idx \in 0..(count - 1), ArrSet(x, idx)
       PROVE  ArrIInv' /\ [Abstract!Next]_<<Cells, answer, seen>>
  <2>1. at = -1 /\ UNCHANGED <<answer, at, seen>>
    BY <1>14 DEF ArrSet
  <2>2. CellsInv' /\ Cells' = [Cells EXCEPT ![idx + 1] = x]
    BY <1>1, <1>14, SetEffect
  <2>3. Abstract!Put(x, idx + 1) /\ idx + 1 \in 1..count
    <3>1. Abstract!Put(x, idx + 1)
      BY <2>1, <2>2 DEF Abstract!Put, Cells, Shown
    <3>2. idx + 1 \in 1..count
      BY <1>1
    <3> QED
      BY <3>1, <3>2
  <2>4. Abstract!Next
    BY <1>1, <1>2, <2>3 DEF Abstract!Next
  <2>5. IterationInv'
    BY <1>1, <2>1 DEF IterationInv
  <2> QED
    BY <2>2, <2>4, <2>5 DEF ArrIInv
<1>15. ASSUME NEW x \in Items, ArrIndexOf(x)
       PROVE  ArrIInv' /\ [Abstract!Next]_<<Cells, answer, seen>>
  <2>1. at = -1 /\ answer' = IndexOf(x) /\ UNCHANGED <<items, count, at, seen>>
    BY <1>15 DEF ArrIndexOf
  <2>2. answer' = LET hits == {i \in DOMAIN Cells : Cells[i] = x}
                  IN  IF hits = {} THEN -1
                      ELSE (CHOOSE i \in hits : \A j \in hits : i <= j) - 1
    BY <1>1, <2>1, IndexEffect
  <2>3. Abstract!IndexOf(x)
    BY <1>2, <1>3, <1>4, <2>1, <2>2 DEF Abstract!IndexOf
  <2>4. Abstract!Next
    BY <2>3 DEF Abstract!Next
  <2>5. IterationInv'
    BY <1>1, <2>1 DEF IterationInv
  <2> QED
    BY <1>4, <2>1, <2>4, <2>5 DEF ArrIInv
<1>16. ASSUME NEW more \in Items \cup {Null}, Callback(more)
       PROVE  ArrIInv' /\ [Abstract!Next]_<<Cells, answer, seen>>
  <2>1. /\ ArrIInv' /\ Len(seen) < Len(Cells) /\ seen' = Append(seen, Cells[Len(seen) + 1])
        /\ more = Null => Cells' = Cells
        /\ more # Null => Cells' = Cells \o <<more>>
        /\ answer' = answer
    BY <1>16, CallbackEffect DEF Callback
  <2>2. CASE more = Null
    <3>1. Cells' = Cells \o <<>>
      BY <1>1, <2>1, <2>2, CellsAreList, ConcatEmptySeq
    <3>2. Abstract!Visit(<<>>)
      BY <1>2, <1>3, <2>1, <3>1 DEF Abstract!Visit
    <3> QED
      BY <2>1, <3>2 DEF Abstract!Next
  <2>3. CASE more # Null
    <3>1. more \in Items
      BY <2>3
    <3>2. Abstract!Visit(<<more>>)
      BY <1>2, <1>3, <2>1, <2>3 DEF Abstract!Visit
    <3> QED
      BY <2>1, <3>1, <3>2 DEF Abstract!Next
  <2> QED
    BY <2>2, <2>3
<1> QED
  BY <1>5, <1>6, <1>7, <1>8, <1>10, <1>11, <1>12, <1>13, <1>14, <1>15, <1>16 DEF ArrNext

\* core/arraylist.c: whatever the sizes, the array behaves as a sequence.
\* Growing loses no item and shows none of the fresh memory, inserting and
\* removing move the items without writing one over another, and an iteration
\* hands out all of them in order while its callback appends.
THEOREM ArrayIsList == ArrSpec => IsList
<1>1. ArrInit => ArrIInv /\ Abstract!Init
  BY InitInv
<1>2. ArrIInv /\ [ArrNext]_arrVars => ArrIInv' /\ [Abstract!Next]_<<Cells, answer, seen>>
  <2>1. CASE ArrNext
    BY <2>1, StepSimulates
  <2>2. ASSUME ArrIInv, UNCHANGED arrVars
        PROVE  ArrIInv' /\ UNCHANGED <<Cells, answer, seen>>
    <3>1. UNCHANGED <<items, count, answer, at, seen>>
      BY <2>2 DEF arrVars
    <3> QED
      BY <2>2, <3>1 DEF ArrIInv, CellsInv, IterationInv, ArrayOf, Cells, Shown
  <2> QED
    BY <2>1, <2>2
<1>3. [Abstract!Next]_<<Cells, answer, seen>> =>
          [Abstract!Next]_<<[i \in 1..count |-> items[i - 1]], answer, seen>>
  BY DEF Cells, Shown
<1> QED
  BY <1>1, <1>2, <1>3, PTL DEF ArrSpec, IsList, Abstract!Spec

-----------------------------------------------------------------------------
(* The buffer: Multibuffer refines Stream, for any sources and any sizes of*)
(* the reads.                                                              *)

-----------------------------------------------------------------------------
(* The inductive invariant.  What was read since the last rewind is the     *)
(* front of the text, and where each source stands follows from its length. *)

Letter == UNION {{t[i] : i \in DOMAIN t} : t \in Texts \cup {Reset}}
Chain == Seq([type : {"file", "str"}, text : Seq(Letter), pos : Nat])

\* The texts of the first n nodes.
Upto(ns, n) == FlattenSeq([m \in 1..n |-> ns[m].text])

\* How far r characters reach into size characters that start behind start.
Reach(r, start, size) ==
    IF r <= start THEN 0 ELSE IF r - start <= size THEN r - start ELSE size

Standing(ns, r) ==
    \A n \in 1..Len(ns) : ns[n].pos = Reach(r, Len(Upto(ns, n - 1)), Len(ns[n].text))

IsFront(s, t) == Len(s) <= Len(t) /\ \A i \in 1..Len(s) : s[i] = t[i]

MbIInv ==
    /\ nodes \in Chain /\ read \in Seq(Letter)
    /\ cur = IF nodes = <<>> THEN 0 ELSE 1
    /\ nodes = <<>> => length = 0
    /\ IsFront(read, Upto(nodes, Len(nodes)))
    /\ Standing(nodes, Len(read))

-----------------------------------------------------------------------------
(* Sequences.                                                               *)

\* SequencesExt's flattening, by one sequence more.
Flat(seqs, n, f) ==
    f = [i \in 1..n |-> IF i = 1 THEN seqs[i] ELSE f[i - 1] \o seqs[i]]

LEMMA FlatExists ==
    ASSUME NEW seqs
    PROVE  \A n \in Nat : \E f : Flat(seqs, n, f)
<1> DEFINE S == {n \in Nat : \E f : Flat(seqs, n, f)}
<1>1. 0 \in S
  <2> DEFINE f == [i \in 1..0 |-> i]
  <2>1. Flat(seqs, 0, f)
    BY DEF Flat
  <2> QED
    BY <2>1
<1>2. ASSUME NEW n \in S PROVE n + 1 \in S
  <2>1. PICK f : Flat(seqs, n, f)
    OBVIOUS
  <2> DEFINE g == [i \in 1..(n + 1) |-> IF i = n + 1
                                        THEN IF i = 1 THEN seqs[i] ELSE f[i - 1] \o seqs[i]
                                        ELSE f[i]]
  <2>2. \A i \in 1..(n + 1) : g[i] = IF i = 1 THEN seqs[i] ELSE g[i - 1] \o seqs[i]
    <3>1. ASSUME NEW i \in 1..(n + 1)
          PROVE  g[i] = IF i = 1 THEN seqs[i] ELSE g[i - 1] \o seqs[i]
      <4>1. CASE i = n + 1
        <5>1. i # 1 => i - 1 \in 1..(n + 1) /\ i - 1 # n + 1
          BY <4>1
        <5> QED
          BY <4>1, <5>1
      <4>2. CASE i # n + 1
        <5>1. i \in 1..n /\ (i # 1 => i - 1 \in 1..(n + 1) /\ i - 1 # n + 1)
          BY <4>2
        <5>2. f[i] = IF i = 1 THEN seqs[i] ELSE f[i - 1] \o seqs[i]
          BY <2>1, <5>1 DEF Flat
        <5> QED
          BY <4>2, <5>1, <5>2
      <4> QED
        BY <4>1, <4>2
    <3> QED
      BY <3>1
  <2>3. Flat(seqs, n + 1, g)
    <3> DEFINE h == [i \in 1..(n + 1) |-> IF i = 1 THEN seqs[i] ELSE g[i - 1] \o seqs[i]]
    <3>1. DOMAIN g = DOMAIN h /\ g = [i \in DOMAIN g |-> g[i]] /\ h = [i \in DOMAIN h |-> h[i]]
      OBVIOUS
    <3>2. \A i \in 1..(n + 1) : g[i] = h[i]
      BY <2>2
    <3> HIDE DEF g
    <3>3. g = h
      BY <3>1, <3>2
    <3> QED
      BY <3>3 DEF Flat
  <2> HIDE DEF g
  <2> QED
    BY <2>3
<1> HIDE DEF S
<1>3. S = Nat
  <2>1. S \in SUBSET Nat
    BY DEF S
  <2> QED
    BY <1>1, <1>2, <2>1, Induction
<1> QED
  BY <1>3 DEF S

LEMMA FlattenIs ==
    ASSUME NEW S, NEW seqs \in Seq(S), seqs # <<>>
    PROVE  \E f : Flat(seqs, Len(seqs), f) /\ FlattenSeq(seqs) = f[Len(seqs)]
<1> DEFINE f == CHOOSE f : f = [i \in 1..Len(seqs) |->
                                   IF i = 1 THEN seqs[i] ELSE f[i - 1] \o seqs[i]]
<1>1. Len(seqs) \in Nat \ {0}
  BY EmptySeq
<1>2. FlattenSeq(seqs) = f[Len(seqs)]
  BY <1>1 DEF FlattenSeq
<1>3. Flat(seqs, Len(seqs), f)
  BY <1>1, FlatExists DEF Flat
<1> QED
  BY <1>2, <1>3

LEMMA FlatAt ==
    ASSUME NEW n \in Nat, NEW Q, NEW f, Flat(Q, n, f), NEW i \in 1..n
    PROVE  f[i] = IF i = 1 THEN Q[i] ELSE f[i - 1] \o Q[i]
  BY DEF Flat

LEMMA FlatNext ==
    ASSUME NEW n \in Nat, NEW Q, NEW f, Flat(Q, n, f), NEW m \in Nat, m + 1 \in 1..n
    PROVE  f[m + 1] = IF m = 0 THEN Q[m + 1] ELSE f[m] \o Q[m + 1]
<1>1. f[m + 1] = IF m + 1 = 1 THEN Q[m + 1] ELSE f[m + 1 - 1] \o Q[m + 1]
  BY FlatAt
<1>2. m + 1 - 1 = m /\ (m + 1 = 1 <=> m = 0)
  OBVIOUS
<1> QED
  BY <1>1, <1>2

LEMMA FlatValues ==
    ASSUME NEW S, NEW n \in Nat, NEW Q, \A m \in 1..n : Q[m] \in Seq(S), NEW f, Flat(Q, n, f)
    PROVE  \A m \in 1..n : f[m] \in Seq(S)
<1> DEFINE T == {m \in Nat : m \in 1..n => f[m] \in Seq(S)}
<1>1. 0 \in T
  OBVIOUS
<1>2. ASSUME NEW m \in T PROVE m + 1 \in T
  <2> SUFFICES ASSUME m + 1 \in 1..n PROVE f[m + 1] \in Seq(S)
    OBVIOUS
  <2>1. f[m + 1] = IF m = 0 THEN Q[m + 1] ELSE f[m] \o Q[m + 1]
    BY FlatNext
  <2>2. Q[m + 1] \in Seq(S)
    OBVIOUS
  <2>3. CASE m = 0
    BY <2>1, <2>2, <2>3
  <2>4. CASE m # 0
    <3>1. m \in 1..n /\ f[m] \in Seq(S)
      BY <2>4
    <3>2. f[m] \o Q[m + 1] \in Seq(S)
      BY <2>2, <3>1, Joined
    <3> QED
      BY <2>1, <2>4, <3>2
  <2> QED
    BY <2>3, <2>4
<1> HIDE DEF T
<1>3. T \in SUBSET Nat
  BY DEF T
<1>4. T = Nat
  BY <1>1, <1>2, <1>3, Induction
<1> QED
  BY <1>4 DEF T

Alike(P, Q, n) == \A m \in 1..n : P[m] = Q[m]

LEMMA FlatSame ==
    ASSUME NEW n \in Nat, NEW P, NEW Q, Alike(P, Q, n),
           NEW f, Flat(P, n, f), NEW k \in Nat, n <= k, NEW g, Flat(Q, k, g)
    PROVE  Alike(f, g, n)
<1> DEFINE T == {m \in Nat : m \in 1..n => f[m] = g[m]}
<1>1. 0 \in T
  OBVIOUS
<1>2. ASSUME NEW m \in T PROVE m + 1 \in T
  <2> SUFFICES ASSUME m + 1 \in 1..n PROVE f[m + 1] = g[m + 1]
    OBVIOUS
  <2>1. f[m + 1] = IF m = 0 THEN P[m + 1] ELSE f[m] \o P[m + 1]
    BY FlatNext
  <2>2. m + 1 \in 1..k
    OBVIOUS
  <2>3. g[m + 1] = IF m = 0 THEN Q[m + 1] ELSE g[m] \o Q[m + 1]
    BY <2>2, FlatNext
  <2>4. P[m + 1] = Q[m + 1] /\ (m # 0 => f[m] = g[m])
    BY DEF Alike
  <2> QED
    BY <2>1, <2>3, <2>4
<1> HIDE DEF T
<1>3. T \in SUBSET Nat
  BY DEF T
<1>4. T = Nat
  BY <1>1, <1>2, <1>3, Induction
<1> QED
  BY <1>4 DEF T, Alike

\* Flattening one sequence more.
LEMMA FlattenStep ==
    ASSUME NEW S, NEW n \in Nat, NEW Q \in [1..(n + 1) -> Seq(S)]
    PROVE  /\ FlattenSeq([m \in 1..(n + 1) |-> Q[m]])
                = FlattenSeq([m \in 1..n |-> Q[m]]) \o Q[n + 1]
           /\ FlattenSeq([m \in 1..n |-> Q[m]]) \in Seq(S)
<1> DEFINE G == [m \in 1..(n + 1) |-> Q[m]]
           F == [m \in 1..n |-> Q[m]]
<1>1. /\ G \in Seq(Seq(S)) /\ Len(G) = n + 1 /\ \A m \in 1..(n + 1) : G[m] = Q[m]
      /\ F \in Seq(Seq(S)) /\ Len(F) = n /\ \A m \in 1..n : F[m] = Q[m]
  OBVIOUS
<1>2. n = 0 => FlattenSeq(F) = <<>>
  BY DEF FlattenSeq
<1>3. \A m \in 1..(n + 1) : Q[m] \in Seq(S)
  OBVIOUS
<1> HIDE DEF G, F
<1>4. G # <<>>
  BY <1>1
<1>5. PICK g : Flat(G, Len(G), g) /\ FlattenSeq(G) = g[Len(G)]
  BY ONLY <1>1, <1>4, FlattenIs
<1>6. g[n + 1] = IF n = 0 THEN G[n + 1] ELSE g[n] \o G[n + 1]
  <2>1. Flat(G, n + 1, g) /\ n + 1 \in Nat /\ n + 1 \in 1..(n + 1)
    BY <1>1, <1>5
  <2> QED
    BY ONLY <2>1, n \in Nat, FlatNext
<1>7. CASE n = 0
  <2>1. FlattenSeq(G) = Q[n + 1]
    BY <1>1, <1>5, <1>6, <1>7
  <2>2. FlattenSeq(F) = <<>> /\ <<>> \in Seq(S)
    BY <1>2, <1>7
  <2>3. <<>> \o Q[n + 1] = Q[n + 1]
    BY <1>3
  <2> QED
    BY <2>1, <2>2, <2>3 DEF F, G
<1>8. CASE n # 0
  <2>1. F # <<>>
    BY <1>1, <1>8
  <2>2. PICK f : Flat(F, Len(F), f) /\ FlattenSeq(F) = f[Len(F)]
    BY ONLY <1>1, <2>1, FlattenIs
  <2>3. Flat(F, n, f) /\ Flat(G, n + 1, g) /\ n + 1 \in Nat /\ n <= n + 1
    BY <1>1, <1>5, <2>2
  <2>4. Alike(F, G, n)
    BY <1>1 DEF Alike
  <2>5. Alike(f, g, n)
    <3> DEFINE k == n + 1
    <3>1. Flat(F, n, f) /\ Flat(G, k, g) /\ k \in Nat /\ n <= k
      BY <2>3
    <3> HIDE DEF k
    <3> QED
      BY ONLY <2>4, <3>1, n \in Nat, FlatSame
  <2>6. \A m \in 1..n : F[m] \in Seq(S)
    BY <1>1, <1>3
  <2>7. \A m \in 1..n : f[m] \in Seq(S)
    BY ONLY <2>3, <2>6, n \in Nat, FlatValues
  <2>8. f[n] = g[n] /\ f[n] \in Seq(S)
    BY <1>8, <2>5, <2>7 DEF Alike
  <2>9. FlattenSeq(G) = f[n] \o Q[n + 1] /\ FlattenSeq(F) = f[n]
    <3>1. FlattenSeq(G) = g[n] \o G[n + 1]
      BY <1>1, <1>5, <1>6, <1>8
    <3>2. G[n + 1] = Q[n + 1]
      BY <1>1
    <3> QED
      BY <1>1, <2>2, <2>8, <3>1, <3>2
  <2> QED
    BY <2>8, <2>9 DEF F, G
<1> QED
  BY <1>7, <1>8

LEMMA FlattenNone ==
    ASSUME NEW Q
    PROVE  FlattenSeq([m \in 1..0 |-> Q[m]]) = <<>>
  BY DEF FlattenSeq

-----------------------------------------------------------------------------
(* The text of a chain.                                                     *)

LEMMA ChainFacts ==
    ASSUME NEW ns \in Chain
    PROVE  /\ Len(ns) \in Nat
           /\ \A n \in 1..Len(ns) : /\ ns[n].text \in Seq(Letter) /\ ns[n].pos \in Nat
                                    /\ ns[n].type \in {"file", "str"} /\ Len(ns[n].text) \in Nat
<1>1. Len(ns) \in Nat
  BY DEF Chain
<1>2. ASSUME NEW n \in 1..Len(ns)
      PROVE  /\ ns[n].text \in Seq(Letter) /\ ns[n].pos \in Nat
             /\ ns[n].type \in {"file", "str"}
  <2> DEFINE R == [type : {"file", "str"}, text : Seq(Letter), pos : Nat]
  <2>1. ns \in Seq(R)
    BY DEF Chain
  <2> HIDE DEF R
  <2>2. ns[n] \in R
    BY <2>1, ElementOfSeq
  <2>3. ns[n] \in [type : {"file", "str"}, text : Seq(Letter), pos : Nat]
    BY <2>2 DEF R
  <2> QED
    BY <2>3
<1>3. ASSUME NEW n \in 1..Len(ns) PROVE Len(ns[n].text) \in Nat
  BY <1>2, <1>3, LenProperties
<1> QED
  BY <1>1, <1>2, <1>3

LEMMA UptoStep ==
    ASSUME NEW ns \in Chain, NEW n \in Nat, n + 1 <= Len(ns)
    PROVE  /\ Upto(ns, n) \in Seq(Letter)
           /\ Upto(ns, n + 1) = Upto(ns, n) \o ns[n + 1].text
<1> DEFINE Q == [m \in 1..(n + 1) |-> ns[m].text]
<1>1. Q \in [1..(n + 1) -> Seq(Letter)]
  BY ChainFacts
<1>2. [m \in 1..(n + 1) |-> ns[m].text] = [m \in 1..(n + 1) |-> Q[m]]
  OBVIOUS
<1>3. [m \in 1..n |-> ns[m].text] = [m \in 1..n |-> Q[m]]
  OBVIOUS
<1>4. Q[n + 1] = ns[n + 1].text
  OBVIOUS
<1> HIDE DEF Q
<1>5. /\ FlattenSeq([m \in 1..(n + 1) |-> Q[m]])
           = FlattenSeq([m \in 1..n |-> Q[m]]) \o Q[n + 1]
      /\ FlattenSeq([m \in 1..n |-> Q[m]]) \in Seq(Letter)
  BY <1>1, FlattenStep
<1> QED
  BY <1>2, <1>3, <1>4, <1>5 DEF Upto

LEMMA UptoNone ==
    ASSUME NEW ns
    PROVE  Upto(ns, 0) = <<>>
<1>1. [m \in 1..0 |-> ns[m].text] = <<>>
  OBVIOUS
<1> QED
  BY <1>1 DEF Upto, FlattenSeq

LEMMA UptoType ==
    ASSUME NEW ns \in Chain, NEW n \in 0..Len(ns)
    PROVE  Upto(ns, n) \in Seq(Letter) /\ Len(Upto(ns, n)) \in Nat
<1>1. Len(ns) \in Nat
  BY ChainFacts
<1>2. CASE n = 0
  <2>1. Upto(ns, n) = <<>>
    BY <1>2, UptoNone
  <2> QED
    BY <2>1
<1>3. CASE n # 0
  <2> DEFINE k == n - 1
  <2>1. k \in Nat /\ k + 1 = n /\ k + 1 <= Len(ns) /\ n \in 1..Len(ns)
    BY <1>1, <1>3
  <2> HIDE DEF k
  <2>2. Upto(ns, k) \in Seq(Letter) /\ Upto(ns, k + 1) = Upto(ns, k) \o ns[k + 1].text
    BY <2>1, UptoStep
  <2>3. ns[n].text \in Seq(Letter)
    BY <2>1, ChainFacts
  <2>4. Upto(ns, n) \in Seq(Letter)
    BY <2>1, <2>2, <2>3, Joined
  <2> QED
    BY <2>4, LenProperties
<1> QED
  BY <1>2, <1>3

LEMMA UptoSame ==
    ASSUME NEW ns, NEW ms, NEW n \in Nat, \A m \in 1..n : ns[m].text = ms[m].text
    PROVE  Upto(ns, n) = Upto(ms, n)
<1>1. [m \in 1..n |-> ns[m].text] = [m \in 1..n |-> ms[m].text]
  OBVIOUS
<1> QED
  BY <1>1 DEF Upto

\* Lengths and characters of one node more.
LEMMA UptoNext ==
    ASSUME NEW ns \in Chain, NEW n \in Nat, n + 1 <= Len(ns)
    PROVE  /\ Len(Upto(ns, n + 1)) = Len(Upto(ns, n)) + Len(ns[n + 1].text)
           /\ \A i \in 1..Len(Upto(ns, n)) : Upto(ns, n + 1)[i] = Upto(ns, n)[i]
           /\ \A i \in 1..Len(ns[n + 1].text) :
                Upto(ns, n + 1)[Len(Upto(ns, n)) + i] = ns[n + 1].text[i]
<1>1. Len(ns) \in Nat
  BY ChainFacts
<1>2. n + 1 \in 1..Len(ns)
  BY <1>1
<1>3. ns[n + 1].text \in Seq(Letter)
  BY <1>2, ChainFacts
<1>4. Upto(ns, n) \in Seq(Letter) /\ Upto(ns, n + 1) = Upto(ns, n) \o ns[n + 1].text
  BY UptoStep
<1> QED
  BY <1>3, <1>4, Joined

LEMMA UptoGrows ==
    ASSUME NEW ns \in Chain, NEW n \in 0..Len(ns)
    PROVE  Len(Upto(ns, n)) <= Len(Upto(ns, Len(ns)))
<1>1. Len(ns) \in Nat /\ n \in Nat
  BY ChainFacts
<1> DEFINE T == {k \in Nat : n + k <= Len(ns) => Len(Upto(ns, n)) <= Len(Upto(ns, n + k))}
<1>2. 0 \in T
  <2>1. n + 0 = n /\ Len(Upto(ns, n)) \in Nat
    BY UptoType
  <2> QED
    BY <2>1
<1>3. ASSUME NEW k \in T PROVE k + 1 \in T
  <2> SUFFICES ASSUME n + (k + 1) <= Len(ns)
               PROVE  Len(Upto(ns, n)) <= Len(Upto(ns, n + (k + 1)))
    OBVIOUS
  <2> DEFINE j == n + k
  <2>1. j \in Nat /\ j + 1 <= Len(ns) /\ n + (k + 1) = j + 1 /\ j \in 0..Len(ns)
        /\ j + 1 \in 1..Len(ns)
    BY <1>1
  <2>2. Len(Upto(ns, n)) <= Len(Upto(ns, j))
    BY <1>1
  <2> HIDE DEF j
  <2>3. Len(Upto(ns, j + 1)) = Len(Upto(ns, j)) + Len(ns[j + 1].text)
    BY <2>1, UptoNext
  <2>4. Len(Upto(ns, j)) \in Nat /\ Len(Upto(ns, n)) \in Nat /\ Len(ns[j + 1].text) \in Nat
    BY <2>1, UptoType, ChainFacts
  <2> QED
    BY <2>1, <2>2, <2>3, <2>4
<1> HIDE DEF T
<1>4. T \in SUBSET Nat
  BY DEF T
<1>5. T = Nat
  BY <1>2, <1>3, <1>4, Induction
<1>6. Len(ns) - n \in Nat /\ n + (Len(ns) - n) = Len(ns)
  BY <1>1
<1> DEFINE k == Len(ns) - n
<1>7. k \in T
  BY <1>5, <1>6
<1>8. n + k = Len(ns) /\ n + k <= Len(ns)
  BY <1>1
<1>9. n + k <= Len(ns) => Len(Upto(ns, n)) <= Len(Upto(ns, n + k))
  BY <1>7 DEF T
<1> HIDE DEF k
<1> QED
  BY <1>8, <1>9

-----------------------------------------------------------------------------
(* A call of mb_buffer.                                                     *)

\* b[n]: what a call had taken when it came to node n.
Fills(b, max) ==
    b[1] = 0 /\ \A n \in 1..Len(nodes) : b[n + 1] = b[n] + Least(Left(n), max - b[n])

LEMMA LeftType ==
    ASSUME nodes \in Chain, NEW n \in 1..Len(nodes)
    PROVE  Left(n) \in Int
<1>1. Len(nodes[n].text) \in Nat /\ nodes[n].pos \in Nat
  BY ChainFacts
<1> QED
  BY <1>1 DEF Left

LEMMA FillsExists ==
    ASSUME nodes \in Chain, NEW max \in Nat
    PROVE  \E b \in [1..(Len(nodes) + 1) -> Int] : Fills(b, max)
<1>1. Len(nodes) \in Nat
  BY ChainFacts
<1> DEFINE Next(n, x) == IF n \in 1..Len(nodes) THEN x + Least(Left(n), max - x) ELSE x
           step == [p \in Nat \X Int |-> Next(p[1], p[2])]
<1>2. step \in [Nat \X Int -> Int]
  <2>1. ASSUME NEW n \in Nat, NEW x \in Int PROVE Next(n, x) \in Int
    <3>1. CASE n \in 1..Len(nodes)
      <4>1. Left(n) \in Int
        BY <3>1, LeftType
      <4> QED
        BY <3>1, <4>1 DEF Least
    <3>2. CASE n \notin 1..Len(nodes)
      BY <3>2
    <3> QED
      BY <3>1, <3>2
  <2> HIDE DEF Next
  <2>2. ASSUME NEW p \in Nat \X Int PROVE Next(p[1], p[2]) \in Int
    BY <2>1
  <2> QED
    BY <2>2
<1>3. ASSUME NEW n \in 1..Len(nodes), NEW x \in Int
      PROVE  step[<<n, x>>] = x + Least(Left(n), max - x)
  BY <1>1, <1>3
<1> HIDE DEF step
<1>4. PICK f \in [0..Len(nodes) -> Int] : Run(f, Len(nodes), 0, step)
  <2>1. 0 \in Int
    OBVIOUS
  <2> QED
    BY <1>1, <1>2, <2>1, RunExists
<1> DEFINE b == [n \in 1..(Len(nodes) + 1) |-> f[n - 1]]
<1>5. b \in [1..(Len(nodes) + 1) -> Int]
  BY <1>1, <1>4
<1>6. b[1] = 0
  BY <1>1, <1>4 DEF Run
<1>7. ASSUME NEW n \in 1..Len(nodes)
      PROVE  b[n + 1] = b[n] + Least(Left(n), max - b[n])
  <2>1. n + 1 \in 1..(Len(nodes) + 1) /\ n \in 1..(Len(nodes) + 1) /\ n + 1 - 1 = n
    BY <1>1
  <2>2. b[n + 1] = f[n] /\ b[n] = f[n - 1]
    BY <2>1
  <2>3. f[n] = step[<<n, f[n - 1]>>] /\ f[n - 1] \in Int
    BY <1>1, <1>4 DEF Run
  <2> HIDE DEF b
  <2> QED
    BY <1>3, <2>2, <2>3
<1> HIDE DEF b
<1> QED
  BY <1>5, <1>6, <1>7 DEF Fills

LEMMA TakenIs ==
    ASSUME nodes \in Chain, cur = 1, NEW max \in Nat
    PROVE  \E b \in [1..(Len(nodes) + 1) -> Int] :
             /\ Fills(b, max)
             /\ Taken(max) = [n \in 1..Len(nodes) |-> Least(Left(n), max - b[n])]
<1>1. Len(nodes) \in Nat
  BY ChainFacts
<1> DEFINE Rule(b) ==
               b = [n \in 1..(Len(nodes) + 1) |->
                       IF n = 1 THEN 0 ELSE b[n - 1] + Least(Left(n - 1), max - b[n - 1])]
           before == CHOOSE b : Rule(b)
<1>2. \E b : Rule(b)
  <2>1. PICK b \in [1..(Len(nodes) + 1) -> Int] : Fills(b, max)
    BY FillsExists
  <2> DEFINE g == [n \in 1..(Len(nodes) + 1) |->
                      IF n = 1 THEN 0 ELSE b[n - 1] + Least(Left(n - 1), max - b[n - 1])]
  <2>2. ASSUME NEW n \in 1..(Len(nodes) + 1)
        PROVE  b[n] = IF n = 1 THEN 0 ELSE b[n - 1] + Least(Left(n - 1), max - b[n - 1])
    <3>1. CASE n = 1
      BY <2>1, <3>1 DEF Fills
    <3>2. CASE n # 1
      <4> DEFINE m == n - 1
      <4>1. m \in 1..Len(nodes) /\ m + 1 = n
        BY <1>1, <3>2
      <4> HIDE DEF m
      <4>2. b[m + 1] = b[m] + Least(Left(m), max - b[m])
        BY <2>1, <4>1 DEF Fills
      <4>3. m = n - 1
        BY <4>1
      <4> QED
        BY <3>2, <4>1, <4>2, <4>3
    <3> QED
      BY <3>1, <3>2
  <2>3. b = [n \in 1..(Len(nodes) + 1) |-> b[n]]
    BY <2>1
  <2>4. b = g
    BY <2>2, <2>3
  <2> QED
    BY <2>4
<1>3. Rule(before)
  BY <1>2
<1>4. Taken(max) = [n \in 1..Len(nodes) |-> Least(Left(n), max - before[n])]
  <2>1. Taken(max) = [n \in 1..Len(nodes) |->
                         IF n < 1 THEN 0 ELSE Least(Left(n), max - before[n])]
    BY cur = 1 DEF Taken
  <2> HIDE DEF before
  <2>2. \A n \in 1..Len(nodes) : ~ n < 1
    BY <1>1
  <2> QED
    BY <2>1, <2>2
<1> HIDE DEF before
<1>5. ASSUME NEW n \in 1..(Len(nodes) + 1)
      PROVE  before[n] = IF n = 1 THEN 0
                         ELSE before[n - 1] + Least(Left(n - 1), max - before[n - 1])
  BY <1>3
<1>6. before[1] = 0
  BY <1>1, <1>5
<1>7. ASSUME NEW n \in 1..Len(nodes)
      PROVE  before[n + 1] = before[n] + Least(Left(n), max - before[n])
  <2>1. n + 1 \in 1..(Len(nodes) + 1) /\ n + 1 # 1 /\ n + 1 - 1 = n
    BY <1>1
  <2> QED
    BY <1>5, <2>1
<1>8. Fills(before, max)
  BY <1>6, <1>7 DEF Fills
<1>9. before = [n \in 1..(Len(nodes) + 1) |-> before[n]]
  BY <1>3
<1>10. \A n \in 1..(Len(nodes) + 1) : before[n] \in Int
  <2> DEFINE T == {k \in Nat : k + 1 \in 1..(Len(nodes) + 1) => before[k + 1] \in Int}
  <2>1. 0 \in T
    BY <1>6
  <2>2. ASSUME NEW k \in T PROVE k + 1 \in T
    <3> SUFFICES ASSUME (k + 1) + 1 \in 1..(Len(nodes) + 1)
                 PROVE  before[(k + 1) + 1] \in Int
      OBVIOUS
    <3> DEFINE n == k + 1
    <3>1. n \in 1..Len(nodes) /\ before[n] \in Int
      BY <1>1
    <3> HIDE DEF n
    <3>2. before[n + 1] = before[n] + Least(Left(n), max - before[n]) /\ Left(n) \in Int
      BY <1>7, <3>1, LeftType
    <3>3. before[n + 1] \in Int
      BY <3>1, <3>2 DEF Least
    <3> QED
      BY <3>3 DEF n
  <2> HIDE DEF T
  <2>3. T \in SUBSET Nat
    BY DEF T
  <2>4. T = Nat
    BY <2>1, <2>2, <2>3, Induction
  <2>5. ASSUME NEW n \in 1..(Len(nodes) + 1) PROVE before[n] \in Int
    <3> DEFINE k == n - 1
    <3>1. k \in Nat /\ k + 1 = n
      BY <1>1
    <3> HIDE DEF k
    <3>2. k \in T
      BY <2>4, <3>1
    <3> QED
      BY <3>1, <3>2 DEF T
  <2> QED
    BY <2>5
<1> QED
  BY <1>4, <1>8, <1>9, <1>10

\* What of size characters is ahead of a reader at r.
Ahead(r, size) == IF size <= r THEN 0 ELSE size - r

\* One node of size characters behind start others, for a reader at r who
\* asks for max, had some before the node and takes some of what it has left.
Within(r, start, size, max, had, left, took) ==
    /\ r \in Nat /\ start \in Nat /\ size \in Nat /\ max \in Nat
    /\ had = Least(max, Ahead(r, start))
    /\ left = size - Reach(r, start, size)
    /\ took = Least(left, max - had)

PosMoved(r, start, size, max, had, left, took) ==
    /\ took \in Nat /\ had \in Nat /\ Reach(r, start, size) + took <= size
    /\ had + took = Least(max, Ahead(r, start + size))
    /\ took > 0 => r + had = start + Reach(r, start, size)
    /\ \A all \in Nat : start + size <= all =>
         Reach(r, start, size) + took = Reach(r + Least(max, Ahead(r, all)), start, size)

LEMMA Numbers ==
    ASSUME NEW r, NEW start, NEW size, NEW max, NEW had, NEW left, NEW took,
           Within(r, start, size, max, had, left, took)
    PROVE  PosMoved(r, start, size, max, had, left, took)
<1>1. CASE r <= start
  BY <1>1 DEF Least, Ahead, Reach, Within, PosMoved
<1>2. CASE r > start /\ r - start <= size
  BY <1>2 DEF Least, Ahead, Reach, Within, PosMoved
<1>3. CASE r > start /\ r - start > size
  BY <1>3 DEF Least, Ahead, Reach, Within, PosMoved
<1> QED
  BY <1>1, <1>2, <1>3 DEF Within

\* Before node n, a call took what was ahead, as far as it was asked for.
LEMMA FillsIs ==
    ASSUME nodes \in Chain, NEW r \in Nat, Standing(nodes, r), NEW max \in Nat,
           NEW b, Fills(b, max)
    PROVE  \A n \in 0..Len(nodes) : b[n + 1] = Least(max, Ahead(r, Len(Upto(nodes, n))))
<1>1. Len(nodes) \in Nat
  BY ChainFacts
<1> DEFINE T == {n \in Nat : n <= Len(nodes) =>
                        b[n + 1] = Least(max, Ahead(r, Len(Upto(nodes, n))))}
<1>2. 0 \in T
  <2>1. Len(Upto(nodes, 0)) = 0
    BY UptoNone
  <2>2. Least(max, Ahead(r, 0)) = 0
    BY DEF Least, Ahead
  <2>3. b[0 + 1] = 0
    BY DEF Fills
  <2> QED
    BY <2>1, <2>2, <2>3
<1>3. ASSUME NEW n \in T PROVE n + 1 \in T
  <2> SUFFICES ASSUME n + 1 <= Len(nodes)
               PROVE  b[n + 1 + 1] = Least(max, Ahead(r, Len(Upto(nodes, n + 1))))
    OBVIOUS
  <2> DEFINE start == Len(Upto(nodes, n))
             size == Len(nodes[n + 1].text)
             left == size - Reach(r, start, size)
             had == b[n + 1]
             took == Least(left, max - had)
  <2>1. n \in 0..Len(nodes) /\ n + 1 \in 1..Len(nodes) /\ n \in Nat
    BY <1>1
  <2>2. had = Least(max, Ahead(r, start))
    BY <2>1
  <2>3. start \in Nat /\ size \in Nat
    BY <2>1, UptoType, ChainFacts
  <2>4. Len(Upto(nodes, n + 1)) = start + size
    BY <2>1, UptoNext
  <2>5. nodes[n + 1].pos = Reach(r, Len(Upto(nodes, n + 1 - 1)), size)
    BY <2>1 DEF Standing
  <2>6. n + 1 - 1 = n
    BY <2>1
  <2>7. Left(n + 1) = left
    BY <2>5, <2>6 DEF Left
  <2>8. b[n + 1 + 1] = had + took
    BY <2>1, <2>7 DEF Fills
  <2> HIDE DEF start, size, had
  <2>9. left = size - Reach(r, start, size) /\ took = Least(left, max - had)
    OBVIOUS
  <2> HIDE DEF left, took
  <2>10. Within(r, start, size, max, had, left, took)
    BY <2>2, <2>3, <2>9 DEF Within
  <2>11. had + took = Least(max, Ahead(r, start + size))
    BY <2>10, Numbers DEF PosMoved
  <2> QED
    BY <2>4, <2>8, <2>11
<1> HIDE DEF T
<1>4. T \in SUBSET Nat
  BY DEF T
<1>5. T = Nat
  BY <1>2, <1>3, <1>4, Induction
<1> QED
  BY <1>1, <1>5 DEF T

\* What a call takes of each node, and where it leaves it.
LEMMA TakenFacts ==
    ASSUME nodes \in Chain, NEW r \in Nat, Standing(nodes, r), cur = 1, NEW max \in Nat,
           NEW n \in Nat, n + 1 <= Len(nodes)
    PROVE  LET start == Len(Upto(nodes, n))
               had == Least(max, Ahead(r, start))
               took == Taken(max)[n + 1]
               pos == nodes[n + 1].pos
           IN  /\ took \in Nat /\ had \in Nat /\ pos + took <= Len(nodes[n + 1].text)
               /\ had + took = Least(max, Ahead(r, Len(Upto(nodes, n + 1))))
               /\ took > 0 => r + had = start + pos
               /\ pos + took = Reach(r + Least(max, Ahead(r, Len(Upto(nodes, Len(nodes))))),
                                     start, Len(nodes[n + 1].text))
<1> DEFINE start == Len(Upto(nodes, n))
           size == Len(nodes[n + 1].text)
           all == Len(Upto(nodes, Len(nodes)))
           had == Least(max, Ahead(r, start))
           pos == nodes[n + 1].pos
           left == size - Reach(r, start, size)
           took == Taken(max)[n + 1]
<1>1. Len(nodes) \in Nat /\ n \in 0..Len(nodes) /\ n + 1 \in 0..Len(nodes)
      /\ n + 1 \in 1..Len(nodes) /\ Len(nodes) \in 0..Len(nodes)
  BY ChainFacts
<1>2. start \in Nat /\ size \in Nat /\ all \in Nat
  BY <1>1, UptoType, ChainFacts
<1>3. Len(Upto(nodes, n + 1)) = start + size
  BY <1>1, UptoNext
<1>4. start + size <= all
  BY <1>1, <1>3, UptoGrows
<1>5. pos = Reach(r, start, size)
  <2>1. nodes[n + 1].pos = Reach(r, Len(Upto(nodes, n + 1 - 1)), size)
    BY <1>1 DEF Standing
  <2>2. n + 1 - 1 = n
    BY <1>1
  <2> QED
    BY <2>1, <2>2
<1>6. took = Least(left, max - had)
  <2>1. PICK b \in [1..(Len(nodes) + 1) -> Int] :
             /\ Fills(b, max)
             /\ Taken(max) = [m \in 1..Len(nodes) |-> Least(Left(m), max - b[m])]
    BY TakenIs
  <2>2. b[n + 1] = had
    BY <1>1, <2>1, FillsIs
  <2>3. Left(n + 1) = left
    BY <1>5 DEF Left
  <2> QED
    BY <1>1, <2>1, <2>2, <2>3
<1> HIDE DEF start, size, all, pos, took
<1>7. had = Least(max, Ahead(r, start)) /\ left = size - Reach(r, start, size)
  OBVIOUS
<1> HIDE DEF had, left
<1>8. PosMoved(r, start, size, max, had, left, took)
  <2>1. Within(r, start, size, max, had, left, took)
    BY <1>2, <1>6, <1>7 DEF Within
  <2> QED
    BY <2>1, Numbers
<1>9. Reach(r, start, size) + took = Reach(r + Least(max, Ahead(r, all)), start, size)
  BY <1>2, <1>4, <1>8 DEF PosMoved
<1> QED
  BY <1>3, <1>5, <1>8, <1>9 DEF PosMoved, start, size, all, pos, took, had

Portion(n, max) == SubSeq(nodes[n].text, nodes[n].pos + 1, nodes[n].pos + Taken(max)[n])
Got(n, max) == FlattenSeq([m \in 1..n |-> Portion(m, max)])

LEMMA PartIs ==
    ASSUME NEW txt \in Seq(Letter), NEW pos \in Nat, NEW took \in Nat, pos + took <= Len(txt)
    PROVE  /\ SubSeq(txt, pos + 1, pos + took) \in Seq(Letter)
           /\ Len(SubSeq(txt, pos + 1, pos + took)) = took
           /\ \A i \in 1..took : SubSeq(txt, pos + 1, pos + took)[i] = txt[pos + i]
<1> DEFINE s == SubSeq(txt, pos + 1, pos + took)
<1>1. s = [i \in 1..took |-> txt[pos + i]]
  <2>1. s = [i \in 1..(1 + (pos + took) - (pos + 1)) |-> txt[i + (pos + 1) - 1]]
    OBVIOUS
  <2>2. 1 + (pos + took) - (pos + 1) = took /\ \A i \in 1..took : i + (pos + 1) - 1 = pos + i
    OBVIOUS
  <2> QED
    BY <2>1, <2>2
<1>2. \A i \in 1..took : txt[pos + i] \in Letter
  <2> SUFFICES ASSUME NEW i \in 1..took PROVE txt[pos + i] \in Letter
    OBVIOUS
  <2>1. pos + i \in 1..Len(txt)
    BY LenProperties
  <2> QED
    BY <2>1, ElementOfSeq
<1> HIDE DEF s
<1>3. s \in Seq(Letter)
  BY <1>1, <1>2
<1> QED
  BY <1>1, <1>3 DEF s

LEMMA Gathered ==
    ASSUME nodes \in Chain, NEW r \in Nat, Standing(nodes, r), cur = 1, NEW max \in Nat
    PROVE  \A n \in 0..Len(nodes) :
             /\ Got(n, max) \in Seq(Letter)
             /\ Len(Got(n, max)) = Least(max, Ahead(r, Len(Upto(nodes, n))))
             /\ \A i \in 1..Len(Got(n, max)) : Got(n, max)[i] = Upto(nodes, n)[r + i]
<1>1. Len(nodes) \in Nat
  BY ChainFacts
<1> DEFINE Good(n) == /\ Got(n, max) \in Seq(Letter)
                      /\ Len(Got(n, max)) = Least(max, Ahead(r, Len(Upto(nodes, n))))
                      /\ \A i \in 1..Len(Got(n, max)) : Got(n, max)[i] = Upto(nodes, n)[r + i]
           T == {n \in Nat : n <= Len(nodes) => Good(n)}
<1>2. 0 \in T
  <2>1. Got(0, max) = <<>>
    <3>1. [m \in 1..0 |-> Portion(m, max)] = <<>>
      OBVIOUS
    <3> QED
      BY <3>1 DEF Got, FlattenSeq
  <2>2. Len(Upto(nodes, 0)) = 0
    BY UptoNone
  <2>3. Least(max, Ahead(r, 0)) = 0
    BY DEF Least, Ahead
  <2>4. <<>> \in Seq(Letter) /\ Len(<<>>) = 0
    OBVIOUS
  <2>5. Good(0)
    <3>1. Len(Got(0, max)) = 0 /\ Got(0, max) \in Seq(Letter)
      BY <2>1, <2>4
    <3>2. Len(Got(0, max)) = Least(max, Ahead(r, Len(Upto(nodes, 0))))
      BY <2>2, <2>3, <3>1
    <3>3. \A i \in 1..Len(Got(0, max)) : FALSE
      BY <3>1
    <3> QED
      BY <3>1, <3>2, <3>3
  <2> HIDE DEF Good
  <2> QED
    BY <2>5
<1>3. ASSUME NEW m \in 1..Len(nodes)
      PROVE  /\ Portion(m, max) \in Seq(Letter)
             /\ Len(Portion(m, max)) = Taken(max)[m]
             /\ Taken(max)[m] \in Nat
             /\ \A i \in 1..Taken(max)[m] : Portion(m, max)[i] = nodes[m].text[nodes[m].pos + i]
  <2> DEFINE n == m - 1
  <2>1. n \in Nat /\ n + 1 = m /\ n + 1 <= Len(nodes)
    BY <1>1
  <2> HIDE DEF n
  <2>2. Taken(max)[n + 1] \in Nat
        /\ nodes[n + 1].pos + Taken(max)[n + 1] <= Len(nodes[n + 1].text)
    BY <2>1, TakenFacts
  <2>3. Taken(max)[m] \in Nat /\ nodes[m].pos + Taken(max)[m] <= Len(nodes[m].text)
    BY <2>1, <2>2
  <2>4. nodes[m].text \in Seq(Letter) /\ nodes[m].pos \in Nat
    BY ChainFacts
  <2> QED
    BY <2>3, <2>4, PartIs DEF Portion
<1>4. ASSUME NEW n \in T PROVE n + 1 \in T
  <2> SUFFICES ASSUME n + 1 <= Len(nodes) PROVE Good(n + 1)
    OBVIOUS
  <2>1. Good(n)
    BY <1>1
  <2> DEFINE p == Portion(n + 1, max)
             g == Got(n, max)
             h == Got(n + 1, max)
             start == Len(Upto(nodes, n))
             txt == nodes[n + 1].text
             pos == nodes[n + 1].pos
             had == Least(max, Ahead(r, start))
             took == Taken(max)[n + 1]
  <2>2. n \in Nat /\ n + 1 \in 1..Len(nodes) /\ n \in 0..Len(nodes)
    BY <1>1
  <2>3. /\ p \in Seq(Letter) /\ Len(p) = took /\ took \in Nat
        /\ \A i \in 1..took : p[i] = txt[pos + i]
    BY <1>3, <2>2
  <2>4. h = g \o p /\ g \in Seq(Letter)
    <3> DEFINE Q == [m \in 1..(n + 1) |-> Portion(m, max)]
    <3>1. Q \in [1..(n + 1) -> Seq(Letter)]
      BY <1>1, <1>3
    <3>2. Got(n + 1, max) = FlattenSeq([m \in 1..(n + 1) |-> Q[m]])
      <4>1. [m \in 1..(n + 1) |-> Portion(m, max)] = [m \in 1..(n + 1) |-> Q[m]]
        OBVIOUS
      <4> QED
        BY <4>1 DEF Got
    <3>3. Got(n, max) = FlattenSeq([m \in 1..n |-> Q[m]])
      <4>1. [m \in 1..n |-> Portion(m, max)] = [m \in 1..n |-> Q[m]]
        OBVIOUS
      <4> QED
        BY <4>1 DEF Got
    <3>4. Q[n + 1] = Portion(n + 1, max)
      OBVIOUS
    <3> HIDE DEF Q
    <3>5. /\ FlattenSeq([m \in 1..(n + 1) |-> Q[m]])
               = FlattenSeq([m \in 1..n |-> Q[m]]) \o Q[n + 1]
          /\ FlattenSeq([m \in 1..n |-> Q[m]]) \in Seq(Letter)
      BY <3>1, FlattenStep
    <3> QED
      BY <3>2, <3>3, <3>4, <3>5
  <2>5. /\ took \in Nat /\ had \in Nat /\ pos + took <= Len(txt)
        /\ had + took = Least(max, Ahead(r, Len(Upto(nodes, n + 1))))
        /\ took > 0 => r + had = start + pos
    BY TakenFacts
  <2>6. /\ \A i \in 1..start : Upto(nodes, n + 1)[i] = Upto(nodes, n)[i]
        /\ \A i \in 1..Len(txt) : Upto(nodes, n + 1)[start + i] = txt[i]
        /\ start \in Nat /\ pos \in Nat /\ Len(txt) \in Nat
    BY <2>2, UptoNext, UptoType, ChainFacts
  <2>7. Len(g) = had /\ \A i \in 1..had : g[i] = Upto(nodes, n)[r + i]
    BY <2>1
  <2>8. \A i \in 1..had : r + i \in 1..start
    BY <2>5, <2>6 DEF Least, Ahead
  <2> HIDE DEF p, g, h, start, txt, pos, took, had, Good
  <2>9. /\ h \in Seq(Letter) /\ Len(h) = had + took
        /\ \A i \in 1..had : h[i] = g[i]
        /\ \A i \in 1..took : h[had + i] = p[i]
    <3>1. g \o p \in Seq(Letter) /\ Len(g \o p) = Len(g) + Len(p)
          /\ (\A i \in 1..Len(g) : (g \o p)[i] = g[i])
          /\ (\A i \in 1..Len(p) : (g \o p)[Len(g) + i] = p[i])
      <4>1. g \in Seq(Letter) /\ p \in Seq(Letter)
        BY <2>3, <2>4
      <4> QED
        BY ONLY <4>1, Joined
    <3> QED
      BY ONLY <2>3, <2>4, <2>7, <3>1
  <2>10. ASSUME NEW i \in 1..(had + took) PROVE h[i] = Upto(nodes, n + 1)[r + i]
    <3>1. CASE i \in 1..had
      <4>1. r + i \in 1..start /\ h[i] = g[i] /\ g[i] = Upto(nodes, n)[r + i]
        BY <2>7, <2>8, <2>9, <3>1
      <4> QED
        BY <2>6, <4>1
    <3>2. CASE i \notin 1..had
      <4> DEFINE j == i - had
      <4>1. j \in 1..took /\ had + j = i /\ took > 0
        BY <2>5, <3>2
      <4>2. pos + j \in 1..Len(txt) /\ r + i = start + (pos + j)
        BY <2>5, <2>6, <4>1
      <4> HIDE DEF j
      <4>3. h[i] = txt[pos + j]
        BY <2>3, <2>9, <4>1
      <4>4. Upto(nodes, n + 1)[start + (pos + j)] = txt[pos + j]
        BY <2>6, <4>2
      <4> QED
        BY <4>2, <4>3, <4>4
    <3> QED
      BY <3>1, <3>2
  <2>11. Len(h) = Least(max, Ahead(r, Len(Upto(nodes, n + 1))))
    BY <2>5, <2>9
  <2>12. \A i \in 1..Len(h) : h[i] = Upto(nodes, n + 1)[r + i]
    BY <2>9, <2>10
  <2> QED
    BY <2>9, <2>11, <2>12 DEF Good, h
<1> HIDE DEF T
<1>5. T \in SUBSET Nat
  BY DEF T
<1>6. T = Nat
  BY <1>2, <1>4, <1>5, Induction
<1> QED
  BY <1>1, <1>6 DEF T

-----------------------------------------------------------------------------
(* The steps.                                                               *)

StreamNext == [Text!Next]_<<AllText, read, length>>

LEMMA TextType ==
    ASSUME NEW t \in Texts \cup {Reset}
    PROVE  t \in Seq(Letter)
<1> DEFINE own == {t[i] : i \in DOMAIN t}
<1>1. t \in Seq(own)
  BY BufferAssumption
<1>2. own \subseteq Letter
  BY DEF Letter
<1> HIDE DEF own
<1>3. Len(t) \in Nat /\ t = [i \in 1..Len(t) |-> t[i]] /\ \A i \in 1..Len(t) : t[i] \in own
  BY <1>1
<1>4. \A i \in 1..Len(t) : t[i] \in Letter
  BY <1>2, <1>3
<1> QED
  BY <1>3, <1>4

LEMMA NodeType ==
    ASSUME NEW type \in {"file", "str"}, NEW t \in Texts \cup {Reset}
    PROVE  /\ Node(type, t) \in [type : {"file", "str"}, text : Seq(Letter), pos : Nat]
           /\ Node(type, t).text = t /\ Node(type, t).pos = 0
  BY TextType DEF Node

LEMMA ReachNothing ==
    ASSUME NEW r \in Nat, NEW start \in Nat, NEW size \in Nat, r <= start
    PROVE  Reach(r, start, size) = 0
  BY DEF Reach

LEMMA FrontLonger ==
    ASSUME NEW s \in Seq(Letter), NEW t \in Seq(Letter), NEW u \in Seq(Letter), IsFront(s, t)
    PROVE  IsFront(s, t \o u)
<1>1. Len(s) \in Nat /\ Len(t) \in Nat /\ Len(u) \in Nat
  BY LenProperties
<1>2. Len(t \o u) = Len(t) + Len(u) /\ \A i \in 1..Len(t) : (t \o u)[i] = t[i]
  BY Joined
<1> QED
  BY <1>1, <1>2 DEF IsFront

\* Adding the node x behind a chain.
LEMMA Longer ==
    ASSUME NEW ns \in Chain, NEW type \in {"file", "str"}, NEW t \in Texts \cup {Reset},
           NEW s \in Seq(Letter), IsFront(s, Upto(ns, Len(ns))), Standing(ns, Len(s)),
           NEW ms, ms = Append(ns, Node(type, t))
    PROVE  /\ ms \in Chain /\ Len(ms) = Len(ns) + 1
           /\ Upto(ms, Len(ms)) = Upto(ns, Len(ns)) \o t
           /\ IsFront(s, Upto(ms, Len(ms))) /\ Standing(ms, Len(s))
<1> DEFINE x == Node(type, t)
           N == Len(ns)
<1>1. x \in [type : {"file", "str"}, text : Seq(Letter), pos : Nat] /\ x.text = t /\ x.pos = 0
  BY NodeType
<1>2. N \in Nat
  BY ChainFacts
<1> HIDE DEF x
<1>3. /\ ms \in Chain /\ Len(ms) = N + 1 /\ ms[N + 1] = x
      /\ \A n \in 1..N : ms[n] = ns[n]
  <2> DEFINE R == [type : {"file", "str"}, text : Seq(Letter), pos : Nat]
  <2>1. ns \in Seq(R) /\ x \in R /\ ms = Append(ns, x)
    BY <1>1 DEF Chain, x
  <2> HIDE DEF R
  <2>2. /\ ms \in Seq(R) /\ Len(ms) = N + 1 /\ ms[N + 1] = x
        /\ \A n \in 1..N : ms[n] = ns[n]
    BY <2>1, AppendProperties
  <2> QED
    BY <2>2 DEF R, Chain
<1>4. \A n \in 0..N : Upto(ms, n) = Upto(ns, n)
  <2> SUFFICES ASSUME NEW n \in 0..N PROVE Upto(ms, n) = Upto(ns, n)
    OBVIOUS
  <2>1. n \in Nat /\ \A m \in 1..n : ms[m].text = ns[m].text
    BY <1>2, <1>3
  <2> QED
    BY <2>1, UptoSame
<1>5. Upto(ms, N + 1) = Upto(ns, N) \o t
  <2>1. N \in Nat /\ N + 1 <= Len(ms) /\ ms \in Chain /\ N \in 0..N
    BY <1>2, <1>3
  <2>2. Upto(ms, N) = Upto(ns, N) /\ ms[N + 1].text = t
    BY <1>1, <1>3, <1>4, <2>1
  <2> HIDE DEF N
  <2>3. Upto(ms, N + 1) = Upto(ms, N) \o ms[N + 1].text
    BY ONLY <2>1, UptoStep
  <2> QED
    BY <2>2, <2>3
<1>6. Upto(ns, N) \in Seq(Letter) /\ Len(Upto(ns, N)) \in Nat /\ t \in Seq(Letter)
  BY <1>2, UptoType, TextType
<1>7. IsFront(s, Upto(ms, Len(ms)))
  BY <1>3, <1>5, <1>6, FrontLonger
<1>8. ASSUME NEW n \in 1..Len(ms)
      PROVE  ms[n].pos = Reach(Len(s), Len(Upto(ms, n - 1)), Len(ms[n].text))
  <2>1. CASE n \in 1..N
    <3>1. ns[n].pos = Reach(Len(s), Len(Upto(ns, n - 1)), Len(ns[n].text))
      BY <2>1 DEF Standing
    <3>2. n - 1 \in 0..N
      BY <1>2, <2>1
    <3> QED
      BY <1>3, <1>4, <2>1, <3>1, <3>2
  <2>2. CASE n \notin 1..N
    <3>1. n = N + 1 /\ n - 1 = N /\ N \in 0..N
      BY <1>2, <1>3, <2>2
    <3>2. Len(s) <= Len(Upto(ns, N)) /\ Len(s) \in Nat /\ Len(t) \in Nat
      BY <1>6, LenProperties DEF IsFront
    <3>3. Reach(Len(s), Len(Upto(ns, N)), Len(t)) = 0
      BY <1>6, <3>2, ReachNothing
    <3>4. ms[n] = x /\ ms[n].text = t /\ ms[n].pos = 0
      BY <1>1, <1>3, <3>1
    <3>5. Upto(ms, n - 1) = Upto(ns, N)
      BY <1>4, <3>1
    <3> QED
      BY <3>3, <3>4, <3>5
  <2> QED
    BY <2>1, <2>2
<1> QED
  BY <1>3, <1>5, <1>7, <1>8 DEF Standing

\* The nodes of ns at other positions.
Placed(ns, p) == [n \in 1..Len(ns) |-> [ns[n] EXCEPT !.pos = p[n]]]

LEMMA Kept ==
    ASSUME NEW ns \in Chain, NEW p \in [1..Len(ns) -> Nat], NEW ms, ms = Placed(ns, p)
    PROVE  /\ ms \in Chain /\ Len(ms) = Len(ns)
           /\ \A n \in 1..Len(ns) : ms[n].text = ns[n].text /\ ms[n].pos = p[n]
           /\ \A n \in 0..Len(ns) : Upto(ms, n) = Upto(ns, n)
<1> DEFINE R == [type : {"file", "str"}, text : Seq(Letter), pos : Nat]
<1>1. Len(ns) \in Nat /\ ns \in Seq(R)
  BY ChainFacts DEF Chain
<1>2. ASSUME NEW n \in 1..Len(ns)
      PROVE  /\ [ns[n] EXCEPT !.pos = p[n]] \in R
             /\ [ns[n] EXCEPT !.pos = p[n]].text = ns[n].text
             /\ [ns[n] EXCEPT !.pos = p[n]].pos = p[n]
  <2> HIDE DEF R
  <2>1. ns[n] \in R
    BY <1>1, ElementOfSeq
  <2> QED
    BY <2>1 DEF R
<1> HIDE DEF R
<1>3. ms \in Seq(R) /\ Len(ms) = Len(ns)
  BY <1>1, <1>2 DEF Placed
<1>4. \A n \in 1..Len(ns) : ms[n].text = ns[n].text /\ ms[n].pos = p[n]
  BY <1>2 DEF Placed
<1>5. ASSUME NEW n \in 0..Len(ns) PROVE Upto(ms, n) = Upto(ns, n)
  <2>1. n \in Nat /\ \A m \in 1..n : ms[m].text = ns[m].text
    BY <1>1, <1>4
  <2> QED
    BY ONLY <2>1, UptoSame
<1> QED
  BY <1>3, <1>4, <1>5 DEF Chain, R

LEMMA AllIs ==
    /\ AllText = Upto(nodes, Len(nodes))
    /\ AllText' = Upto(nodes', Len(nodes'))
  BY DEF AllText, Upto

LEMMA MbInitStep ==
    ASSUME MbInit
    PROVE  MbIInv /\ Text!Init
<1>1. nodes = <<>> /\ cur = 0 /\ read = <<>> /\ length = 0 /\ Len(nodes) = 0 /\ Len(read) = 0
  BY DEF MbInit
<1>2. Upto(nodes, Len(nodes)) = <<>>
  BY <1>1, UptoNone
<1>3. nodes \in Chain /\ read \in Seq(Letter)
  BY <1>1 DEF Chain
<1>4. IsFront(read, Upto(nodes, Len(nodes))) /\ Standing(nodes, Len(read))
  BY <1>1, <1>2 DEF IsFront, Standing
<1>5. Text!Init
  BY <1>1, <1>2, AllIs DEF Text!Init
<1> QED
  BY <1>1, <1>3, <1>4, <1>5 DEF MbIInv

LEMMA AddStep ==
    ASSUME MbIInv, NEW type \in {"file", "str"}, NEW t \in Texts, Add(type, t)
    PROVE  MbIInv' /\ StreamNext
<1> DEFINE all == Upto(nodes, Len(nodes))
<1>1. nodes \in Chain /\ read \in Seq(Letter) /\ IsFront(read, all) /\ Standing(nodes, Len(read))
  BY DEF MbIInv
<1>2. read' = read /\ length' = length
  BY DEF Add
<1>3. t \in Texts \cup {Reset} /\ Reset \in Texts \cup {Reset}
      /\ type \in {"file", "str"} /\ "str" \in {"file", "str"}
  OBVIOUS
<1>4. CASE nodes = <<>>
  <2>1. nodes' = Append(nodes, Node(type, t)) /\ cur' = 1
    BY <1>4 DEF Add
  <2>2. /\ nodes' \in Chain /\ Len(nodes') = Len(nodes) + 1
        /\ Upto(nodes', Len(nodes')) = all \o t
        /\ IsFront(read, Upto(nodes', Len(nodes'))) /\ Standing(nodes', Len(read))
    BY ONLY <1>1, <1>3, <2>1, Longer
  <2>3. nodes' # <<>>
    BY <2>1, <1>4
  <2>4. MbIInv'
    BY <1>1, <1>2, <2>1, <2>2, <2>3 DEF MbIInv
  <2>5. AllText' \in Extended(AllText)
    BY <2>2, AllIs DEF Extended
  <2>6. Text!Extend
    BY <1>2, <2>5 DEF Text!Extend
  <2> QED
    BY <2>4, <2>6 DEF StreamNext, Text!Next
<1>5. CASE nodes # <<>>
  <2> DEFINE ms == Append(nodes, Node("str", Reset))
  <2>1. nodes' = Append(ms, Node(type, t)) /\ cur' = 1
    BY <1>5 DEF Add, MbIInv
  <2>2. ms = Append(nodes, Node("str", Reset))
    OBVIOUS
  <2> HIDE DEF ms
  <2>3. /\ ms \in Chain /\ Len(ms) = Len(nodes) + 1
        /\ Upto(ms, Len(ms)) = all \o Reset
        /\ IsFront(read, Upto(ms, Len(ms))) /\ Standing(ms, Len(read))
    BY ONLY <1>1, <1>3, <2>2, Longer
  <2>4. /\ nodes' \in Chain /\ Len(nodes') = Len(ms) + 1
        /\ Upto(nodes', Len(nodes')) = Upto(ms, Len(ms)) \o t
        /\ IsFront(read, Upto(nodes', Len(nodes'))) /\ Standing(nodes', Len(read))
    BY ONLY <1>1, <1>3, <2>1, <2>3, Longer
  <2>5. nodes' # <<>>
    <3>1. Len(nodes') # 0
      BY <1>1, <2>3, <2>4, ChainFacts
    <3> QED
      BY <3>1
  <2>6. MbIInv'
    BY <1>1, <1>2, <2>1, <2>4, <2>5 DEF MbIInv
  <2>7. AllText' \in Extended(AllText)
    <3>1. AllText' = AllText \o Reset \o t
      BY <2>3, <2>4, AllIs
    <3> QED
      BY <3>1 DEF Extended
  <2>8. Text!Extend
    BY <1>2, <2>7 DEF Text!Extend
  <2> QED
    BY <2>6, <2>8 DEF StreamNext, Text!Next
<1> QED
  BY <1>4, <1>5

\* What a call returns continues what was read.
LEMMA Continued ==
    ASSUME NEW t \in Seq(Letter), NEW s \in Seq(Letter), IsFront(s, t), NEW g \in Seq(Letter),
           Len(s) + Len(g) <= Len(t), \A i \in 1..Len(g) : g[i] = t[Len(s) + i]
    PROVE  s \o g = SubSeq(t, 1, Len(s) + Len(g)) /\ IsFront(s \o g, t)
<1>1. Len(s) \in Nat /\ Len(t) \in Nat /\ Len(g) \in Nat
  BY LenProperties
<1> DEFINE h == s \o g
           k == Len(s) + Len(g)
<1>2. /\ h \in Seq(Letter) /\ Len(h) = k
      /\ \A i \in 1..Len(s) : h[i] = s[i]
      /\ \A i \in 1..Len(g) : h[Len(s) + i] = g[i]
  BY Joined
<1>3. k \in Nat /\ k <= Len(t)
  BY <1>1
<1> HIDE DEF h
<1>4. ASSUME NEW i \in 1..k PROVE h[i] = t[i]
  <2>1. CASE i \in 1..Len(s)
    BY <1>2, <2>1 DEF IsFront
  <2>2. CASE i \notin 1..Len(s)
    <3> DEFINE j == i - Len(s)
    <3>1. j \in 1..Len(g) /\ Len(s) + j = i
      BY <1>1, <2>2
    <3> HIDE DEF j
    <3> QED
      BY <1>2, <3>1
  <2> QED
    BY <2>1, <2>2
<1> HIDE DEF k
<1>5. SubSeq(t, 1, k) = [i \in 1..k |-> t[i]]
  BY <1>3
<1>6. h = [i \in 1..k |-> h[i]]
  BY <1>2
<1>7. h = SubSeq(t, 1, k)
  BY <1>4, <1>5, <1>6
<1>8. IsFront(h, t)
  BY <1>2, <1>3, <1>4 DEF IsFront
<1> QED
  BY <1>7, <1>8 DEF h, k

LEMMA BufferStep ==
    ASSUME MbIInv, NEW max \in Sizes, Buffer(max)
    PROVE  MbIInv' /\ StreamNext
<1> DEFINE all == Upto(nodes, Len(nodes))
           r == Len(read)
           g == Got(Len(nodes), max)
           total == Least(max, Ahead(r, Len(all)))
           p == [n \in 1..Len(nodes) |-> nodes[n].pos + Taken(max)[n]]
<1>1. /\ nodes \in Chain /\ read \in Seq(Letter) /\ IsFront(read, all) /\ Standing(nodes, r)
      /\ cur = 1 /\ nodes # <<>>
  BY DEF MbIInv, Buffer
<1>2. max \in Nat /\ r \in Nat /\ Len(nodes) \in Nat /\ all \in Seq(Letter) /\ Len(all) \in Nat
      /\ Len(nodes) \in 0..Len(nodes) /\ r <= Len(all)
  <2>1. max \in Nat /\ r \in Nat /\ Len(nodes) \in Nat
    BY <1>1, BufferAssumption, ChainFacts, LenProperties
  <2>2. Len(nodes) \in 0..Len(nodes)
    BY <2>1
  <2> QED
    BY <1>1, <2>1, <2>2, UptoType DEF IsFront
<1>3. /\ read' = read \o g /\ length' = Len(g) /\ cur' = cur
      /\ nodes' = [n \in 1..Len(nodes) |-> [nodes[n] EXCEPT !.pos = nodes[n].pos + Taken(max)[n]]]
  BY DEF Buffer, Got, Portion
<1>4. /\ g \in Seq(Letter) /\ Len(g) = total
      /\ \A i \in 1..Len(g) : g[i] = all[r + i]
  BY <1>1, <1>2, Gathered
<1>5. total \in Nat /\ r + total <= Len(all)
      /\ total = IF Len(all) - r < max THEN Len(all) - r ELSE max
  BY <1>2 DEF Least, Ahead
<1>6. ASSUME NEW n \in 1..Len(nodes)
      PROVE  /\ p[n] \in Nat
             /\ p[n] = Reach(r + total, Len(Upto(nodes, n - 1)), Len(nodes[n].text))
  <2> DEFINE k == n - 1
  <2>1. k \in Nat /\ k + 1 = n /\ k + 1 <= Len(nodes)
    BY <1>2
  <2>2. k = n - 1
    OBVIOUS
  <2> HIDE DEF k
  <2>3. /\ Taken(max)[k + 1] \in Nat
        /\ nodes[k + 1].pos + Taken(max)[k + 1]
             = Reach(r + total, Len(Upto(nodes, k)), Len(nodes[k + 1].text))
    BY <1>1, <1>2, <2>1, TakenFacts
  <2>4. nodes[n].pos \in Nat
    BY <1>1, ChainFacts
  <2> QED
    BY <2>1, <2>2, <2>3, <2>4
<1>7. nodes' = Placed(nodes, p)
  BY <1>3 DEF Placed
<1>8. p \in [1..Len(nodes) -> Nat]
  BY <1>6
<1> HIDE DEF p, g, total, all, r
<1>9. /\ nodes' \in Chain /\ Len(nodes') = Len(nodes)
      /\ \A n \in 1..Len(nodes) : nodes'[n].text = nodes[n].text /\ nodes'[n].pos = p[n]
      /\ \A n \in 0..Len(nodes) : Upto(nodes', n) = Upto(nodes, n)
  BY ONLY <1>1, <1>7, <1>8, Kept
<1>10. Upto(nodes', Len(nodes')) = all
  BY <1>2, <1>9 DEF all
<1>11. read' = SubSeq(all, 1, r + total) /\ IsFront(read', all) /\ read' \in Seq(Letter)
       /\ Len(read') = r + total
  <2>1. r + Len(g) <= Len(all)
    BY <1>4, <1>5
  <2>2. read \o g = SubSeq(all, 1, r + Len(g)) /\ IsFront(read \o g, all)
    BY <1>1, <1>2, <1>4, <2>1, Continued DEF r
  <2>3. read \o g \in Seq(Letter) /\ Len(read \o g) = r + Len(g)
    BY <1>1, <1>4, Joined DEF r
  <2> QED
    BY <1>3, <1>4, <2>2, <2>3
<1>12. Standing(nodes', Len(read'))
  <2>1. ASSUME NEW n \in 1..Len(nodes')
        PROVE  nodes'[n].pos = Reach(Len(read'), Len(Upto(nodes', n - 1)), Len(nodes'[n].text))
    <3>1. n \in 1..Len(nodes) /\ n - 1 \in 0..Len(nodes)
      BY <1>2, <1>9
    <3>2. nodes'[n].pos = p[n] /\ nodes'[n].text = nodes[n].text
          /\ Upto(nodes', n - 1) = Upto(nodes, n - 1)
      BY <1>9, <3>1
    <3>3. p[n] = Reach(r + total, Len(Upto(nodes, n - 1)), Len(nodes[n].text))
      BY <1>6, <3>1
    <3> QED
      BY <1>11, <3>2, <3>3
  <2> QED
    BY <2>1 DEF Standing
<1>13. nodes' # <<>> /\ cur' = 1
  <2>1. Len(nodes) # 0
    BY <1>1, <1>2, EmptySeq DEF Chain
  <2> QED
    BY <1>1, <1>3, <1>9, <2>1
<1>14. MbIInv'
  BY <1>9, <1>10, <1>11, <1>12, <1>13 DEF MbIInv
<1>15. AllText = all /\ AllText' = all
  BY <1>10, AllIs DEF all
<1>16. Text!Read(max)
  BY <1>3, <1>4, <1>5, <1>11, <1>15 DEF Text!Read, r
<1> QED
  BY <1>14, <1>16 DEF StreamNext, Text!Next

LEMMA NothingStep ==
    ASSUME MbIInv, BufferNothing
    PROVE  MbIInv' /\ StreamNext
<1>1. nodes = <<>> /\ length = 0
  BY DEF MbIInv, BufferNothing
<1>2. UNCHANGED <<nodes, cur, read, length>>
  BY <1>1 DEF BufferNothing
<1>3. MbIInv'
  BY <1>2 DEF MbIInv
<1>4. AllText' = AllText
  BY <1>2, AllIs
<1> QED
  BY <1>2, <1>3, <1>4 DEF StreamNext

LEMMA RewindStep ==
    ASSUME MbIInv, Rewind
    PROVE  MbIInv' /\ StreamNext
<1> DEFINE p == [n \in 1..Len(nodes) |-> 0]
<1>1. nodes \in Chain /\ Len(nodes) \in Nat /\ p \in [1..Len(nodes) -> Nat]
  BY ChainFacts DEF MbIInv
<1>2. nodes' = Placed(nodes, p) /\ \A n \in 1..Len(nodes) : p[n] = 0
  BY DEF Rewind, Placed
<1> HIDE DEF p
<1>3. /\ nodes' \in Chain /\ Len(nodes') = Len(nodes)
      /\ \A n \in 1..Len(nodes) : nodes'[n].text = nodes[n].text /\ nodes'[n].pos = p[n]
      /\ \A n \in 0..Len(nodes) : Upto(nodes', n) = Upto(nodes, n)
  BY <1>1, <1>2, Kept
<1>4. read' = <<>> /\ length' = length /\ cur' = IF nodes = <<>> THEN 0 ELSE 1
  BY DEF Rewind
<1>5. nodes = <<>> <=> nodes' = <<>>
  BY <1>1, <1>3, EmptySeq DEF Chain
<1>6. Upto(nodes', Len(nodes')) = Upto(nodes, Len(nodes))
  BY <1>1, <1>3
<1>7. IsFront(read', Upto(nodes', Len(nodes')))
  <2>1. Len(Upto(nodes', Len(nodes'))) \in Nat
    BY <1>1, <1>3, UptoType
  <2> QED
    BY <1>4, <2>1 DEF IsFront
<1>8. ASSUME NEW n \in 1..Len(nodes')
      PROVE  nodes'[n].pos = Reach(Len(read'), Len(Upto(nodes', n - 1)), Len(nodes'[n].text))
  <2>1. n - 1 \in 0..Len(nodes') /\ n \in 1..Len(nodes)
    BY <1>1, <1>3
  <2>2. Len(Upto(nodes', n - 1)) \in Nat /\ Len(nodes'[n].text) \in Nat
    BY <1>3, <2>1, UptoType, ChainFacts
  <2>3. Len(read') = 0
    BY <1>4
  <2>4. Reach(0, Len(Upto(nodes', n - 1)), Len(nodes'[n].text)) = 0
    BY <2>2 DEF Reach
  <2> QED
    BY <1>2, <1>3, <2>1, <2>3, <2>4
<1>9. Standing(nodes', Len(read'))
  BY <1>8 DEF Standing
<1>10. read' \in Seq(Letter) /\ (nodes' = <<>> => length' = 0)
  BY <1>4, <1>5 DEF MbIInv
<1>11. MbIInv'
  BY <1>3, <1>4, <1>5, <1>7, <1>9, <1>10 DEF MbIInv
<1>12. AllText' = AllText
  BY <1>6, AllIs
<1>13. Text!Again
  BY <1>4, <1>12 DEF Text!Again
<1> QED
  BY <1>11, <1>13 DEF StreamNext, Text!Next

LEMMA StepStreams ==
    ASSUME MbIInv, [MbNext]_mbVars
    PROVE  MbIInv' /\ StreamNext
<1>1. CASE UNCHANGED mbVars
  <2>1. UNCHANGED <<nodes, cur, read, length>>
    BY <1>1 DEF mbVars
  <2>2. MbIInv'
    BY <2>1 DEF MbIInv
  <2>3. AllText' = AllText
    BY <2>1, AllIs
  <2> QED
    BY <2>1, <2>2, <2>3 DEF StreamNext
<1>2. CASE MbNext
  <2>1. ASSUME NEW type \in {"file", "str"}, NEW t \in Texts, Add(type, t)
        PROVE  MbIInv' /\ StreamNext
    BY <2>1, AddStep
  <2>2. ASSUME NEW max \in Sizes, Buffer(max) PROVE MbIInv' /\ StreamNext
    BY <2>2, BufferStep
  <2>3. CASE BufferNothing
    BY <2>3, NothingStep
  <2>4. CASE Rewind
    BY <2>4, RewindStep
  <2> QED
    BY <1>2, <2>1, <2>2, <2>3, <2>4 DEF MbNext
<1> QED
  BY <1>1, <1>2

\* The chain of core/multibuffer.c is one text, for any sources, in files or
\* in strings, empty ones among them, and any sizes of the reads: each call of
\* mb_buffer hands over what follows, as much as was asked for or is left, and
\* mb_rewind starts the same text again.
THEOREM BufferIsStream == MbSpec => IsStream
<1>1. MbInit => MbIInv /\ Text!Init
  BY MbInitStep
<1>2. MbIInv /\ [MbNext]_mbVars => MbIInv' /\ [Text!Next]_<<AllText, read, length>>
  BY StepStreams DEF StreamNext
<1>3. Text!Spec <=> Text!Init /\ [][Text!Next]_<<AllText, read, length>>
  BY DEF Text!Spec
<1> QED
  BY <1>1, <1>2, <1>3, PTL DEF MbSpec, IsStream

=============================================================================
