----------------------------- MODULE Dictionary -----------------------------
(* What two string tables promise their callers: functions from keys to      *)
(* values, each operation at once and with the right answer.                 *)
CONSTANTS Keys, Values, None

VARIABLES maps, answer

Init == maps = [t \in {1, 2} |-> [k \in {} |-> None]] /\ answer = None

\* The function f, and g where f has nothing.
Over(f, g) == [k \in DOMAIN f \cup DOMAIN g |-> IF k \in DOMAIN f THEN f[k] ELSE g[k]]

Lookup(t, k) == IF k \in DOMAIN maps[t] THEN maps[t][k] ELSE None

Put(t, k, v) == maps' = [maps EXCEPT ![t] = Over([j \in {k} |-> v], @)] /\ UNCHANGED answer
Get(t, k) == answer' = Lookup(t, k) /\ UNCHANGED maps
Remove(t, k) ==
    /\ answer' = Lookup(t, k)
    /\ maps' = [maps EXCEPT ![t] = [j \in DOMAIN @ \ {k} |-> @[j]]]
AddAll(t, u) == maps' = [maps EXCEPT ![t] = Over(maps[u], @)] /\ UNCHANGED answer
Clear(t) == maps' = [maps EXCEPT ![t] = [k \in {} |-> None]] /\ UNCHANGED answer

Next ==
    \E t \in {1, 2} :
        \/ Clear(t) \/ \E u \in {1, 2} : AddAll(t, u)
        \/ \E k \in Keys : Get(t, k) \/ Remove(t, k) \/ \E v \in Values : Put(t, k, v)

Spec == Init /\ [][Next]_<<maps, answer>>
=============================================================================
