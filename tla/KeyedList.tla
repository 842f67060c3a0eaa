----------------------------- MODULE KeyedList -----------------------------
(***************************************************************************)
(* What modbusd needs of its handle table: a list of distinct keys, in the *)
(* order they were added (mbtcp_list_handles walks it in that order) or    *)
(* were sorted into, that knows its length (HASH_COUNT).                   *)
(***************************************************************************)
EXTENDS Naturals, Sequences, SequencesExt

CONSTANTS Key
VARIABLES items, size,
    rank        \* what keys are sorted by, fixed

vars == <<items, size, rank>>

Init == items = <<>> /\ size = 0 /\ rank \in [Key -> Nat]

Insert(k) ==
    /\ k \notin ToSet(items)
    /\ items' = Append(items, k)
    /\ size' = size + 1
    /\ UNCHANGED rank

Delete(k) ==
    /\ \E i \in DOMAIN items : items[i] = k /\ items' = RemoveAt(items, i)
    /\ size' = size - 1
    /\ UNCHANGED rank

Clear == items' = <<>> /\ size' = 0 /\ UNCHANGED rank

\* Equal ones stay as they are.
Before(a, b) == \E i, j \in DOMAIN items : i < j /\ items[i] = a /\ items[j] = b
Sort ==
    /\ ToSet(items') = ToSet(items) /\ Len(items') = Len(items)
    /\ \A i, j \in DOMAIN items' : i < j =>
         LET a == items'[i]
             b == items'[j]
         IN  rank[a] < rank[b] \/ (rank[a] = rank[b] /\ Before(a, b))
    /\ UNCHANGED <<size, rank>>

Next == (\E k \in Key : Insert(k) \/ Delete(k)) \/ Clear \/ Sort

Spec == Init /\ [][Next]_vars
=============================================================================
