------------------------------- MODULE Uthash -------------------------------
(***************************************************************************)
(* The hash table the handles are kept in (uthash.h 1.9.9 as modbusd uses  *)
(* it): elements are chained twice, in the order they were added and, per  *)
(* bucket, last added first.  A bucket that fills up doubles the number of *)
(* buckets; the items are then moved to the new buckets one at a time,     *)
(* each a step here, and only then does HASH_ADD return.  HASH_SRT, a      *)
(* merge sort, is a loop of steps too.                                     *)
(*                                                                         *)
(* An element is its key: modbusd adds a key only when it has not found it *)
(* (lazy_init_mbtcp_handle).  The hash function is any function; `&' with  *)
(* a power of two less one is `%'.                                         *)
(***************************************************************************)
EXTENDS Integers, Sequences, SequencesExt

CONSTANTS
    Key, NULL,
    HashValue,                    \* what the hash function returns
    HASH_INITIAL_NUM_BUCKETS,     \* 32 in the code, a power of two
    HASH_INITIAL_NUM_BUCKETS_LOG2,
    HASH_BKT_CAPACITY_THRESH,     \* 10 in the code
    MaxDeletes,                   \* bound: HASH_DELETEs
    MaySort                       \* bound: whether there are HASH_SRTs

\* 1 shifted left, what a log2 of a number of buckets stands for.
TwoTo[n \in Nat] == IF n = 0 THEN 1 ELSE 2 * TwoTo[n - 1]

ASSUME TableAssumption ==
    /\ NULL \notin Key
    /\ HashValue \subseteq Nat
    /\ HASH_BKT_CAPACITY_THRESH \in Nat \ {0}
    /\ HASH_INITIAL_NUM_BUCKETS_LOG2 \in Nat
    /\ HASH_INITIAL_NUM_BUCKETS = TwoTo[HASH_INITIAL_NUM_BUCKETS_LOG2]
    /\ MaxDeletes \in Nat
    /\ MaySort \in BOOLEAN

VARIABLES
    hash,               \* the hash function, fixed
    head,               \* the first element in the order of addition, or NULL
    next, prev,         \* the elements in the order of addition
    hh_next, hh_prev,   \* the elements of a bucket
    tbl,                \* UT_hash_table
    buckets,            \* tbl->buckets
    expand,             \* HASH_EXPAND_BUCKETS in progress, or NotExpanding
    sort,               \* HASH_SRT in progress, or NotSorting
    deletes

links  == <<next, prev, hh_next, hh_prev>>
vars   == <<hash, head, links, tbl, buckets, expand, sort, deletes>>

NotExpanding == [active |-> FALSE]
NotSorting == [active |-> FALSE]
Idle == ~expand.active /\ ~sort.active

Link == Key \cup {NULL}
EmptyBucket == [hh_head |-> NULL, count |-> 0, expand_mult |-> 0]
EmptyBuckets(n) == [b \in 0 .. n - 1 |-> EmptyBucket]

HASH_MAKE_TABLE ==
    [tail |-> NULL, num_buckets |-> HASH_INITIAL_NUM_BUCKETS,
     log2_num_buckets |-> HASH_INITIAL_NUM_BUCKETS_LOG2, num_items |-> 0,
     ideal_chain_maxlen |-> 0, nonideal_items |-> 0, ineff_expands |-> 0, noexpand |-> 0]

Init ==
    /\ hash \in [Key -> HashValue]
    /\ head = NULL
    /\ next = [k \in Key |-> NULL] /\ prev = next
    /\ hh_next = next /\ hh_prev = next
    /\ tbl = HASH_MAKE_TABLE
    /\ buckets = EmptyBuckets(HASH_INITIAL_NUM_BUCKETS)
    /\ expand = NotExpanding /\ sort = NotSorting
    /\ deletes = 0

HASH_TO_BKT(hashv, num_bkts) == hashv % num_bkts

\* The elements reached from one along a link.
Along(link) ==
    LET along[e \in Link] == IF e = NULL THEN <<>> ELSE <<e>> \o along[link[e]]
    IN  along
Walk(from, link) == Along(link)[from]
Chain(b) == Walk(buckets[b].hh_head, hh_next)
AppOrder == Walk(head, next)

HASH_FIND(k) ==
    IF head # NULL /\ k \in ToSet(Chain(HASH_TO_BKT(hash[k], tbl.num_buckets)))
    THEN k ELSE NULL

\* f with e's successor or predecessor set, when there is an e.
Patch(f, e, to) == IF e = NULL THEN f ELSE [f EXCEPT ![e] = to]

----------------------------------------------------------------------------
\* Mutant: a full bucket waits for one more.
FullLate(bkt) == bkt.count > (bkt.expand_mult + 1) * HASH_BKT_CAPACITY_THRESH

Full(bkt) == bkt.count >= (bkt.expand_mult + 1) * HASH_BKT_CAPACITY_THRESH

\* Mutant: rounded down.
IdealFloor(t) == t.num_items \div TwoTo[t.log2_num_buckets + 1]

\* The head of HASH_EXPAND_BUCKETS: bucket 0 comes first.
Ideal(t) ==
    t.num_items \div TwoTo[t.log2_num_buckets + 1]
    + (IF t.num_items % (2 * t.num_buckets) # 0 THEN 1 ELSE 0)
Expansion(t, bkts) ==
    [active |-> TRUE, new |-> EmptyBuckets(2 * t.num_buckets),
     bkt_i |-> 0, thh |-> bkts[0].hh_head]

HASH_ADD_TO_BKT(t, bkts, b, k) ==
    LET bkt  == [bkts[b] EXCEPT !.count = @ + 1, !.hh_head = k]
        grow == Full(bkt) /\ t.noexpand # 1
    IN  /\ buckets' = [bkts EXCEPT ![b] = bkt]
        /\ hh_next' = [hh_next EXCEPT ![k] = bkts[b].hh_head]
        /\ hh_prev' = [Patch(hh_prev, bkts[b].hh_head, k) EXCEPT ![k] = NULL]
        /\ expand' = IF grow THEN Expansion(t, buckets') ELSE NotExpanding
        /\ tbl' = IF grow THEN [t EXCEPT !.ideal_chain_maxlen = Ideal(t), !.nonideal_items = 0]
                  ELSE t

HASH_ADD(k) ==
    /\ Idle
    /\ HASH_FIND(k) = NULL
    /\ head' = IF head = NULL THEN k ELSE head
    /\ next' = [Patch(next, tbl.tail, k) EXCEPT ![k] = NULL]
    /\ prev' = [prev EXCEPT ![k] = tbl.tail]
    /\ LET t == [tbl EXCEPT !.tail = k, !.num_items = @ + 1]
       IN  HASH_ADD_TO_BKT(t, buckets, HASH_TO_BKT(hash[k], t.num_buckets), k)
    /\ UNCHANGED <<hash, sort, deletes>>

\* Mutant: the bucket of the old number of buckets.
SameBucket(k) == HASH_TO_BKT(hash[k], tbl.num_buckets)

NewBucket(k) == HASH_TO_BKT(hash[k], 2 * tbl.num_buckets)

\* One item of the old buckets goes to the head of its new one.
ExpandItem ==
    /\ expand.active /\ expand.thh # NULL
    /\ LET k   == expand.thh
           b   == NewBucket(k)
           old == expand.new[b]
           nonideal == old.count + 1 > tbl.ideal_chain_maxlen
           bkt == [hh_head |-> k, count |-> old.count + 1,
                   expand_mult |-> IF nonideal THEN (old.count + 1) \div tbl.ideal_chain_maxlen
                                   ELSE old.expand_mult]
       IN  /\ expand' = [expand EXCEPT !.new[b] = bkt, !.thh = hh_next[k]]
           /\ tbl' = [tbl EXCEPT !.nonideal_items = IF nonideal THEN @ + 1 ELSE @]
           /\ hh_next' = [hh_next EXCEPT ![k] = old.hh_head]
           /\ hh_prev' = [Patch(hh_prev, old.hh_head, k) EXCEPT ![k] = NULL]
    /\ UNCHANGED <<hash, head, next, prev, buckets, sort, deletes>>

ExpandBucket ==
    /\ expand.active /\ expand.thh = NULL
    /\ expand.bkt_i + 1 < tbl.num_buckets
    /\ expand' = [expand EXCEPT !.bkt_i = @ + 1, !.thh = buckets[expand.bkt_i + 1].hh_head]
    /\ UNCHANGED <<hash, head, links, tbl, buckets, sort, deletes>>

\* The tail of HASH_EXPAND_BUCKETS: two expansions in a row that left more than
\* half the items beyond the ideal length are the last.
ExpandDone ==
    /\ expand.active /\ expand.thh = NULL
    /\ expand.bkt_i + 1 = tbl.num_buckets
    /\ buckets' = expand.new
    /\ LET ineff == IF tbl.nonideal_items > tbl.num_items \div 2
                    THEN tbl.ineff_expands + 1 ELSE 0
       IN  tbl' = [tbl EXCEPT !.num_buckets = 2 * @, !.log2_num_buckets = @ + 1,
                              !.ineff_expands = ineff,
                              !.noexpand = IF ineff > 1 THEN 1 ELSE @]
    /\ expand' = NotExpanding
    /\ UNCHANGED <<hash, head, links, sort, deletes>>

\* Mutant: the predecessor of the next in the bucket stays.
DelInBktOneWay(b, k) ==
    /\ buckets' = [buckets EXCEPT ![b].count = @ - 1,
                                  ![b].hh_head = IF @ = k THEN hh_next[k] ELSE @]
    /\ hh_next' = Patch(hh_next, hh_prev[k], hh_next[k])
    /\ UNCHANGED hh_prev

\* Mutant: the bucket still counts it.
DelUncounted(b, k) ==
    /\ buckets' = [buckets EXCEPT ![b].hh_head = IF @ = k THEN hh_next[k] ELSE @]
    /\ hh_next' = Patch(hh_next, hh_prev[k], hh_next[k])
    /\ hh_prev' = Patch(hh_prev, hh_next[k], hh_prev[k])

HASH_DEL_IN_BKT(b, k) ==
    /\ buckets' = [buckets EXCEPT ![b].count = @ - 1,
                                  ![b].hh_head = IF @ = k THEN hh_next[k] ELSE @]
    /\ hh_next' = Patch(hh_next, hh_prev[k], hh_next[k])
    /\ hh_prev' = Patch(hh_prev, hh_next[k], hh_prev[k])

TailWithout(k) == IF tbl.tail = k THEN prev[k] ELSE tbl.tail

\* No table: what HASH_DELETE of the last element and HASH_CLEAR leave.
NoTable ==
    /\ head' = NULL
    /\ tbl' = HASH_MAKE_TABLE
    /\ buckets' = EmptyBuckets(HASH_INITIAL_NUM_BUCKETS)
    /\ UNCHANGED links

\* Only the tests delete.  The last element takes the table with it.
HASH_DELETE(k) ==
    /\ Idle
    /\ HASH_FIND(k) = k
    /\ deletes < MaxDeletes
    /\ IF prev[k] = NULL /\ next[k] = NULL
       THEN NoTable
       ELSE /\ head' = IF prev[k] = NULL THEN next[k] ELSE head
            /\ next' = Patch(next, prev[k], next[k])
            /\ prev' = Patch(prev, next[k], prev[k])
            /\ HASH_DEL_IN_BKT(HASH_TO_BKT(hash[k], tbl.num_buckets), k)
            /\ tbl' = [tbl EXCEPT !.tail = TailWithout(k), !.num_items = @ - 1]
    /\ deletes' = deletes + 1
    /\ UNCHANGED <<hash, expand, sort>>

HASH_CLEAR ==
    /\ Idle
    /\ head # NULL
    /\ deletes < MaxDeletes
    /\ NoTable
    /\ deletes' = deletes + 1
    /\ UNCHANGED <<hash, expand, sort>>

----------------------------------------------------------------------------
\* HASH_SRT, a merge sort of the order of addition, from runs of one up: p and q are
\* what is left of two neighbouring runs, list and tail the merged ones so far.
\* Elements are compared by their hash, which is any function, with ties.

cmpfcn(a, b) == hash[a] - hash[b]

\* The next two runs begin at p; where the second does is still to be counted.
Merge(s, p) ==
    [s EXCEPT !.nmerges = @ + 1, !.p = p, !.q = p, !.psize = 0, !.counting = TRUE]
Pass(s, p, insize) ==
    Merge([s EXCEPT !.list = NULL, !.tail = NULL, !.nmerges = 0, !.insize = insize], p)

\* (order is no variable of the code but what the sort is to be compared with.)
HASH_SRT ==
    /\ MaySort
    /\ Idle
    /\ head # NULL
    /\ sort' = Pass([active |-> TRUE, counting |-> TRUE, insize |-> 1, nmerges |-> 0,
                     p |-> head, q |-> head, psize |-> 0, qsize |-> 0,
                     list |-> NULL, tail |-> NULL, order |-> AppOrder], head, 1)
    /\ UNCHANGED <<hash, head, links, tbl, buckets, expand, deletes>>

CountRun ==
    /\ sort.active /\ sort.counting
    /\ LET q == next[sort.q]
       IN  sort' = [sort EXCEPT !.psize = @ + 1, !.q = q, !.qsize = sort.insize,
                                !.counting = q # NULL /\ sort.psize + 1 < sort.insize]
    /\ UNCHANGED <<hash, head, links, tbl, buckets, expand, deletes>>

Merging == sort.active /\ ~sort.counting
QLeft == sort.qsize > 0 /\ sort.q # NULL

\* Mutant: of two equal elements the later comes first.
QFirst ==
    \/ sort.psize = 0
    \/ QLeft /\ cmpfcn(sort.p, sort.q) >= 0
TakesQ ==
    \/ sort.psize = 0
    \/ QLeft /\ cmpfcn(sort.p, sort.q) > 0

\* The next element behind the tail.
Take ==
    /\ Merging
    /\ sort.psize > 0 \/ QLeft
    /\ LET e == IF TakesQ THEN sort.q ELSE sort.p
       IN  /\ sort' = IF TakesQ
                      THEN [sort EXCEPT !.q = next[e], !.qsize = @ - 1, !.tail = e,
                                        !.list = IF sort.tail = NULL THEN e ELSE @]
                      ELSE [sort EXCEPT !.p = next[e], !.psize = @ - 1, !.tail = e,
                                        !.list = IF sort.tail = NULL THEN e ELSE @]
           /\ next' = Patch(next, sort.tail, e)
           /\ prev' = [prev EXCEPT ![e] = sort.tail]
    /\ UNCHANGED <<hash, head, hh_next, hh_prev, tbl, buckets, expand, deletes>>

Merged == Merging /\ sort.psize = 0 /\ ~QLeft

NextMerge ==
    /\ Merged /\ sort.q # NULL
    /\ sort' = Merge(sort, sort.q)
    /\ UNCHANGED <<hash, head, links, tbl, buckets, expand, deletes>>

\* A pass of one merge is the last.
EndPass ==
    /\ Merged /\ sort.q = NULL
    /\ next' = Patch(next, sort.tail, NULL)
    /\ IF sort.nmerges <= 1
       THEN /\ head' = sort.list
            /\ tbl' = [tbl EXCEPT !.tail = sort.tail]
            /\ sort' = NotSorting
       ELSE /\ sort' = Pass(sort, sort.list, 2 * sort.insize)
            /\ UNCHANGED <<head, tbl>>
    /\ UNCHANGED <<hash, prev, hh_next, hh_prev, buckets, expand, deletes>>

Next ==
    \/ \E k \in Key : HASH_ADD(k) \/ HASH_DELETE(k)
    \/ HASH_CLEAR
    \/ HASH_SRT \/ CountRun \/ Take \/ NextMerge \/ EndPass
    \/ ExpandItem \/ ExpandBucket \/ ExpandDone

Spec == Init /\ [][Next]_vars

----------------------------------------------------------------------------
\* Properties.

TypeOK ==
    /\ hash \in [Key -> HashValue]
    /\ head \in Link
    /\ \A l \in {next, prev, hh_next, hh_prev} : l \in [Key -> Link]
    /\ tbl.tail \in Link
    /\ tbl.num_buckets = TwoTo[tbl.log2_num_buckets]
    /\ DOMAIN buckets = 0 .. tbl.num_buckets - 1
    /\ head = NULL <=> tbl.num_items = 0
    /\ deletes \in 0 .. MaxDeletes
    /\ expand.active =>
         /\ tbl.ideal_chain_maxlen > 0        \* it divides
         /\ expand.bkt_i \in DOMAIN buckets /\ expand.thh \in Link

\* Each element's predecessor is the one before it.
Linked(seq, back) ==
    \A i \in 1 .. Len(seq) : back[seq[i]] = IF i = 1 THEN NULL ELSE seq[i - 1]

\* HASH_FSCK, which the code runs after every operation when HASH_DEBUG is defined,
\* but with no limit on the histories: the links of the chains and of the order of
\* addition agree both ways, and each bucket and the table count what they hold, over
\* deletions at the ends, in the middle and of the last element, over expansions and sorts.
FsckLinks ==
    Idle =>
        /\ \A b \in DOMAIN buckets :
              Linked(Chain(b), hh_prev) /\ buckets[b].count = Len(Chain(b))
        /\ Linked(AppOrder, prev) /\ Len(AppOrder) = tbl.num_items

\* What the first of f add up to, for each number of them.
Sums(f, m) ==
    LET sum[n \in 0 .. m] == IF n = 0 THEN 0 ELSE sum[n - 1] + f[n - 1]
    IN  sum
CountOf(bkts) == [b \in DOMAIN bkts |-> bkts[b].count]

\* ... and the counts of the buckets add up to the table's.
FsckItems == Idle => Sums(CountOf(buckets), tbl.num_buckets)[tbl.num_buckets] = tbl.num_items

\* The handles mbtcp_get_handle finds are those that were added, each in the
\* bucket of the present number of buckets.
FindsExactly ==
    Idle => \A k \in Key : HASH_FIND(k) = k <=> k \in ToSet(AppOrder)

\* uthash.h:662 "by expanding buckets the hash keeps a bound on the chain length":
\* when HASH_ADD returns every bucket is below its limit, the multiple of the threshold
\* expand_mult sets, unless expanding was given up.  Only a bucket an expansion has just
\* left with the ideal length, which never exceeds the threshold, may be at its limit.
ChainsBounded ==
    Idle /\ tbl.noexpand = 0 =>
        \A b \in DOMAIN buckets :
            \/ buckets[b].count < (buckets[b].expand_mult + 1) * HASH_BKT_CAPACITY_THRESH
            \/ /\ buckets[b].count <= tbl.ideal_chain_maxlen
               /\ tbl.ideal_chain_maxlen <= HASH_BKT_CAPACITY_THRESH

\* The table is the list of the keys added and not deleted, in that order until they
\* are sorted: each addition counted is in it, an expansion does not touch it, and what
\* is added after a sort comes last.
Items == IF sort.active THEN sort.order ELSE AppOrder
List == INSTANCE KeyedList WITH items <- Items, size <- tbl.num_items, rank <- hash
ImplementsKeyedList == List!Spec
=============================================================================
