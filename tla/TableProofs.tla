---------------------------- MODULE TableProofs ----------------------------
(***************************************************************************)
(* What the table counts, how long its chains get, and that it is the list *)
(* of what was added to it.                                                *)
(***************************************************************************)
EXTENDS UthashProofs, FiniteSetTheorems, SequenceTheorems

----------------------------------------------------------------------------
\* Sums.

\* s are the sums of f up to m.
SumsOf(s, f, m) ==
    s[0] = 0 /\ \A i \in 0 .. m - 1 : s[i + 1] = s[i] + f[i]

\* Sums gives them.
LEMMA SumsDefined ==
    ASSUME NEW m \in Nat, NEW f, \A i \in 0 .. m - 1 : f[i] \in Nat
    PROVE  SumsOf(Sums(f, m), f, m) /\ \A i \in 0 .. m : Sums(f, m)[i] \in Nat
  <1> DEFINE step == [p \in Nat \X Nat |-> p[2] + (IF p[1] < m THEN f[p[1]] ELSE 0)]
             IsSums(g) == g = [n \in 0 .. m |-> IF n = 0 THEN 0 ELSE g[n - 1] + f[n - 1]]
  <1>1. step \in [Nat \X Nat -> Nat] /\ \A i, v \in Nat : i < m => step[<<i, v>>] = v + f[i]
    <2>1. ASSUME NEW i \in Nat, NEW v \in Nat
          PROVE  v + (IF i < m THEN f[i] ELSE 0) \in Nat
      <3>1. CASE i < m
        <4>1. f[i] \in Nat
          BY <3>1
        <4> QED BY <3>1, <4>1
      <3> QED BY <3>1
    <2> QED BY <2>1
  <1> HIDE DEF step
  <1>2. PICK r \in [Nat -> Nat] : r[0] = 0 /\ \A i \in Nat : r[i + 1] = step[<<i, r[i]>>]
    <2>1. 0 \in Nat
      OBVIOUS
    <2>2. \E r \in [Nat -> Nat] : Recursive(r, 0, step)
      BY <1>1, <2>1, Recursion
    <2> QED BY <2>2 DEF Recursive
  <1> DEFINE g == [n \in 0 .. m |-> r[n]]
  <1>3. ASSUME NEW n \in 0 .. m, n # 0 PROVE r[n] = r[n - 1] + f[n - 1]
    <2>1. n - 1 \in Nat /\ (n - 1) + 1 = n /\ n - 1 < m
      BY <1>3
    <2>2. r[n] = step[<<n - 1, r[n - 1]>>]
      BY <2>1, <1>2
    <2> QED BY <2>1, <2>2, <1>1
  <1>4. \A n \in 0 .. m : n # 0 => n - 1 \in 0 .. m
    OBVIOUS
  <1>5. \A n \in 0 .. m : g[n] = IF n = 0 THEN 0 ELSE g[n - 1] + f[n - 1]
    BY <1>2, <1>3, <1>4
  <1>6. IsSums(g)
    BY <1>5
  <1>7. Sums(f, m) = CHOOSE h : IsSums(h)
    BY DEF Sums
  <1> HIDE DEF IsSums, g
  <1>8. IsSums(Sums(f, m))
    BY <1>6, <1>7
  <1> DEFINE s == Sums(f, m)
  <1> USE DEF IsSums
  <1>9. \A n \in 0 .. m : s[n] = IF n = 0 THEN 0 ELSE s[n - 1] + f[n - 1]
    BY <1>8
  <1> HIDE DEF IsSums, s
  <1>10. SumsOf(s, f, m)
    <2>1. \A i \in 0 .. m - 1 : i + 1 \in 0 .. m /\ i + 1 # 0 /\ (i + 1) - 1 = i
      OBVIOUS
    <2>2. 0 \in 0 .. m
      OBVIOUS
    <2> QED BY <2>1, <2>2, <1>9 DEF SumsOf
  <1> DEFINE T == {n \in Nat : n <= m => s[n] \in Nat}
  <1>11. 0 \in T
    BY <1>10 DEF SumsOf
  <1>12. ASSUME NEW n \in Nat, n \in T PROVE n + 1 \in T
    <2>1. CASE n + 1 <= m
      <3>1. n \in 0 .. m - 1 /\ s[n] \in Nat /\ f[n] \in Nat
        BY <2>1, <1>12
      <3>2. s[n + 1] = s[n] + f[n]
        BY <3>1, <1>10 DEF SumsOf
      <3> QED BY <3>1, <3>2
    <2> QED BY <2>1
  <1> HIDE DEF T
  <1>13. \A n \in Nat : n \in T
    BY <1>11, <1>12, NatAll
  <1> QED BY <1>10, <1>13 DEF s, T

\* Sums of what is never more are not more, and less where something is.
LEMMA SumsMonotone ==
    ASSUME NEW m \in Nat, NEW f, NEW g, NEW s, NEW t, SumsOf(s, f, m), SumsOf(t, g, m),
           \A i \in 0 .. m - 1 : f[i] \in Nat /\ g[i] \in Nat /\ f[i] <= g[i]
    PROVE  /\ s[m] \in Nat /\ t[m] \in Nat /\ s[m] <= t[m]
           /\ (\E i \in 0 .. m - 1 : f[i] < g[i]) => s[m] < t[m]
  <1> DEFINE Less(n) == \E i \in 0 .. n - 1 : f[i] < g[i]
             Good(n) == s[n] \in Nat /\ t[n] \in Nat /\ s[n] <= t[n] /\ (Less(n) => s[n] < t[n])
             T == {n \in Nat : n <= m => Good(n)}
  <1>1. 0 \in T
    BY DEF SumsOf
  <1>2. ASSUME NEW n \in Nat, n \in T PROVE n + 1 \in T
    <2>1. SUFFICES ASSUME n + 1 <= m PROVE Good(n + 1)
      BY <1>2
    <2>2. n \in 0 .. m - 1 /\ Good(n)
      BY <1>2, <2>1
    <2>3. s[n + 1] = s[n] + f[n] /\ t[n + 1] = t[n] + g[n] /\ f[n] \in Nat /\ g[n] \in Nat /\ f[n] <= g[n]
      BY <2>2 DEF SumsOf
    <2>4. Less(n + 1) => Less(n) \/ f[n] < g[n]
      <3>1. \A i \in 0 .. (n + 1) - 1 : i \in 0 .. n - 1 \/ i = n
        BY <2>2
      <3> QED BY <3>1
    <2> HIDE DEF Less
    <2> QED BY <2>2, <2>3, <2>4
  <1> HIDE DEF T
  <1>3. \A n \in Nat : n \in T
    BY <1>1, <1>2, NatAll
  <1> QED BY <1>3 DEF T

\* Sums of multiples, and of as much more each.
LEMMA SumsScaled ==
    ASSUME NEW m \in Nat, NEW f, NEW g, NEW s, NEW t, SumsOf(s, f, m), SumsOf(t, g, m),
           NEW c \in Nat, NEW u \in Nat,
           \A i \in 0 .. m - 1 : f[i] \in Nat /\ g[i] = f[i] * c + u
    PROVE  s[m] \in Nat /\ t[m] = s[m] * c + m * u
  <1> DEFINE T == {n \in Nat : n <= m => s[n] \in Nat /\ t[n] = s[n] * c + n * u}
  <1>1. 0 \in T
    BY DEF SumsOf
  <1>2. ASSUME NEW n \in Nat, n \in T PROVE n + 1 \in T
    <2>1. SUFFICES ASSUME n + 1 <= m
                   PROVE  s[n + 1] \in Nat /\ t[n + 1] = s[n + 1] * c + (n + 1) * u
      BY <1>2
    <2>2. n \in 0 .. m - 1 /\ s[n] \in Nat /\ t[n] = s[n] * c + n * u
      BY <1>2, <2>1
    <2>3. s[n + 1] = s[n] + f[n] /\ t[n + 1] = t[n] + g[n] /\ f[n] \in Nat /\ g[n] = f[n] * c + u
      BY <2>2 DEF SumsOf
    <2>4. \A a, b \in Nat : a * c + n * u + (b * c + u) = (a + b) * c + (n + 1) * u
      OBVIOUS
    <2> QED BY <2>2, <2>3, <2>4
  <1> HIDE DEF T
  <1>3. \A n \in Nat : n \in T
    BY <1>1, <1>2, NatAll
  <1> QED BY <1>3 DEF T

----------------------------------------------------------------------------
\* Division.

\* What is left over is less than what is divided by.
LEMMA Division ==
    ASSUME NEW a \in Nat, NEW d \in Nat \ {0}
    PROVE  /\ a \div d \in Nat /\ a % d \in 0 .. d - 1
           /\ a = d * (a \div d) + (a % d)
  <1>1. a \div d \in Nat
    OBVIOUS
  <1>2. a % d \in 0 .. d - 1
    OBVIOUS
  <1>3. a = d * (a \div d) + (a % d)
    OBVIOUS
  <1> QED BY <1>1, <1>2, <1>3

RoundedUp(c, a, d) == c = a \div d + (IF a % d # 0 THEN 1 ELSE 0)

\* Rounded up: enough of d hold a, and one less would not.
LEMMA Ceiling ==
    ASSUME NEW a \in Nat, NEW d \in Nat \ {0}, NEW c, RoundedUp(c, a, d)
    PROVE  /\ c \in Nat /\ a <= d * c /\ (a # 0 => c # 0)
           /\ \A t \in Nat : a <= d * t => c <= t
  <1>1. PICK q \in Nat, r \in 0 .. d - 1 : a = d * q + r /\ q = a \div d /\ r = a % d
    BY Division
  <1>2. c \in Nat /\ c = IF r # 0 THEN q + 1 ELSE q
    BY <1>1 DEF RoundedUp
  <1>3. a <= d * c
    <2>1. d * (q + 1) = d * q + d /\ d * q \in Nat
      OBVIOUS
    <2>2. CASE r # 0
      <3>1. d * c = d * q + d
        BY <2>1, <2>2, <1>2
      <3> QED BY <3>1, <2>1, <1>1
    <2>3. CASE r = 0
      <3>1. d * c = d * q
        BY <2>3, <1>2
      <3> QED BY <3>1, <2>1, <2>3, <1>1
    <2> QED BY <2>2, <2>3
  <1>4. a # 0 => c # 0
    <2>1. ASSUME c = 0 PROVE a = 0
      <3>1. q = 0 /\ r = 0
        BY <2>1, <1>2
      <3> QED BY <3>1, <1>1
    <2> QED BY <2>1
  <1>5. ASSUME NEW t \in Nat, a <= d * t PROVE c <= t
    <2>1. \A x, y \in Nat : x > y => d * x >= d * y + d
      <3>1. ASSUME NEW x \in Nat, NEW y \in Nat, x > y PROVE d * x >= d * y + d
        <4>1. PICK z \in Nat : x = y + 1 + z
          <5>1. x - y - 1 \in Nat /\ x = y + 1 + (x - y - 1)
            BY <3>1
          <5> QED BY <5>1
        <4>2. d * (y + 1 + z) = d * y + d + d * z /\ d * z \in Nat
          OBVIOUS
        <4> QED BY <4>1, <4>2
      <3> QED BY <3>1
    <2>2. ASSUME c > t PROVE FALSE
      <3>1. CASE r # 0
        <4>1. q >= t
          BY <3>1, <2>2, <1>2
        <4>2. q > t \/ q = t
          BY <4>1
        <4>3. d * q >= d * t
          BY <4>2, <2>1
        <4> QED BY <4>3, <3>1, <1>1, <1>5
      <3>2. CASE r = 0
        <4>1. q > t
          BY <3>2, <2>2, <1>2
        <4>2. d * q >= d * t + d
          BY <4>1, <2>1
        <4> QED BY <4>2, <3>2, <1>1, <1>5
      <3> QED BY <3>1, <3>2
    <2> QED BY <2>2, <1>2
  <1> QED BY <1>2, <1>3, <1>4, <1>5

----------------------------------------------------------------------------
\* The counts of the buckets add up to the number of items.

\* A sequence of all of S in which none is twice is as long as S is large.
LEMMA Enumerated ==
    ASSUME NEW S, NEW w \in Seq(Key), ToSet(w) = S,
           \A i, j \in 1 .. Len(w) : w[i] = w[j] => i = j
    PROVE  IsFiniteSet(S) /\ Cardinality(S) = Len(w)
  <1>1. Len(w) \in Nat /\ DOMAIN w = 1 .. Len(w)
    OBVIOUS
  <1>2. \A x : x \in S <=> \E i \in 1 .. Len(w) : x = w[i]
    BY <1>1 DEF ToSet
  <1>3. w \in [1 .. Len(w) -> S]
    <2>1. w = [i \in 1 .. Len(w) |-> w[i]]
      OBVIOUS
    <2> QED BY <2>1, <1>2
  <1>4. w \in Injection(1 .. Len(w), S)
    BY <1>1, <1>3 DEF Injection, IsInjective
  <1>5. w \in Surjection(1 .. Len(w), S)
    BY <1>2, <1>3 DEF Surjection
  <1>6. ExistsBijection(1 .. Len(w), S)
    BY <1>4, <1>5 DEF ExistsBijection, Bijection
  <1>7. IsFiniteSet(1 .. Len(w)) /\ Cardinality(1 .. Len(w)) = Len(w)
    BY <1>1, FS_Interval
  <1> QED BY <1>6, <1>7, FS_Bijection

\* Every bucket has its chain.
AllChained(S, d, n, bkts, h) == \A b \in 0 .. n - 1 : \E w : OfBucket(w, S, d, n, bkts, h, b)

\* f is what they count.
AreCounts(f, n, bkts) == \A b \in 0 .. n - 1 : f[b] = bkts[b].count

\* Each bucket counts its own.
LEMMA BucketsCount ==
    ASSUME NEW h \in [Key -> Nat], NEW n \in Nat \ {0},
           NEW S \in SUBSET Key, IsFiniteSet(S), NEW bkts, NEW d,
           AllChained(S, d, n, bkts, h), NEW f, AreCounts(f, n, bkts), NEW s, SumsOf(s, f, n)
    PROVE  s[n] = Cardinality(S)
  <1> DEFINE Before(i) == {k \in S : Bucket(h, k, n) < i}
             In(i) == {k \in S : Bucket(h, k, n) = i}
             T == {i \in Nat : i <= n => s[i] = Cardinality(Before(i))}
  <1>1. \A k \in S : Bucket(h, k, n) \in 0 .. n - 1
    BY BucketOf
  <1>2. 0 \in T
    <2>1. Before(0) = {}
      BY <1>1
    <2> QED BY <2>1, FS_EmptySet DEF SumsOf
  <1>3. ASSUME NEW i \in Nat, i \in T PROVE i + 1 \in T
    <2>1. SUFFICES ASSUME i + 1 <= n PROVE s[i + 1] = Cardinality(Before(i + 1))
      BY <1>3
    <2>2. i \in 0 .. n - 1 /\ s[i] = Cardinality(Before(i))
      BY <1>3, <2>1
    <2>3. s[i + 1] = s[i] + bkts[i].count
      BY <2>2 DEF SumsOf, AreCounts
    <2>4. IsFiniteSet(In(i)) /\ Cardinality(In(i)) = bkts[i].count
      <3>1. PICK w : OfBucket(w, S, d, n, bkts, h, i)
        BY <2>2 DEF AllChained
      <3>2. w \in Seq(Key) /\ ToSet(w) = In(i) /\ Len(w) = bkts[i].count
        BY <3>1 DEF OfBucket
      <3>3. ASSUME NEW a \in 1 .. Len(w), NEW c \in 1 .. Len(w), w[a] = w[c] PROVE a = c
        <4>1. d[w[a]] = Len(w) - a + 1 /\ d[w[c]] = Len(w) - c + 1 /\ Len(w) \in Nat
          BY <3>1, <3>2 DEF OfBucket
        <4> QED BY <4>1, <3>3
      <3> HIDE DEF In
      <3> QED BY <3>2, <3>3, Enumerated
    <2>5. Before(i + 1) = Before(i) \cup In(i) /\ Before(i) \cap In(i) = {}
      BY <1>1
    <2>6. IsFiniteSet(Before(i))
      BY FS_Subset
    <2>7. Cardinality(Before(i)) \in Nat /\ Cardinality(In(i)) \in Nat
      BY <2>4, <2>6, FS_CardinalityType
    <2>8. Cardinality(Before(i) \cup In(i))
            = Cardinality(Before(i)) + Cardinality(In(i)) - Cardinality(Before(i) \cap In(i))
      BY <2>4, <2>6, FS_Union
    <2> HIDE DEF Before, In
    <2>9. Cardinality(Before(i) \cap In(i)) = 0
      BY <2>5, FS_EmptySet
    <2>10. Cardinality(Before(i) \cup In(i)) = Cardinality(Before(i)) + Cardinality(In(i))
      BY <2>7, <2>8, <2>9
    <2>11. s[i + 1] = Cardinality(Before(i)) + Cardinality(In(i))
      BY <2>2, <2>3, <2>4
    <2> QED BY <2>5, <2>10, <2>11
  <1> HIDE DEF T
  <1>4. n \in T
    BY <1>2, <1>3, NatAll
  <1>5. Before(n) = S
    BY <1>1
  <1> HIDE DEF Before
  <1> QED BY <1>4, <1>5 DEF T

AddsUp ==
    LET n == tbl.num_buckets
    IN  SumsOf(Sums(CountOf(buckets), n), CountOf(buckets), n)
        /\ Sums(CountOf(buckets), n)[n] = tbl.num_items

\* When no sort or expansion is under way the counts are what HASH_FSCK adds up.
LEMMA CountsAddUp ==
    ASSUME IInv, Idle
    PROVE  AddsUp
  <1> DEFINE n == tbl.num_buckets
             f == CountOf(buckets)
             s == Sums(f, n)
  <1>1. PICK V : Shape(V) /\ \E P \in SUBSET Key : Holds(P)
    BY DEF IInv
  <1>2. PICK P \in SUBSET Key : Holds(P)
    BY <1>1
  <1>3. PICK pos \in [Key -> Nat] : /\ Ordered(P, pos, tbl.num_items, head, tbl.tail, next, prev)
                                   /\ Ends(P, pos, tbl.num_items, next)
    BY <1>2 DEF Idle, Holds, InOrder
  <1>4. PICK M \in Nat : \E d \in [Key -> 0 .. M] : Chained(P, d, n, buckets, hash, hh_next)
    BY <1>2 DEF Idle, Holds, InBuckets
  <1>5. PICK d \in [Key -> 0 .. M] : Chained(P, d, n, buckets, hash, hh_next)
    BY <1>4
  <1>6. /\ hash \in [Key -> Nat] /\ head \in Link /\ next \in [Key -> Link] /\ hh_next \in [Key -> Link]
        /\ n \in Nat \ {0} /\ tbl.num_items \in Nat /\ buckets \in BucketsOf(V, n)
    BY <1>1 DEF Shape, TablesOf
  <1>7. Stale(P, next) /\ Ranked(hh_next)
    <2>1. Stale(P, next)
      BY <1>2 DEF Holds
    <2>2. Ranked(hh_next)
      BY <1>1, <1>2, Found
    <2> QED BY <2>1, <2>2
  <1>8. Counted(buckets, n) /\ \A b \in 0 .. n - 1 : f[b] = buckets[b].count /\ f[b] \in Nat
    BY <1>6 DEF BucketsOf, Counted, CountOf
  <1>9. InOrderOf(AppOrder, P, pos, tbl.num_items)
    BY <1>3, <1>6, <1>7, WalkOrdered DEF AppOrder
  <1>10. IsFiniteSet(P) /\ Cardinality(P) = tbl.num_items
    <2>1. PICK w : w = AppOrder
      OBVIOUS
    <2>2. /\ w \in Seq(Key) /\ ToSet(w) = P /\ Len(w) = tbl.num_items
          /\ \A i \in 1 .. Len(w) : pos[w[i]] = i
      BY <1>9, <2>1 DEF InOrderOf
    <2>3. \A i, j \in 1 .. Len(w) : w[i] = w[j] => i = j
      BY <2>2
    <2> QED BY <2>2, <2>3, Enumerated
  <1>11. SumsOf(s, f, n)
    <2> HIDE DEF f
    <2> QED BY <1>6, <1>8, SumsDefined
  <1>12. AllChained(P, d, n, buckets, hash)
    <2>1. ASSUME NEW b \in 0 .. n - 1
          PROVE  OfBucket(Walk(buckets[b].hh_head, hh_next), P, d, n, buckets, hash, b)
      BY <1>5, <1>6, <1>7, <1>8, WalkChained
    <2> QED BY <2>1 DEF AllChained
  <1>13. s[n] = Cardinality(P)
    <2>1. AreCounts(f, n, buckets)
      BY <1>8 DEF AreCounts
    <2>2. hash \in [Key -> Nat] /\ n \in Nat \ {0} /\ IsFiniteSet(P) /\ P \in SUBSET Key
      BY <1>6, <1>10
    <2> HIDE DEF f, s, n
    <2> QED BY <1>11, <1>12, <2>1, <2>2, BucketsCount
  <1> QED BY <1>10, <1>11, <1>13 DEF AddsUp

\* ... and are after a step.
LEMMA CountsAddUpNext == (IInv /\ Idle => AddsUp)'
  <1>1. IInv /\ Idle => AddsUp
    BY CountsAddUp
  <1> QED BY <1>1, PTL

\* At rest every item is in the bucket of its hash, so the counts add up.
LEMMA IInvFsckItems == IInv => FsckItems
  BY CountsAddUp DEF FsckItems, AddsUp

\* The counts of the buckets add up to num_items whenever no sort or expansion is under
\* way, whatever was added, deleted, expanded and sorted before.
THEOREM FsckItemsHolds == Spec => []FsckItems
  <1>1. Spec => []IInv
    BY UthashInvariant
  <1>2. IInv => FsckItems
    BY IInvFsckItems
  <1> QED BY <1>1, <1>2, PTL

----------------------------------------------------------------------------
\* The sizes: the number of buckets is a power of two, and while expanding has not been
\* given up no bucket is beyond its limit.

MultOf(bkts) == [b \in DOMAIN bkts |-> bkts[b].expand_mult]

\* A bucket that will not make the next addition elsewhere expand.
Within(bkt, ideal) ==
    \/ bkt.count < (bkt.expand_mult + 1) * HASH_BKT_CAPACITY_THRESH
    \/ bkt.expand_mult = 0 /\ bkt.count <= ideal /\ ideal <= HASH_BKT_CAPACITY_THRESH

\* Between expansions: the limits are no more than twice the threshold on the average, ...
Bounded ==
    /\ \A b \in 0 .. tbl.num_buckets - 1 :
          buckets[b].expand_mult \in Nat /\ Within(buckets[b], tbl.ideal_chain_maxlen)
    /\ Sums(MultOf(buckets), tbl.num_buckets)[tbl.num_buckets] <= tbl.num_buckets

\* ... so an expansion aims at no more than the threshold.
MultFits(bkt, ideal) ==
    bkt.expand_mult = IF bkt.count > ideal THEN bkt.count \div ideal ELSE 0
Spreading ==
    /\ tbl.ideal_chain_maxlen # 0
    /\ tbl.ideal_chain_maxlen <= HASH_BKT_CAPACITY_THRESH
    /\ tbl.num_items <= (2 * tbl.num_buckets) * tbl.ideal_chain_maxlen
    /\ \A b \in 0 .. 2 * tbl.num_buckets - 1 :
          MultFits(expand.new[b], tbl.ideal_chain_maxlen)

SizeInv ==
    /\ hash \in [Key -> HashValue]
    /\ deletes \in 0 .. MaxDeletes
    /\ tbl.log2_num_buckets \in Nat
    /\ tbl.num_buckets = TwoTo[tbl.log2_num_buckets]
    /\ sort.active => head # NULL
    /\ tbl.noexpand \in {0, 1}
    /\ tbl.ideal_chain_maxlen \in Nat
    /\ expand.active => tbl.noexpand = 0 /\ Spreading
    /\ ~expand.active /\ tbl.noexpand = 0 => Bounded

\* The fields of the table the sizes are about.
SameTable ==
    /\ tbl'.num_buckets = tbl.num_buckets
    /\ tbl'.log2_num_buckets = tbl.log2_num_buckets
    /\ tbl'.num_items = tbl.num_items
    /\ tbl'.ideal_chain_maxlen = tbl.ideal_chain_maxlen
    /\ tbl'.noexpand = tbl.noexpand

\* A sort leaves all sizes.
LEMMA SizesStay ==
    ASSUME SizeInv, SameTable, UNCHANGED <<hash, buckets, expand, deletes>>,
           sort'.active => head' # NULL
    PROVE  SizeInv'
  <1>1. Bounded => Bounded'
    BY DEF Bounded, SameTable, Within, Sums, MultOf
  <1>2. Spreading => Spreading'
    BY DEF Spreading, SameTable
  <1> QED BY <1>1, <1>2 DEF SizeInv, SameTable

\* No step of a sort changes a size, and none but the last leaves the list empty-handed.
LEMMA SortSizes ==
    ASSUME IInv, SizeInv, HASH_SRT \/ CountRun \/ Take \/ NextMerge \/ EndPass
    PROVE  SizeInv'
  <1>1. PICK V : Shape(V)
    BY DEF IInv
  <1>2. tbl \in TablesOf(V)
    BY <1>1 DEF Shape
  <1>3. CASE HASH_SRT \/ CountRun \/ Take \/ NextMerge
    <2>1. UNCHANGED <<hash, head, tbl, buckets, expand, deletes>> /\ (sort.active \/ head # NULL)
      BY <1>3 DEF HASH_SRT, CountRun, Take, NextMerge, Merged, Merging
    <2>2. SameTable
      BY <2>1 DEF SameTable
    <2>3. head' # NULL
      BY <2>1 DEF SizeInv
    <2> QED BY <2>1, <2>2, <2>3, SizesStay
  <1>4. CASE EndPass
    <2>1. /\ UNCHANGED <<hash, buckets, expand, deletes>> /\ sort.active
          /\ \/ tbl' = [tbl EXCEPT !.tail = sort.tail] /\ ~sort'.active
             \/ UNCHANGED <<head, tbl>>
      BY <1>4 DEF EndPass, Merged, Merging, NotSorting
    <2>2. SameTable
      BY <1>2, <2>1 DEF SameTable, TablesOf
    <2>3. sort'.active => head' # NULL
      BY <2>1 DEF SizeInv
    <2> QED BY <2>1, <2>2, <2>3, SizesStay
  <1> QED BY <1>3, <1>4

\* The empty table is within every size.
LEMMA EmptySizes ==
    ASSUME NEW n, n = HASH_INITIAL_NUM_BUCKETS, NEW bkts, bkts = EmptyBuckets(n), NEW ideal
    PROVE  /\ \A b \in 0 .. n - 1 : bkts[b].expand_mult \in Nat /\ Within(bkts[b], ideal)
           /\ Sums(MultOf(bkts), n)[n] <= n
  <1>1. n \in Nat \ {0}
    BY InitialBuckets
  <1>2. \A b \in 0 .. n - 1 : bkts[b].expand_mult = 0 /\ bkts[b].count = 0
    BY DEF EmptyBuckets, EmptyBucket
  <1>3. \A b \in 0 .. n - 1 : Within(bkts[b], ideal)
    BY <1>2, TableAssumption DEF Within
  <1> DEFINE f == MultOf(bkts)
  <1>4. \A b \in 0 .. n - 1 : f[b] = 0
    BY <1>2 DEF MultOf, EmptyBuckets
  <1>5. Sums(f, n)[n] = 0
    <2>1. SumsOf(Sums(f, n), f, n)
      <3>1. \A b \in 0 .. n - 1 : f[b] \in Nat
        BY <1>4
      <3> HIDE DEF f
      <3> QED BY <1>1, <3>1, SumsDefined
    <2>2. \A b \in 0 .. n - 1 : f[b] \in Nat /\ f[b] = f[b] * 0 + 0
      BY <1>4
    <2>3. 0 \in Nat /\ n \in Nat
      BY <1>1
    <2> HIDE DEF f
    <2>4. Sums(f, n)[n] \in Nat /\ Sums(f, n)[n] = Sums(f, n)[n] * 0 + n * 0
      BY <2>1, <2>2, <2>3, SumsScaled
    <2> QED BY <2>3, <2>4
  <1> QED BY <1>1, <1>2, <1>3, <1>5

\* In the table HASH_MAKE_TABLE makes every bucket is below its limit.
LEMMA InitSizes == Init => SizeInv
  <1> SUFFICES ASSUME Init PROVE SizeInv
    OBVIOUS
  <1>1. tbl.noexpand = 0 /\ tbl.ideal_chain_maxlen = 0 /\ tbl.num_buckets = HASH_INITIAL_NUM_BUCKETS
        /\ tbl.log2_num_buckets = HASH_INITIAL_NUM_BUCKETS_LOG2
        /\ buckets = EmptyBuckets(tbl.num_buckets) /\ ~expand.active /\ ~sort.active
        /\ hash \in [Key -> HashValue] /\ deletes \in 0 .. MaxDeletes
    BY TableAssumption DEF Init, HASH_MAKE_TABLE, NotExpanding, NotSorting
  <1>2. Bounded
    BY <1>1, EmptySizes DEF Bounded
  <1> QED BY <1>1, <1>2, TableAssumption DEF SizeInv

\* No table is left.
LEMMA NoTableSizes ==
    ASSUME SizeInv, Idle, NoTable, UNCHANGED <<hash, expand, sort>>, deletes < MaxDeletes,
           deletes' = deletes + 1
    PROVE  SizeInv'
  <1>1. /\ tbl'.noexpand = 0 /\ tbl'.ideal_chain_maxlen = 0 /\ tbl'.num_buckets = HASH_INITIAL_NUM_BUCKETS
        /\ tbl'.log2_num_buckets = HASH_INITIAL_NUM_BUCKETS_LOG2
        /\ buckets' = EmptyBuckets(tbl'.num_buckets) /\ ~expand'.active /\ ~sort'.active
    BY DEF NoTable, HASH_MAKE_TABLE, Idle
  <1>2. Bounded'
    BY <1>1, EmptySizes DEF Bounded
  <1>3. deletes' \in 0 .. MaxDeletes
    BY TableAssumption DEF SizeInv
  <1> QED BY <1>1, <1>2, <1>3, TableAssumption DEF SizeInv

\* What is deleted makes room.
LEMMA DeleteSizes ==
    ASSUME IInv, SizeInv, NEW k \in Key, HASH_DELETE(k)
    PROVE  SizeInv'
  <1>1. Idle /\ UNCHANGED <<hash, expand, sort>> /\ deletes < MaxDeletes /\ deletes' = deletes + 1
    BY DEF HASH_DELETE
  <1>2. CASE prev[k] = NULL /\ next[k] = NULL
    <2>1. NoTable
      BY <1>2 DEF HASH_DELETE
    <2> QED BY <1>1, <2>1, NoTableSizes
  <1>3. CASE ~(prev[k] = NULL /\ next[k] = NULL)
    <2> DEFINE n == tbl.num_buckets
               b == Bucket(hash, k, n)
    <2>1. /\ tbl' = [tbl EXCEPT !.tail = TailWithout(k), !.num_items = @ - 1]
          /\ buckets' = [buckets EXCEPT ![b].count = @ - 1,
                                        ![b].hh_head = IF @ = k THEN hh_next[k] ELSE @]
      BY <1>3 DEF HASH_DELETE, HASH_DEL_IN_BKT, Bucket
    <2>2. PICK V : Shape(V)
      BY DEF IInv
    <2>3. tbl \in TablesOf(V) /\ buckets \in BucketsOf(V, n) /\ hash \in [Key -> Nat] /\ n \in Nat \ {0}
      BY <2>2 DEF Shape, TablesOf
    <2>4. /\ tbl'.num_buckets = n /\ tbl'.log2_num_buckets = tbl.log2_num_buckets
          /\ tbl'.ideal_chain_maxlen = tbl.ideal_chain_maxlen /\ tbl'.noexpand = tbl.noexpand
      BY <2>1, <2>3 DEF TablesOf
    <2>5. b \in 0 .. n - 1
      BY <2>3, BucketOf
    <2> HIDE DEF b, n
    <2>6. /\ DOMAIN buckets = 0 .. n - 1 /\ DOMAIN buckets' = 0 .. n - 1
          /\ \A c \in 0 .. n - 1 : /\ buckets'[c].expand_mult = buckets[c].expand_mult
                                   /\ buckets[c].count \in Nat
                                   /\ buckets'[c].count = IF c = b THEN buckets[c].count - 1
                                                          ELSE buckets[c].count
      BY <2>1, <2>3, <2>5 DEF BucketsOf
    <2>7. MultOf(buckets') = MultOf(buckets)
      BY <2>6 DEF MultOf
    <2>8. ASSUME Bounded PROVE Bounded'
      <3>1. ASSUME NEW c \in 0 .. n - 1
            PROVE  buckets'[c].expand_mult \in Nat /\ Within(buckets'[c], tbl'.ideal_chain_maxlen)
        <4>1. buckets[c].expand_mult \in Nat /\ Within(buckets[c], tbl.ideal_chain_maxlen)
          BY <2>8 DEF Bounded, n
        <4>2. PICK m \in Nat : m = (buckets[c].expand_mult + 1) * HASH_BKT_CAPACITY_THRESH
          BY <4>1, TableAssumption
        <4>3. buckets'[c].count <= buckets[c].count /\ buckets'[c].count \in Int
              /\ buckets[c].count \in Nat
          BY <2>6
        <4>4. CASE buckets[c].count < m
          <5>1. buckets'[c].count < m
            BY <4>3, <4>4
          <5> QED BY <5>1, <4>1, <4>2, <2>6 DEF Within
        <4>5. CASE /\ buckets[c].expand_mult = 0 /\ buckets[c].count <= tbl.ideal_chain_maxlen
                   /\ tbl.ideal_chain_maxlen <= HASH_BKT_CAPACITY_THRESH
          <5>1. CASE c # b
            BY <5>1, <4>1, <4>5, <2>4, <2>6 DEF Within
          <5>2. CASE c = b
            <6>1. m = HASH_BKT_CAPACITY_THRESH /\ tbl.ideal_chain_maxlen \in Nat
              BY <4>2, <4>5, TableAssumption DEF SizeInv
            <6>2. buckets'[c].count = buckets[c].count - 1
              BY <5>2, <2>6
            <6>3. buckets'[c].count < m
              BY <6>1, <6>2, <4>3, <4>5
            <6>4. buckets'[c].expand_mult = 0
              BY <4>5, <2>6
            <6> QED BY <6>3, <6>4, <4>1, <4>2, <4>5 DEF Within
          <5> QED BY <5>1, <5>2
        <4> QED BY <4>1, <4>2, <4>4, <4>5 DEF Within
      <3> QED BY <3>1, <2>4, <2>7, <2>8 DEF Bounded, n
    <2>9. deletes' \in 0 .. MaxDeletes
      BY <1>1, TableAssumption DEF SizeInv
    <2> QED BY <1>1, <2>4, <2>8, <2>9 DEF SizeInv, Idle, n
  <1> QED BY <1>2, <1>3

\* While a table is Bounded it holds less than twice the threshold for each bucket.
LEMMA RoomToDouble ==
    ASSUME IInv, SizeInv, Idle, tbl.noexpand = 0
    PROVE  tbl.num_items + 1 <= (2 * tbl.num_buckets) * HASH_BKT_CAPACITY_THRESH
  <1> DEFINE n == tbl.num_buckets
             t == HASH_BKT_CAPACITY_THRESH
             f == CountOf(buckets)
             g == MultOf(buckets)
             l == [b \in 0 .. n - 1 |-> g[b] * t + t]
  <1>1. PICK V : Shape(V)
    BY DEF IInv
  <1>2. n \in Nat \ {0} /\ t \in Nat \ {0} /\ buckets \in BucketsOf(V, n) /\ tbl.num_items \in Nat
    BY <1>1, TableAssumption DEF Shape, TablesOf
  <1>3. SumsOf(Sums(f, n), f, n) /\ Sums(f, n)[n] = tbl.num_items
    BY CountsAddUp DEF AddsUp
  <1>4. Bounded
    BY DEF SizeInv, Idle
  <1>5. \A b \in 0 .. n - 1 : /\ f[b] = buckets[b].count /\ f[b] \in Nat
                              /\ g[b] = buckets[b].expand_mult /\ g[b] \in Nat
    BY <1>2, <1>4 DEF BucketsOf, CountOf, MultOf, Bounded
  <1>6. ASSUME NEW b \in 0 .. n - 1
        PROVE  \/ f[b] < g[b] * t + t
               \/ g[b] = 0 /\ f[b] <= t
    <2>1. Within(buckets[b], tbl.ideal_chain_maxlen) /\ g[b] \in Nat /\ f[b] \in Nat
      BY <1>4, <1>5 DEF Bounded
    <2>2. (g[b] + 1) * t = g[b] * t + t
      <3>1. \A x \in Nat : (x + 1) * t = x * t + t
        BY <1>2
      <3> QED BY <2>1, <3>1
    <2>3. tbl.ideal_chain_maxlen \in Nat
      BY DEF SizeInv
    <2> HIDE DEF f, g
    <2>4. g[b] * t \in Nat
      BY <2>1, <1>2
    <2>5. \/ buckets[b].count < (buckets[b].expand_mult + 1) * t
          \/ /\ buckets[b].expand_mult = 0 /\ buckets[b].count <= tbl.ideal_chain_maxlen
             /\ tbl.ideal_chain_maxlen <= t
      BY <2>1 DEF Within
    <2>6. f[b] = buckets[b].count /\ g[b] = buckets[b].expand_mult
      BY <1>5
    <2> HIDE DEF t
    <2>7. CASE buckets[b].count < (buckets[b].expand_mult + 1) * t
      <3>1. f[b] < (g[b] + 1) * t
        BY <2>6, <2>7
      <3> QED BY <3>1, <2>2
    <2>8. CASE /\ buckets[b].expand_mult = 0 /\ buckets[b].count <= tbl.ideal_chain_maxlen
               /\ tbl.ideal_chain_maxlen <= t
      BY <2>1, <2>3, <2>6, <2>8, <1>2
    <2> QED BY <2>5, <2>7, <2>8
  <1>7. Sums(g, n)[n] <= n
    BY <1>4 DEF Bounded
  <1> HIDE DEF f, g, n, t
  <1>8. \A b \in 0 .. n - 1 : l[b] = g[b] * t + t /\ l[b] \in Nat
    BY <1>2, <1>5
  <1> HIDE DEF l
  <1>9. SumsOf(Sums(g, n), g, n) /\ SumsOf(Sums(l, n), l, n)
    BY <1>2, <1>5, <1>8, SumsDefined
  <1>10. Sums(g, n)[n] \in Nat /\ Sums(l, n)[n] = Sums(g, n)[n] * t + n * t
    <2>1. \A b \in 0 .. n - 1 : g[b] \in Nat /\ l[b] = g[b] * t + t
      BY <1>5, <1>8
    <2> QED BY <1>2, <1>9, <2>1, SumsScaled
  <1>11. Sums(l, n)[n] <= (2 * n) * t
    <2>1. \A x \in Nat : x <= n => x * t + n * t <= (2 * n) * t
      <3>1. ASSUME NEW x \in Nat, x <= n PROVE x * t + n * t <= (2 * n) * t
        <4>1. PICK y \in Nat : n = x + y
          <5>1. n - x \in Nat /\ n = x + (n - x)
            BY <3>1, <1>2
          <5> QED BY <5>1
        <4>2. (2 * (x + y)) * t = x * t + (x + y) * t + y * t /\ y * t \in Nat
          BY <1>2
        <4> QED BY <4>1, <4>2, <1>2
      <3> QED BY <3>1
    <2> QED BY <2>1, <1>7, <1>10
  <1>12. \A b \in 0 .. n - 1 : f[b] \in Nat /\ l[b] \in Nat /\ f[b] <= l[b]
    <2>1. ASSUME NEW b \in 0 .. n - 1 PROVE f[b] <= l[b]
      BY <1>2, <1>5, <1>6, <1>8
    <2> QED BY <2>1, <1>5, <1>8
  <1>13. /\ Sums(l, n)[n] \in Nat /\ tbl.num_items <= Sums(l, n)[n]
         /\ (\E b \in 0 .. n - 1 : f[b] < l[b]) => tbl.num_items < Sums(l, n)[n]
    BY <1>2, <1>3, <1>9, <1>12, SumsMonotone
  <1>14. CASE \E b \in 0 .. n - 1 : f[b] < l[b]
    BY <1>2, <1>11, <1>13, <1>14 DEF n, t
  <1>15. CASE \A b \in 0 .. n - 1 : ~(f[b] < l[b])
    <2>1. \A b \in 0 .. n - 1 : g[b] = 0
      BY <1>6, <1>8, <1>15
    <2>2. Sums(g, n)[n] = 0
      <3>1. \A b \in 0 .. n - 1 : g[b] \in Nat /\ g[b] = g[b] * 0 + 0
        BY <2>1
      <3>2. 0 \in Nat /\ n \in Nat
        BY <1>2
      <3>3. Sums(g, n)[n] = Sums(g, n)[n] * 0 + n * 0
        <4>1. SumsOf(Sums(g, n), g, n)
          BY <1>9
        <4> QED BY <4>1, <3>1, <3>2, SumsScaled
      <3> QED BY <3>2, <3>3, <1>10
    <2>3. Sums(l, n)[n] = n * t
      BY <2>2, <1>2, <1>10
    <2>4. n * t + 1 <= (2 * n) * t
      <3>1. (2 * n) * t = n * t + n * t /\ n * t \in Nat
        BY <1>2
      <3>2. n * t # 0
        BY <1>2
      <3> QED BY <3>1, <3>2
    <2> QED BY <2>3, <2>4, <1>2, <1>13 DEF n, t
  <1> QED BY <1>14, <1>15

\* What is added keeps its bucket below the limit, or an expansion that has room begins.
LEMMA AddSizes ==
    ASSUME IInv, SizeInv, NEW k \in Key, HASH_ADD(k)
    PROVE  SizeInv'
  <1> DEFINE n == tbl.num_buckets
             b == Bucket(hash, k, n)
             t == [tbl EXCEPT !.tail = k, !.num_items = @ + 1]
             bkt == [buckets[b] EXCEPT !.count = @ + 1, !.hh_head = k]
             grow == Full(bkt) /\ t.noexpand # 1
  <1>1. PICK V : Shape(V)
    BY DEF IInv
  <1>2. /\ tbl \in TablesOf(V) /\ buckets \in BucketsOf(V, n) /\ hash \in [Key -> Nat]
        /\ n \in Nat \ {0} /\ tbl.num_items \in Nat
    BY <1>1 DEF Shape, TablesOf
  <1>3. b \in 0 .. n - 1
    BY <1>2, BucketOf
  <1>4. /\ Idle /\ UNCHANGED <<hash, sort, deletes>> /\ HASH_ADD_TO_BKT(t, buckets, b, k)
        /\ head' = IF head = NULL THEN k ELSE head
    <2>1. t.num_buckets = n
      BY <1>2 DEF TablesOf
    <2> QED BY <2>1 DEF HASH_ADD, Bucket
  <1> HIDE DEF b, n
  <1>5. /\ t \in TablesOf(V) /\ t.num_buckets = n /\ t.log2_num_buckets = tbl.log2_num_buckets
        /\ t.num_items = tbl.num_items + 1 /\ t.noexpand = tbl.noexpand
        /\ t.ideal_chain_maxlen = tbl.ideal_chain_maxlen
    <2>1. k \in Link /\ tbl.num_items + 1 \in Nat
      BY <1>2 DEF Link
    <2>2. t \in TablesOf(V)
      BY <2>1, <1>2 DEF TablesOf
    <2> QED BY <2>2, <1>2 DEF TablesOf, n
  <1> HIDE DEF t
  <1>6. /\ buckets' = [buckets EXCEPT ![b] = bkt]
        /\ expand' = IF grow THEN Expansion(t, buckets') ELSE NotExpanding
        /\ tbl' = IF grow THEN [t EXCEPT !.ideal_chain_maxlen = Ideal(t), !.nonideal_items = 0] ELSE t
    BY <1>4 DEF HASH_ADD_TO_BKT
  <1>7. buckets[b] \in [hh_head : Link, count : Nat, expand_mult : V]
    BY <1>2, <1>3 DEF BucketsOf, n
  <1>8. bkt.count = buckets[b].count + 1 /\ bkt.expand_mult = buckets[b].expand_mult
    BY <1>7
  <1> HIDE DEF bkt
  <1>9. /\ DOMAIN buckets = 0 .. n - 1 /\ DOMAIN buckets' = 0 .. n - 1
        /\ buckets'[b] = bkt /\ \A c \in 0 .. n - 1 : c # b => buckets'[c] = buckets[c]
    BY <1>2, <1>3, <1>6 DEF BucketsOf, n
  <1>10. sort'.active => head' # NULL
    BY <1>4, TableAssumption DEF SizeInv
  <1>11. hash' \in [Key -> HashValue] /\ deletes' \in 0 .. MaxDeletes
    BY <1>4 DEF SizeInv
  <1>12. tbl'.num_buckets = n /\ tbl'.log2_num_buckets = tbl.log2_num_buckets
         /\ tbl'.noexpand = tbl.noexpand /\ tbl'.num_items = tbl.num_items + 1
    BY <1>5, <1>6 DEF TablesOf
  <1>13. /\ tbl'.log2_num_buckets \in Nat /\ tbl'.num_buckets = TwoTo[tbl'.log2_num_buckets]
         /\ tbl'.noexpand \in {0, 1}
    BY <1>12 DEF SizeInv, n
  <1>14. CASE grow
    <2>1. tbl'.ideal_chain_maxlen = Ideal(t)
      BY <1>5, <1>6, <1>14 DEF TablesOf
    <2>2. expand' = [active |-> TRUE, new |-> EmptyBuckets(2 * n), bkt_i |-> 0, thh |-> buckets'[0].hh_head]
      BY <1>5, <1>6, <1>14 DEF Expansion
    <2>3. expand'.active /\ expand'.new = EmptyBuckets(2 * n)
      BY <2>2
    <2>4. tbl.noexpand = 0
      BY <1>5, <1>14 DEF SizeInv
    <2> DEFINE N == tbl.num_items + 1
               c == Ideal(t)
    <2>5. N \in Nat /\ N # 0 /\ 2 * n \in Nat \ {0}
      BY <1>2 DEF n
    <2>6. c = N \div (2 * n) + (IF N % (2 * n) # 0 THEN 1 ELSE 0)
      <3>1. TwoTo[tbl.log2_num_buckets + 1] = 2 * n
        BY TwoToDefined DEF SizeInv, n
      <3> QED BY <3>1, <1>5 DEF Ideal
    <2>7. N <= (2 * n) * HASH_BKT_CAPACITY_THRESH
      BY <1>4, <2>4, RoomToDouble DEF n
    <2> HIDE DEF N, c
    <2>8. c \in Nat /\ N <= (2 * n) * c /\ c # 0 /\ c <= HASH_BKT_CAPACITY_THRESH
      <3>1. c \in Nat /\ N <= (2 * n) * c /\ (N # 0 => c # 0)
            /\ \A m \in Nat : N <= (2 * n) * m => c <= m
        <4>1. PICK d \in Nat \ {0} : d = 2 * n
          BY <2>5
        <4>2. N \in Nat /\ RoundedUp(c, N, d)
          BY <4>1, <2>5, <2>6 DEF RoundedUp
        <4>3. c \in Nat /\ N <= d * c /\ (N # 0 => c # 0)
          BY <4>2, Ceiling
        <4>4. \A m \in Nat : N <= d * m => c <= m
          BY <4>2, Ceiling
        <4> QED BY <4>1, <4>3, <4>4
      <3>2. HASH_BKT_CAPACITY_THRESH \in Nat
        BY TableAssumption
      <3> QED BY <3>1, <3>2, <2>5, <2>7
    <2>9. \A a \in 0 .. 2 * n - 1 : MultFits(EmptyBuckets(2 * n)[a], c)
      <3>1. \A a \in 0 .. 2 * n - 1 : EmptyBuckets(2 * n)[a].count = 0
                                     /\ EmptyBuckets(2 * n)[a].expand_mult = 0
        BY DEF EmptyBuckets, EmptyBucket
      <3> QED BY <3>1, <2>8 DEF MultFits
    <2>10. Spreading'
      BY <2>1, <2>3, <2>8, <2>9, <1>12 DEF Spreading, N, c
    <2>11. tbl'.ideal_chain_maxlen \in Nat
      BY <2>1, <2>8 DEF c
    <2> QED BY <2>3, <2>4, <2>10, <2>11, <1>10, <1>11, <1>12, <1>13 DEF SizeInv
  <1>15. CASE ~grow
    <2>1. tbl'.ideal_chain_maxlen = tbl.ideal_chain_maxlen /\ ~expand'.active
      BY <1>5, <1>6, <1>15 DEF NotExpanding
    <2>2. ASSUME tbl.noexpand = 0 PROVE Bounded'
      <3>1. Bounded
        BY <1>4, <2>2 DEF SizeInv, Idle
      <3>2. \A c \in 0 .. n - 1 : buckets'[c].expand_mult = buckets[c].expand_mult
        BY <1>8, <1>9
      <3>3. MultOf(buckets') = MultOf(buckets)
        BY <3>2, <1>9 DEF MultOf
      <3>4. ~Full(bkt)
        BY <1>5, <1>15, <2>2
      <3>5. bkt.expand_mult \in Nat /\ bkt.count \in Nat
        BY <1>3, <1>7, <1>8, <3>1 DEF Bounded, n
      <3>6. bkt.count < (bkt.expand_mult + 1) * HASH_BKT_CAPACITY_THRESH
        <4>1. (bkt.expand_mult + 1) * HASH_BKT_CAPACITY_THRESH \in Nat
          BY <3>5, TableAssumption
        <4> QED BY <4>1, <3>4, <3>5 DEF Full
      <3>7. \A c \in 0 .. n - 1 : /\ buckets'[c].expand_mult \in Nat
                                  /\ Within(buckets'[c], tbl.ideal_chain_maxlen)
        <4>1. ASSUME NEW c \in 0 .. n - 1
              PROVE  buckets'[c].expand_mult \in Nat /\ Within(buckets'[c], tbl.ideal_chain_maxlen)
          <5>1. CASE c = b
            BY <5>1, <3>5, <3>6, <1>9 DEF Within
          <5>2. CASE c # b
            BY <5>2, <3>1, <1>9 DEF Bounded, n
          <5> QED BY <5>1, <5>2
        <4> QED BY <4>1
      <3> QED BY <3>1, <3>3, <3>7, <2>1, <1>12 DEF Bounded, n
    <2>3. tbl'.ideal_chain_maxlen \in Nat
      BY <2>1 DEF SizeInv
    <2> QED BY <2>1, <2>2, <2>3, <1>10, <1>11, <1>12, <1>13 DEF SizeInv
  <1> QED BY <1>14, <1>15

\* What is moved leaves its new bucket with the limit of its count.
LEMMA ExpandItemSizes ==
    ASSUME IInv, SizeInv, ExpandItem
    PROVE  SizeInv'
  <1> DEFINE n == tbl.num_buckets
             k == expand.thh
             b == Bucket(hash, k, 2 * n)
             old == expand.new[b]
             ideal == tbl.ideal_chain_maxlen
             nonideal == old.count + 1 > ideal
             bkt == [hh_head |-> k, count |-> old.count + 1,
                     expand_mult |-> IF nonideal THEN (old.count + 1) \div ideal ELSE old.expand_mult]
  <1>1. PICK V : Shape(V)
    BY DEF IInv
  <1>2. /\ tbl \in TablesOf(V) /\ hash \in [Key -> Nat] /\ n \in Nat \ {0}
        /\ expand \in ExpansionsOf(V, n) /\ expand.active /\ k # NULL
    BY <1>1 DEF Shape, TablesOf, ExpandItem, NotExpanding
  <1>3. k \in Key /\ expand.new \in BucketsOf(V, 2 * n) /\ 2 * n \in Nat \ {0}
    BY <1>2 DEF ExpansionsOf, Link
  <1>4. b \in 0 .. 2 * n - 1
    BY <1>2, <1>3, BucketOf
  <1>5. /\ expand' = [expand EXCEPT !.new[b] = bkt, !.thh = hh_next[k]]
        /\ tbl' = [tbl EXCEPT !.nonideal_items = IF nonideal THEN @ + 1 ELSE @]
        /\ UNCHANGED <<hash, head, buckets, sort, deletes>>
    <2>1. NewBucket(k) = b
      BY DEF NewBucket, Bucket
    <2> QED BY <2>1 DEF ExpandItem
  <1>6. Spreading /\ tbl.noexpand = 0 /\ ideal \in Nat \ {0}
    BY <1>2 DEF SizeInv, Spreading
  <1> HIDE DEF b
  <1>7. old.count \in Nat /\ MultFits(old, ideal)
    BY <1>3, <1>4, <1>6 DEF BucketsOf, Spreading
  <1>8. MultFits(bkt, ideal)
    <2>1. old.count > ideal => nonideal
      BY <1>6, <1>7
    <2> HIDE DEF old, nonideal, ideal
    <2>2. bkt.count = old.count + 1
          /\ bkt.expand_mult = IF nonideal THEN (old.count + 1) \div ideal ELSE old.expand_mult
      OBVIOUS
    <2> HIDE DEF bkt
    <2>3. CASE nonideal
      BY <2>2, <2>3 DEF MultFits, nonideal
    <2>4. CASE ~nonideal
      BY <2>1, <2>2, <2>4, <1>7 DEF MultFits, nonideal
    <2> QED BY <2>3, <2>4
  <1> HIDE DEF bkt, nonideal, n, k, old, ideal
  <1>9. /\ expand'.active /\ expand'.new[b] = bkt
        /\ \A c \in 0 .. 2 * n - 1 : c # b => expand'.new[c] = expand.new[c]
    <2>1. PICK new : new = [expand.new EXCEPT ![b] = bkt]
      OBVIOUS
    <2>2. new[b] = bkt /\ \A c \in 0 .. 2 * n - 1 : c # b => new[c] = expand.new[c]
      BY <2>1, <1>3, <1>4 DEF BucketsOf
    <2>3. expand' = [expand EXCEPT !.new = new, !.thh = hh_next[k]]
      BY <2>1, <1>2, <1>5 DEF ExpansionsOf
    <2>4. expand'.new = new /\ expand'.active
      BY <2>3, <1>2 DEF ExpansionsOf
    <2> QED BY <2>2, <2>4
  <1>10. SameTable
    BY <1>2, <1>5 DEF SameTable, TablesOf
  <1>11. Spreading'
    <2>1. \A c \in 0 .. 2 * n - 1 : MultFits(expand'.new[c], ideal)
      BY <1>6, <1>8, <1>9 DEF Spreading, n, ideal
    <2> QED BY <2>1, <1>6, <1>10 DEF Spreading, SameTable, n, ideal
  <1> QED BY <1>5, <1>6, <1>9, <1>10, <1>11 DEF SizeInv, SameTable

\* The next bucket begins with what the last one left.
LEMMA ExpandBucketSizes ==
    ASSUME IInv, SizeInv, ExpandBucket
    PROVE  SizeInv'
  <1>1. PICK V : Shape(V)
    BY DEF IInv
  <1>2. expand \in ExpansionsOf(V, tbl.num_buckets)
    BY <1>1 DEF Shape, ExpandBucket, NotExpanding
  <1>3. /\ expand' = [expand EXCEPT !.bkt_i = @ + 1, !.thh = buckets[expand.bkt_i + 1].hh_head]
        /\ UNCHANGED <<hash, head, tbl, buckets, sort, deletes>> /\ expand.active
    BY DEF ExpandBucket
  <1>4. expand'.new = expand.new /\ expand'.active
    BY <1>2, <1>3 DEF ExpansionsOf
  <1>5. Spreading /\ tbl.noexpand = 0
    BY <1>3 DEF SizeInv
  <1>6. Spreading'
    BY <1>3, <1>4, <1>5 DEF Spreading
  <1> QED BY <1>3, <1>4, <1>5, <1>6 DEF SizeInv

\* The limits after an expansion: what is beyond the ideal length has as many thresholds
\* as its length has ideals, and they are no more than the buckets.
LEMMA ExpandDoneSizes ==
    ASSUME IInv, SizeInv, ExpandDone
    PROVE  SizeInv'
  <1> DEFINE n == tbl.num_buckets
             ideal == tbl.ideal_chain_maxlen
             ineff == IF tbl.nonideal_items > tbl.num_items \div 2 THEN tbl.ineff_expands + 1 ELSE 0
             stop == IF ineff > 1 THEN 1 ELSE tbl.noexpand
             log2 == tbl.log2_num_buckets + 1
             n2 == 2 * n
             t == HASH_BKT_CAPACITY_THRESH
  <1>1. PICK V : Shape(V)
    BY DEF IInv
  <1>2. /\ expand \in ExpansionsOf(V, n) /\ n \in Nat \ {0} /\ tbl \in TablesOf(V)
        /\ tbl.num_items \in Nat
    BY <1>1 DEF Shape, NotExpanding, TablesOf, ExpandDone
  <1>3. /\ tbl' = [tbl EXCEPT !.num_buckets = 2 * n, !.log2_num_buckets = log2,
                             !.ineff_expands = ineff, !.noexpand = stop]
        /\ UNCHANGED <<hash, head, sort, deletes>>
        /\ expand.active /\ ~expand'.active /\ buckets' = expand.new
    BY <1>2 DEF ExpandDone, links, TablesOf, NotExpanding
  <1>4. expand.new \in BucketsOf(V, n2)
    BY <1>2 DEF ExpansionsOf
  <1>5. Spreading /\ tbl.noexpand = 0 /\ ideal \in Nat \ {0} /\ ideal <= t
        /\ tbl.num_items <= n2 * ideal
    BY <1>3 DEF SizeInv, Spreading
  <1>6. stop \in {0, 1}
    BY <1>5
  <1> HIDE DEF ineff, stop, log2
  <1>7. /\ tbl'.num_buckets = n2 /\ tbl'.log2_num_buckets = log2 /\ tbl'.noexpand = stop
        /\ tbl'.num_items = tbl.num_items /\ tbl'.ideal_chain_maxlen = ideal
    BY <1>2, <1>3 DEF TablesOf
  <1>8. log2 \in Nat /\ n2 = TwoTo[log2]
    BY TwoToDefined DEF SizeInv, log2
  <1>9. \A b \in 0 .. n2 - 1 : buckets'[b].count \in Nat /\ MultFits(buckets'[b], ideal)
    BY <1>3, <1>4, <1>5 DEF BucketsOf, Spreading
  <1>10. n2 \in Nat \ {0} /\ t \in Nat \ {0} /\ DOMAIN buckets' = 0 .. n2 - 1
    BY <1>2, <1>3, <1>4, TableAssumption DEF BucketsOf
  <1> HIDE DEF n, n2, ideal, t
  <1>11. ASSUME NEW b \in 0 .. n2 - 1
         PROVE  LET m == buckets'[b].expand_mult
                    c == buckets'[b].count
                IN  m \in Nat /\ m * ideal <= c /\ Within(buckets'[b], ideal)
    <2> DEFINE m == buckets'[b].expand_mult
               c == buckets'[b].count
    <2>1. c \in Nat /\ m = IF c > ideal THEN c \div ideal ELSE 0
      BY <1>9 DEF MultFits
    <2> HIDE DEF m, c
    <2>2. CASE c > ideal
      <3>1. m \in Nat /\ c % ideal \in 0 .. ideal - 1 /\ c = ideal * m + (c % ideal)
        BY <2>1, <2>2, <1>5, Division
      <3>2. PICK r \in 0 .. ideal - 1 : c = ideal * m + r
        BY <3>1
      <3>3. m * ideal <= c
        <4>1. m * ideal = ideal * m /\ ideal * m \in Nat
          BY <3>1, <1>5
        <4> QED BY <4>1, <3>2, <1>5
      <3>4. c < (m + 1) * t
        <4>1. PICK u \in Nat : t = ideal + u
          <5>1. t - ideal \in Nat /\ t = ideal + (t - ideal)
            BY <1>5, <1>10
          <5> QED BY <5>1
        <4>2. (m + 1) * (ideal + u) = ideal * m + ideal + (m + 1) * u /\ (m + 1) * u \in Nat
          BY <3>1, <1>5
        <4>3. ideal * m \in Nat
          BY <3>1, <1>5
        <4>4. c < ideal * m + ideal + (m + 1) * u
          BY <3>2, <4>2, <4>3, <1>5
        <4> QED BY <4>1, <4>2, <4>4
      <3>5. Within(buckets'[b], ideal)
        BY <3>4 DEF Within, m, c, t
      <3> QED BY <3>1, <3>3, <3>5 DEF m, c
    <2>3. CASE ~(c > ideal)
      <3>1. m = 0 /\ c <= ideal
        BY <2>1, <2>3, <1>5
      <3>2. m * ideal = 0
        BY <3>1, <1>5
      <3>3. Within(buckets'[b], ideal)
        BY <3>1, <1>5 DEF Within, m, c, t
      <3> QED BY <2>1, <3>1, <3>2, <3>3 DEF m, c
    <2> QED BY <2>2, <2>3
  <1>12. Sums(MultOf(buckets'), n2)[n2] <= n2
    <2> DEFINE f == CountOf(buckets')
               g == MultOf(buckets')
               l == [b \in 0 .. n2 - 1 |-> g[b] * ideal + 0]
    <2>1. SumsOf(Sums(f, n2), f, n2) /\ Sums(f, n2)[n2] = tbl.num_items
      <3>1. IInv'
        BY ExpandDoneStep
      <3>2. Idle'
        <4>1. ~(sort.active /\ expand.active)
          BY DEF IInv, Holds
        <4> QED BY <4>1, <1>3 DEF Idle
      <3>3. AddsUp'
        BY <3>1, <3>2, CountsAddUpNext
      <3>4. CountOf(buckets)' = CountOf(buckets')
        BY DEF CountOf
      <3> QED BY <3>3, <3>4, <1>7 DEF AddsUp
    <2>2. \A b \in 0 .. n2 - 1 : /\ f[b] = buckets'[b].count /\ f[b] \in Nat
                                 /\ g[b] = buckets'[b].expand_mult /\ g[b] \in Nat
                                 /\ g[b] * ideal <= f[b]
      BY <1>9, <1>10, <1>11 DEF CountOf, MultOf
    <2> HIDE DEF f, g
    <2>3. \A b \in 0 .. n2 - 1 : l[b] = g[b] * ideal + 0 /\ l[b] \in Nat /\ l[b] <= f[b]
      <3>1. \A b \in 0 .. n2 - 1 : g[b] * ideal \in Nat /\ g[b] * ideal + 0 = g[b] * ideal
        BY <2>2, <1>5
      <3> QED BY <3>1, <2>2
    <2> HIDE DEF l
    <2>4. SumsOf(Sums(g, n2), g, n2) /\ SumsOf(Sums(l, n2), l, n2)
      BY <2>2, <2>3, <1>10, SumsDefined
    <2>5. Sums(g, n2)[n2] \in Nat /\ Sums(l, n2)[n2] = Sums(g, n2)[n2] * ideal + n2 * 0
      <3>1. \A b \in 0 .. n2 - 1 : g[b] \in Nat /\ l[b] = g[b] * ideal + 0
        BY <2>2, <2>3
      <3>2. SumsOf(Sums(g, n2), g, n2) /\ SumsOf(Sums(l, n2), l, n2) /\ 0 \in Nat
        BY <2>4
      <3>3. n2 \in Nat /\ ideal \in Nat
        BY <1>5, <1>10
      <3> QED BY <3>1, <3>2, <3>3, SumsScaled
    <2>6. Sums(l, n2)[n2] \in Nat /\ Sums(l, n2)[n2] <= tbl.num_items
      <3>1. \A b \in 0 .. n2 - 1 : l[b] \in Nat /\ f[b] \in Nat /\ l[b] <= f[b]
        BY <2>2, <2>3
      <3>2. SumsOf(Sums(l, n2), l, n2) /\ SumsOf(Sums(f, n2), f, n2)
        BY <2>1, <2>4
      <3> QED BY <3>1, <3>2, <2>1, <1>10, SumsMonotone
    <2>7. PICK x \in Nat : x = Sums(g, n2)[n2] /\ x * ideal <= n2 * ideal
      <3>1. PICK x \in Nat : x = Sums(g, n2)[n2] /\ Sums(l, n2)[n2] = x * ideal + n2 * 0
        BY <2>5
      <3>2. x * ideal + n2 * 0 = x * ideal /\ x * ideal \in Nat /\ n2 * ideal \in Nat
        BY <1>5, <1>10
      <3> QED BY <3>1, <3>2, <2>6, <1>2, <1>5
    <2>8. ~(x > n2)
      <3>1. SUFFICES ASSUME x > n2 PROVE FALSE
        OBVIOUS
      <3>2. PICK y \in Nat : x = n2 + 1 + y
        <4>1. x - n2 - 1 \in Nat /\ x = n2 + 1 + (x - n2 - 1)
          BY <3>1, <1>10
        <4> QED BY <4>1
      <3>3. (n2 + 1 + y) * ideal = n2 * ideal + ideal + y * ideal /\ y * ideal \in Nat /\ n2 * ideal \in Nat
        BY <1>5, <1>10
      <3> QED BY <3>2, <3>3, <2>7, <1>5
    <2> QED BY <2>7, <2>8, <1>10 DEF g
  <1>13. Bounded'
    BY <1>7, <1>11, <1>12 DEF Bounded
  <1> QED BY <1>3, <1>5, <1>6, <1>7, <1>8, <1>13 DEF SizeInv, ideal

\* Every step keeps the sizes.
LEMMA NextSizes == IInv /\ SizeInv /\ [Next]_vars => SizeInv'
  <1> SUFFICES ASSUME IInv, SizeInv, [Next]_vars PROVE SizeInv'
    OBVIOUS
  <1>1. ASSUME NEW k \in Key, HASH_ADD(k) PROVE SizeInv'
    BY <1>1, AddSizes
  <1>2. ASSUME NEW k \in Key, HASH_DELETE(k) PROVE SizeInv'
    BY <1>2, DeleteSizes
  <1>3. CASE HASH_CLEAR
    BY <1>3, NoTableSizes DEF HASH_CLEAR
  <1>4. CASE HASH_SRT \/ CountRun \/ Take \/ NextMerge \/ EndPass
    BY <1>4, SortSizes
  <1>5. CASE ExpandItem
    BY <1>5, ExpandItemSizes
  <1>6. CASE ExpandBucket
    BY <1>6, ExpandBucketSizes
  <1>7. CASE ExpandDone
    BY <1>7, ExpandDoneSizes
  <1>8. CASE UNCHANGED vars
    <2>1. SameTable /\ UNCHANGED <<hash, buckets, expand, deletes, sort, head>>
      BY <1>8 DEF vars, SameTable
    <2> QED BY <2>1, SizesStay DEF SizeInv
  <1> QED BY <1>1, <1>2, <1>3, <1>4, <1>5, <1>6, <1>7, <1>8 DEF Next

\* No sequence of additions, deletions, sorts and expansions leaves the sizes.
THEOREM SizesInvariant == Spec => []SizeInv
  <1>1. Init => SizeInv
    BY InitSizes
  <1>2. Spec => []IInv
    BY UthashInvariant
  <1>3. IInv /\ SizeInv /\ [Next]_vars => SizeInv'
    BY NextSizes
  <1> QED BY <1>1, <1>2, <1>3, PTL DEF Spec

\* The sizes bound the chains.
LEMMA SizesBound == IInv /\ SizeInv => ChainsBounded
  <1> SUFFICES ASSUME IInv, SizeInv, Idle, tbl.noexpand = 0, NEW b \in DOMAIN buckets
               PROVE  \/ buckets[b].count < (buckets[b].expand_mult + 1) * HASH_BKT_CAPACITY_THRESH
                      \/ /\ buckets[b].count <= tbl.ideal_chain_maxlen
                         /\ tbl.ideal_chain_maxlen <= HASH_BKT_CAPACITY_THRESH
    BY DEF ChainsBounded
  <1>1. b \in 0 .. tbl.num_buckets - 1
    BY DEF IInv, Shape, BucketsOf
  <1>2. Bounded
    BY DEF SizeInv, Idle
  <1> QED BY <1>1, <1>2 DEF Bounded, Within

\* While the table has not given up expanding no bucket is beyond its limit, for any hash
\* function, threshold and history: an expansion always has room to aim at the threshold.
THEOREM ChainsBoundedHolds == Spec => []ChainsBounded
  <1>1. Spec => []IInv
    BY UthashInvariant
  <1>2. Spec => []SizeInv
    BY SizesInvariant
  <1>3. IInv /\ SizeInv => ChainsBounded
    BY SizesBound
  <1> QED BY <1>1, <1>2, <1>3, PTL

\* With the shapes of the inductive invariant the sizes give every variable its type.
LEMMA SizesTypeOK == IInv /\ SizeInv => TypeOK
  <1> SUFFICES ASSUME IInv, SizeInv PROVE TypeOK
    OBVIOUS
  <1>1. PICK V : Shape(V) /\ \E P \in SUBSET Key : Holds(P)
    BY DEF IInv
  <1>2. PICK P \in SUBSET Key : Holds(P)
    BY <1>1
  <1>3. /\ head \in Link /\ next \in [Key -> Link] /\ prev \in [Key -> Link]
        /\ hh_next \in [Key -> Link] /\ hh_prev \in [Key -> Link]
        /\ tbl.tail \in Link /\ DOMAIN buckets = 0 .. tbl.num_buckets - 1
    BY <1>1 DEF Shape, TablesOf, BucketsOf
  <1>4. head = NULL <=> tbl.num_items = 0
    <2>1. CASE sort.active
      <3>1. InSort(P)
        BY <1>2, <2>1 DEF Holds
      <3>2. tbl.num_items # 0
        BY <3>1 DEF InSort, Sorting
      <3> QED BY <2>1, <3>2 DEF SizeInv
    <2>2. CASE ~sort.active
      <3>1. PICK pos : Ordered(P, pos, tbl.num_items, head, tbl.tail, next, prev)
        BY <1>2, <2>2 DEF Holds, InOrder
      <3> QED BY <3>1, TableAssumption DEF Ordered
    <2> QED BY <2>1, <2>2
  <1>5. ASSUME expand.active
        PROVE  /\ tbl.ideal_chain_maxlen > 0
               /\ expand.bkt_i \in DOMAIN buckets /\ expand.thh \in Link
    <2>1. expand \in ExpansionsOf(V, tbl.num_buckets)
      BY <1>1, <1>5 DEF Shape, NotExpanding
    <2>2. tbl.ideal_chain_maxlen \in Nat /\ tbl.ideal_chain_maxlen # 0
      BY <1>5 DEF SizeInv, Spreading
    <2> QED BY <2>1, <2>2, <1>3 DEF ExpansionsOf
  <1> QED BY <1>3, <1>4, <1>5 DEF TypeOK, SizeInv

\* The table is what uthash says it is: among others its number of buckets is the power of
\* two of its log2, so that masking is %, it has a first item exactly when it counts some,
\* and an expansion never divides by an ideal length of 0.
THEOREM TypeCorrect == Spec => []TypeOK
  <1>1. Spec => []IInv
    BY UthashInvariant
  <1>2. Spec => []SizeInv
    BY SizesInvariant
  <1>3. IInv /\ SizeInv => TypeOK
    BY SizesTypeOK
  <1> QED BY <1>1, <1>2, <1>3, PTL

----------------------------------------------------------------------------
\* What the sort has put in order.

\* j belongs before k: by hash h, equal ones as they were in the order rk.
Precedes(h, rk, j, k) == h[j] < h[k] \/ (h[j] = h[k] /\ rk[j] < rk[k])

\* Block i is the s places behind base[i].
Grid(base, s) ==
    /\ base[0] = 0
    /\ \A i \in Nat : base[i + 1] = base[i] + s
    /\ \A i, j \in Nat : i < j => base[i] + s <= base[j]
Doubled(base) == [i \in Nat |-> base[2 * i]]

\* Each of K is in its block, and each block is in order.
InBlocks(K, at, B, base, s) ==
    \A k \in K : base[B[k]] < at[k] /\ at[k] <= base[B[k]] + s
BlocksSorted(K, at, B, h, rk) ==
    \A j, k \in K : B[j] = B[k] /\ at[j] < at[k] => Precedes(h, rk, j, k)

\* B are the blocks of this pass, two of which make one of C of the next.
Halves(P, B, C) == \A k \in P : B[k] = 2 * C[k] \/ B[k] = 2 * C[k] + 1

\* Those left are in the blocks of this pass, those merged in blocks of twice the size, of
\* which c is the last; what is in it belongs before what is still to come into it.
Blocks(h, P, R, pos, at, rk, B, C, base, c, s) ==
    /\ Grid(base, s) /\ Halves(P, B, C)
    /\ \A j, k \in P : B[j] < B[k] => rk[j] < rk[k]
    /\ InBlocks(R, at, B, base, s) /\ BlocksSorted(R, at, B, h, rk)
    /\ InBlocks(P \ R, pos, C, Doubled(base), 2 * s) /\ BlocksSorted(P \ R, pos, C, h, rk)
    /\ \A j \in P \ R : C[j] <= c
    /\ \A j \in P \ R, k \in R : C[j] = c /\ C[k] = c => Precedes(h, rk, j, k)

\* Two blocks make one.
LEMMA GridDoubled ==
    ASSUME NEW base \in [Nat -> Nat], NEW s \in Nat, Grid(base, s)
    PROVE  Doubled(base) \in [Nat -> Nat] /\ Grid(Doubled(base), 2 * s)
  <1> DEFINE dbl == Doubled(base)
  <1>1. dbl \in [Nat -> Nat] /\ \A i \in Nat : dbl[i] = base[2 * i]
    BY DEF Doubled
  <1>2. \A i \in Nat : base[i] \in Nat /\ base[i + 1] = base[i] + s
    BY DEF Grid
  <1> HIDE DEF dbl
  <1>3. dbl[0] = 0
    BY <1>1 DEF Grid
  <1>4. ASSUME NEW i \in Nat PROVE dbl[i + 1] = dbl[i] + 2 * s
    <2>1. base[2 * i + 1] = base[2 * i] + s /\ base[2 * i + 1 + 1] = base[2 * i + 1] + s
      BY <1>2
    <2>2. 2 * (i + 1) = 2 * i + 1 + 1 /\ base[2 * i] \in Nat
      BY <1>2
    <2> QED BY <1>1, <2>1, <2>2
  <1>5. ASSUME NEW i \in Nat, NEW j \in Nat, i < j PROVE dbl[i] + 2 * s <= dbl[j]
    <2>1. base[2 * i + 1] = base[2 * i] + s /\ base[2 * i] \in Nat /\ base[2 * j] \in Nat
      BY <1>2
    <2>2. 2 * i + 1 < 2 * j /\ 2 * i + 1 \in Nat /\ 2 * j \in Nat
      BY <1>5
    <2>3. base[2 * i + 1] + s <= base[2 * j]
      BY <2>2 DEF Grid
    <2> QED BY <1>1, <2>1, <2>3
  <1> QED BY <1>1, <1>3, <1>4, <1>5 DEF Grid, dbl

\* A place up to the end of block i is in no later block, one behind its beginning in no
\* earlier one.
LEMMA BlockOfPlace ==
    ASSUME NEW base \in [Nat -> Nat], NEW s \in Nat, Grid(base, s),
           NEW b \in Nat, NEW i \in Nat, NEW a \in Nat, base[b] < a, a <= base[b] + s
    PROVE  (a <= base[i] + s => b <= i) /\ (base[i] < a => i <= b)
  <1>1. base[b] \in Nat /\ base[i] \in Nat
    OBVIOUS
  <1>2. (i < b => base[i] + s <= base[b]) /\ (b < i => base[b] + s <= base[i])
    BY DEF Grid
  <1> QED BY <1>1, <1>2

\* A sort begins with blocks of one.
LEMMA FirstBlocks ==
    ASSUME NEW P \in SUBSET Key, NEW pos \in [Key -> Nat],
           \A k \in P : pos[k] # 0, \A j, k \in P : pos[j] = pos[k] => j = k, NEW h
    PROVE  \E B \in [Key -> Nat], C \in [Key -> Nat], base \in [Nat -> Nat] :
              Blocks(h, P, P, pos, pos, pos, B, C, base, 0, 1)
  <1>1. PICK B, C, base : /\ B = [k \in Key |-> IF pos[k] = 0 THEN 0 ELSE pos[k] - 1]
                          /\ C = [k \in Key |-> B[k] \div 2]
                          /\ base = [i \in Nat |-> i]
    OBVIOUS
  <1>2. B \in [Key -> Nat] /\ base \in [Nat -> Nat] /\ \A k \in P : B[k] = pos[k] - 1
    BY <1>1
  <1>3. C \in [Key -> Nat] /\ Halves(P, B, C)
    BY <1>1, <1>2 DEF Halves
  <1>4. Grid(base, 1)
    BY <1>1 DEF Grid
  <1>5. InBlocks(P, pos, B, base, 1)
    BY <1>1, <1>2 DEF InBlocks
  <1>6. \A j, k \in P : B[j] < B[k] => pos[j] < pos[k]
    BY <1>2
  <1>7. \A j, k \in P : B[j] = B[k] => ~(pos[j] < pos[k])
    BY <1>2
  <1>8. P \ P = {}
    OBVIOUS
  <1>9. Blocks(h, P, P, pos, pos, pos, B, C, base, 0, 1)
    BY <1>3, <1>4, <1>5, <1>6, <1>7, <1>8 DEF Blocks, InBlocks, BlocksSorted
  <1> QED BY <1>2, <1>3, <1>9

\* The next pass begins with the blocks this one has merged.
LEMMA NextBlocks ==
    ASSUME NEW P \in SUBSET Key, NEW pos \in [Key -> Nat], NEW at, NEW rk, NEW h,
           NEW B, NEW C \in [Key -> Nat], NEW base \in [Nat -> Nat], NEW c,
           NEW s \in Nat, Blocks(h, P, {}, pos, at, rk, B, C, base, c, s),
           B \in [Key -> Nat], rk \in [Key -> Nat]
    PROVE  \E C1 \in [Key -> Nat], base1 \in [Nat -> Nat] :
              Blocks(h, P, P, pos, pos, rk, C, C1, base1, 0, 2 * s)
  <1>1. PICK C1, base1 : C1 = [k \in Key |-> C[k] \div 2] /\ base1 = Doubled(base)
    OBVIOUS
  <1>2. C1 \in [Key -> Nat] /\ Halves(P, C, C1)
    BY <1>1 DEF Halves
  <1>3. base1 \in [Nat -> Nat] /\ Grid(base1, 2 * s)
    BY <1>1, GridDoubled DEF Blocks
  <1>4. P \ {} = P /\ P \ P = {}
    OBVIOUS
  <1>5. InBlocks(P, pos, C, base1, 2 * s) /\ BlocksSorted(P, pos, C, h, rk)
    BY <1>1, <1>4 DEF Blocks
  <1>6. ASSUME NEW j \in P, NEW k \in P, C[j] < C[k] PROVE rk[j] < rk[k]
    <2>1. B[j] < B[k]
      BY <1>6 DEF Blocks, Halves
    <2> QED BY <2>1 DEF Blocks
  <1>7. Blocks(h, P, P, pos, pos, rk, C, C1, base1, 0, 2 * s)
    BY <1>2, <1>3, <1>4, <1>5, <1>6 DEF Blocks, InBlocks, BlocksSorted
  <1> QED BY <1>2, <1>3, <1>7

\* The next merge has nothing yet.
LEMMA NextMergeBlocks ==
    ASSUME NEW h, NEW P \in SUBSET Key, NEW R, NEW pos, NEW at, NEW rk, NEW B,
           NEW C \in [Key -> Nat], NEW base, NEW c \in Nat, NEW s,
           Blocks(h, P, R, pos, at, rk, B, C, base, c, s)
    PROVE  Blocks(h, P, R, pos, at, rk, B, C, base, c + 1, s)
  <1>1. \A j \in P \ R : C[j] <= c + 1 /\ C[j] # c + 1
    BY DEF Blocks
  <1> QED BY <1>1 DEF Blocks

\* What is taken comes last in its block.
LEMMA TakeBlocks ==
    ASSUME NEW h, NEW P \in SUBSET Key, NEW R \in SUBSET P, NEW pos \in [Key -> Nat], NEW at,
           NEW rk, NEW B, NEW C \in [Key -> Nat], NEW base \in [Nat -> Nat], NEW c \in Nat,
           NEW s \in Nat, Blocks(h, P, R, pos, at, rk, B, C, base, c, s),
           NEW e \in R, NEW nd \in Nat, \A j \in P \ R : pos[j] <= nd,
           NEW R1, R1 = R \ {e}, NEW pos1, pos1 = [pos EXCEPT ![e] = nd + 1],
           C[e] = c, base[2 * c] < nd + 1, nd + 1 <= base[2 * c] + 2 * s,
           \A k \in R1 : C[k] = c => Precedes(h, rk, e, k)
    PROVE  Blocks(h, P, R1, pos1, at, rk, B, C, base, c, s)
  <1>0. e \in Key /\ nd + 1 \in Nat
    OBVIOUS
  <1>1. P \ R1 = (P \ R) \cup {e}
    OBVIOUS
  <1>2. pos1[e] = nd + 1 /\ \A j \in P \ R : pos1[j] = pos[j] /\ pos1[j] <= nd /\ pos1[j] \in Nat
    BY <1>0
  <1>3. InBlocks(R1, at, B, base, s) /\ BlocksSorted(R1, at, B, h, rk)
    BY DEF Blocks, InBlocks, BlocksSorted
  <1>4. InBlocks(P \ R1, pos1, C, Doubled(base), 2 * s)
    <2>1. Doubled(base)[c] = base[2 * c]
      BY DEF Doubled
    <2> QED BY <1>1, <1>2, <2>1 DEF Blocks, InBlocks
  <1>5. ASSUME NEW j \in P \ R1, NEW k \in P \ R1, C[j] = C[k], pos1[j] < pos1[k]
        PROVE  Precedes(h, rk, j, k)
    <2>1. j # e
      BY <1>1, <1>2, <1>5
    <2>2. CASE k = e
      BY <1>1, <1>5, <2>1, <2>2 DEF Blocks
    <2>3. CASE k # e
      BY <1>1, <1>2, <1>5, <2>1, <2>3 DEF Blocks, BlocksSorted
    <2> QED BY <2>2, <2>3
  <1>6. \A j \in P \ R1 : C[j] <= c
    BY <1>1 DEF Blocks
  <1>7. \A j \in P \ R1, k \in R1 : C[j] = c /\ C[k] = c => Precedes(h, rk, j, k)
    BY <1>1 DEF Blocks
  <1> QED BY <1>3, <1>4, <1>5, <1>6, <1>7 DEF Blocks, BlocksSorted

\* Where the merge in progress stands, the blocks of which begin behind lo.
Standing(x, w, y, z, lo, c, s) ==
    /\ sort.insize = s /\ sort.nmerges = c + 1 /\ z = tbl.num_items + 1
    /\ IF sort.counting THEN x = lo + 1 /\ y <= lo + s
       ELSE /\ lo < x /\ sort.qsize \in Nat
            /\ \/ w = lo + s + 1 /\ y + sort.qsize = lo + 2 * s + 1
               \/ w = z /\ y = z /\ w <= lo + s + 1

\* Those merged, those left of the two runs and the order they were in when the sort began.
Underway(P, R, pos, at, nd, x, w, y, z, rk, B, C, base, c, s) ==
    /\ P \in SUBSET Key /\ R \in SUBSET P /\ pos \in [Key -> Nat] /\ at \in [Key -> Nat]
    /\ nd \in Nat /\ x \in Nat /\ w \in Nat /\ y \in Nat /\ z \in Nat
    /\ rk \in [Key -> Nat] /\ B \in [Key -> Nat] /\ C \in [Key -> Nat]
    /\ base \in [Nat -> Nat] /\ c \in Nat /\ s \in Nat \ {0}
    /\ Stale(P, next) /\ Sorting(P, R, pos, at, nd, x, w, y, z)
    /\ InOrderOf(sort.order, P, rk, tbl.num_items)
    /\ Blocks(hash, P, R, pos, at, rk, B, C, base, c, s)
    /\ Standing(x, w, y, z, base[2 * c], c, s)

\* The keys left are where their blocks are.
LEMMA BlocksLeft ==
    ASSUME NEW h, NEW P \in SUBSET Key, NEW R \in SUBSET P, NEW pos, NEW at \in [Key -> Nat],
           NEW rk, NEW B \in [Key -> Nat], NEW C \in [Key -> Nat], NEW base \in [Nat -> Nat],
           NEW c \in Nat, NEW s \in Nat, Blocks(h, P, R, pos, at, rk, B, C, base, c, s),
           NEW lo \in Nat, lo = base[2 * c], NEW k \in R, lo < at[k]
    PROVE  /\ at[k] <= lo + s <=> B[k] = 2 * c
           /\ (lo + s < at[k] /\ at[k] <= lo + 2 * s) <=> B[k] = 2 * c + 1
           /\ C[k] = c <=> (B[k] = 2 * c \/ B[k] = 2 * c + 1)
  <1>1. k \in P /\ B[k] \in Nat /\ at[k] \in Nat /\ 2 * c \in Nat /\ 2 * c + 1 \in Nat /\ C[k] \in Nat
    OBVIOUS
  <1>2. base[B[k]] < at[k] /\ at[k] <= base[B[k]] + s /\ Grid(base, s)
    BY DEF Blocks, InBlocks
  <1>3. base[2 * c + 1] = lo + s
    BY <1>1, <1>2 DEF Grid
  <1>4. /\ at[k] <= lo + s => B[k] <= 2 * c
        /\ lo < at[k] => 2 * c <= B[k]
    BY <1>1, <1>2, BlockOfPlace
  <1>5. /\ at[k] <= lo + s + s => B[k] <= 2 * c + 1
        /\ lo + s < at[k] => 2 * c + 1 <= B[k]
    <2>1. PICK i \in Nat : i = 2 * c + 1
      BY <1>1
    <2>2. base[i] = lo + s
      BY <1>3, <2>1
    <2>3. /\ at[k] <= base[i] + s => B[k] <= i
          /\ base[i] < at[k] => i <= B[k]
      BY <1>1, <1>2, BlockOfPlace
    <2> QED BY <2>1, <2>2, <2>3
  <1>6. B[k] = 2 * C[k] \/ B[k] = 2 * C[k] + 1
    BY DEF Blocks, Halves
  <1>7. C[k] = c <=> (B[k] = 2 * c \/ B[k] = 2 * c + 1)
    BY <1>1, <1>6
  <1>8. at[k] <= lo + s <=> B[k] = 2 * c
    BY <1>1, <1>2, <1>4
  <1>9. lo + s < at[k] /\ at[k] <= lo + 2 * s <=> B[k] = 2 * c + 1
    BY <1>1, <1>2, <1>3, <1>5
  <1> QED BY <1>7, <1>8, <1>9

\* What is taken belongs before all that is left of its block.
LEMMA TakesLeast ==
    ASSUME NEW V, NEW P, NEW R, NEW pos, NEW at, NEW nd, NEW x, NEW w, NEW y, NEW z,
           NEW rk, NEW B, NEW C, NEW base, NEW c, NEW s,
           SortAt(V, P, R, pos, at, nd, x, w, y, z), Take,
           Underway(P, R, pos, at, nd, x, w, y, z, rk, B, C, base, c, s),
           NEW e, e = IF TakesQ THEN sort.q ELSE sort.p
    PROVE  e \in R /\ C[e] = c /\ \A k \in R \ {e} : C[k] = c => Precedes(hash, rk, e, k)
  <1> SUFFICES ASSUME rk \in [Key -> Nat], B \in [Key -> Nat], C \in [Key -> Nat],
                      base \in [Nat -> Nat], c \in Nat, s \in Nat,
                      Blocks(hash, P, R, pos, at, rk, B, C, base, c, s),
                      NEW lo \in Nat, lo = base[2 * c], Standing(x, w, y, z, lo, c, s)
               PROVE  e \in R /\ C[e] = c /\ \A k \in R \ {e} : C[k] = c => Precedes(hash, rk, e, k)
    <2>1. base \in [Nat -> Nat] /\ 2 * c \in Nat
      BY DEF Underway
    <2>2. PICK lo \in Nat : lo = base[2 * c]
      BY <2>1
    <2> QED BY <2>2 DEF Underway
  <1>1. /\ P \in SUBSET Key /\ R \in SUBSET P /\ at \in [Key -> Nat]
        /\ x \in Nat /\ w \in Nat /\ y \in Nat /\ z \in Nat
        /\ hash \in [Key -> Nat] /\ NULL \notin Key /\ ~sort.counting /\ sort.qsize \in Nat
    BY TableAssumption DEF SortAt, Shape, Take, Merging, Standing
  <1>2. /\ x <= w /\ w <= y /\ y <= z /\ sort.psize = w - x
        /\ \A k \in R : at[k] \in x .. w - 1 \/ at[k] \in y .. z - 1
        /\ \A j, k \in R : at[j] = at[k] => j = k
        /\ x < w => sort.p \in R /\ at[sort.p] = x
        /\ IF y = z THEN sort.q = NULL ELSE sort.q \in R /\ at[sort.q] = y
    BY DEF SortAt, Sorting, Runs
  <1>3. /\ lo < x
        /\ \/ w = lo + s + 1 /\ y + sort.qsize = lo + 2 * s + 1
           \/ w = z /\ y = z /\ w <= lo + s + 1
    BY <1>1 DEF Standing
  <1>4. \A k \in R : at[k] \in Nat /\ lo < at[k] /\ x <= at[k]
    BY <1>1, <1>2, <1>3
  <1>5. \A k \in R : /\ at[k] <= lo + s <=> B[k] = 2 * c
                     /\ (lo + s < at[k] /\ at[k] <= lo + 2 * s) <=> B[k] = 2 * c + 1
                     /\ C[k] = c <=> (B[k] = 2 * c \/ B[k] = 2 * c + 1)
    BY <1>1, <1>4, BlocksLeft
  <1>6. \A j, k \in R : B[j] = B[k] /\ at[j] < at[k] => Precedes(hash, rk, j, k)
    BY DEF Blocks, BlocksSorted
  <1>7. \A j, k \in R : B[j] < B[k] => rk[j] < rk[k]
    BY <1>1 DEF Blocks
  <1>8. ASSUME QLeft
        PROVE  /\ y < z /\ w = lo + s + 1 /\ sort.q \in R /\ at[sort.q] = y
               /\ B[sort.q] = 2 * c + 1
    <2>1. sort.qsize > 0 /\ sort.q # NULL
      BY <1>8 DEF QLeft
    <2>2. y < z /\ w = lo + s + 1 /\ sort.q \in R /\ at[sort.q] = y
      BY <2>1, <1>1, <1>2, <1>3
    <2>3. lo + s < y /\ y <= lo + 2 * s
      BY <2>1, <2>2, <1>1, <1>2, <1>3
    <2> QED BY <2>2, <2>3, <1>5
  <1>9. x < w => sort.p \in R /\ at[sort.p] = x /\ B[sort.p] = 2 * c
    <2>1. x < w => x <= lo + s
      BY <1>1, <1>3
    <2> QED BY <2>1, <1>2, <1>5
  \* Behind the end of the first run there is the second.
  <1>10. ASSUME NEW k \in R, B[k] = 2 * c + 1
         PROVE  QLeft /\ y <= at[k]
    <2>1. lo + s < at[k] /\ at[k] <= lo + 2 * s /\ at[k] \in Nat
      BY <1>4, <1>5, <1>10
    <2>2. y <= at[k] /\ at[k] < z
      BY <2>1, <1>1, <1>2, <1>3
    <2>3. sort.qsize > 0 /\ sort.q # NULL
      BY <2>1, <2>2, <1>1, <1>2, <1>3
    <2> QED BY <2>2, <2>3 DEF QLeft
  <1>11. ASSUME NEW k \in R, B[k] = 2 * c
         PROVE  at[k] < w /\ x < w
    <2>1. at[k] <= lo + s /\ at[k] \in Nat
      BY <1>4, <1>5, <1>11
    <2> QED BY <2>1, <1>1, <1>2, <1>3
  <1>12. \A j, k \in R : Precedes(hash, rk, j, k) => hash[j] <= hash[k]
    BY <1>1 DEF Precedes
  <1>13. CASE TakesQ
    <2>1. QLeft /\ (sort.psize = 0 \/ cmpfcn(sort.p, sort.q) > 0)
      BY <1>1, <1>2, <1>13 DEF TakesQ, Take
    <2>2. e = sort.q /\ e \in R /\ B[e] = 2 * c + 1 /\ at[e] = y /\ C[e] = c
      BY <2>1, <1>5, <1>8, <1>13
    <2>3. ASSUME NEW k \in R \ {e}, C[k] = c PROVE Precedes(hash, rk, e, k)
      <3>1. CASE B[k] = 2 * c + 1
        <4>1. y < at[k]
          BY <3>1, <2>2, <1>1, <1>2, <1>4, <1>10
        <4> QED BY <4>1, <3>1, <2>2, <1>6
      <3>2. CASE B[k] = 2 * c
        <4>1. x < w /\ sort.p \in R /\ at[sort.p] = x /\ B[sort.p] = 2 * c
          BY <3>2, <1>9, <1>11
        <4>2. hash[sort.p] > hash[e]
          <5>1. cmpfcn(sort.p, sort.q) > 0
            BY <4>1, <2>1, <1>1, <1>2
          <5> QED BY <5>1, <4>1, <2>2, <1>1 DEF cmpfcn
        <4>3. hash[sort.p] <= hash[k]
          <5>1. CASE k = sort.p
            BY <5>1, <1>1
          <5>2. CASE k # sort.p
            <6>1. at[sort.p] < at[k]
              BY <5>2, <4>1, <1>2, <1>4
            <6> QED BY <6>1, <4>1, <3>2, <1>6, <1>12
          <5> QED BY <5>1, <5>2
        <4> QED BY <4>1, <4>2, <4>3, <2>2, <1>1 DEF Precedes
      <3> QED BY <3>1, <3>2, <2>3, <1>5
    <2> QED BY <2>2, <2>3
  <1>14. CASE ~TakesQ
    <2>1. x < w /\ (QLeft => ~(cmpfcn(sort.p, sort.q) > 0))
      BY <1>1, <1>2, <1>14 DEF TakesQ
    <2>2. e = sort.p /\ e \in R /\ at[e] = x /\ B[e] = 2 * c /\ C[e] = c
      BY <2>1, <1>5, <1>9, <1>14
    <2>3. ASSUME NEW k \in R \ {e}, C[k] = c PROVE Precedes(hash, rk, e, k)
      <3>1. CASE B[k] = 2 * c
        <4>1. x < at[k]
          BY <3>1, <2>2, <1>2, <1>4
        <4> QED BY <4>1, <3>1, <2>2, <1>6
      <3>2. CASE B[k] = 2 * c + 1
        <4>1. /\ y <= at[k] /\ sort.q \in R /\ at[sort.q] = y /\ B[sort.q] = 2 * c + 1
              /\ ~(cmpfcn(sort.p, sort.q) > 0)
          BY <3>2, <2>1, <1>8, <1>10
        <4>2. hash[e] <= hash[sort.q]
          BY <4>1, <2>2, <1>1 DEF cmpfcn
        <4>3. hash[sort.q] <= hash[k]
          <5>1. CASE k = sort.q
            BY <5>1, <1>1
          <5>2. CASE k # sort.q
            <6>1. at[sort.q] < at[k]
              BY <5>2, <4>1, <1>2, <1>4
            <6> QED BY <6>1, <4>1, <3>2, <1>6, <1>12
          <5> QED BY <5>1, <5>2
        <4>4. rk[e] < rk[k]
          BY <3>2, <2>2, <1>7
        <4> QED BY <4>1, <4>2, <4>3, <4>4, <2>2, <1>1 DEF Precedes
      <3> QED BY <3>1, <3>2, <2>3, <1>5
    <2> QED BY <2>2, <2>3
  <1> QED BY <1>13, <1>14

----------------------------------------------------------------------------
\* The order of the items while they are sorted.

SortInv ==
    sort.active =>
        \E P, R, pos, at, nd, x, w, y, z, rk, B, C, base, c, s :
            Underway(P, R, pos, at, nd, x, w, y, z, rk, B, C, base, c, s)

\* The values of a sort in progress.
LEMMA SortTyped ==
    ASSUME IInv, sort.active
    PROVE  \E V : Shape(V) /\ sort \in SortsOf(V) /\ tbl.num_items \in Nat /\ hash \in [Key -> Nat]
  <1>1. PICK V : \E P \in SUBSET Key :
              /\ Shape(V) /\ Holds(P) /\ ~expand.active /\ sort \in SortsOf(V)
              /\ tbl \in TablesOf(V) /\ InSort(P)
    BY InProgress
  <1> QED BY <1>1 DEF Shape, TablesOf

\* The order a sort begins with is the one it is compared with.
LEMMA SortOrderBegins == IInv /\ HASH_SRT => SortInv'
  <1> SUFFICES ASSUME IInv, HASH_SRT PROVE SortInv'
    OBVIOUS
  <1>1. PICK V : Shape(V) /\ \E P \in SUBSET Key : Holds(P)
    BY DEF IInv
  <1>2. PICK P \in SUBSET Key : Holds(P)
    BY <1>1
  <1>3. /\ UNCHANGED <<hash, head, next, prev, tbl>> /\ ~sort.active /\ head # NULL
    BY DEF HASH_SRT, Idle, links
  <1>4. PICK V1 : V1 = V \cup {0, 1, AppOrder}
    OBVIOUS
  <1>5. /\ sort'.p = head /\ sort'.q = head /\ sort'.psize = 0 /\ sort'.counting
        /\ sort'.list = NULL /\ sort'.tail = NULL
        /\ sort'.nmerges = 1 /\ sort'.insize = 1 /\ sort'.order = AppOrder
    BY <1>1, <1>4, SortBegins
  <1> DEFINE n == tbl.num_items
  <1>6. PICK pos \in [Key -> Nat] : Ordered(P, pos, n, head, tbl.tail, next, prev)
                                  /\ Ends(P, pos, n, next)
    BY <1>2, <1>3 DEF Holds, InOrder
  <1>7. /\ n \in Nat /\ n # 0 /\ hash \in [Key -> Nat] /\ head \in Link /\ next \in [Key -> Link]
        /\ Stale(P, next)
    BY <1>1, <1>2, <1>3, <1>6 DEF Shape, TablesOf, Holds, Ordered
  <1>8. InOrderOf(AppOrder, P, pos, n)
    BY <1>6, <1>7, WalkOrdered DEF AppOrder
  <1>9. (\A k \in P : pos[k] # 0) /\ \A j, k \in P : pos[j] = pos[k] => j = k
    BY <1>6, <1>7 DEF Ordered
  <1>10. PICK B \in [Key -> Nat], C \in [Key -> Nat], base \in [Nat -> Nat] :
            Blocks(hash, P, P, pos, pos, pos, B, C, base, 0, 1)
    BY <1>9, FirstBlocks
  <1>11. PICK z : z = n + 1
    OBVIOUS
  <1>12. Sorting(P, P, pos, pos, 0, 1, 1, 1, z)'
    BY <1>3, <1>5, <1>6, <1>7, <1>11, BeginPass
  <1>13. Standing(1, 1, 1, z, base[2 * 0], 0, 1)'
    <2>1. base[2 * 0] = 0
      BY <1>10 DEF Blocks, Grid
    <2> QED BY <2>1, <1>3, <1>5, <1>11 DEF Standing
  <1>14. /\ Stale(P, next)' /\ InOrderOf(sort.order, P, pos, tbl.num_items)'
         /\ Blocks(hash, P, P, pos, pos, pos, B, C, base, 0, 1)'
    <2>1. Stale(P, next)'
      BY <1>3, <1>7
    <2>2. InOrderOf(sort.order, P, pos, tbl.num_items)'
      BY <1>3, <1>5, <1>8
    <2>3. Blocks(hash, P, P, pos, pos, pos, B, C, base, 0, 1)'
      BY <1>3, <1>10
    <2> QED BY <2>1, <2>2, <2>3
  <1>15. z \in Nat /\ P \in SUBSET P /\ 1 \in Nat \ {0} /\ 0 \in Nat
    BY <1>7, <1>11
  <1>16. Underway(P, P, pos, pos, 0, 1, 1, 1, z, pos, B, C, base, 0, 1)'
    BY <1>12, <1>13, <1>14, <1>15 DEF Underway
  <1> QED BY <1>16 DEF SortInv

\* Counting reaches the end of the first run's block, or of the list.
LEMMA SortOrderCounted == IInv /\ SortInv /\ CountRun => SortInv'
  <1> SUFFICES ASSUME IInv, SortInv, CountRun PROVE SortInv'
    OBVIOUS
  <1>1. sort.active /\ sort.counting /\ UNCHANGED <<hash, next, tbl>>
    BY DEF CountRun, links
  <1>2. PICK P, R, pos, at, nd, x, w, y, z, rk, B, C, base, c, s :
            Underway(P, R, pos, at, nd, x, w, y, z, rk, B, C, base, c, s)
    BY <1>1 DEF SortInv
  <1>3. PICK V : Shape(V) /\ sort \in SortsOf(V) /\ tbl.num_items \in Nat /\ hash \in [Key -> Nat]
    BY <1>1, SortTyped
  <1>4. /\ P \in SUBSET Key /\ R \in SUBSET P /\ pos \in [Key -> Nat] /\ at \in [Key -> Nat]
        /\ nd \in Nat
        /\ x \in Nat /\ w \in Nat /\ y \in Nat /\ z \in Nat
        /\ Sorting(P, R, pos, at, nd, x, w, y, z) /\ s \in Nat \ {0} /\ c \in Nat
        /\ base[2 * c] \in Nat /\ Standing(x, w, y, z, base[2 * c], c, s)
    BY <1>2 DEF Underway
  <1>5. PICK y1 \in Nat : y1 = y + 1
    BY <1>4
  <1>6. /\ Sorting(P, R, pos, at, nd, x, y1, y1, z)'
        /\ w = y /\ sort.psize = w - x /\ sort'.qsize = sort.insize
        /\ sort'.counting <=> y1 # z /\ sort.psize + 1 < sort.insize
        /\ sort'.insize = sort.insize /\ sort'.nmerges = sort.nmerges
        /\ sort'.order = sort.order
    <2>1. SortAt(V, P, R, pos, at, nd, x, w, y, z)
      BY <1>3, <1>4 DEF SortAt
    <2> QED BY <2>1, <1>5, CountSorting
  <1>7. PICK lo \in Nat : lo = base[2 * c]
    BY <1>4
  <1>8. /\ sort.insize = s /\ sort.nmerges = c + 1 /\ z = tbl.num_items + 1
        /\ x = lo + 1 /\ y <= lo + s
    BY <1>1, <1>4, <1>7 DEF Standing
  <1>9. Standing(x, y1, y1, z, lo, c, s)'
    <2>1. CASE sort'.counting
      <3>1. y1 <= lo + s
        BY <2>1, <1>4, <1>5, <1>6, <1>8
      <3> QED BY <2>1, <3>1, <1>1, <1>6, <1>8 DEF Standing
    <2>2. CASE ~sort'.counting
      <3>1. y1 = z \/ y1 = lo + s + 1
        BY <2>2, <1>4, <1>5, <1>6, <1>8
      <3>2. lo < x /\ y1 <= lo + s + 1 /\ (y1 = lo + s + 1 => y1 + s = lo + 2 * s + 1)
        BY <1>4, <1>5, <1>8
      <3> QED BY <2>2, <3>1, <3>2, <1>1, <1>4, <1>6, <1>8 DEF Standing
    <2> QED BY <2>1, <2>2
  <1>10. Underway(P, R, pos, at, nd, x, y1, y1, z, rk, B, C, base, c, s)'
    BY <1>1, <1>2, <1>5, <1>6, <1>7, <1>9 DEF Underway
  <1> QED BY <1>10 DEF SortInv

\* The next two runs are the next two blocks.
LEMMA SortOrderGoesOn == IInv /\ SortInv /\ NextMerge => SortInv'
  <1> SUFFICES ASSUME IInv, SortInv, NextMerge PROVE SortInv'
    OBVIOUS
  <1>1. /\ sort.active /\ ~sort.counting /\ ~QLeft /\ sort.q # NULL
        /\ UNCHANGED <<hash, next, tbl>>
    BY DEF NextMerge, Merged, Merging, links
  <1>2. PICK P, R, pos, at, nd, x, w, y, z, rk, B, C, base, c, s :
            Underway(P, R, pos, at, nd, x, w, y, z, rk, B, C, base, c, s)
    BY <1>1 DEF SortInv
  <1>3. PICK V : Shape(V) /\ sort \in SortsOf(V) /\ tbl.num_items \in Nat /\ hash \in [Key -> Nat]
    BY <1>1, SortTyped
  <1>4. /\ P \in SUBSET Key /\ R \in SUBSET P /\ pos \in [Key -> Nat] /\ at \in [Key -> Nat]
        /\ nd \in Nat /\ x \in Nat /\ w \in Nat /\ y \in Nat /\ z \in Nat
        /\ Sorting(P, R, pos, at, nd, x, w, y, z) /\ s \in Nat \ {0} /\ c \in Nat
        /\ C \in [Key -> Nat] /\ base \in [Nat -> Nat]
        /\ Standing(x, w, y, z, base[2 * c], c, s)
        /\ Blocks(hash, P, R, pos, at, rk, B, C, base, c, s)
    BY <1>2 DEF Underway
  <1>5. PICK V1 : V1 = V \cup {sort.nmerges + 1}
    OBVIOUS
  <1>6. /\ Sorting(P, R, pos, at, nd, y, y, y, z)' /\ y < z /\ sort'.counting
        /\ sort'.insize = sort.insize /\ sort'.nmerges = sort.nmerges + 1
        /\ sort'.order = sort.order
    <2>1. SortAt(V, P, R, pos, at, nd, x, w, y, z)
      BY <1>3, <1>4 DEF SortAt
    <2>2. Sorting(P, R, pos, at, nd, y, y, y, z)'
      BY <2>1, <1>5, NextMergeSorting
    <2>3. /\ y < z /\ sort'.counting
          /\ sort'.insize = sort.insize /\ sort'.nmerges = sort.nmerges + 1
          /\ sort'.order = sort.order
      BY <2>1, <1>5, NextMergeSorting
    <2> QED BY <2>2, <2>3
  <1>7. PICK lo \in Nat : lo = base[2 * c]
    BY <1>4
  <1>8. /\ sort.insize = s /\ sort.nmerges = c + 1 /\ z = tbl.num_items + 1
        /\ y = lo + 2 * s + 1
    <2>1. /\ sort.insize = s /\ sort.nmerges = c + 1 /\ z = tbl.num_items + 1
          /\ sort.qsize \in Nat /\ y + sort.qsize = lo + 2 * s + 1
      BY <1>1, <1>4, <1>6, <1>7 DEF Standing
    <2>2. sort.qsize = 0
      BY <2>1, <1>1 DEF QLeft
    <2> QED BY <2>1, <2>2, <1>4
  <1>9. c + 1 \in Nat /\ base[2 * (c + 1)] = lo + 2 * s
    <2>1. Grid(Doubled(base), 2 * s)
      BY <1>4, GridDoubled DEF Blocks
    <2>2. Doubled(base)[c + 1] = Doubled(base)[c] + 2 * s
      BY <2>1, <1>4 DEF Grid
    <2>3. Doubled(base)[c + 1] = base[2 * (c + 1)] /\ Doubled(base)[c] = base[2 * c]
      BY <1>4 DEF Doubled
    <2> QED BY <2>2, <2>3, <1>4, <1>7
  <1>10. PICK c1 \in Nat : c1 = c + 1
    BY <1>9
  <1>11. Standing(y, y, y, z, base[2 * c1], c1, s)'
    <2>1. base[2 * c1] = lo + 2 * s
      BY <1>9, <1>10
    <2>2. y = base[2 * c1] + 1 /\ y <= base[2 * c1] + s
      BY <2>1, <1>4, <1>7, <1>8
    <2>3. sort'.nmerges = c1 + 1
      BY <1>6, <1>8, <1>10
    <2> QED BY <2>2, <2>3, <1>1, <1>6, <1>8 DEF Standing
  <1>12. Blocks(hash, P, R, pos, at, rk, B, C, base, c1, s)
    BY <1>4, <1>10, NextMergeBlocks
  <1>13. Underway(P, R, pos, at, nd, y, y, y, z, rk, B, C, base, c1, s)'
    BY <1>1, <1>2, <1>6, <1>10, <1>11, <1>12 DEF Underway
  <1> QED BY <1>13 DEF SortInv

\* What is taken comes behind the others of its block that are merged.
LEMMA SortOrderTaken == IInv /\ SortInv /\ Take => SortInv'
  <1> SUFFICES ASSUME IInv, SortInv, Take PROVE SortInv'
    OBVIOUS
  <1>1. /\ sort.active /\ ~sort.counting
        /\ sort.psize > 0 \/ QLeft
        /\ UNCHANGED <<hash, tbl>>
    BY DEF Take, Merging
  <1>2. PICK P, R, pos, at, nd, x, w, y, z, rk, B, C, base, c, s :
            Underway(P, R, pos, at, nd, x, w, y, z, rk, B, C, base, c, s)
    BY <1>1 DEF SortInv
  <1>3. PICK V : Shape(V) /\ sort \in SortsOf(V) /\ tbl.num_items \in Nat /\ hash \in [Key -> Nat]
    BY <1>1, SortTyped
  <1>4. /\ P \in SUBSET Key /\ R \in SUBSET P /\ pos \in [Key -> Nat] /\ at \in [Key -> Nat]
        /\ nd \in Nat /\ x \in Nat /\ w \in Nat /\ y \in Nat /\ z \in Nat
        /\ rk \in [Key -> Nat] /\ B \in [Key -> Nat] /\ C \in [Key -> Nat]
        /\ base \in [Nat -> Nat] /\ c \in Nat /\ s \in Nat \ {0} /\ s \in Nat
        /\ Stale(P, next) /\ Sorting(P, R, pos, at, nd, x, w, y, z)
        /\ InOrderOf(sort.order, P, rk, tbl.num_items)
    BY <1>2 DEF Underway
  <1>5. /\ Blocks(hash, P, R, pos, at, rk, B, C, base, c, s)
        /\ Standing(x, w, y, z, base[2 * c], c, s)
    BY <1>2 DEF Underway
  <1>6. PICK lo \in Nat : lo = base[2 * c]
    BY <1>4
  <1>7. SortAt(V, P, R, pos, at, nd, x, w, y, z)
    BY <1>3, <1>4 DEF SortAt
  <1>8. PICK e, R1, pos1, nd1, x1, y1 : Moved(e, R, pos, nd, x, y, R1, pos1, nd1, x1, y1)
    <2>1. PICK e : e = IF TakesQ THEN sort.q ELSE sort.p
      OBVIOUS
    <2>2. Moved(e, R, pos, nd, x, y, R \ {e}, [pos EXCEPT ![e] = nd + 1], nd + 1,
                IF TakesQ THEN x ELSE x + 1, IF TakesQ THEN y + 1 ELSE y)
      BY <2>1 DEF Moved
    <2> QED BY <2>2
  <1>9. /\ e = IF TakesQ THEN sort.q ELSE sort.p
        /\ R1 = R \ {e} /\ nd1 = nd + 1 /\ pos1 = [pos EXCEPT ![e] = nd + 1]
        /\ x1 = IF TakesQ THEN x ELSE x + 1
        /\ y1 = IF TakesQ THEN y + 1 ELSE y
    BY <1>8 DEF Moved
  <1>10. Sorting(P, R1, pos1, at, nd1, x1, w, y1, z)'
    BY <1>7, <1>8, TakeSorting
  <1>11. /\ IF TakesQ THEN y < z ELSE x < w
         /\ ~sort'.counting
         /\ sort'.qsize = IF TakesQ THEN sort.qsize - 1 ELSE sort.qsize
         /\ sort'.insize = sort.insize /\ sort'.nmerges = sort.nmerges
         /\ sort'.order = sort.order
         /\ \A j \in Key \ P : next'[j] = next[j]
    BY <1>7, <1>8, TakeSorting
  <1>12. e \in R /\ C[e] = c /\ \A k \in R \ {e} : C[k] = c => Precedes(hash, rk, e, k)
    <2>1. e = IF TakesQ THEN sort.q ELSE sort.p
      BY <1>9
    <2> QED BY <1>2, <1>7, <2>1, TakesLeast
  <1>13. R1 \in SUBSET P /\ nd1 \in Nat /\ x1 \in Nat /\ y1 \in Nat /\ pos1 \in [Key -> Nat]
    <2>1. nd + 1 \in Nat
      BY <1>4
    <2>2. pos1 \in [Key -> Nat]
      BY <2>1, <1>4, <1>9
    <2> QED BY <2>2, <1>4, <1>9
  <1>14. /\ sort.insize = s /\ sort.nmerges = c + 1 /\ z = tbl.num_items + 1
         /\ lo < x /\ sort.qsize \in Nat
         /\ \/ w = lo + s + 1 /\ y + sort.qsize = lo + 2 * s + 1
            \/ w = z /\ y = z /\ w <= lo + s + 1
    BY <1>1, <1>5, <1>6 DEF Standing
  <1>15. TakesQ => sort.qsize > 0
    BY <1>1, <1>14 DEF TakesQ, QLeft
  <1>16. Standing(x1, w, y1, z, lo, c, s)'
    <2>1. lo < x1
      BY <1>4, <1>9, <1>14
    <2>2. sort'.qsize \in Nat
      BY <1>11, <1>14, <1>15
    <2>3. \/ w = lo + s + 1 /\ y1 + sort'.qsize = lo + 2 * s + 1
          \/ w = z /\ y1 = z /\ w <= lo + s + 1
      BY <1>4, <1>9, <1>11, <1>14
    <2> QED BY <2>1, <2>2, <2>3, <1>1, <1>11, <1>14 DEF Standing
  <1>17. x <= w /\ w <= y /\ nd + (w - x) + (z - y) = tbl.num_items
    BY <1>4 DEF Sorting, Runs
  <1>18. lo < nd + 1 /\ nd + 1 <= lo + 2 * s
    <2>1. CASE w = lo + s + 1 /\ y + sort.qsize = lo + 2 * s + 1
      <3>1. nd + 1 = x + y - lo - s - 1
        BY <2>1, <1>3, <1>4, <1>14, <1>17
      <3>2. lo < nd + 1
        BY <2>1, <3>1, <1>4, <1>14, <1>17
      <3>3. CASE TakesQ
        <4>1. y <= lo + 2 * s
          BY <2>1, <3>3, <1>4, <1>14, <1>15
        <4> QED BY <2>1, <3>1, <3>2, <4>1, <1>4, <1>17
      <3>4. CASE ~TakesQ
        <4>1. x <= lo + s /\ y <= lo + 2 * s + 1
          BY <2>1, <3>4, <1>4, <1>11, <1>14
        <4> QED BY <3>1, <3>2, <4>1, <1>4
      <3> QED BY <3>3, <3>4
    <2>2. CASE w = z /\ y = z /\ w <= lo + s + 1
      <3>1. ~TakesQ /\ x < w
        BY <2>2, <1>4, <1>11
      <3>2. nd + 1 = x
        BY <2>2, <1>3, <1>4, <1>14, <1>17
      <3> QED BY <2>2, <3>1, <3>2, <1>4, <1>14
    <2> QED BY <2>1, <2>2, <1>14
  <1>19. \A j \in P \ R : pos[j] <= nd
    BY <1>4 DEF Sorting, Ordered
  <1>20. Blocks(hash, P, R1, pos1, at, rk, B, C, base, c, s)
    <2>1. base[2 * c] < nd + 1 /\ nd + 1 <= base[2 * c] + 2 * s
      BY <1>6, <1>18
    <2>2. \A k \in R1 : C[k] = c => Precedes(hash, rk, e, k)
      BY <1>9, <1>12
    <2>3. R1 = R \ {e} /\ pos1 = [pos EXCEPT ![e] = nd + 1]
      BY <1>9
    <2> QED BY <1>4, <1>5, <1>12, <1>19, <2>1, <2>2, <2>3, TakeBlocks
  <1>21. Stale(P, next')
    BY <1>4, <1>11, StaleGrows
  <1>22. InOrderOf(sort'.order, P, rk, tbl'.num_items)
    BY <1>1, <1>4, <1>11
  <1>23. Underway(P, R1, pos1, at, nd1, x1, w, y1, z, rk, B, C, base, c, s)'
    BY <1>1, <1>4, <1>6, <1>10, <1>13, <1>16, <1>20, <1>21, <1>22 DEF Underway
  <1> QED BY <1>23 DEF SortInv

\* The blocks merged are those of the next pass.
LEMMA SortOrderPassed == IInv /\ SortInv /\ EndPass => SortInv'
  <1> SUFFICES ASSUME IInv, SortInv, EndPass, sort'.active PROVE SortInv'
    BY DEF SortInv
  <1>1. /\ sort.active /\ ~sort.counting
        /\ UNCHANGED <<hash, prev>>
    BY DEF EndPass, Merged, Merging
  <1>2. PICK P, R, pos, at, nd, x, w, y, z, rk, B, C, base, c, s :
            Underway(P, R, pos, at, nd, x, w, y, z, rk, B, C, base, c, s)
    BY <1>1 DEF SortInv
  <1>3. PICK V : Shape(V) /\ sort \in SortsOf(V) /\ tbl.num_items \in Nat /\ hash \in [Key -> Nat]
    BY <1>1, SortTyped
  <1>4. /\ P \in SUBSET Key /\ R \in SUBSET P /\ pos \in [Key -> Nat] /\ at \in [Key -> Nat]
        /\ nd \in Nat /\ x \in Nat /\ w \in Nat /\ y \in Nat /\ z \in Nat
        /\ rk \in [Key -> Nat] /\ B \in [Key -> Nat] /\ C \in [Key -> Nat]
        /\ base \in [Nat -> Nat] /\ c \in Nat /\ s \in Nat \ {0} /\ s \in Nat
        /\ Stale(P, next) /\ Sorting(P, R, pos, at, nd, x, w, y, z)
        /\ InOrderOf(sort.order, P, rk, tbl.num_items)
    BY <1>2 DEF Underway
  <1>5. /\ Blocks(hash, P, R, pos, at, rk, B, C, base, c, s)
        /\ Standing(x, w, y, z, base[2 * c], c, s)
    BY <1>2 DEF Underway
  <1>6. SortAt(V, P, R, pos, at, nd, x, w, y, z)
    BY <1>3, <1>4 DEF SortAt
  <1> DEFINE n == tbl.num_items
  <1>7. /\ R = {} /\ n \in Nat \ {0}
        /\ Ordered(P, pos, n, sort.list, sort.tail, next', prev') /\ Ends(P, pos, n, next')
        /\ next' \in [Key -> Link] /\ \A j \in Key \ P : next'[j] = next[j]
    BY <1>6, PassMerged
  <1>8. sort' = Pass(sort, sort.list, 2 * sort.insize) /\ tbl' = tbl
    BY DEF EndPass, NotSorting
  <1>9. /\ sort'.p = sort.list /\ sort'.q = sort.list /\ sort'.psize = 0 /\ sort'.counting
        /\ sort'.list = NULL /\ sort'.tail = NULL
        /\ sort'.nmerges = 1 /\ sort'.insize = 2 * sort.insize /\ sort'.order = sort.order
    <2>1. PICK size : size = 2 * sort.insize
      OBVIOUS
    <2>2. PICK V0 : V0 = V \cup {0, size}
      OBVIOUS
    <2>3. sort \in SortsOf(V0) /\ sort.list \in Link /\ 0 \in V0 /\ size \in V0
      BY <1>3, <2>2 DEF SortsOf
    <2>4. PassBegun(sort', sort.list, size, sort.order)
      BY <1>8, <2>1, <2>3, PassShape
    <2> QED BY <2>1, <2>4 DEF PassBegun
  <1>10. PICK z1 : z1 = n + 1
    OBVIOUS
  <1>11. Sorting(P, P, pos, pos, 0, 1, 1, 1, z1)'
    BY <1>4, <1>7, <1>8, <1>9, <1>10, BeginPass
  <1>12. Blocks(hash, P, {}, pos, at, rk, B, C, base, c, s)
    BY <1>5, <1>7
  <1>13. PICK C1 \in [Key -> Nat], base1 \in [Nat -> Nat] :
            Blocks(hash, P, P, pos, pos, rk, C, C1, base1, 0, 2 * s)
    BY <1>4, <1>12, NextBlocks
  <1>14. PICK s1 \in Nat \ {0} : s1 = 2 * s
    BY <1>4
  <1>15. Standing(1, 1, 1, z1, base1[2 * 0], 0, s1)'
    <2>1. base1[2 * 0] = 0
      BY <1>13 DEF Blocks, Grid
    <2>2. sort'.insize = s1
      BY <1>1, <1>5, <1>9, <1>14 DEF Standing
    <2> QED BY <2>1, <2>2, <1>8, <1>9, <1>10, <1>14 DEF Standing
  <1>16. Stale(P, next)'
    BY <1>4, <1>7, StaleGrows
  <1>17. InOrderOf(sort.order, P, rk, tbl.num_items)'
    BY <1>4, <1>8, <1>9
  <1>18. Blocks(hash, P, P, pos, pos, rk, C, C1, base1, 0, s1)'
    BY <1>1, <1>13, <1>14
  <1>19. z1 \in Nat /\ P \in SUBSET P
    BY <1>7, <1>10
  <1>20. Underway(P, P, pos, pos, 0, 1, 1, 1, z1, rk, C, C1, base1, 0, s1)'
    BY <1>4, <1>11, <1>13, <1>14, <1>15, <1>16, <1>17, <1>18, <1>19 DEF Underway
  <1> QED BY <1>20 DEF SortInv

\* Every step keeps the order.
LEMMA NextSortInv == IInv /\ SortInv /\ [Next]_vars => SortInv'
  <1> SUFFICES ASSUME IInv, SortInv, [Next]_vars PROVE SortInv'
    OBVIOUS
  <1>1. CASE UNCHANGED vars
    <2>1. UNCHANGED <<hash, next, prev, tbl, sort>>
      BY <1>1 DEF vars, links
    <2>2. CASE ~sort.active
      BY <2>1, <2>2 DEF SortInv
    <2>3. CASE sort.active
      <3>1. PICK P, R, pos, at, nd, x, w, y, z, rk, B, C, base, c, s :
                Underway(P, R, pos, at, nd, x, w, y, z, rk, B, C, base, c, s)
        BY <2>3 DEF SortInv
      <3>2. Sorting(P, R, pos, at, nd, x, w, y, z)'
        BY <2>1, <3>1 DEF Underway, Sorting, Runs
      <3>3. Standing(x, w, y, z, base[2 * c], c, s)'
        BY <2>1, <3>1 DEF Underway, Standing
      <3>4. Underway(P, R, pos, at, nd, x, w, y, z, rk, B, C, base, c, s)'
        BY <2>1, <3>1, <3>2, <3>3 DEF Underway
      <3> QED BY <3>4 DEF SortInv
    <2> QED BY <2>2, <2>3
  <1>2. CASE \E k \in Key : HASH_ADD(k) \/ HASH_DELETE(k)
    <2>1. ~sort.active /\ sort' = sort
      BY <1>2 DEF HASH_ADD, HASH_DELETE, Idle
    <2> QED BY <2>1 DEF SortInv
  <1>3. CASE HASH_CLEAR
    <2>1. ~sort.active /\ sort' = sort
      BY <1>3 DEF HASH_CLEAR, Idle
    <2> QED BY <2>1 DEF SortInv
  <1>4. CASE HASH_SRT \/ CountRun \/ Take \/ NextMerge \/ EndPass
    BY <1>4, SortOrderBegins, SortOrderCounted, SortOrderTaken, SortOrderGoesOn, SortOrderPassed
  <1>5. CASE ExpandItem \/ ExpandBucket \/ ExpandDone
    <2>1. expand.active /\ sort' = sort
      BY <1>5 DEF ExpandItem, ExpandBucket, ExpandDone
    <2>2. ~sort.active
      BY <2>1 DEF IInv, Holds
    <2> QED BY <2>1, <2>2 DEF SortInv
  <1> QED BY <1>1, <1>2, <1>3, <1>4, <1>5 DEF Next

\* While the elements are sorted, those merged are in blocks of two runs each, in order and
\* stably, and those left of the present two belong behind them.
THEOREM SortInvariant == Spec => []SortInv
  <1>1. Init => SortInv
    BY DEF Init, SortInv, NotSorting
  <1> QED BY <1>1, NextSortInv, UthashInvariant, PTL DEF Spec

----------------------------------------------------------------------------
\* The list of what was added.

\* Q is P with k in the place behind the n of P.
Longer(P, pos, n, k, Q, pos1, m) ==
    /\ n \in Nat /\ k \in Key /\ k \notin P /\ Q = P \cup {k} /\ m = n + 1
    /\ pos1[k] = m /\ \A j \in P : pos1[j] = pos[j]

\* What is appended to the order comes last in the list.
LEMMA ListAppended ==
    ASSUME NEW P, NEW pos, NEW n, NEW k, NEW Q, NEW pos1, NEW m, NEW items, NEW items1,
           Longer(P, pos, n, k, Q, pos1, m),
           InOrderOf(items, P, pos, n), InOrderOf(items1, Q, pos1, m)
    PROVE  items1 = Append(items, k)
  <1>0. n \in Nat /\ k \in Key
    BY DEF Longer
  <1>1. /\ items \in Seq(Key) /\ Len(items) = n
        /\ \A i \in 1 .. n : items[i] \in P /\ pos[items[i]] = i
    BY DEF InOrderOf
  <1>2. /\ items1 \in Seq(Key) /\ Len(items1) = n + 1
        /\ \A j \in P \cup {k} : items1[pos1[j]] = j
    BY <1>0 DEF InOrderOf, Longer
  <1>3. /\ Append(items, k) \in Seq(Key) /\ Len(Append(items, k)) = n + 1
        /\ \A i \in 1 .. n : Append(items, k)[i] = items[i]
        /\ Append(items, k)[n + 1] = k
    BY <1>0, <1>1, AppendProperties
  <1>4. ASSUME NEW i \in 1 .. n + 1 PROVE items1[i] = Append(items, k)[i]
    <2>1. CASE i = n + 1
      <3>1. pos1[k] = n + 1
        BY DEF Longer
      <3> QED BY <2>1, <3>1, <1>2, <1>3
    <2>2. CASE i # n + 1
      <3>1. i \in 1 .. n
        BY <2>2, <1>0
      <3>2. items[i] \in P /\ pos1[items[i]] = i
        BY <3>1, <1>1 DEF Longer
      <3> QED BY <3>1, <3>2, <1>2, <1>3
    <2> QED BY <2>1, <2>2
  <1> QED BY <1>0, <1>2, <1>3, <1>4, SeqEqual

\* A sequence without its place m.
LEMMA Removed ==
    ASSUME NEW w \in Seq(Key), NEW n \in Nat, Len(w) = n, NEW m \in 1 .. n
    PROVE  /\ RemoveAt(w, m) \in Seq(Key) /\ Len(RemoveAt(w, m)) = n - 1
           /\ \A i \in 1 .. n - 1 :
                 RemoveAt(w, m)[i] = IF i < m THEN w[i] ELSE w[i + 1]
  <1>1. PICK a, b : a = SubSeq(w, 1, m - 1) /\ b = SubSeq(w, m + 1, n)
    OBVIOUS
  <1>2. \A i \in 1 .. n : w[i] \in Key
    BY ElementOfSeq
  <1>3. /\ a \in Seq(Key) /\ Len(a) = m - 1 /\ \A i \in 1 .. m - 1 : a[i] = w[i]
    <2>1. \A i \in 1 .. m - 1 : w[i] \in Key
      BY <1>2
    <2>2. /\ a \in Seq(Key) /\ Len(a) = IF 1 <= m - 1 THEN (m - 1) - 1 + 1 ELSE 0
          /\ \A i \in 1 .. (m - 1) - 1 + 1 : a[i] = w[1 + i - 1]
      BY <2>1, <1>1, SubSeqProperties
    <2> QED BY <2>2
  <1>4. /\ b \in Seq(Key) /\ Len(b) = n - m /\ \A i \in 1 .. n - m : b[i] = w[m + i]
    <2>1. \A i \in m + 1 .. n : w[i] \in Key
      BY <1>2
    <2>2. /\ b \in Seq(Key) /\ Len(b) = IF m + 1 <= n THEN n - (m + 1) + 1 ELSE 0
          /\ \A i \in 1 .. n - (m + 1) + 1 : b[i] = w[(m + 1) + i - 1]
      BY <2>1, <1>1, SubSeqProperties
    <2> QED BY <2>2
  <1>5. PICK r : r = a \o b
    OBVIOUS
  <1>6. r = RemoveAt(w, m)
    BY <1>1, <1>5 DEF RemoveAt
  <1>7. /\ r \in Seq(Key) /\ Len(r) = n - 1
        /\ \A i \in 1 .. n - 1 : r[i] = IF i <= m - 1 THEN a[i] ELSE b[i - (m - 1)]
    <2>1. /\ r \in Seq(Key) /\ Len(r) = Len(a) + Len(b)
          /\ \A i \in 1 .. Len(a) + Len(b) : r[i] = IF i <= Len(a) THEN a[i] ELSE b[i - Len(a)]
      BY <1>3, <1>4, <1>5, ConcatProperties
    <2>2. Len(a) + Len(b) = n - 1 /\ Len(a) = m - 1
      BY <1>3, <1>4
    <2> QED BY <2>1, <2>2
  <1>8. ASSUME NEW i \in 1 .. n - 1 PROVE r[i] = IF i < m THEN w[i] ELSE w[i + 1]
    <2>1. CASE i < m
      <3>1. i \in 1 .. m - 1
        BY <2>1
      <3> QED BY <2>1, <3>1, <1>3, <1>7
    <2>2. CASE ~(i < m)
      <3>1. i - (m - 1) \in 1 .. n - m /\ m + (i - (m - 1)) = i + 1 /\ ~(i <= m - 1)
        BY <2>2
      <3>2. b[i - (m - 1)] = w[i + 1]
        BY <3>1, <1>4
      <3> QED BY <2>2, <3>1, <3>2, <1>7
    <2> QED BY <2>1, <2>2
  <1> QED BY <1>6, <1>7, <1>8

\* What is taken out of the order is taken out of the list.
LEMMA ListRemoved ==
    ASSUME NEW P \in SUBSET Key, NEW pos \in [Key -> Nat], NEW n \in Nat,
           NEW items, InOrderOf(items, P, pos, n), NEW k \in P, pos[k] \in 1 .. n,
           NEW pos1, pos1 = ClosedUp(P, pos, k),
           NEW items1, InOrderOf(items1, P \ {k}, pos1, n - 1)
    PROVE  items1 = RemoveAt(items, pos[k])
  <1>1. /\ items \in Seq(Key) /\ Len(items) = n
        /\ \A i \in 1 .. n : items[i] \in P /\ pos[items[i]] = i
    BY DEF InOrderOf
  <1>2. /\ items1 \in Seq(Key) /\ Len(items1) = n - 1
        /\ \A j \in P \ {k} : items1[pos1[j]] = j
    BY DEF InOrderOf
  <1>3. PICK m \in 1 .. n : m = pos[k]
    OBVIOUS
  <1>4. PICK r : r = RemoveAt(items, m)
    OBVIOUS
  <1>5. /\ r \in Seq(Key) /\ Len(r) = n - 1
        /\ \A i \in 1 .. n - 1 : r[i] = IF i < m THEN items[i] ELSE items[i + 1]
    BY <1>1, <1>4, Removed
  <1>6. \A j \in P : pos1[j] = IF pos[j] > m THEN pos[j] - 1 ELSE pos[j]
    BY <1>3 DEF ClosedUp
  <1>7. ASSUME NEW i \in 1 .. n - 1 PROVE items1[i] = r[i]
    <2>1. CASE i < m
      <3>1. i \in 1 .. n /\ items[i] \in P /\ pos[items[i]] = i
        BY <1>1
      <3>2. items[i] # k /\ pos1[items[i]] = i
        BY <2>1, <3>1, <1>3, <1>6
      <3> QED BY <2>1, <3>1, <3>2, <1>2, <1>5
    <2>2. CASE ~(i < m)
      <3>1. i + 1 \in 1 .. n /\ i + 1 > m /\ i + 1 - 1 = i
        BY <2>2
      <3>2. items[i + 1] \in P /\ pos[items[i + 1]] = i + 1
        BY <3>1, <1>1
      <3>3. items[i + 1] # k /\ pos1[items[i + 1]] = i
        BY <3>1, <3>2, <1>3, <1>6
      <3> QED BY <2>2, <3>2, <3>3, <1>2, <1>5
    <2> QED BY <2>1, <2>2
  <1>8. items1 = r
    <2>1. Len(items1) = Len(r) /\ \A i \in 1 .. Len(items1) : items1[i] = r[i]
      BY <1>2, <1>5, <1>7
    <2> QED BY <2>1, <1>2, <1>5, SeqEqual
  <1> QED BY <1>3, <1>4, <1>8

\* The order of addition, as a list.
LEMMA IdleList ==
    ASSUME NEW V, Shape(V), NEW P \in SUBSET Key, Holds(P), ~sort.active
    PROVE  \E pos \in [Key -> Nat] :
              /\ Ordered(P, pos, tbl.num_items, head, tbl.tail, next, prev)
              /\ Ends(P, pos, tbl.num_items, next) /\ Stale(P, next)
              /\ InOrderOf(AppOrder, P, pos, tbl.num_items)
  <1>1. PICK pos \in [Key -> Nat] : /\ Ordered(P, pos, tbl.num_items, head, tbl.tail, next, prev)
                                   /\ Ends(P, pos, tbl.num_items, next)
    BY DEF Holds, InOrder
  <1>2. /\ head \in Link /\ next \in [Key -> Link] /\ tbl.num_items \in Nat /\ Stale(P, next)
    BY DEF Shape, TablesOf, Holds
  <1>3. InOrderOf(AppOrder, P, pos, tbl.num_items)
    BY <1>1, <1>2, WalkOrdered DEF AppOrder
  <1> QED BY <1>1, <1>2, <1>3

\* With no table there is nothing in the list.
LEMMA NoTableList ==
    ASSUME NEW V, Shape(V), NEW P \in SUBSET Key, Holds(P), Idle, NoTable,
           NEW pos \in [Key -> Nat]
    PROVE  InOrderOf(AppOrder', {}, pos, 0) /\ tbl'.num_items = 0
  <1>1. head' = NULL /\ next' = next /\ prev' = prev /\ tbl'.num_items = 0
    BY DEF NoTable, links, HASH_MAKE_TABLE
  <1>2. next \in [Key -> Link] /\ NULL \in Link
    BY DEF Shape, Link
  <1>3. Stale({}, next)
    BY <1>2, Found, RankedStale
  <1>4. Ordered({}, pos, 0, NULL, NULL, next, prev) /\ Ends({}, pos, 0, next)
    BY DEF Ordered, Ends
  <1>5. InOrderOf(Walk(NULL, next), {}, pos, 0)
    BY <1>2, <1>3, <1>4, WalkOrdered
  <1> QED BY <1>1, <1>5 DEF AppOrder

\* HASH_ADD is the abstract Insert.
LEMMA AddInserts ==
    ASSUME IInv, NEW k \in Key, HASH_ADD(k)
    PROVE  List!Insert(k)
  <1>1. PICK V : Shape(V) /\ \E P \in SUBSET Key : Holds(P)
    BY DEF IInv
  <1>2. PICK P \in SUBSET Key : Holds(P)
    BY <1>1
  <1>3. Idle /\ ~sort.active /\ HASH_FIND(k) = NULL /\ sort' = sort /\ hash' = hash
    BY DEF HASH_ADD, Idle
  <1> DEFINE n == tbl.num_items
  <1>4. PICK pos \in [Key -> Nat] :
            /\ Ordered(P, pos, n, head, tbl.tail, next, prev)
            /\ Ends(P, pos, n, next) /\ Stale(P, next) /\ InOrderOf(AppOrder, P, pos, n)
    BY <1>1, <1>2, <1>3, IdleList
  <1>5. k \notin P /\ ToSet(AppOrder) = P
    BY <1>1, <1>2, <1>3, Found, TableAssumption
  <1>6. PICK pos1 : pos1 = [pos EXCEPT ![k] = n + 1]
    OBVIOUS
  <1>7. /\ pos1 \in [Key -> Nat] /\ Ordered(P \cup {k}, pos1, n + 1, head', k, next', prev')
        /\ Ends(P \cup {k}, pos1, n + 1, next') /\ Stale(P \cup {k}, next')
    BY <1>1, <1>3, <1>4, <1>5, <1>6, AddOrder
  <1>8. tbl'.num_items = n + 1 /\ n \in Nat
    BY <1>1, <1>3, AddShape DEF Shape, TablesOf
  <1>9. head' \in Link /\ next' \in [Key -> Link] /\ P \cup {k} \in SUBSET Key /\ n + 1 \in Nat
    <2>1. \E V1 : Shape(V1)'
      BY <1>1, <1>3, AddShape
    <2> QED BY <2>1, <1>8 DEF Shape
  <1>10. InOrderOf(AppOrder', P \cup {k}, pos1, n + 1)
    BY <1>7, <1>9, WalkOrdered DEF AppOrder
  <1>11. AppOrder' = Append(AppOrder, k)
    <2>1. PICK items1 : items1 = AppOrder'
      OBVIOUS
    <2>2. PICK Q, m, c : Q = P \cup {k} /\ m = n + 1 /\ c = n
      OBVIOUS
    <2>3. InOrderOf(AppOrder, P, pos, c) /\ InOrderOf(items1, Q, pos1, m)
      BY <2>1, <2>2, <1>4, <1>10
    <2>4. Longer(P, pos, c, k, Q, pos1, m)
      BY <2>2, <1>5, <1>6, <1>8 DEF Longer
    <2> HIDE DEF n
    <2> QED BY <2>1, <2>3, <2>4, ListAppended
  <1>12. Items = AppOrder /\ Items' = AppOrder'
    BY <1>3 DEF Items
  <1> QED BY <1>3, <1>5, <1>8, <1>11, <1>12 DEF List!Insert, List!ToSet, ToSet

\* HASH_DELETE is the abstract Delete, of the last item too.
LEMMA DeleteDeletes ==
    ASSUME IInv, NEW k \in Key, HASH_DELETE(k)
    PROVE  List!Delete(k)
  <1>1. PICK V : Shape(V) /\ \E P \in SUBSET Key : Holds(P)
    BY DEF IInv
  <1>2. PICK P \in SUBSET Key : Holds(P)
    BY <1>1
  <1>3. Idle /\ ~sort.active /\ HASH_FIND(k) = k /\ sort' = sort /\ hash' = hash
    BY DEF HASH_DELETE, Idle
  <1> DEFINE n == tbl.num_items
  <1>4. PICK pos \in [Key -> Nat] :
            /\ Ordered(P, pos, n, head, tbl.tail, next, prev)
            /\ Ends(P, pos, n, next) /\ Stale(P, next) /\ InOrderOf(AppOrder, P, pos, n)
    BY <1>1, <1>2, <1>3, IdleList
  <1>5. k \in P
    BY <1>1, <1>2, <1>3, Found, TableAssumption
  <1>6. PICK pos1 : pos1 = ClosedUp(P, pos, k)
    OBVIOUS
  <1>7. n \in Nat /\ pos[k] \in 1 .. n
    BY <1>1, <1>4, <1>5 DEF Shape, TablesOf, Ordered
  <1>8. InOrderOf(AppOrder', P \ {k}, pos1, n - 1) /\ tbl'.num_items = n - 1
    <2>1. CASE prev[k] = NULL /\ next[k] = NULL
      <3>1. NoTable
        BY <2>1 DEF HASH_DELETE
      <3>2. n = 1 /\ P = {k}
        <4>1. pos[k] = 1
          BY <2>1, <1>4, <1>5, TableAssumption DEF Ordered
        <4>2. pos[k] = n
          BY <2>1, <1>4, <1>5, <1>7, TableAssumption DEF Ordered
        <4>3. \A j \in P : pos[j] \in 1 .. 1 /\ (pos[j] = pos[k] => j = k)
          BY <4>1, <4>2, <1>4, <1>5 DEF Ordered
        <4> QED BY <4>1, <4>2, <4>3, <1>5
      <3>3. pos1 \in [Key -> Nat]
        <4>1. \A j \in P : pos[j] - 1 \in Nat
          BY <1>4, <1>7 DEF Ordered
        <4>2. \A j \in Key : (IF j \in P /\ pos[j] > pos[k] THEN pos[j] - 1 ELSE pos[j]) \in Nat
          BY <4>1
        <4> QED BY <4>2, <1>6 DEF ClosedUp
      <3>4. InOrderOf(AppOrder', {}, pos1, 0) /\ tbl'.num_items = 0
        BY <3>1, <3>3, <1>1, <1>2, <1>3, NoTableList
      <3> QED BY <3>2, <3>4
    <2>2. CASE ~(prev[k] = NULL /\ next[k] = NULL)
      <3>1. /\ pos1 \in [Key -> Nat]
            /\ Ordered(P \ {k}, pos1, n - 1, head', tbl'.tail, next', prev')
            /\ Ends(P \ {k}, pos1, n - 1, next') /\ Stale(P \ {k}, next')
            /\ n - 1 \in Nat /\ tbl'.num_items = n - 1
        BY <2>2, <1>1, <1>3, <1>4, <1>5, <1>6, DeleteOrder
      <3>2. head' \in Link /\ next' \in [Key -> Link]
        <4>1. IInv'
          BY DeleteStep
        <4> QED BY <4>1 DEF IInv, Shape
      <3>3. P \ {k} \in SUBSET Key
        OBVIOUS
      <3> QED BY <3>1, <3>2, <3>3, WalkOrdered DEF AppOrder
    <2> QED BY <2>1, <2>2
  <1>9. AppOrder' = RemoveAt(AppOrder, pos[k])
    BY <1>4, <1>5, <1>6, <1>7, <1>8, ListRemoved
  <1>10. pos[k] \in DOMAIN AppOrder /\ AppOrder[pos[k]] = k
    BY <1>4, <1>5, <1>7, LenProperties DEF InOrderOf
  <1>11. Items = AppOrder /\ Items' = AppOrder'
    BY <1>3 DEF Items
  <1> QED BY <1>3, <1>8, <1>9, <1>10, <1>11 DEF List!Delete, List!RemoveAt, RemoveAt

\* HASH_CLEAR is the abstract Clear.
LEMMA ClearClears ==
    ASSUME IInv, HASH_CLEAR
    PROVE  List!Clear
  <1>1. PICK V : Shape(V) /\ \E P \in SUBSET Key : Holds(P)
    BY DEF IInv
  <1>2. PICK P \in SUBSET Key : Holds(P)
    BY <1>1
  <1>3. Idle /\ NoTable /\ sort' = sort /\ hash' = hash
    BY DEF HASH_CLEAR
  <1>4. PICK pos \in [Key -> Nat] : pos = [k \in Key |-> 0]
    OBVIOUS
  <1>5. InOrderOf(AppOrder', {}, pos, 0) /\ tbl'.num_items = 0
    BY <1>1, <1>2, <1>3, NoTableList
  <1>6. AppOrder' = <<>>
    BY <1>5, EmptySeq DEF InOrderOf
  <1>7. Items' = AppOrder'
    BY <1>3 DEF Items, Idle
  <1> QED BY <1>3, <1>5, <1>6, <1>7 DEF List!Clear

\* The last pass of a sort is the abstract Sort.
LEMMA SortSorts ==
    ASSUME IInv, SortInv, EndPass, sort.nmerges <= 1
    PROVE  List!Sort
  <1>1. sort.active /\ ~sort.counting /\ UNCHANGED <<hash, prev>>
    BY DEF EndPass, Merged, Merging
  <1>2. PICK P, R, pos, at, nd, x, w, y, z, rk, B, C, base, c, s :
            Underway(P, R, pos, at, nd, x, w, y, z, rk, B, C, base, c, s)
    BY <1>1 DEF SortInv
  <1>3. PICK V : Shape(V) /\ sort \in SortsOf(V) /\ tbl.num_items \in Nat /\ hash \in [Key -> Nat]
    BY <1>1, SortTyped
  <1>4. /\ P \in SUBSET Key /\ pos \in [Key -> Nat] /\ rk \in [Key -> Nat] /\ C \in [Key -> Nat]
        /\ c \in Nat /\ Stale(P, next) /\ InOrderOf(sort.order, P, rk, tbl.num_items)
        /\ Blocks(hash, P, R, pos, at, rk, B, C, base, c, s)
        /\ Standing(x, w, y, z, base[2 * c], c, s)
    BY <1>2 DEF Underway
  <1>5. SortAt(V, P, R, pos, at, nd, x, w, y, z)
    BY <1>2, <1>3 DEF SortAt, Underway
  <1> DEFINE n == tbl.num_items
  <1>6. /\ R = {} /\ n \in Nat \ {0} /\ sort.list \in P
        /\ Ordered(P, pos, n, sort.list, sort.tail, next', prev') /\ Ends(P, pos, n, next')
        /\ next' \in [Key -> Link] /\ \A j \in Key \ P : next'[j] = next[j]
    BY <1>5, PassMerged
  <1>7. head' = sort.list /\ tbl' = [tbl EXCEPT !.tail = sort.tail] /\ ~sort'.active
    BY DEF EndPass, NotSorting
  <1>8. tbl'.num_items = n
    BY <1>3, <1>7 DEF Shape, TablesOf
  <1>9. InOrderOf(AppOrder', P, pos, n)
    <2>1. Stale(P, next')
      BY <1>4, <1>6, StaleGrows
    <2>2. sort.list \in Link
      BY <1>4, <1>6 DEF Link
    <2> QED BY <2>1, <2>2, <1>4, <1>6, <1>7, WalkOrdered DEF AppOrder
  <1>10. Items = sort.order /\ Items' = AppOrder'
    BY <1>1, <1>7 DEF Items
  \* One merge was all of the pass.
  <1>11. c = 0
    BY <1>4 DEF Standing
  <1>12. \A j, k \in P : pos[j] < pos[k] => Precedes(hash, rk, j, k)
    <2>1. \A j \in P : C[j] = 0
      BY <1>4, <1>6, <1>11 DEF Blocks
    <2> QED BY <2>1, <1>4, <1>6 DEF Blocks, BlocksSorted
  <1>13. /\ Items' \in Seq(Key) /\ Len(Items') = n /\ ToSet(Items') = P
         /\ \A i \in 1 .. n : Items'[i] \in P /\ pos[Items'[i]] = i
    BY <1>9, <1>10 DEF InOrderOf
  <1>14. /\ Items \in Seq(Key) /\ Len(Items) = n /\ ToSet(Items) = P
         /\ \A k \in P : Items[rk[k]] = k
         /\ \A i \in 1 .. n : rk[Items[i]] = i
    BY <1>4, <1>10 DEF InOrderOf
  <1>15. DOMAIN Items = 1 .. n /\ DOMAIN Items' = 1 .. n
    BY <1>13, <1>14, LenProperties
  <1>16. \A k \in P : rk[k] \in 1 .. n
    <2>1. \A k \in P : \E i \in 1 .. n : Items[i] = k
      BY <1>14, <1>15 DEF ToSet
    <2> QED BY <2>1, <1>14
  <1>17. ASSUME NEW i \in DOMAIN Items', NEW j \in DOMAIN Items', i < j
         PROVE  LET a == Items'[i]
                    b == Items'[j]
                IN  hash'[a] < hash'[b] \/ (hash'[a] = hash'[b] /\ List!Before(a, b))
    <2>1. PICK a, b : a = Items'[i] /\ b = Items'[j]
      OBVIOUS
    <2>2. a \in P /\ b \in P /\ pos[a] < pos[b]
      BY <2>1, <1>13, <1>15, <1>17
    <2>3. hash[a] < hash[b] \/ (hash[a] = hash[b] /\ rk[a] < rk[b])
      BY <2>2, <1>12 DEF Precedes
    <2>4. rk[a] < rk[b] => List!Before(a, b)
      BY <2>2, <1>14, <1>15, <1>16 DEF List!Before
    <2> QED BY <2>1, <2>3, <2>4, <1>1
  <1> QED BY <1>1, <1>8, <1>13, <1>14, <1>17 DEF List!Sort, List!ToSet, ToSet

\* What is in the list stays in it while a sort goes on, a table expands, or nothing happens.
LEMMA ListStays ==
    ASSUME IInv,
           \/ UNCHANGED vars
           \/ HASH_SRT \/ CountRun \/ Take \/ NextMerge \/ (EndPass /\ ~(sort.nmerges <= 1))
           \/ ExpandItem \/ ExpandBucket \/ ExpandDone
    PROVE  UNCHANGED List!vars
  <1>1. CASE UNCHANGED vars
    BY <1>1 DEF vars, links, List!vars, Items, AppOrder
  <1>2. CASE HASH_SRT
    <2>1. PICK V : Shape(V)
      BY DEF IInv
    <2>2. PICK V1 : V1 = V \cup {0, 1, AppOrder}
      OBVIOUS
    <2>3. sort'.active /\ sort'.order = AppOrder
      BY <1>2, <2>1, <2>2, SortBegins
    <2>4. ~sort.active /\ UNCHANGED <<hash, tbl>>
      BY <1>2 DEF HASH_SRT, Idle, links
    <2> QED BY <2>3, <2>4 DEF List!vars, Items
  <1>3. CASE CountRun \/ Take \/ NextMerge \/ (EndPass /\ ~(sort.nmerges <= 1))
    <2>1. sort.active /\ UNCHANGED <<hash, tbl>>
      BY <1>3 DEF CountRun, Take, NextMerge, EndPass, Merged, Merging, links
    <2>2. PICK V : Shape(V) /\ sort \in SortsOf(V)
      BY <2>1, SortTyped
    <2>3. CASE CountRun
      <3>1. PICK ps, q, qs, c : sort' = [sort EXCEPT !.psize = ps, !.q = q, !.qsize = qs, !.counting = c]
        BY <2>3 DEF CountRun
      <3> QED BY <2>1, <2>2, <3>1 DEF SortsOf, List!vars, Items
    <2>4. CASE Take
      <3>1. PICK e, qs, ps, lst, n :
                \/ sort' = [sort EXCEPT !.q = n, !.qsize = qs, !.tail = e, !.list = lst]
                \/ sort' = [sort EXCEPT !.p = n, !.psize = ps, !.tail = e, !.list = lst]
        BY <2>4 DEF Take
      <3> QED BY <2>1, <2>2, <3>1 DEF SortsOf, List!vars, Items
    <2>5. CASE NextMerge
      <3>1. sort' = Merge(sort, sort.q) /\ sort.q \in Link
        BY <2>2, <2>5 DEF NextMerge, SortsOf
      <3>2. sort'.active /\ sort'.order = sort.order
        BY <2>2, <3>1, MergeShape DEF MergeBegun
      <3> QED BY <2>1, <3>2 DEF List!vars, Items
    <2>6. CASE EndPass /\ ~(sort.nmerges <= 1)
      <3>1. PICK size : size = 2 * sort.insize
        OBVIOUS
      <3>2. PICK V0 : V0 = V \cup {0, size}
        OBVIOUS
      <3>3. sort \in SortsOf(V0) /\ sort.list \in Link /\ 0 \in V0 /\ size \in V0
        BY <2>2, <3>2 DEF SortsOf
      <3>4. sort' = Pass(sort, sort.list, size)
        BY <2>6, <3>1 DEF EndPass
      <3>5. PassBegun(sort', sort.list, size, sort.order)
        BY <3>3, <3>4, PassShape
      <3> QED BY <2>1, <3>5 DEF PassBegun, List!vars, Items
    <2> QED BY <1>3, <2>3, <2>4, <2>5, <2>6
  <1>4. CASE ExpandItem \/ ExpandBucket \/ ExpandDone
    <2>1. expand.active /\ UNCHANGED <<hash, head, next, sort>>
      BY <1>4 DEF ExpandItem, ExpandBucket, ExpandDone, links
    <2>2. ~sort.active
      BY <2>1 DEF IInv, Holds
    <2>3. PICK V : tbl \in TablesOf(V)
      BY DEF IInv, Shape
    <2>4. tbl'.num_items = tbl.num_items
      BY <1>4, <2>3 DEF ExpandItem, ExpandBucket, ExpandDone, TablesOf
    <2> QED BY <2>1, <2>2, <2>4 DEF List!vars, Items, AppOrder
  <1> QED BY <1>1, <1>2, <1>3, <1>4

\* Every step of the table is one of the list or none.
LEMMA ListStep == IInv /\ SortInv /\ [Next]_vars => [List!Next]_(List!vars)
  <1> SUFFICES ASSUME IInv, SortInv, [Next]_vars PROVE List!Next \/ UNCHANGED List!vars
    OBVIOUS
  <1>1. CASE \E k \in Key : HASH_ADD(k) \/ HASH_DELETE(k)
    BY <1>1, AddInserts, DeleteDeletes DEF List!Next
  <1>2. CASE HASH_CLEAR
    BY <1>2, ClearClears DEF List!Next
  <1>3. CASE EndPass /\ sort.nmerges <= 1
    BY <1>3, SortSorts DEF List!Next
  <1>4. CASE HASH_SRT \/ CountRun \/ Take \/ NextMerge
    BY <1>4, ListStays
  <1>5. CASE EndPass /\ ~(sort.nmerges <= 1)
    BY <1>5, ListStays
  <1>6. CASE ExpandItem \/ ExpandBucket \/ ExpandDone
    BY <1>6, ListStays
  <1>7. CASE UNCHANGED vars
    BY <1>7, ListStays
  <1> QED BY <1>1, <1>2, <1>3, <1>4, <1>5, <1>6, <1>7 DEF Next

\* The empty table is the empty list.
LEMMA ListInit == Init => List!Init
  <1> SUFFICES ASSUME Init PROVE List!Init
    OBVIOUS
  <1>1. /\ hash \in [Key -> Nat] /\ tbl.num_items = 0 /\ ~sort.active /\ head = NULL
        /\ next \in [Key -> Link] /\ next = [k \in Key |-> NULL]
    BY TableAssumption DEF Init, HASH_MAKE_TABLE, NotSorting, Link
  <1>2. AppOrder = <<>>
    <2> DEFINE R0 == [e \in Link |-> IF e = NULL THEN 0 ELSE 1]
    <2>3. R0 \in [Link -> 0 .. 1]
      OBVIOUS
    <2>1. PICK R \in [Link -> 0 .. 1] : R = R0
      BY <2>3
    <2>2. \A k \in Key : R[next[k]] < R[k]
      BY <1>1, <2>1, TableAssumption DEF Link
    <2> QED BY <1>1, <2>1, <2>2, WalkDefined DEF AppOrder
  <1> QED BY <1>1, <1>2 DEF List!Init, Items

\* The table is the list of the keys added and not deleted, in that order until they are
\* sorted, stably: whatever order the links are in meanwhile, each addition, deletion and
\* sort is one step of the list, and an expansion is none.
THEOREM TableIsKeyedList == Spec => ImplementsKeyedList
  <1>1. Init => List!Init
    BY ListInit
  <1>2. IInv /\ SortInv /\ [Next]_vars => [List!Next]_(List!vars)
    BY ListStep
  <1> QED BY <1>1, <1>2, UthashInvariant, SortInvariant, PTL
          DEF Spec, ImplementsKeyedList, List!Spec

=============================================================================
