---------------------------- MODULE UthashProofs ----------------------------
(***************************************************************************)
(* The table finds what was added to it, for every hash function, number   *)
(* of keys, threshold and history.                                         *)
(***************************************************************************)
EXTENDS Uthash, WellFoundedInduction, TLAPS

\* Every set of naturals with a member has a least.
LEMMA NatMin ==
    ASSUME NEW T, T \subseteq Nat, T # {}
    PROVE  \E x \in T : \A y \in T : x <= y
  <1> DEFINE Less == OpToRel(<, Nat)
  <1>1. \E x \in T : \A y \in T : <<y, x>> \notin Less
    BY NatLessThanWellFounded, WFMin
  <1>2. \A x, y \in Nat : <<y, x>> \in Less <=> y < x
    BY DEF OpToRel
  <1> HIDE DEF Less
  <1>3. PICK x \in T : \A y \in T : <<y, x>> \notin Less
    BY <1>1
  <1>4. ASSUME NEW y \in T PROVE x <= y
    <2>1. x \in Nat /\ y \in Nat
      OBVIOUS
    <2>2. ~(y < x)
      BY <1>2, <1>3, <2>1
    <2> QED BY <2>1, <2>2
  <1> QED BY <1>4

\* A set of naturals with 0 and with the next of each of its members has them all.
LEMMA NatAll ==
    ASSUME NEW T, 0 \in T, \A n \in Nat : n \in T => n + 1 \in T
    PROVE  \A n \in Nat : n \in T
  <1> DEFINE F == {n \in Nat : n \notin T}
  <1>1. SUFFICES ASSUME F # {} PROVE FALSE
    OBVIOUS
  <1>2. F \subseteq Nat
    OBVIOUS
  <1> HIDE DEF F
  <1>3. PICK n \in F : \A m \in F : n <= m
    BY <1>1, <1>2, NatMin
  <1> USE DEF F
  <1>4. n \in Nat /\ n # 0 /\ n - 1 \in Nat /\ n - 1 \notin F
    BY <1>3
  <1>5. n - 1 \in T /\ (n - 1) + 1 = n
    BY <1>4
  <1> QED BY <1>3, <1>4, <1>5

\* f follows step from c, up to n.
Follows(f, c, step, n) ==
    f[0] = c /\ \A i \in Nat : i < n => f[i + 1] = step[<<i, f[i]>>]

Recursive(f, c, step) == f[0] = c /\ \A i \in Nat : f[i + 1] = step[<<i, f[i]>>]

\* A step and a start give a function.
LEMMA Recursion ==
    ASSUME NEW c \in Nat, NEW step \in [Nat \X Nat -> Nat]
    PROVE  \E f \in [Nat -> Nat] : Recursive(f, c, step)
  <1> DEFINE T == {n \in Nat : \E f \in [Nat -> Nat] : Follows(f, c, step, n)}
  <1>1. 0 \in T
    <2>1. [i \in Nat |-> c] \in [Nat -> Nat]
      OBVIOUS
    <2>2. Follows([i \in Nat |-> c], c, step, 0)
      BY DEF Follows
    <2> QED BY <2>1, <2>2
  <1>2. ASSUME NEW n \in Nat, n \in T PROVE n + 1 \in T
    <2>1. PICK f \in [Nat -> Nat] : Follows(f, c, step, n)
      BY <1>2
    <2> DEFINE g == [f EXCEPT ![n + 1] = step[<<n, f[n]>>]]
    <2>2. step[<<n, f[n]>>] \in Nat
      OBVIOUS
    <2>3. g \in [Nat -> Nat] /\ g[n + 1] = step[<<n, f[n]>>]
          /\ \A i \in Nat : i # n + 1 => g[i] = f[i]
      BY <2>2
    <2> HIDE DEF g
    <2>4. g[0] = c
      BY <2>1, <2>3 DEF Follows
    <2>5. ASSUME NEW i \in Nat, i < n + 1 PROVE g[i + 1] = step[<<i, g[i]>>]
      <3>1. g[i] = f[i]
        BY <2>3, <2>5
      <3>2. CASE i = n
        BY <3>1, <3>2, <2>3
      <3>3. CASE i # n
        <4>1. i < n /\ i + 1 # n + 1 /\ i + 1 \in Nat
          BY <3>3, <2>5
        <4> QED BY <4>1, <3>1, <2>1, <2>3 DEF Follows
      <3> QED BY <3>2, <3>3
    <2>6. Follows(g, c, step, n + 1)
      BY <2>4, <2>5 DEF Follows
    <2> QED BY <2>3, <2>6
  <1> HIDE DEF T
  <1>3. \A n \in Nat : n \in T
    BY <1>1, <1>2, NatAll
  <1> USE DEF T
  <1>4. ASSUME NEW f, NEW g, NEW n \in Nat, NEW m \in Nat, n <= m,
               Follows(f, c, step, n), Follows(g, c, step, m)
        PROVE  \A i \in Nat : i <= n => f[i] = g[i]
    <2> DEFINE U == {i \in Nat : i <= n => f[i] = g[i]}
    <2>1. 0 \in U
      BY <1>4 DEF Follows
    <2>2. ASSUME NEW i \in Nat, i \in U PROVE i + 1 \in U
      <3>1. CASE i + 1 <= n
        <4>1. i < n /\ i < m /\ f[i] = g[i]
          BY <3>1, <2>2, <1>4
        <4>2. f[i + 1] = step[<<i, f[i]>>] /\ g[i + 1] = step[<<i, g[i]>>]
          BY <4>1, <1>4 DEF Follows
        <4> QED BY <4>1, <4>2
      <3>2. CASE ~(i + 1 <= n)
        BY <3>2
      <3> QED BY <3>1, <3>2
    <2> HIDE DEF U
    <2>3. \A i \in Nat : i \in U
      BY <2>1, <2>2, NatAll
    <2> QED BY <2>3 DEF U
  <1> DEFINE Upto(n) == CHOOSE f \in [Nat -> Nat] : Follows(f, c, step, n)
             h == [n \in Nat |-> Upto(n)[n]]
  <1>5. \A n \in Nat : Upto(n) \in [Nat -> Nat] /\ Follows(Upto(n), c, step, n)
    BY <1>3
  <1> HIDE DEF Upto
  <1>6. h \in [Nat -> Nat] /\ \A n \in Nat : h[n] = Upto(n)[n]
    BY <1>5
  <1> HIDE DEF h
  <1>7. h[0] = c
    BY <1>5, <1>6 DEF Follows
  <1>8. ASSUME NEW i \in Nat PROVE h[i + 1] = step[<<i, h[i]>>]
    <2>1. i + 1 \in Nat /\ i < i + 1 /\ i <= i + 1
      OBVIOUS
    <2>2. Upto(i + 1)[i + 1] = step[<<i, Upto(i + 1)[i]>>]
      BY <2>1, <1>5 DEF Follows
    <2>3. Upto(i)[i] = Upto(i + 1)[i]
      BY <2>1, <1>4, <1>5
    <2> QED BY <2>1, <2>2, <2>3, <1>6
  <1> QED BY <1>6, <1>7, <1>8 DEF Recursive

\* The powers of two.
LEMMA TwoToDefined ==
    /\ TwoTo[0] = 1
    /\ \A n \in Nat : TwoTo[n] \in Nat \ {0} /\ TwoTo[n + 1] = 2 * TwoTo[n]
  <1> DEFINE step == [p \in Nat \X Nat |-> 2 * p[2]]
             IsTwoTo(f) == f = [n \in Nat |-> IF n = 0 THEN 1 ELSE 2 * f[n - 1]]
  <1>1. step \in [Nat \X Nat -> Nat] /\ \A i, v \in Nat : step[<<i, v>>] = 2 * v
    OBVIOUS
  <1> HIDE DEF step
  <1>2. PICK f \in [Nat -> Nat] : f[0] = 1 /\ \A i \in Nat : f[i + 1] = step[<<i, f[i]>>]
    <2>1. 1 \in Nat
      OBVIOUS
    <2>2. \E f \in [Nat -> Nat] : Recursive(f, 1, step)
      BY <1>1, <2>1, Recursion
    <2> QED BY <2>2 DEF Recursive
  <1>3. \A n \in Nat : f[n] = IF n = 0 THEN 1 ELSE 2 * f[n - 1]
    <2>1. ASSUME NEW n \in Nat, n # 0 PROVE f[n] = 2 * f[n - 1]
      <3>1. n - 1 \in Nat /\ (n - 1) + 1 = n
        BY <2>1
      <3>2. f[n] = step[<<n - 1, f[n - 1]>>]
        BY <3>1, <1>2
      <3> QED BY <3>1, <3>2, <1>1
    <2> QED BY <2>1, <1>2
  <1>4. IsTwoTo(f)
    BY <1>3
  <1>5. TwoTo = CHOOSE g : IsTwoTo(g)
    BY DEF TwoTo
  <1> HIDE DEF IsTwoTo
  <1>6. IsTwoTo(TwoTo)
    BY <1>4, <1>5
  <1> USE DEF IsTwoTo
  <1>7. \A n \in Nat : TwoTo[n] = IF n = 0 THEN 1 ELSE 2 * TwoTo[n - 1]
    BY <1>6
  <1> HIDE DEF IsTwoTo
  <1>8. TwoTo[0] = 1 /\ \A n \in Nat : TwoTo[n + 1] = 2 * TwoTo[n]
    <2>1. \A n \in Nat : n + 1 \in Nat /\ n + 1 # 0 /\ (n + 1) - 1 = n
      OBVIOUS
    <2> QED BY <2>1, <1>7
  <1> DEFINE T == {n \in Nat : TwoTo[n] \in Nat \ {0}}
  <1>9. 0 \in T /\ \A n \in Nat : n \in T => n + 1 \in T
    BY <1>8
  <1> HIDE DEF T
  <1>10. \A n \in Nat : n \in T
    BY <1>9, NatAll
  <1> QED BY <1>8, <1>10 DEF T

\* A table begins with some buckets.
LEMMA InitialBuckets == HASH_INITIAL_NUM_BUCKETS \in Nat \ {0}
  BY TwoToDefined, TableAssumption

\* A bucket number is one.
LEMMA BucketNumber ==
    ASSUME NEW h \in Nat, NEW n \in Nat \ {0}
    PROVE  HASH_TO_BKT(h, n) \in 0 .. n - 1
  BY DEF HASH_TO_BKT

----------------------------------------------------------------------------
\* Walking along a link.

Onward(f, link, e) == IF e = NULL THEN <<>> ELSE <<e>> \o f[link[e]]

\* If links lead downwards, by some rank, there is a function as Along defines it.
LEMMA AlongExists ==
    ASSUME NEW link \in [Key -> Link], NEW K \in Nat, NEW R \in [Link -> 0 .. K],
           \A k \in Key : R[link[k]] < R[k]
    PROVE  \E f \in [Link -> Seq(Key)] : \A e \in Link : f[e] = Onward(f, link, e)
  <1> DEFINE Upto(n) == \E f \in [Link -> Seq(Key)] :
                            \A e \in Link : R[e] < n => f[e] = Onward(f, link, e)
             T == {n \in 0 .. K + 1 : ~Upto(n)}
  <1>1. NULL \notin Key /\ Link = Key \cup {NULL} /\ \A e \in Link : R[e] \in 0 .. K
    BY TableAssumption DEF Link
  <1>2. Upto(0)
    <2>1. [e \in Link |-> <<>>] \in [Link -> Seq(Key)]
      OBVIOUS
    <2>2. \A e \in Link : ~(R[e] < 0)
      BY <1>1
    <2> QED BY <2>1, <2>2
  <1>3. ASSUME NEW n \in 0 .. K, Upto(n) PROVE Upto(n + 1)
    <2>1. PICK f \in [Link -> Seq(Key)] : \A e \in Link : R[e] < n => f[e] = Onward(f, link, e)
      BY <1>3
    <2> DEFINE g == [e \in Link |-> Onward(f, link, e)]
    <2>2. ASSUME NEW e \in Link PROVE Onward(f, link, e) \in Seq(Key)
      <3>1. CASE e = NULL
        BY <3>1 DEF Onward
      <3>2. CASE e \in Key
        <4>1. f[link[e]] \in Seq(Key) /\ <<e>> \in Seq(Key)
          BY <3>2, <1>1
        <4> QED BY <4>1, <3>2, <1>1 DEF Onward
      <3> QED BY <3>1, <3>2, <1>1
    <2>3. g \in [Link -> Seq(Key)]
      BY <2>2
    <2>4. ASSUME NEW e \in Link, R[e] < n + 1 PROVE g[e] = Onward(g, link, e)
      <3>1. CASE e = NULL
        BY <3>1 DEF Onward
      <3>2. CASE e \in Key
        <4>1. link[e] \in Link /\ R[link[e]] < n
          BY <3>2, <2>4, <1>1
        <4>2. g[link[e]] = f[link[e]]
          BY <4>1, <2>1
        <4> QED BY <4>2 DEF Onward
      <3> QED BY <3>1, <3>2, <1>1
    <2> HIDE DEF g
    <2> QED BY <2>3, <2>4
  <1> HIDE DEF Upto
  <1>4. T = {}
    <2>1. SUFFICES ASSUME T # {} PROVE FALSE
      OBVIOUS
    <2> T \subseteq Nat
      OBVIOUS
    <2> HIDE DEF T
    <2>2. PICK n \in T : \A m \in T : n <= m
      BY <2>1, NatMin
    <2> USE DEF T
    <2>3. n # 0 /\ n \in 1 .. K + 1
      BY <2>2, <1>2
    <2>4. n - 1 \in 0 .. K /\ n - 1 \notin T
      BY <2>2, <2>3
    <2>5. Upto(n - 1)
      BY <2>4
    <2> QED BY <2>2, <2>3, <2>4, <2>5, <1>3
  <1>5. Upto(K + 1)
    BY <1>4
  <1> QED BY <1>1, <1>5 DEF Upto

\* ... and Along is it.
LEMMA WalkDefined ==
    ASSUME NEW link \in [Key -> Link], NEW K \in Nat, NEW R \in [Link -> 0 .. K],
           \A k \in Key : R[link[k]] < R[k]
    PROVE  /\ Walk(NULL, link) = <<>>
           /\ \A k \in Key : Walk(k, link) = <<k>> \o Walk(link[k], link)
           /\ \A e \in Link : Walk(e, link) \in Seq(Key)
  <1> DEFINE IsAlong(f) == f = [e \in Link |-> IF e = NULL THEN <<>> ELSE <<e>> \o f[link[e]]]
  <1>1. PICK f \in [Link -> Seq(Key)] : \A e \in Link : f[e] = Onward(f, link, e)
    BY AlongExists
  <1>2. IsAlong(f)
    BY <1>1 DEF Onward
  <1>3. Along(link) = CHOOSE g : IsAlong(g)
    BY DEF Along
  <1> HIDE DEF IsAlong
  <1>4. IsAlong(Along(link))
    BY <1>2, <1>3
  <1>5. NULL \in Link /\ Key \subseteq Link /\ NULL \notin Key
    BY TableAssumption DEF Link
  <1>6. Walk(NULL, link) = <<>> /\ \A k \in Key : Walk(k, link) = <<k>> \o Walk(link[k], link)
    BY <1>4, <1>5 DEF IsAlong, Walk
  <1>7. \A e \in Link : Walk(e, link) \in Seq(Key)
    <2> DEFINE T == {n \in Nat : \E e \in Link : R[e] = n /\ Walk(e, link) \notin Seq(Key)}
    <2>1. SUFFICES ASSUME T # {} PROVE FALSE
      BY DEF Link
    <2> T \subseteq Nat
      OBVIOUS
    <2> HIDE DEF T
    <2>2. PICK n \in T : \A m \in T : n <= m
      BY <2>1, NatMin
    <2> USE DEF T
    <2>3. PICK e \in Link : R[e] = n /\ Walk(e, link) \notin Seq(Key)
      BY <2>2
    <2>4. e \in Key
      <3>1. CASE e = NULL
        BY <3>1, <2>3, <1>6
      <3> QED BY <3>1 DEF Link
    <2>5. link[e] \in Link /\ R[link[e]] \in Nat /\ R[link[e]] < n
      BY <2>3, <2>4, <1>5
    <2>6. Walk(link[e], link) \in Seq(Key)
      BY <2>2, <2>5
    <2>7. <<e>> \in Seq(Key)
      BY <2>4
    <2>8. <<e>> \o Walk(link[e], link) \in Seq(Key)
      BY <2>6, <2>7
    <2> QED BY <2>3, <2>4, <2>8, <1>6
  <1> QED BY <1>6, <1>7

\* Links lead downwards from everywhere.
Ranked(link) ==
    \E K \in Nat : \E R \in [Link -> 0 .. K] : \A k \in Key : R[link[k]] < R[k]

\* A set that links do not leave but to end is walked by its measure.
LEMMA WalkMeasured ==
    ASSUME NEW link \in [Key -> Link], Ranked(link),
           NEW S, S \subseteq Key, NEW m \in [Key -> Nat],
           \A k \in S : IF m[k] = 1 THEN link[k] = NULL
                        ELSE link[k] \in S /\ m[link[k]] = m[k] - 1
    PROVE  \A k \in S : /\ Walk(k, link) \in Seq(Key)
                        /\ Len(Walk(k, link)) = m[k]
                        /\ \A i \in 1 .. m[k] : /\ Walk(k, link)[i] \in S
                                                /\ m[Walk(k, link)[i]] = m[k] - i + 1
  <1> DEFINE Good(k) == /\ Walk(k, link) \in Seq(Key)
                        /\ Len(Walk(k, link)) = m[k]
                        /\ \A i \in 1 .. m[k] : /\ Walk(k, link)[i] \in S
                                                /\ m[Walk(k, link)[i]] = m[k] - i + 1
             T == {n \in Nat : \E k \in S : m[k] = n /\ ~Good(k)}
  <1>1. /\ Walk(NULL, link) = <<>>
        /\ \A k \in Key : Walk(k, link) = <<k>> \o Walk(link[k], link)
        /\ \A e \in Link : Walk(e, link) \in Seq(Key)
    BY WalkDefined DEF Ranked
  <1>2. ASSUME NEW k \in S, m[k] # 1 => Good(link[k]) PROVE Good(k)
    <2> DEFINE w == Walk(link[k], link)
    <2>1. k \in Key /\ k \in Link /\ Walk(k, link) = <<k>> \o w /\ w \in Seq(Key) /\ Walk(k, link) \in Seq(Key)
      BY <1>1 DEF Link
    <2>2. /\ Len(<<k>> \o w) = Len(w) + 1 /\ (<<k>> \o w)[1] = k
          /\ \A i \in 2 .. Len(w) + 1 : (<<k>> \o w)[i] = w[i - 1]
      <3> HIDE DEF w
      <3> QED BY <2>1
    <2>3. CASE m[k] = 1
      <3>1. w = <<>> /\ Len(w) = 0
        BY <2>3, <1>1
      <3> QED BY <2>1, <2>2, <2>3, <3>1
    <2>4. CASE m[k] # 1
      <3>1. m[link[k]] = m[k] - 1 /\ Len(w) = m[k] - 1
            /\ \A i \in 1 .. m[k] - 1 : w[i] \in S /\ m[w[i]] = m[k] - 1 - i + 1
        BY <2>4, <1>2
      <3> HIDE DEF w
      <3>2. m[k] \in Nat
        BY <2>1
      <3>3. ASSUME NEW i \in 1 .. m[k]
            PROVE (<<k>> \o w)[i] \in S /\ m[(<<k>> \o w)[i]] = m[k] - i + 1
        <4>1. CASE i = 1
          BY <4>1, <2>2, <3>2
        <4>2. CASE i # 1
          <5>1. i - 1 \in 1 .. m[k] - 1 /\ i \in 2 .. Len(w) + 1
            BY <4>2, <3>1, <3>2
          <5>2. (<<k>> \o w)[i] = w[i - 1]
            BY <5>1, <2>2
          <5> QED BY <5>1, <5>2, <3>1, <3>2
        <4> QED BY <4>1, <4>2
      <3> QED BY <2>1, <2>2, <3>1, <3>2, <3>3
    <2> QED BY <2>3, <2>4
  <1>3. T = {}
    <2>1. SUFFICES ASSUME T # {} PROVE FALSE
      OBVIOUS
    <2> T \subseteq Nat
      OBVIOUS
    <2> HIDE DEF T
    <2>2. PICK n \in T : \A j \in T : n <= j
      BY <2>1, NatMin
    <2> USE DEF T
    <2>3. PICK k \in S : m[k] = n /\ ~Good(k)
      BY <2>2
    <2>4. m[k] # 1 /\ ~Good(link[k])
      BY <2>3, <1>2
    <2>5. link[k] \in S /\ m[link[k]] = n - 1 /\ m[link[k]] \in Nat
      BY <2>3, <2>4
    <2>6. n - 1 \in T
      BY <2>4, <2>5
    <2> QED BY <2>2, <2>6
  <1>4. \A k \in S : m[k] \in Nat
    OBVIOUS
  <1> HIDE DEF Good
  <1>5. \A k \in S : Good(k)
    BY <1>3, <1>4
  <1> QED BY <1>5 DEF Good

\* The items of S are linked from top in the order of falling measure.
Falling(S, m, link, top) ==
    /\ \A k \in S : IF m[k] = 1 THEN link[k] = NULL
                    ELSE link[k] \in S /\ m[link[k]] = m[k] - 1
    /\ IF S = {} THEN top = NULL ELSE top \in S
    /\ \A k \in S : m[k] \in 1 .. m[top]
    /\ \A j, k \in S : m[j] = m[k] => j = k

\* w is all of them in that order.
Through(w, S, m, top) ==
    /\ w \in Seq(Key)
    /\ S = {} => Len(w) = 0
    /\ S # {} => Len(w) = m[top]
    /\ \A k \in S : w[m[top] - m[k] + 1] = k
    /\ \A i \in 1 .. Len(w) : w[i] \in S /\ m[w[i]] = m[top] - i + 1
    /\ ToSet(w) = S

\* From the one of largest measure the walk is through all, when no two have the same.
LEMMA WalkThrough ==
    ASSUME NEW link \in [Key -> Link], Ranked(link),
           NEW S \in SUBSET Key, NEW m \in [Key -> Nat], NEW top \in Link,
           Falling(S, m, link, top)
    PROVE  Through(Walk(top, link), S, m, top)
  <1> DEFINE w == Walk(top, link)
  <1>0. /\ \A k \in S : IF m[k] = 1 THEN link[k] = NULL
                        ELSE link[k] \in S /\ m[link[k]] = m[k] - 1
        /\ IF S = {} THEN top = NULL ELSE top \in S
        /\ \A k \in S : m[k] \in 1 .. m[top]
        /\ \A j, k \in S : m[j] = m[k] => j = k
    BY DEF Falling
  <1>1. CASE S = {}
    <2>1. w = <<>>
      BY <1>0, <1>1, WalkDefined DEF Ranked
    <2>2. ToSet(<<>>) = {}
      BY DEF ToSet
    <2> QED BY <1>1, <2>1, <2>2 DEF Through
  <1>2. CASE S # {}
    <2>1. /\ top \in S /\ m[top] \in Nat /\ w \in Seq(Key) /\ Len(w) = m[top]
          /\ \A i \in 1 .. m[top] : w[i] \in S /\ m[w[i]] = m[top] - i + 1
      <3>1. top \in S /\ top \in Key
        BY <1>0, <1>2
      <3>2. \A k \in S : /\ Walk(k, link) \in Seq(Key)
                         /\ Len(Walk(k, link)) = m[k]
                         /\ \A i \in 1 .. m[k] : /\ Walk(k, link)[i] \in S
                                                 /\ m[Walk(k, link)[i]] = m[k] - i + 1
        BY <1>0, WalkMeasured
      <3> QED BY <3>1, <3>2
    <2> HIDE DEF w
    <2>2. ASSUME NEW k \in S PROVE w[m[top] - m[k] + 1] = k /\ m[top] - m[k] + 1 \in 1 .. Len(w)
      <3>1. m[k] \in Nat /\ m[k] >= 1 /\ m[k] <= m[top]
        BY <1>0, <2>1
      <3>2. m[top] - m[k] + 1 \in 1 .. m[top]
        BY <3>1, <2>1
      <3>3. m[w[m[top] - m[k] + 1]] = m[k] /\ w[m[top] - m[k] + 1] \in S
        BY <3>1, <3>2, <2>1
      <3> QED BY <3>2, <3>3, <1>0, <2>1
    <2>3. ToSet(w) = {w[i] : i \in 1 .. Len(w)}
      BY <2>1 DEF ToSet
    <2>4. ToSet(w) = S
      <3>1. \A i \in 1 .. Len(w) : w[i] \in S
        BY <2>1
      <3>2. \A k \in S : \E i \in 1 .. Len(w) : k = w[i]
        BY <2>2
      <3> QED BY <2>3, <3>1, <3>2
    <2>5. Through(w, S, m, top)
      BY <1>2, <2>1, <2>2, <2>4 DEF Through
    <2> QED BY <2>5 DEF w
  <1> QED BY <1>1, <1>2

----------------------------------------------------------------------------
\* The order of addition.

\* P is linked both ways in the order of pos, except that what follows the last is open.
Ordered(P, pos, n, first, last, nx, pv) ==
    /\ \A k \in P : pos[k] \in 1 .. n
    /\ \A j, k \in P : pos[j] = pos[k] => j = k
    /\ IF n = 0 THEN first = NULL /\ last = NULL
       ELSE first \in P /\ pos[first] = 1 /\ last \in P /\ pos[last] = n
    /\ \A k \in P : IF pos[k] = 1 THEN pv[k] = NULL
                    ELSE pv[k] \in P /\ pos[pv[k]] = pos[k] - 1
    /\ \A k \in P : pos[k] < n => nx[k] \in P /\ pos[nx[k]] = pos[k] + 1

Ends(P, pos, n, nx) == \A k \in P : pos[k] = n => nx[k] = NULL

\* k is put behind the last of P.
Appended(P, k, first, last, nx, pv, fst1, nx1, pv1) ==
    /\ fst1 = IF first = NULL THEN k ELSE first
    /\ \A j \in P : nx1[j] = IF j = last THEN k ELSE nx[j]
    /\ pv1[k] = last /\ \A j \in P : pv1[j] = pv[j]

\* What is appended comes last.
LEMMA OrderedAppend ==
    ASSUME NEW P \in SUBSET Key, NEW pos \in [Key -> Nat], NEW n \in Nat,
           NEW first, NEW last, NEW nx, NEW pv,
           Ordered(P, pos, n, first, last, nx, pv), NEW k \in Key, k \notin P,
           NEW fst1, NEW nx1, NEW pv1, Appended(P, k, first, last, nx, pv, fst1, nx1, pv1),
           NEW pos1, pos1 = [pos EXCEPT ![k] = n + 1]
    PROVE  pos1 \in [Key -> Nat] /\ Ordered(P \cup {k}, pos1, n + 1, fst1, k, nx1, pv1)
  <1> USE DEF Appended
  <1> DEFINE P1 == P \cup {k}
  <1>0. NULL \notin Key
    BY TableAssumption
  <1>1. pos1 \in [Key -> Nat] /\ pos1[k] = n + 1 /\ \A j \in P : pos1[j] = pos[j]
    OBVIOUS
  <1>3. CASE n = 0
    <2>1. P = {} /\ first = NULL /\ last = NULL
      BY <1>3 DEF Ordered
    <2>2. fst1 = k /\ pv1[k] = NULL /\ pos1[k] = 1 /\ \A j \in P1 : j = k
      BY <2>1, <1>1, <1>3
    <2>3. k \in P1
      OBVIOUS
    <2> HIDE DEF P1
    <2>4. Ordered(P1, pos1, n + 1, fst1, k, nx1, pv1)
      BY <2>2, <2>3, <1>3 DEF Ordered
    <2> QED BY <1>1, <2>4 DEF P1
  <1>4. CASE n # 0
    <2>1. first \in P /\ last \in P /\ pos[first] = 1 /\ pos[last] = n /\ fst1 = first
      BY <1>4, <1>0 DEF Ordered
    <2>2. nx1[last] = k /\ \A j \in P : j # last => nx1[j] = nx[j]
      BY <2>1
    <2>3. \A j \in P1 : pos1[j] \in 1 .. n + 1
      BY <1>1 DEF Ordered
    <2>4. \A i, j \in P1 : pos1[i] = pos1[j] => i = j
      BY <1>1 DEF Ordered
    <2>5. \A j \in P1 : IF pos1[j] = 1 THEN pv1[j] = NULL
                        ELSE pv1[j] \in P1 /\ pos1[pv1[j]] = pos1[j] - 1
      BY <1>1, <1>4, <2>1 DEF Ordered
    <2>6. ASSUME NEW j \in P1, pos1[j] < n + 1
          PROVE  nx1[j] \in P1 /\ pos1[nx1[j]] = pos1[j] + 1
      <3>1. j \in P /\ pos1[j] = pos[j]
        BY <2>6, <1>1
      <3>2. CASE j = last
        BY <3>1, <3>2, <2>1, <2>2, <1>1
      <3>3. CASE j # last
        <4>1. pos[j] < n
          BY <3>1, <3>3, <2>1 DEF Ordered
        <4> QED BY <4>1, <3>1, <3>3, <2>2, <1>1 DEF Ordered
      <3> QED BY <3>2, <3>3
    <2>7. fst1 \in P1 /\ pos1[fst1] = 1 /\ k \in P1 /\ pos1[k] = n + 1
      BY <2>1, <1>1
    <2> HIDE DEF P1
    <2>8. Ordered(P1, pos1, n + 1, fst1, k, nx1, pv1)
      BY <2>3, <2>4, <2>5, <2>6, <2>7 DEF Ordered
    <2> QED BY <1>1, <2>8 DEF P1
  <1> QED BY <1>3, <1>4

\* The neighbours of k are linked with each other.
TakenOut(k, first, last, nx, pv, fst1, lst1, nx1, pv1) ==
    /\ fst1 = IF pv[k] = NULL THEN nx[k] ELSE first
    /\ lst1 = IF last = k THEN pv[k] ELSE last
    /\ nx1 = Patch(nx, pv[k], nx[k]) /\ pv1 = Patch(pv, nx[k], pv[k])

\* The places behind k are one further ahead.
ClosedUp(P, pos, k) ==
    [j \in Key |-> IF j \in P /\ pos[j] > pos[k] THEN pos[j] - 1 ELSE pos[j]]

\* What is taken out leaves the others linked.
LEMMA OrderedDelete ==
    ASSUME NEW P \in SUBSET Key, NEW pos \in [Key -> Nat], NEW n \in Nat,
           NEW first, NEW last, NEW nx \in [Key -> Link], NEW pv \in [Key -> Link],
           Ordered(P, pos, n, first, last, nx, pv), Ends(P, pos, n, nx), NEW k \in P,
           NEW fst1, NEW lst1, NEW nx1, NEW pv1,
           TakenOut(k, first, last, nx, pv, fst1, lst1, nx1, pv1),
           NEW pos1, pos1 = ClosedUp(P, pos, k)
    PROVE  /\ pos1 \in [Key -> Nat]
           /\ Ordered(P \ {k}, pos1, n - 1, fst1, lst1, nx1, pv1)
           /\ Ends(P \ {k}, pos1, n - 1, nx1)
  <1> DEFINE P1 == P \ {k}
  <1>0. NULL \notin Key /\ k \in Key
    BY TableAssumption
  <1>1. /\ \A j \in P : pos[j] \in 1 .. n
        /\ \A i, j \in P : pos[i] = pos[j] => i = j
        /\ n # 0 /\ first \in P /\ pos[first] = 1 /\ last \in P /\ pos[last] = n
        /\ \A j \in P : IF pos[j] = 1 THEN pv[j] = NULL
                        ELSE pv[j] \in P /\ pos[pv[j]] = pos[j] - 1
        /\ \A j \in P : IF pos[j] = n THEN nx[j] = NULL
                        ELSE nx[j] \in P /\ pos[nx[j]] = pos[j] + 1
    <2> n # 0
      BY DEF Ordered
    <2> QED BY DEF Ordered, Ends
  <1>2. pos1 \in [Key -> Nat]
    BY <1>1 DEF ClosedUp
  <1>3. \A j \in P1 : /\ pos[j] # pos[k]
                      /\ pos[j] < pos[k] => pos1[j] = pos[j]
                      /\ pos[j] > pos[k] => pos1[j] = pos[j] - 1
    BY <1>1 DEF ClosedUp
  <1>4. \A j \in P1 : IF j = pv[k] THEN nx1[j] = nx[k] ELSE nx1[j] = nx[j]
    BY <1>0 DEF Patch, TakenOut
  <1>5. \A j \in P1 : IF j = nx[k] THEN pv1[j] = pv[k] ELSE pv1[j] = pv[j]
    BY <1>0 DEF Patch, TakenOut
  <1>6. ASSUME NEW j \in P1 PROVE pos1[j] \in 1 .. n - 1
    <2>1. pos[j] \in 1 .. n /\ pos[k] \in 1 .. n /\ pos[j] # pos[k]
      BY <1>1, <1>3
    <2>2. CASE pos[j] < pos[k]
      BY <2>1, <2>2, <1>3
    <2>3. CASE pos[j] > pos[k]
      BY <2>1, <2>3, <1>3
    <2> QED BY <2>1, <2>2, <2>3
  <1>7. ASSUME NEW i \in P1, NEW j \in P1, pos1[i] = pos1[j] PROVE i = j
    <2>1. pos[i] \in Nat /\ pos[j] \in Nat /\ pos[k] \in Nat /\ i \in P /\ j \in P
      OBVIOUS
    <2>2. pos[i] = pos[j]
      BY <1>7, <2>1, <1>3
    <2> QED BY <2>1, <2>2, <1>1
  <1>8. ASSUME NEW j \in P1
        PROVE  IF pos1[j] = 1 THEN pv1[j] = NULL
               ELSE pv1[j] \in P1 /\ pos1[pv1[j]] = pos1[j] - 1
    <2>1. CASE j = nx[k]
      <3>1. pos[j] = pos[k] + 1 /\ pos1[j] = pos[k] /\ pv1[j] = pv[k]
        BY <2>1, <1>0, <1>1, <1>3, <1>5
      <3>2. CASE pos[k] = 1
        BY <3>1, <3>2, <1>1
      <3>3. CASE pos[k] # 1
        <4>1. pv[k] \in P /\ pos[pv[k]] = pos[k] - 1
          BY <3>3, <1>1
        <4>2. pv[k] \in P1 /\ pos1[pv[k]] = pos[k] - 1
          BY <4>1, <1>1, <1>3
        <4> QED BY <3>1, <3>3, <4>2
      <3> QED BY <3>2, <3>3
    <2>2. CASE j # nx[k]
      <3>1. pv1[j] = pv[j] /\ pos[j] # pos[k] /\ pos[j] # pos[k] + 1
        BY <2>2, <1>1, <1>3, <1>5
      <3>2. CASE pos[j] < pos[k]
        BY <3>1, <3>2, <1>1, <1>3
      <3>3. CASE pos[j] > pos[k]
        <4>1. pos[j] > pos[k] + 1 /\ pos1[j] = pos[j] - 1 /\ pos[j] # 1
          BY <3>1, <3>3, <1>1, <1>3
        <4>2. pv[j] \in P /\ pos[pv[j]] = pos[j] - 1
          BY <4>1, <1>1
        <4>3. pv[j] \in P1 /\ pos1[pv[j]] = pos[j] - 2
          BY <4>1, <4>2, <1>1, <1>3
        <4> QED BY <4>1, <4>3, <3>1, <1>1
      <3> QED BY <3>1, <3>2, <3>3, <1>1
    <2> QED BY <2>1, <2>2
  <1>9. ASSUME NEW j \in P1
        PROVE  IF pos1[j] = n - 1 THEN nx1[j] = NULL
               ELSE nx1[j] \in P1 /\ pos1[nx1[j]] = pos1[j] + 1
    <2>1. CASE j = pv[k]
      <3>1. pos[k] # 1 /\ pos[j] = pos[k] - 1 /\ pos1[j] = pos[k] - 1 /\ nx1[j] = nx[k]
        BY <2>1, <1>0, <1>1, <1>3, <1>4
      <3>2. CASE pos[k] = n
        BY <3>1, <3>2, <1>1
      <3>3. CASE pos[k] # n
        <4>1. nx[k] \in P /\ pos[nx[k]] = pos[k] + 1
          BY <3>3, <1>1
        <4>2. nx[k] \in P1 /\ pos1[nx[k]] = pos[k]
          BY <4>1, <1>1, <1>3
        <4> QED BY <3>1, <3>3, <4>2, <1>1
      <3> QED BY <3>2, <3>3
    <2>2. CASE j # pv[k]
      <3>1. nx1[j] = nx[j] /\ pos[j] # pos[k] /\ pos[j] # pos[k] - 1
        BY <2>2, <1>1, <1>3, <1>4
      <3>2. CASE pos[j] > pos[k]
        BY <3>1, <3>2, <1>1, <1>3
      <3>3. CASE pos[j] < pos[k]
        <4>1. pos[j] < pos[k] - 1 /\ pos1[j] = pos[j] /\ pos[j] # n - 1 /\ pos[j] # n
          BY <3>1, <3>3, <1>1, <1>3
        <4>2. nx[j] \in P /\ pos[nx[j]] = pos[j] + 1
          BY <4>1, <1>1
        <4>3. nx[j] \in P1 /\ pos1[nx[j]] = pos[j] + 1
          BY <4>1, <4>2, <1>1, <1>3
        <4> QED BY <4>1, <4>3, <3>1
      <3> QED BY <3>1, <3>2, <3>3, <1>1
    <2> QED BY <2>1, <2>2
  <1> USE DEF TakenOut
  <1>10. IF n - 1 = 0 THEN fst1 = NULL /\ lst1 = NULL
         ELSE fst1 \in P1 /\ pos1[fst1] = 1 /\ lst1 \in P1 /\ pos1[lst1] = n - 1
    <2>1. CASE n = 1
      BY <2>1, <1>1
    <2>2. CASE n # 1
      <3>1. fst1 \in P1 /\ pos1[fst1] = 1
        <4>1. CASE pos[k] = 1
          BY <4>1, <2>2, <1>0, <1>1, <1>3
        <4>2. CASE pos[k] # 1
          BY <4>2, <2>2, <1>0, <1>1, <1>3
        <4> QED BY <4>1, <4>2
      <3>2. lst1 \in P1 /\ pos1[lst1] = n - 1
        <4>1. CASE pos[k] = n
          BY <4>1, <2>2, <1>0, <1>1, <1>3
        <4>2. CASE pos[k] # n
          BY <4>2, <2>2, <1>0, <1>1, <1>3
        <4> QED BY <4>1, <4>2
      <3> QED BY <3>1, <3>2, <2>2
    <2> QED BY <2>1, <2>2
  <1> HIDE DEF P1
  <1>11. Ordered(P1, pos1, n - 1, fst1, lst1, nx1, pv1)
    BY <1>1, <1>6, <1>7, <1>8, <1>9, <1>10 DEF Ordered
  <1>12. Ends(P1, pos1, n - 1, nx1)
    BY <1>9 DEF Ends
  <1> QED BY <1>2, <1>11, <1>12 DEF P1

----------------------------------------------------------------------------
\* The buckets.

Bucket(h, k, n) == HASH_TO_BKT(h[k], n)

\* S hangs in n buckets, each item by the hash h, d deep counted from the end of its chain.
Chained(S, d, n, bkts, h, hx) ==
    /\ \A k \in S : d[k] \in 1 .. bkts[Bucket(h, k, n)].count
    /\ \A j, k \in S : Bucket(h, j, n) = Bucket(h, k, n) /\ d[j] = d[k] => j = k
    /\ \A b \in 0 .. n - 1 :
          IF bkts[b].count = 0 THEN bkts[b].hh_head = NULL
          ELSE /\ bkts[b].hh_head \in S
               /\ Bucket(h, bkts[b].hh_head, n) = b
               /\ d[bkts[b].hh_head] = bkts[b].count
    /\ \A k \in S : IF d[k] = 1 THEN hx[k] = NULL
                    ELSE /\ hx[k] \in S /\ d[hx[k]] = d[k] - 1
                         /\ Bucket(h, hx[k], n) = Bucket(h, k, n)

\* ... and knows the one before it.
Backed(S, d, n, bkts, h, hp) ==
    \A k \in S : IF d[k] = bkts[Bucket(h, k, n)].count THEN hp[k] = NULL
                 ELSE /\ hp[k] \in S /\ d[hp[k]] = d[k] + 1
                      /\ Bucket(h, hp[k], n) = Bucket(h, k, n)

Counted(bkts, n) == \A b \in 0 .. n - 1 : bkts[b].count \in Nat

\* Bucket numbers are in range.
LEMMA BucketOf ==
    ASSUME NEW h \in [Key -> Nat], NEW n \in Nat \ {0}
    PROVE  \A k \in Key : Bucket(h, k, n) \in 0 .. n - 1
  BY BucketNumber DEF Bucket

SameButBucket(b, n, bkts, bkts1) ==
    \A c \in 0 .. n - 1 : c # b => bkts1[c].hh_head = bkts[c].hh_head
                                /\ bkts1[c].count = bkts[c].count

\* k is put at the head of bucket b.
Pushed(S, k, b, n, bkts, hx, hp, bkts1, hx1, hp1) ==
    /\ bkts1[b].hh_head = k /\ bkts1[b].count = bkts[b].count + 1
    /\ SameButBucket(b, n, bkts, bkts1)
    /\ hx1[k] = bkts[b].hh_head /\ \A j \in S : hx1[j] = hx[j]
    /\ hp1[k] = NULL /\ \A j \in S : hp1[j] = IF j = bkts[b].hh_head THEN k ELSE hp[j]

\* An item put at the head of its bucket.
LEMMA ChainedPush ==
    ASSUME NEW h \in [Key -> Nat], NEW n \in Nat \ {0},
           NEW S \in SUBSET Key, NEW M \in Nat, NEW d \in [Key -> 0 .. M],
           NEW bkts, Counted(bkts, n), NEW hx, NEW hp,
           Chained(S, d, n, bkts, h, hx), Backed(S, d, n, bkts, h, hp),
           NEW k \in Key, k \notin S,
           NEW bkts1, NEW hx1, NEW hp1, NEW b, b = Bucket(h, k, n),
           Pushed(S, k, b, n, bkts, hx, hp, bkts1, hx1, hp1),
           NEW d1, d1 = [d EXCEPT ![k] = bkts[b].count + 1]
    PROVE  /\ Chained(S \cup {k}, d1, n, bkts1, h, hx1)
           /\ Backed(S \cup {k}, d1, n, bkts1, h, hp1)
           /\ Counted(bkts1, n)
  <1> USE DEF Pushed, SameButBucket
  <1> DEFINE S1 == S \cup {k}
             B(j) == Bucket(h, j, n)
             top == bkts[b].hh_head
             cnt == bkts[b].count
  <1>0. NULL \notin Key
    BY TableAssumption
  <1>1. b \in 0 .. n - 1 /\ cnt \in Nat /\ \A j \in Key : B(j) \in 0 .. n - 1
    BY BucketOf DEF Counted
  <1>2. Counted(bkts1, n)
    BY <1>1 DEF Counted
  <1>3. d1[k] = cnt + 1 /\ \A j \in S : d1[j] = d[j] /\ d[j] \in Nat
    OBVIOUS
  <1>4. /\ \A j \in S : d[j] >= 1 /\ d[j] <= bkts[B(j)].count /\ bkts[B(j)].count \in Nat
        /\ \A i, j \in S : B(i) = B(j) /\ d[i] = d[j] => i = j
        /\ \A c \in 0 .. n - 1 : IF bkts[c].count = 0 THEN bkts[c].hh_head = NULL
                                ELSE /\ bkts[c].hh_head \in S /\ B(bkts[c].hh_head) = c
                                     /\ d[bkts[c].hh_head] = bkts[c].count
        /\ \A j \in S : IF d[j] = 1 THEN hx[j] = NULL
                        ELSE hx[j] \in S /\ d[hx[j]] = d[j] - 1 /\ B(hx[j]) = B(j)
        /\ \A j \in S : IF d[j] = bkts[B(j)].count THEN hp[j] = NULL
                        ELSE hp[j] \in S /\ d[hp[j]] = d[j] + 1 /\ B(hp[j]) = B(j)
    BY <1>1 DEF Chained, Backed, Counted
  <1>5. IF cnt = 0 THEN top = NULL ELSE top \in S /\ B(top) = b /\ d[top] = cnt
    BY <1>1, <1>4
  <1>6. B(k) = b
    OBVIOUS
  <1> HIDE DEF B, top, cnt
  <1>7. \A j \in S : B(j) \in 0 .. n - 1 /\ bkts1[B(j)].count = IF B(j) = b THEN cnt + 1 ELSE bkts[B(j)].count
    BY <1>1 DEF cnt
  <1>8. \A j \in S1 : d1[j] \in 1 .. bkts1[B(j)].count
    <2>1. d1[k] \in 1 .. bkts1[B(k)].count
      BY <1>1, <1>3, <1>6 DEF cnt
    <2>2. ASSUME NEW j \in S PROVE d1[j] \in 1 .. bkts1[B(j)].count
      <3>1. d[j] \in 1 .. bkts[B(j)].count /\ bkts[B(j)].count \in Nat
        BY <1>3, <1>4
      <3>2. CASE B(j) = b
        BY <3>1, <3>2, <1>1, <1>3, <1>7 DEF cnt
      <3>3. CASE B(j) # b
        BY <3>1, <3>3, <1>3, <1>7
      <3> QED BY <3>2, <3>3
    <2> QED BY <2>1, <2>2
  <1>9. ASSUME NEW i \in S1, NEW j \in S1, B(i) = B(j), d1[i] = d1[j] PROVE i = j
    <2>1. \A l \in S : B(l) = b => d1[l] <= cnt /\ d1[l] \in Nat
      BY <1>3, <1>4 DEF cnt
    <2>2. CASE i \in S /\ j \in S
      BY <2>2, <1>3, <1>4, <1>9
    <2>3. CASE i = k /\ j \in S
      BY <2>1, <2>3, <1>1, <1>3, <1>6, <1>9
    <2>4. CASE j = k /\ i \in S
      BY <2>1, <2>4, <1>1, <1>3, <1>6, <1>9
    <2> QED BY <2>2, <2>3, <2>4
  <1>10. ASSUME NEW c \in 0 .. n - 1
         PROVE  IF bkts1[c].count = 0 THEN bkts1[c].hh_head = NULL
                ELSE /\ bkts1[c].hh_head \in S1 /\ B(bkts1[c].hh_head) = c
                     /\ d1[bkts1[c].hh_head] = bkts1[c].count
    <2>1. CASE c = b
      BY <2>1, <1>1, <1>3, <1>6 DEF cnt
    <2>2. CASE c # b
      BY <2>2, <1>3, <1>4
    <2> QED BY <2>1, <2>2
  <1>11. ASSUME NEW j \in S1
         PROVE  IF d1[j] = 1 THEN hx1[j] = NULL
                ELSE hx1[j] \in S1 /\ d1[hx1[j]] = d1[j] - 1 /\ B(hx1[j]) = B(j)
    <2>1. CASE j = k
      BY <2>1, <1>1, <1>3, <1>5, <1>6 DEF top
    <2>2. CASE j \in S
      BY <2>2, <1>3, <1>4
    <2> QED BY <2>1, <2>2
  <1>12. ASSUME NEW j \in S1
         PROVE  IF d1[j] = bkts1[B(j)].count THEN hp1[j] = NULL
                ELSE hp1[j] \in S1 /\ d1[hp1[j]] = d1[j] + 1 /\ B(hp1[j]) = B(j)
    <2>1. CASE j = k
      BY <2>1, <1>1, <1>3, <1>6 DEF cnt
    <2>2. CASE j \in S /\ j = top
      <3>1. cnt # 0 /\ B(j) = b /\ d[j] = cnt
        BY <2>2, <1>0, <1>5
      <3>2. d1[j] = cnt /\ bkts1[B(j)].count = cnt + 1 /\ hp1[j] = k
        BY <3>1, <2>2, <1>3, <1>7 DEF top
      <3> QED BY <3>1, <3>2, <1>1, <1>3, <1>6
    <2>3. CASE j \in S /\ j # top
      <3>1. d1[j] = d[j] /\ hp1[j] = hp[j] /\ d[j] \in Nat
        BY <2>3, <1>3 DEF top
      <3>2. CASE B(j) = b
        <4>1. d[j] # cnt
          BY <3>2, <2>3, <1>1, <1>4, <1>5
        <4>2. d[j] < cnt /\ bkts[B(j)].count = cnt
          BY <4>1, <3>2, <2>3, <1>1, <1>4 DEF cnt
        <4>3. hp[j] \in S /\ d[hp[j]] = d[j] + 1 /\ B(hp[j]) = B(j)
          BY <4>1, <4>2, <2>3, <1>4
        <4> QED BY <3>1, <3>2, <4>2, <4>3, <2>3, <1>1, <1>3, <1>7
      <3>3. CASE B(j) # b
        BY <3>1, <3>3, <2>3, <1>3, <1>4, <1>7
      <3> QED BY <3>2, <3>3
    <2> QED BY <2>1, <2>2, <2>3
  <1> HIDE DEF S1
  <1>13. Chained(S1, d1, n, bkts1, h, hx1)
    BY <1>8, <1>9, <1>10, <1>11 DEF Chained, B
  <1>14. Backed(S1, d1, n, bkts1, h, hp1)
    BY <1>12 DEF Backed, B
  <1> QED BY <1>2, <1>13, <1>14 DEF S1

\* k is taken from the head of bucket b.
Popped(S, k, b, n, d, bkts, hx, d1, bkts1, hx1) ==
    /\ bkts[b].hh_head = k
    /\ bkts1[b].hh_head = hx[k] /\ bkts1[b].count = bkts[b].count - 1
    /\ SameButBucket(b, n, bkts, bkts1)
    /\ \A j \in S : j # k => hx1[j] = hx[j] /\ d1[j] = d[j]

\* The item at the head of its bucket taken off.
LEMMA ChainedPop ==
    ASSUME NEW h \in [Key -> Nat], NEW n \in Nat \ {0},
           NEW S \in SUBSET Key, NEW M \in Nat, NEW d \in [Key -> 0 .. M],
           NEW bkts, Counted(bkts, n), NEW hx, Chained(S, d, n, bkts, h, hx),
           NEW k \in S, NEW bkts1, NEW hx1, NEW d1, NEW b, b = Bucket(h, k, n),
           Popped(S, k, b, n, d, bkts, hx, d1, bkts1, hx1)
    PROVE  Chained(S \ {k}, d1, n, bkts1, h, hx1) /\ Counted(bkts1, n)
  <1> USE DEF Popped, SameButBucket
  <1> DEFINE S1 == S \ {k}
             B(j) == Bucket(h, j, n)
             cnt == bkts[b].count
  <1>1. b \in 0 .. n - 1 /\ cnt \in Nat /\ \A j \in Key : B(j) \in 0 .. n - 1
    BY BucketOf DEF Counted
  <1>2. /\ \A j \in S : d[j] >= 1 /\ d[j] <= bkts[B(j)].count /\ bkts[B(j)].count \in Nat
                        /\ d[j] \in Nat
        /\ \A i, j \in S : B(i) = B(j) /\ d[i] = d[j] => i = j
        /\ \A c \in 0 .. n - 1 : IF bkts[c].count = 0 THEN bkts[c].hh_head = NULL
                                ELSE /\ bkts[c].hh_head \in S /\ B(bkts[c].hh_head) = c
                                     /\ d[bkts[c].hh_head] = bkts[c].count
        /\ \A j \in S : IF d[j] = 1 THEN hx[j] = NULL
                        ELSE hx[j] \in S /\ d[hx[j]] = d[j] - 1 /\ B(hx[j]) = B(j)
    BY <1>1 DEF Chained, Counted
  <1>3. NULL \notin Key /\ B(k) = b
    BY TableAssumption
  <1>4. cnt >= 1 /\ d[k] = cnt
    BY <1>1, <1>2, <1>3
  <1> HIDE DEF B, cnt
  <1>5. Counted(bkts1, n)
    BY <1>1, <1>4 DEF Counted, cnt
  <1>6. \A j \in S1 : B(j) = b => d[j] < cnt
    BY <1>1, <1>2, <1>3, <1>4 DEF cnt
  <1>7. \A j \in S1 : d1[j] \in 1 .. bkts1[B(j)].count
    <2>1. ASSUME NEW j \in S1 PROVE d1[j] \in 1 .. bkts1[B(j)].count
      <3>1. d1[j] = d[j] /\ d[j] \in Nat /\ d[j] >= 1 /\ d[j] <= bkts[B(j)].count
            /\ B(j) \in 0 .. n - 1 /\ bkts[B(j)].count \in Nat
        BY <1>1, <1>2
      <3>2. CASE B(j) = b
        <4>1. d[j] < cnt /\ bkts1[B(j)].count = cnt - 1
          BY <3>2, <1>6 DEF cnt
        <4> QED BY <3>1, <4>1, <1>1
      <3>3. CASE B(j) # b
        BY <3>1, <3>3
      <3> QED BY <3>2, <3>3
    <2> QED BY <2>1
  <1>8. \A i, j \in S1 : B(i) = B(j) /\ d1[i] = d1[j] => i = j
    BY <1>2
  <1>9. ASSUME NEW j \in S, d[j] # 1 PROVE hx[j] # k /\ hx[j] \in S1
    <2>1. hx[j] \in S /\ d[hx[j]] = d[j] - 1 /\ B(hx[j]) = B(j) /\ d[j] \in Nat
      BY <1>2, <1>9
    <2>2. CASE B(j) = b
      <3>1. d[j] <= cnt
        BY <2>2, <1>2 DEF cnt
      <3> QED BY <3>1, <2>1, <1>1, <1>4
    <2>3. CASE B(j) # b
      BY <2>1, <2>3, <1>3
    <2> QED BY <2>1, <2>2, <2>3
  <1>10. ASSUME NEW c \in 0 .. n - 1
         PROVE  IF bkts1[c].count = 0 THEN bkts1[c].hh_head = NULL
                ELSE /\ bkts1[c].hh_head \in S1 /\ B(bkts1[c].hh_head) = c
                     /\ d1[bkts1[c].hh_head] = bkts1[c].count
    <2>1. CASE c = b
      <3>1. bkts1[c].count = cnt - 1 /\ bkts1[c].hh_head = hx[k]
        BY <2>1 DEF cnt
      <3>2. CASE cnt = 1
        BY <3>1, <3>2, <1>2, <1>4
      <3>3. CASE cnt # 1
        <4>1. hx[k] \in S1 /\ d[hx[k]] = cnt - 1 /\ B(hx[k]) = b
          BY <3>3, <1>2, <1>3, <1>4, <1>9
        <4> QED BY <3>1, <3>3, <4>1, <2>1, <1>1
      <3> QED BY <3>2, <3>3
    <2>2. CASE c # b
      BY <2>2, <1>2, <1>3
    <2> QED BY <2>1, <2>2
  <1>11. ASSUME NEW j \in S1
         PROVE  IF d1[j] = 1 THEN hx1[j] = NULL
                ELSE hx1[j] \in S1 /\ d1[hx1[j]] = d1[j] - 1 /\ B(hx1[j]) = B(j)
    BY <1>2, <1>9
  <1> HIDE DEF S1
  <1>12. Chained(S1, d1, n, bkts1, h, hx1)
    BY <1>7, <1>8, <1>10, <1>11 DEF Chained, B
  <1> QED BY <1>5, <1>12 DEF S1

\* k is no longer in bucket b.
Unlinked(k, b, n, bkts, hx, hp, bkts1, hx1, hp1) ==
    /\ bkts1[b].hh_head = IF bkts[b].hh_head = k THEN hx[k] ELSE bkts[b].hh_head
    /\ bkts1[b].count = bkts[b].count - 1
    /\ SameButBucket(b, n, bkts, bkts1)
    /\ hx1 = Patch(hx, hp[k], hx[k]) /\ hp1 = Patch(hp, hx[k], hp[k])

\* Any item unlinked.
LEMMA ChainedDelete ==
    ASSUME NEW h \in [Key -> Nat], NEW n \in Nat \ {0},
           NEW S \in SUBSET Key, NEW M \in Nat, NEW d \in [Key -> 0 .. M],
           NEW bkts, Counted(bkts, n),
           NEW hx \in [Key -> Link], NEW hp \in [Key -> Link],
           Chained(S, d, n, bkts, h, hx), Backed(S, d, n, bkts, h, hp),
           NEW k \in S, NEW bkts1, NEW b, b = Bucket(h, k, n),
           NEW hx1, NEW hp1, Unlinked(k, b, n, bkts, hx, hp, bkts1, hx1, hp1)
    PROVE  \E d1 \in [Key -> 0 .. M] :
              /\ Chained(S \ {k}, d1, n, bkts1, h, hx1)
              /\ Backed(S \ {k}, d1, n, bkts1, h, hp1)
              /\ Counted(bkts1, n)
  <1> USE DEF Unlinked, SameButBucket
  <1> DEFINE S1 == S \ {k}
             B(j) == Bucket(h, j, n)
             cnt == bkts[b].count
             Above(j) == j \in S /\ B(j) = b /\ d[j] > d[k]
             d1 == [j \in Key |-> IF Above(j) THEN d[j] - 1 ELSE d[j]]
  <1>1. b \in 0 .. n - 1 /\ cnt \in Nat /\ \A j \in Key : B(j) \in 0 .. n - 1
    BY BucketOf DEF Counted
  <1>2. /\ \A j \in S : d[j] >= 1 /\ d[j] <= bkts[B(j)].count /\ bkts[B(j)].count \in Nat
                        /\ d[j] \in Nat
        /\ \A i, j \in S : B(i) = B(j) /\ d[i] = d[j] => i = j
        /\ \A c \in 0 .. n - 1 : IF bkts[c].count = 0 THEN bkts[c].hh_head = NULL
                                ELSE /\ bkts[c].hh_head \in S /\ B(bkts[c].hh_head) = c
                                     /\ d[bkts[c].hh_head] = bkts[c].count
        /\ \A j \in S : IF d[j] = 1 THEN hx[j] = NULL
                        ELSE hx[j] \in S /\ d[hx[j]] = d[j] - 1 /\ B(hx[j]) = B(j)
        /\ \A j \in S : IF d[j] = bkts[B(j)].count THEN hp[j] = NULL
                        ELSE hp[j] \in S /\ d[hp[j]] = d[j] + 1 /\ B(hp[j]) = B(j)
    BY <1>1 DEF Chained, Backed, Counted
  <1>3. NULL \notin Key /\ k \in Key /\ B(k) = b
    BY TableAssumption
  <1>4. cnt >= 1 /\ d[k] <= cnt /\ d[k] \in 1 .. cnt
    BY <1>1, <1>2, <1>3
  <1>5. d1 \in [Key -> 0 .. M]
    <2>1. \A j \in Key : d[j] \in 0 .. M /\ (Above(j) => d[j] - 1 \in 0 .. M)
      BY <1>2
    <2> HIDE DEF Above
    <2> QED BY <2>1
  <1>6. \A j \in S1 : d1[j] = IF Above(j) THEN d[j] - 1 ELSE d[j]
    OBVIOUS
  <1>7. \A j \in S1 : IF j = hp[k] THEN hx1[j] = hx[k] ELSE hx1[j] = hx[j]
    BY <1>3 DEF Patch
  <1>8. \A j \in S1 : IF j = hx[k] THEN hp1[j] = hp[k] ELSE hp1[j] = hp[j]
    BY <1>3 DEF Patch
  <1> HIDE DEF B, cnt, d1
  <1>9. /\ \A j \in S1 : B(j) = b => d[j] # d[k] /\ d[j] <= cnt /\ d[j] >= 1 /\ d[j] \in Nat
        /\ \A j \in S1 : bkts1[B(j)].count = IF B(j) = b THEN cnt - 1 ELSE bkts[B(j)].count
    BY <1>1, <1>2, <1>3 DEF cnt
  <1>10. Counted(bkts1, n)
    BY <1>1, <1>4 DEF Counted, cnt
  <1>11. ASSUME NEW j \in S1 PROVE d1[j] \in 1 .. bkts1[B(j)].count
    <2>1. CASE B(j) = b
      <3>1. d[j] # d[k] /\ d[j] <= cnt /\ d[j] >= 1 /\ d[j] \in Nat /\ d[k] \in 1 .. cnt
            /\ bkts1[B(j)].count = cnt - 1
        BY <2>1, <1>4, <1>9
      <3>2. d1[j] = IF d[j] > d[k] THEN d[j] - 1 ELSE d[j]
        BY <2>1, <1>6
      <3> QED BY <3>1, <3>2, <1>1
    <2>2. CASE B(j) # b
      BY <2>2, <1>2, <1>6, <1>9
    <2> QED BY <2>1, <2>2
  <1>12. ASSUME NEW i \in S1, NEW j \in S1, B(i) = B(j), d1[i] = d1[j] PROVE i = j
    <2>1. d[i] = d[j]
      <3>1. CASE B(i) = b
        BY <3>1, <1>4, <1>6, <1>9, <1>12
      <3>2. CASE B(i) # b
        BY <3>2, <1>6, <1>12
      <3> QED BY <3>1, <3>2
    <2> QED BY <2>1, <1>2, <1>12
  <1>13. \A j \in S1 : /\ j = hx[k] <=> B(j) = b /\ d[j] = d[k] - 1
                       /\ j = hp[k] <=> B(j) = b /\ d[j] = d[k] + 1
    <2>1. \A j \in S1 : j = hx[k] => B(j) = b /\ d[j] = d[k] - 1
      BY <1>2, <1>3
    <2>2. \A j \in S1 : j = hp[k] => B(j) = b /\ d[j] = d[k] + 1
      BY <1>2, <1>3
    <2>3. ASSUME NEW j \in S1, B(j) = b, d[j] = d[k] - 1 PROVE j = hx[k]
      BY <2>3, <1>2, <1>3, <1>4, <1>9
    <2>4. ASSUME NEW j \in S1, B(j) = b, d[j] = d[k] + 1 PROVE j = hp[k]
      <3>1. d[k] # cnt
        BY <2>4, <1>4, <1>9
      <3> QED BY <3>1, <2>4, <1>2, <1>3 DEF cnt
    <2> QED BY <2>1, <2>2, <2>3, <2>4
  <1>14. ASSUME NEW j \in S1
         PROVE  IF d1[j] = 1 THEN hx1[j] = NULL
                ELSE hx1[j] \in S1 /\ d1[hx1[j]] = d1[j] - 1 /\ B(hx1[j]) = B(j)
    <2>1. CASE B(j) # b
      BY <2>1, <1>2, <1>3, <1>6, <1>7, <1>13
    <2>2. CASE B(j) = b /\ d[j] < d[k]
      <3>1. d1[j] = d[j] /\ hx1[j] = hx[j]
        BY <2>2, <1>6, <1>7, <1>9, <1>4, <1>13
      <3>2. CASE d[j] # 1
        <4>1. hx[j] \in S /\ d[hx[j]] = d[j] - 1 /\ B(hx[j]) = b
          BY <2>2, <3>2, <1>2
        <4>2. hx[j] \in S1 /\ d1[hx[j]] = d[j] - 1
          BY <4>1, <2>2, <1>4, <1>6, <1>9
        <4> QED BY <3>1, <3>2, <4>1, <4>2, <2>2
      <3> QED BY <3>1, <3>2, <1>2
    <2>3. CASE B(j) = b /\ d[j] > d[k]
      <3>1. d1[j] = d[j] - 1 /\ d[j] \in Nat /\ d[k] \in Nat /\ d[k] >= 1 /\ d[j] # 1
        BY <2>3, <1>4, <1>6, <1>9
      <3>2. hx[j] \in S /\ d[hx[j]] = d[j] - 1 /\ B(hx[j]) = b
        BY <2>3, <3>1, <1>2
      <3>3. CASE d[j] = d[k] + 1
        <4>1. hx1[j] = hx[k]
          BY <2>3, <3>3, <1>7, <1>13
        <4>2. CASE d[k] = 1
          BY <3>1, <3>3, <4>1, <4>2, <1>2
        <4>3. CASE d[k] # 1
          <5>1. hx[k] \in S /\ d[hx[k]] = d[k] - 1 /\ B(hx[k]) = b
            BY <4>3, <1>2, <1>3
          <5>2. hx[k] \in S1 /\ d1[hx[k]] = d[k] - 1
            BY <5>1, <3>1, <1>6, <1>9
          <5> QED BY <3>1, <3>3, <4>1, <4>3, <5>1, <5>2, <2>3
        <4> QED BY <4>2, <4>3
      <3>4. CASE d[j] # d[k] + 1
        <4>1. hx1[j] = hx[j] /\ d[j] > d[k] + 1
          BY <2>3, <3>1, <3>4, <1>7, <1>13
        <4>2. hx[j] \in S1 /\ d1[hx[j]] = d[j] - 2
          BY <3>1, <3>2, <4>1, <1>6
        <4> QED BY <2>3, <3>1, <3>2, <4>1, <4>2
      <3> QED BY <3>3, <3>4
    <2> QED BY <2>1, <2>2, <2>3, <1>4, <1>9
  <1>15. ASSUME NEW j \in S1
         PROVE  IF d1[j] = bkts1[B(j)].count THEN hp1[j] = NULL
                ELSE hp1[j] \in S1 /\ d1[hp1[j]] = d1[j] + 1 /\ B(hp1[j]) = B(j)
    <2>1. CASE B(j) # b
      BY <2>1, <1>2, <1>3, <1>6, <1>8, <1>9, <1>13
    <2>2. CASE B(j) = b /\ d[j] > d[k]
      <3>1. d1[j] = d[j] - 1 /\ hp1[j] = hp[j] /\ bkts1[B(j)].count = cnt - 1 /\ d[j] \in Nat
        BY <2>2, <1>6, <1>8, <1>9, <1>4, <1>13
      <3>2. CASE d[j] # cnt
        <4>1. hp[j] \in S /\ d[hp[j]] = d[j] + 1 /\ B(hp[j]) = b
          BY <2>2, <3>2, <1>2 DEF cnt
        <4>2. hp[j] \in S1 /\ d1[hp[j]] = d[j]
          BY <4>1, <2>2, <1>4, <1>6, <1>9
        <4> QED BY <3>1, <3>2, <4>1, <4>2, <2>2, <1>1
      <3>3. CASE d[j] = cnt
        BY <3>1, <3>3, <2>2, <1>2 DEF cnt
      <3> QED BY <3>2, <3>3
    <2>3. CASE B(j) = b /\ d[j] < d[k]
      <3>1. d1[j] = d[j] /\ d[j] \in Nat /\ d[k] \in Nat /\ d[j] < cnt /\ bkts1[B(j)].count = cnt - 1
        BY <2>3, <1>1, <1>4, <1>6, <1>9
      <3>2. hp[j] \in S /\ d[hp[j]] = d[j] + 1 /\ B(hp[j]) = b
        BY <2>3, <3>1, <1>1, <1>2 DEF cnt
      <3>3. CASE d[j] = d[k] - 1
        <4>1. hp1[j] = hp[k]
          BY <2>3, <3>3, <1>8, <1>13
        <4>2. CASE d[k] = cnt
          BY <3>1, <3>3, <4>1, <4>2, <1>2, <1>3 DEF cnt
        <4>3. CASE d[k] # cnt
          <5>1. hp[k] \in S /\ d[hp[k]] = d[k] + 1 /\ B(hp[k]) = b
            BY <4>3, <1>2, <1>3 DEF cnt
          <5>2. hp[k] \in S1 /\ d1[hp[k]] = d[k]
            BY <5>1, <3>1, <1>6, <1>9
          <5> QED BY <3>1, <3>3, <4>1, <4>3, <5>1, <5>2, <2>3, <1>1
        <4> QED BY <4>2, <4>3
      <3>4. CASE d[j] # d[k] - 1
        <4>1. hp1[j] = hp[j] /\ d[j] < d[k] - 1
          BY <2>3, <3>1, <3>4, <1>8, <1>13
        <4>2. hp[j] \in S1 /\ d1[hp[j]] = d[j] + 1 /\ d[j] # cnt - 1
          BY <3>1, <3>2, <4>1, <1>1, <1>4, <1>6
        <4> QED BY <2>3, <3>1, <3>2, <4>1, <4>2
      <3> QED BY <3>3, <3>4
    <2> QED BY <2>1, <2>2, <2>3, <1>4, <1>9
  <1>16. ASSUME NEW c \in 0 .. n - 1
         PROVE  IF bkts1[c].count = 0 THEN bkts1[c].hh_head = NULL
                ELSE /\ bkts1[c].hh_head \in S1 /\ B(bkts1[c].hh_head) = c
                     /\ d1[bkts1[c].hh_head] = bkts1[c].count
    <2>1. CASE c = b
      <3>1. bkts1[c].count = cnt - 1
        BY <2>1 DEF cnt
      <3>2. bkts[b].hh_head \in S /\ B(bkts[b].hh_head) = b /\ d[bkts[b].hh_head] = cnt
        BY <1>1, <1>2, <1>4 DEF cnt
      <3>3. CASE bkts[b].hh_head = k
        <4>1. bkts1[c].hh_head = hx[k] /\ d[k] = cnt
          BY <2>1, <3>2, <3>3
        <4>2. CASE cnt = 1
          BY <3>1, <4>1, <4>2, <1>2
        <4>3. CASE cnt # 1
          <5>1. hx[k] \in S /\ d[hx[k]] = d[k] - 1 /\ B(hx[k]) = b
            BY <4>1, <4>3, <1>2, <1>3
          <5>2. hx[k] \in S1 /\ d1[hx[k]] = cnt - 1
            BY <4>1, <5>1, <1>1, <1>6, <1>9
          <5> QED BY <2>1, <3>1, <4>1, <5>1, <5>2, <4>3, <1>1
        <4> QED BY <4>2, <4>3
      <3>4. CASE bkts[b].hh_head # k
        <4>1. bkts[b].hh_head \in S1 /\ d[k] < cnt
          <5>1. bkts[b].hh_head \in S1
            BY <3>2, <3>4
          <5>2. cnt # d[k]
            BY <5>1, <3>2, <1>9
          <5>3. cnt \in Nat /\ d[k] \in 1 .. cnt
            BY <1>1, <1>4
          <5>4. d[k] < cnt
            BY <5>2, <5>3
          <5> QED BY <5>1, <5>4
        <4>2. d1[bkts[b].hh_head] = cnt - 1
          BY <3>2, <4>1, <1>6, <1>4
        <4> QED BY <2>1, <3>1, <3>2, <3>4, <4>1, <4>2, <1>1, <1>4
      <3> QED BY <3>3, <3>4
    <2>2. CASE c # b
      BY <2>2, <1>2, <1>3, <1>6
    <2> QED BY <2>1, <2>2
  <1> HIDE DEF S1
  <1>17. Chained(S1, d1, n, bkts1, h, hx1)
    BY <1>11, <1>12, <1>14, <1>16 DEF Chained, B
  <1>18. Backed(S1, d1, n, bkts1, h, hp1)
    BY <1>15 DEF Backed, B
  <1> QED BY <1>5, <1>10, <1>17, <1>18 DEF S1

----------------------------------------------------------------------------
\* What has been deleted keeps its links: they lead back into the table, or on among
\* what was deleted before it.

Stale(P, link) ==
    \E N \in Nat : \E r \in [Key -> 0 .. N] :
        \A k \in Key \ P : link[k] \in P \cup {NULL} \/ r[link[k]] < r[k]

\* So no walk is endless.
LEMMA StaleRanked ==
    ASSUME NEW P \in SUBSET Key, NEW link \in [Key -> Link], Stale(P, link),
           NEW M \in Nat, NEW m \in [Key -> 0 .. M],
           \A k \in P : link[k] # NULL => link[k] \in P /\ m[link[k]] < m[k]
    PROVE  Ranked(link)
  <1>0. PICK N \in Nat : \E r \in [Key -> 0 .. N] :
            \A k \in Key \ P : link[k] \in P \cup {NULL} \/ r[link[k]] < r[k]
    BY DEF Stale
  <1>1. PICK r \in [Key -> 0 .. N] :
            \A k \in Key \ P : link[k] \in P \cup {NULL} \/ r[link[k]] < r[k]
    BY <1>0
  <1> DEFINE K == M + N + 2
             R == [e \in Link |-> IF e = NULL THEN 0
                                 ELSE IF e \in P THEN m[e] + 1 ELSE M + 2 + r[e]]
  <1>2. NULL \notin Key /\ Link = Key \cup {NULL} /\ \A k \in Key : link[k] \in Link
    BY TableAssumption DEF Link
  <1>3. \A e \in Key : m[e] \in 0 .. M /\ r[e] \in 0 .. N
    OBVIOUS
  <1>4. R \in [Link -> 0 .. K]
    <2>1. ASSUME NEW e \in Link
          PROVE  (IF e = NULL THEN 0 ELSE IF e \in P THEN m[e] + 1 ELSE M + 2 + r[e]) \in 0 .. K
      BY <1>2, <1>3
    <2> QED BY <2>1
  <1>5. ASSUME NEW k \in Key PROVE R[link[k]] < R[k]
    <2>1. k \in Link /\ k # NULL /\ link[k] \in Link
      BY <1>2
    <2>2. CASE link[k] = NULL
      <3>1. R[link[k]] = 0
        BY <2>1, <2>2
      <3>2. R[k] > 0
        BY <2>1, <1>3
      <3> QED BY <3>1, <3>2
    <2>3. CASE link[k] # NULL /\ k \in P
      <3>1. link[k] \in P /\ m[link[k]] < m[k]
        BY <2>3
      <3>2. R[link[k]] = m[link[k]] + 1 /\ R[k] = m[k] + 1
        BY <2>1, <2>3, <3>1
      <3> QED BY <3>1, <3>2, <2>1, <1>3
    <2>4. CASE link[k] # NULL /\ k \notin P
      <3>1. R[k] = M + 2 + r[k] /\ link[k] \in Key /\ r[k] \in 0 .. N
        BY <2>1, <2>4, <1>2, <1>3
      <3>2. CASE link[k] \in P
        <4>1. R[link[k]] = m[link[k]] + 1 /\ m[link[k]] \in 0 .. M
          BY <2>1, <2>4, <3>2, <1>3
        <4> QED BY <3>1, <4>1
      <3>3. CASE link[k] \notin P
        <4>1. R[link[k]] = M + 2 + r[link[k]] /\ r[link[k]] \in 0 .. N
          BY <2>1, <2>4, <3>1, <3>3, <1>3
        <4>2. r[link[k]] < r[k]
          BY <2>4, <3>3, <1>1
        <4> QED BY <3>1, <4>1, <4>2
      <3> QED BY <3>2, <3>3
    <2> QED BY <2>2, <2>3, <2>4
  <1>6. K \in Nat
    OBVIOUS
  <1> HIDE DEF R, K
  <1> QED BY <1>4, <1>5, <1>6 DEF Ranked

\* All may be left behind at once.
LEMMA RankedStale ==
    ASSUME NEW link \in [Key -> Link], Ranked(link) PROVE Stale({}, link)
  <1>0. PICK K \in Nat : \E R \in [Link -> 0 .. K] : \A k \in Key : R[link[k]] < R[k]
    BY DEF Ranked
  <1>1. PICK R \in [Link -> 0 .. K] : \A k \in Key : R[link[k]] < R[k]
    BY <1>0
  <1> DEFINE r == [k \in Key |-> R[k]]
  <1>2. Key \subseteq Link /\ Link = Key \cup {NULL}
    BY DEF Link
  <1>3. r \in [Key -> 0 .. K]
    BY <1>2
  <1>4. ASSUME NEW k \in Key PROVE link[k] \in {} \cup {NULL} \/ r[link[k]] < r[k]
    BY <1>1, <1>2
  <1> QED BY <1>3, <1>4 DEF Stale

\* The table may grow, and its own links change.
LEMMA StaleGrows ==
    ASSUME NEW P \in SUBSET Key, NEW Q \in SUBSET Key, P \subseteq Q,
           NEW link, NEW link1, Stale(P, link),
           \A j \in Key \ Q : link1[j] = link[j]
    PROVE  Stale(Q, link1)
  <1>0. PICK N \in Nat : \E r \in [Key -> 0 .. N] :
            \A k \in Key \ P : link[k] \in P \cup {NULL} \/ r[link[k]] < r[k]
    BY DEF Stale
  <1>1. PICK r \in [Key -> 0 .. N] :
            \A k \in Key \ P : link[k] \in P \cup {NULL} \/ r[link[k]] < r[k]
    BY <1>0
  <1>2. \A k \in Key \ Q : link1[k] \in Q \cup {NULL} \/ r[link1[k]] < r[k]
    BY <1>1
  <1> QED BY <1>2 DEF Stale

\* One is left behind.
LEMMA StaleDelete ==
    ASSUME NEW P \in SUBSET Key, NEW link \in [Key -> Link], NEW link1, Stale(P, link),
           NEW k \in P, link[k] \in P \cup {NULL}, link[k] # k,
           link1[k] = link[k], \A j \in Key \ P : link1[j] = link[j]
    PROVE  Stale(P \ {k}, link1)
  <1>0. PICK N \in Nat : \E r \in [Key -> 0 .. N] :
            \A j \in Key \ P : link[j] \in P \cup {NULL} \/ r[link[j]] < r[j]
    BY DEF Stale
  <1>1. PICK r \in [Key -> 0 .. N] :
            \A j \in Key \ P : link[j] \in P \cup {NULL} \/ r[link[j]] < r[j]
    BY <1>0
  <1> DEFINE r1 == [j \in Key |-> IF j = k THEN 0 ELSE r[j] + 1]
             P1 == P \ {k}
  <1>2. r1 \in [Key -> 0 .. N + 1] /\ N + 1 \in Nat
    <2>1. \A j \in Key : r[j] \in 0 .. N
      OBVIOUS
    <2> QED BY <2>1
  <1>3. ASSUME NEW j \in Key \ P1 PROVE link1[j] \in P1 \cup {NULL} \/ r1[link1[j]] < r1[j]
    <2>1. CASE j = k
      BY <2>1
    <2>2. CASE j # k
      <3>1. j \in Key \ P /\ link1[j] = link[j] /\ r1[j] = r[j] + 1 /\ r[j] \in 0 .. N
        BY <2>2
      <3>2. CASE link[j] = k
        BY <3>1, <3>2
      <3>3. CASE link[j] # k
        <4>1. CASE link[j] \in P \cup {NULL}
          BY <3>1, <3>3, <4>1
        <4>2. CASE link[j] \notin P \cup {NULL}
          <5>1. link[j] \in Key /\ r[link[j]] < r[j] /\ r[link[j]] \in 0 .. N
            BY <3>1, <4>2, <1>1 DEF Link
          <5>2. r1[link[j]] = r[link[j]] + 1
            BY <5>1, <3>3
          <5> QED BY <3>1, <5>1, <5>2
        <4> QED BY <4>1, <4>2
      <3> QED BY <3>2, <3>3
    <2> QED BY <2>1, <2>2
  <1> HIDE DEF r1, P1
  <1>4. Stale(P1, link1)
    BY <1>2, <1>3 DEF Stale
  <1> QED BY <1>4 DEF P1

\* w is the items of P in the order of pos.
InOrderOf(w, P, pos, n) ==
    /\ w \in Seq(Key) /\ Len(w) = n
    /\ \A k \in P : w[pos[k]] = k
    /\ \A i \in 1 .. n : w[i] \in P /\ pos[w[i]] = i
    /\ ToSet(w) = P

\* A walk along the order is through all its items, in their order.
LEMMA WalkOrdered ==
    ASSUME NEW P \in SUBSET Key, NEW pos \in [Key -> Nat], NEW n \in Nat,
           NEW first \in Link, NEW last, NEW nx \in [Key -> Link], NEW pv,
           Ordered(P, pos, n, first, last, nx, pv), Ends(P, pos, n, nx), Stale(P, nx)
    PROVE  Ranked(nx) /\ InOrderOf(Walk(first, nx), P, pos, n)
  <1> DEFINE m == [k \in Key |-> IF k \in P THEN n - pos[k] + 1 ELSE 0]
             w == Walk(first, nx)
  <1>1. /\ NULL \notin Key
        /\ \A k \in P : pos[k] \in 1 .. n
        /\ \A j, k \in P : pos[j] = pos[k] => j = k
        /\ IF n = 0 THEN first = NULL /\ P = {} ELSE first \in P /\ pos[first] = 1
        /\ \A k \in P : IF pos[k] = n THEN nx[k] = NULL
                        ELSE nx[k] \in P /\ pos[nx[k]] = pos[k] + 1
    BY TableAssumption DEF Ordered, Ends
  <1>2. m \in [Key -> 0 .. n] /\ m \in [Key -> Nat]
    BY <1>1
  <1>3. \A k \in P : m[k] = n - pos[k] + 1 /\ m[k] \in 1 .. n
    BY <1>1
  <1> HIDE DEF m
  <1>4. ASSUME NEW k \in P
        PROVE  /\ IF m[k] = 1 THEN nx[k] = NULL ELSE nx[k] \in P /\ m[nx[k]] = m[k] - 1
               /\ nx[k] # NULL => nx[k] \in P /\ m[nx[k]] < m[k]
    <2>1. CASE pos[k] = n
      <3>1. nx[k] = NULL
        BY <2>1, <1>1
      <3>2. m[k] = n - n + 1
        BY <2>1, <1>3
      <3>3. m[k] = 1
        BY <3>2
      <3> QED BY <3>1, <3>3
    <2>2. CASE pos[k] # n
      <3>1. nx[k] \in P /\ pos[nx[k]] = pos[k] + 1
        BY <2>2, <1>1
      <3>2. m[nx[k]] = n - pos[nx[k]] + 1 /\ m[k] = n - pos[k] + 1 /\ pos[k] \in 1 .. n
        BY <3>1, <1>1, <1>3
      <3> QED BY <2>2, <3>1, <3>2
    <2> QED BY <2>1, <2>2
  <1>5. Ranked(nx)
    BY <1>2, <1>4, StaleRanked
  <1>6. \A j, k \in P : m[j] = m[k] => j = k
    BY <1>1, <1>3
  <1>7. IF P = {} THEN first = NULL /\ n = 0 ELSE first \in P /\ m[first] = n
    BY <1>1, <1>3
  <1>8. \A k \in P : m[k] \in 1 .. m[first]
    BY <1>3, <1>7
  <1>9. /\ w \in Seq(Key) /\ (P = {} => Len(w) = 0) /\ (P # {} => Len(w) = m[first])
        /\ \A k \in P : w[m[first] - m[k] + 1] = k
        /\ \A i \in 1 .. Len(w) : w[i] \in P /\ m[w[i]] = m[first] - i + 1
        /\ ToSet(w) = P
    <2>1. Falling(P, m, nx, first)
      BY <1>4, <1>6, <1>7, <1>8 DEF Falling
    <2>2. Through(w, P, m, first)
      BY <2>1, <1>2, <1>5, WalkThrough
    <2> HIDE DEF w
    <2> QED BY <2>2 DEF Through
  <1> HIDE DEF w
  <1>10. \A k \in P : w[pos[k]] = k
    <2>1. \A k \in P : n - m[k] + 1 = pos[k] /\ m[first] = n
      BY <1>1, <1>3, <1>7
    <2> QED BY <2>1, <1>9
  <1>11. Len(w) = n
    BY <1>7, <1>9
  <1>12. \A i \in 1 .. n : w[i] \in P /\ pos[w[i]] = i
    <2>1. ASSUME NEW i \in 1 .. n PROVE w[i] \in P /\ pos[w[i]] = i
      <3>1. w[i] \in P /\ m[w[i]] = m[first] - i + 1 /\ m[first] = n
        BY <1>7, <1>9, <1>11
      <3>2. m[w[i]] = n - pos[w[i]] + 1 /\ pos[w[i]] \in Nat
        BY <3>1, <1>3
      <3> QED BY <3>1, <3>2
    <2> QED BY <2>1
  <1> QED BY <1>5, <1>9, <1>10, <1>11, <1>12 DEF w, InOrderOf

\* The walk along a chain ends.
LEMMA ChainedRanked ==
    ASSUME NEW h \in [Key -> Nat], NEW n \in Nat \ {0},
           NEW S \in SUBSET Key, NEW M \in Nat, NEW d \in [Key -> 0 .. M],
           NEW bkts, Counted(bkts, n), NEW hx \in [Key -> Link],
           Chained(S, d, n, bkts, h, hx), Stale(S, hx)
    PROVE  Ranked(hx)
  <1>1. \A k \in S : hx[k] # NULL => hx[k] \in S /\ d[hx[k]] < d[k]
    <2>1. ASSUME NEW k \in S, hx[k] # NULL PROVE hx[k] \in S /\ d[hx[k]] < d[k]
      <3>1. hx[k] \in S /\ d[hx[k]] = d[k] - 1
        BY <2>1 DEF Chained
      <3>2. d[k] \in 0 .. M
        OBVIOUS
      <3> QED BY <3>1, <3>2
    <2> QED BY <2>1
  <1> QED BY <1>1, StaleRanked

\* w is what hangs in bucket b.
OfBucket(w, S, d, n, bkts, h, b) ==
    /\ w \in Seq(Key)
    /\ Len(w) = bkts[b].count
    /\ \A i \in 1 .. Len(w) : /\ w[i] \in S /\ Bucket(h, w[i], n) = b
                              /\ d[w[i]] = bkts[b].count - i + 1
    /\ ToSet(w) = {k \in S : Bucket(h, k, n) = b}

\* The walk along the chain of a bucket is through the items of that bucket.
LEMMA WalkChained ==
    ASSUME NEW h \in [Key -> Nat], NEW n \in Nat \ {0},
           NEW S \in SUBSET Key, NEW M \in Nat, NEW d \in [Key -> 0 .. M],
           NEW bkts, Counted(bkts, n), NEW hx \in [Key -> Link],
           Chained(S, d, n, bkts, h, hx), Ranked(hx),
           NEW b \in 0 .. n - 1
    PROVE  OfBucket(Walk(bkts[b].hh_head, hx), S, d, n, bkts, h, b)
  <1> DEFINE Sb == {k \in S : Bucket(h, k, n) = b}
             top == bkts[b].hh_head
             cnt == bkts[b].count
             w == Walk(top, hx)
  <1>1. cnt \in Nat /\ d \in [Key -> Nat] /\ Sb \subseteq Key
    BY DEF Counted
  <1>2. /\ \A k \in Sb : d[k] \in 1 .. cnt
        /\ \A j, k \in Sb : d[j] = d[k] => j = k
        /\ IF cnt = 0 THEN top = NULL ELSE top \in Sb /\ d[top] = cnt
        /\ \A k \in Sb : IF d[k] = 1 THEN hx[k] = NULL ELSE hx[k] \in Sb /\ d[hx[k]] = d[k] - 1
    BY DEF Chained
  <1> HIDE DEF Sb, top, cnt
  <1>3. IF Sb = {} THEN cnt = 0 /\ top = NULL ELSE top \in Sb /\ d[top] = cnt
    BY <1>1, <1>2
  <1>4. \A k \in Sb : d[k] \in 1 .. d[top]
    BY <1>2, <1>3
  <1>5. top \in Link
    BY <1>1, <1>3 DEF Link
  <1>6. /\ w \in Seq(Key) /\ (Sb = {} => Len(w) = 0) /\ (Sb # {} => Len(w) = d[top])
        /\ \A i \in 1 .. Len(w) : w[i] \in Sb /\ d[w[i]] = d[top] - i + 1
        /\ ToSet(w) = Sb
    <2>1. Falling(Sb, d, hx, top)
      BY <1>2, <1>3, <1>4 DEF Falling
    <2>2. Through(w, Sb, d, top)
      BY <2>1, <1>1, <1>5, WalkThrough
    <2> HIDE DEF w
    <2> QED BY <2>2 DEF Through
  <1> HIDE DEF w
  <1>7. Len(w) = cnt
    BY <1>3, <1>6
  <1>8. \A i \in 1 .. Len(w) : w[i] \in Sb /\ d[w[i]] = cnt - i + 1
    BY <1>3, <1>6, <1>7
  <1> QED BY <1>6, <1>7, <1>8 DEF OfBucket, w, Sb, top, cnt

----------------------------------------------------------------------------
\* The inductive invariant.

BucketsOf(V, n) == [0 .. n - 1 -> [hh_head : Link, count : Nat, expand_mult : V]]
TablesOf(V) ==
    [tail : Link, num_buckets : Nat \ {0}, log2_num_buckets : V, num_items : Nat,
     ideal_chain_maxlen : V, nonideal_items : V, ineff_expands : V, noexpand : V]
ExpansionsOf(V, n) ==
    [active : {TRUE}, new : BucketsOf(V, 2 * n), bkt_i : 0 .. n - 1, thh : Link]
SortsOf(V) ==
    [active : {TRUE}, counting : BOOLEAN, insize : V, nmerges : V, p : Link, q : Link,
     psize : Nat, qsize : V, list : Link, tail : Link, order : V]

\* V holds the values nothing depends on.
Shape(V) ==
    /\ hash \in [Key -> Nat]
    /\ head \in Link
    /\ next \in [Key -> Link] /\ prev \in [Key -> Link]
    /\ hh_next \in [Key -> Link] /\ hh_prev \in [Key -> Link]
    /\ tbl \in TablesOf(V)
    /\ buckets \in BucketsOf(V, tbl.num_buckets)
    /\ expand = NotExpanding \/ expand \in ExpansionsOf(V, tbl.num_buckets)
    /\ sort = NotSorting \/ sort \in SortsOf(V)

\* P is in the order of addition, as many as num_items says.
InOrder(P) ==
    \E pos \in [Key -> Nat] :
        /\ Ordered(P, pos, tbl.num_items, head, tbl.tail, next, prev)
        /\ Ends(P, pos, tbl.num_items, next)

\* R is what is left of two runs, from p at place x to w and from q at y to z, the last.
Runs(R, at, x, w, y, z) ==
    /\ x <= w /\ w <= y /\ y <= z
    /\ sort.psize = w - x
    /\ sort.counting => w = y /\ y < z /\ (x = w => sort.p = sort.q)
    /\ \A k \in R : at[k] \in x .. w - 1 \/ at[k] \in y .. z - 1
    /\ \A j, k \in R : at[j] = at[k] => j = k
    /\ x < w => sort.p \in R /\ at[sort.p] = x
    /\ IF y = z THEN sort.q = NULL ELSE sort.q \in R /\ at[sort.q] = y
    /\ \A k \in R : /\ at[k] + 1 = z => next[k] = NULL
                    /\ at[k] + 1 < z /\ (at[k] + 1 # w \/ w = y) =>
                           next[k] \in R /\ at[next[k]] = at[k] + 1

\* While it is sorted, some of P are merged and the others in runs.
Sorting(P, R, pos, at, nd, x, w, y, z) ==
    /\ Ordered(P \ R, pos, nd, sort.list, sort.tail, next, prev)
    /\ Runs(R, at, x, w, y, z)
    /\ nd + (w - x) + (z - y) = tbl.num_items
    /\ tbl.num_items # 0
InSort(P) ==
    \E R \in SUBSET P, pos \in [Key -> Nat], at \in [Key -> Nat],
       nd \in Nat, x \in Nat, w \in Nat, y \in Nat, z \in Nat :
        Sorting(P, R, pos, at, nd, x, w, y, z)

\* P hangs in the buckets.
InBuckets(P) ==
    \E M \in Nat : \E d \in [Key -> 0 .. M] :
        /\ Chained(P, d, tbl.num_buckets, buckets, hash, hh_next)
        /\ Backed(P, d, tbl.num_buckets, buckets, hash, hh_prev)

\* While it expands, some of P are in the new buckets, and L in what is left of the old.
Expanding(P, L, d, left) ==
    /\ Chained(P \ L, d, 2 * tbl.num_buckets, expand.new, hash, hh_next)
    /\ Backed(P \ L, d, 2 * tbl.num_buckets, expand.new, hash, hh_prev)
    /\ Chained(L, d, tbl.num_buckets, left, hash, hh_next)
    /\ Counted(left, tbl.num_buckets)
    /\ \A b \in 0 .. tbl.num_buckets - 1 :
          left[b].hh_head = IF b < expand.bkt_i THEN NULL
                            ELSE IF b = expand.bkt_i THEN expand.thh ELSE buckets[b].hh_head
InExpansion(P) ==
    \E L \in SUBSET P, M \in Nat :
        \E d \in [Key -> 0 .. M] : \E left : Expanding(P, L, d, left)

Holds(P) ==
    /\ IF sort.active THEN InSort(P) ELSE InOrder(P)
    /\ IF expand.active THEN InExpansion(P) ELSE InBuckets(P)
    /\ ~(sort.active /\ expand.active)
    /\ Stale(P, next) /\ Stale(P, hh_next)

IInv == \E V : Shape(V) /\ \E P \in SUBSET Key : Holds(P)

\* What is in the order of addition is what the buckets find.
LEMMA Found ==
    ASSUME NEW V, Shape(V), NEW P \in SUBSET Key, Holds(P), Idle
    PROVE  /\ \A k \in Key : HASH_FIND(k) = IF k \in P THEN k ELSE NULL
           /\ ToSet(AppOrder) = P
           /\ Ranked(next) /\ Ranked(hh_next)
  <1>1. PICK pos \in [Key -> Nat] : /\ Ordered(P, pos, tbl.num_items, head, tbl.tail, next, prev)
                                   /\ Ends(P, pos, tbl.num_items, next)
    BY DEF Idle, Holds, InOrder
  <1>2. PICK M \in Nat : \E d \in [Key -> 0 .. M] :
            Chained(P, d, tbl.num_buckets, buckets, hash, hh_next)
    BY DEF Idle, Holds, InBuckets
  <1>3. PICK d \in [Key -> 0 .. M] : Chained(P, d, tbl.num_buckets, buckets, hash, hh_next)
    BY <1>2
  <1>4. /\ hash \in [Key -> Nat] /\ head \in Link /\ next \in [Key -> Link] /\ hh_next \in [Key -> Link]
        /\ tbl.num_buckets \in Nat \ {0} /\ tbl.num_items \in Nat
        /\ Counted(buckets, tbl.num_buckets) /\ Stale(P, next) /\ Stale(P, hh_next)
    BY DEF Shape, TablesOf, BucketsOf, Counted, Holds
  <1>5. Ranked(next) /\ ToSet(AppOrder) = P
    BY <1>1, <1>4, WalkOrdered DEF AppOrder, InOrderOf
  <1>6. Ranked(hh_next)
    BY <1>3, <1>4, ChainedRanked
  <1>7. \A b \in 0 .. tbl.num_buckets - 1 :
            ToSet(Chain(b)) = {k \in P : Bucket(hash, k, tbl.num_buckets) = b}
    <2>1. ASSUME NEW b \in 0 .. tbl.num_buckets - 1
          PROVE  OfBucket(Chain(b), P, d, tbl.num_buckets, buckets, hash, b)
      BY <1>3, <1>4, <1>6, WalkChained DEF Chain
    <2> QED BY <2>1 DEF OfBucket
  <1>8. ASSUME NEW k \in Key PROVE HASH_FIND(k) = IF k \in P THEN k ELSE NULL
    <2>1. HASH_TO_BKT(hash[k], tbl.num_buckets) = Bucket(hash, k, tbl.num_buckets)
          /\ Bucket(hash, k, tbl.num_buckets) \in 0 .. tbl.num_buckets - 1
      BY <1>4, BucketOf DEF Bucket
    <2>2. k \in ToSet(Chain(HASH_TO_BKT(hash[k], tbl.num_buckets))) <=> k \in P
      BY <2>1, <1>7
    <2>3. k \in P => head # NULL
      BY <1>1, TableAssumption DEF Ordered
    <2> QED BY <2>2, <2>3 DEF HASH_FIND
  <1> QED BY <1>5, <1>6, <1>8

\* The chains hold what the order of addition holds, so a find by hash is right.
LEMMA IInvFindsExactly == IInv => FindsExactly
  <1>1. SUFFICES ASSUME NEW V, Shape(V), NEW P \in SUBSET Key, Holds(P), Idle
                 PROVE  \A k \in Key : HASH_FIND(k) = k <=> k \in ToSet(AppOrder)
    BY DEF IInv, FindsExactly
  <1> QED BY <1>1, Found, TableAssumption

\* The walks are through what the invariant says hangs together, in the order it says.
LEMMA IInvFsckLinks == IInv => FsckLinks
  <1>1. SUFFICES ASSUME NEW V, Shape(V), NEW P \in SUBSET Key, Holds(P), Idle
                 PROVE  /\ \A b \in DOMAIN buckets :
                              Linked(Chain(b), hh_prev) /\ buckets[b].count = Len(Chain(b))
                        /\ Linked(AppOrder, prev) /\ Len(AppOrder) = tbl.num_items
    BY DEF IInv, FsckLinks
  <1> DEFINE n == tbl.num_buckets
  <1>2. PICK pos \in [Key -> Nat] : /\ Ordered(P, pos, tbl.num_items, head, tbl.tail, next, prev)
                                   /\ Ends(P, pos, tbl.num_items, next)
    BY <1>1 DEF Idle, Holds, InOrder
  <1>3. PICK M \in Nat : \E d \in [Key -> 0 .. M] : /\ Chained(P, d, n, buckets, hash, hh_next)
                                                /\ Backed(P, d, n, buckets, hash, hh_prev)
    BY <1>1 DEF Idle, Holds, InBuckets
  <1>4. PICK d \in [Key -> 0 .. M] : /\ Chained(P, d, n, buckets, hash, hh_next)
                                  /\ Backed(P, d, n, buckets, hash, hh_prev)
    BY <1>3
  <1>5. /\ hash \in [Key -> Nat] /\ head \in Link /\ next \in [Key -> Link] /\ hh_next \in [Key -> Link]
        /\ n \in Nat \ {0} /\ tbl.num_items \in Nat /\ DOMAIN buckets = 0 .. n - 1
        /\ Counted(buckets, n) /\ Stale(P, next)
    BY <1>1 DEF Shape, TablesOf, BucketsOf, Counted, Holds
  <1>6. Linked(AppOrder, prev) /\ Len(AppOrder) = tbl.num_items
    <2>1. PICK w : w = AppOrder
      OBVIOUS
    <2>2. /\ Len(w) = tbl.num_items /\ \A k \in P : w[pos[k]] = k
          /\ \A i \in 1 .. tbl.num_items : w[i] \in P /\ pos[w[i]] = i
      <3>1. InOrderOf(Walk(head, next), P, pos, tbl.num_items)
        BY <1>2, <1>5, WalkOrdered
      <3> QED BY <2>1, <3>1 DEF AppOrder, InOrderOf
    <2>3. ASSUME NEW i \in 1 .. Len(w)
          PROVE  prev[w[i]] = IF i = 1 THEN NULL ELSE w[i - 1]
      <3>1. IF pos[w[i]] = 1 THEN prev[w[i]] = NULL
            ELSE prev[w[i]] \in P /\ pos[prev[w[i]]] = pos[w[i]] - 1
        BY <1>2, <2>2 DEF Ordered
      <3> QED BY <2>2, <3>1
    <2> QED BY <2>1, <2>2, <2>3 DEF Linked
  <1>7. ASSUME NEW b \in 0 .. n - 1
        PROVE  Linked(Chain(b), hh_prev) /\ buckets[b].count = Len(Chain(b))
    <2>1. PICK w : w = Chain(b)
      OBVIOUS
    <2>2. Ranked(hh_next)
      BY <1>1, Found
    <2>3. OfBucket(w, P, d, n, buckets, hash, b)
      BY <1>4, <1>5, <2>1, <2>2, WalkChained DEF Chain
    <2> DEFINE cnt == buckets[b].count
    <2>4. /\ Len(w) = cnt /\ cnt \in Nat
          /\ \A i \in 1 .. Len(w) : /\ w[i] \in P /\ Bucket(hash, w[i], n) = b
                                    /\ d[w[i]] = cnt - i + 1
      BY <1>5, <2>3 DEF OfBucket, Counted
    <2>5. ASSUME NEW i \in 1 .. Len(w)
          PROVE  hh_prev[w[i]] = IF i = 1 THEN NULL ELSE w[i - 1]
      <3>1. IF d[w[i]] = cnt THEN hh_prev[w[i]] = NULL
            ELSE /\ hh_prev[w[i]] \in P /\ d[hh_prev[w[i]]] = d[w[i]] + 1
                 /\ Bucket(hash, hh_prev[w[i]], n) = b
        BY <1>4, <2>4 DEF Backed
      <3>2. CASE i = 1
        BY <2>4, <3>1, <3>2
      <3>3. CASE i # 1
        <4>1. i - 1 \in 1 .. Len(w) /\ d[w[i]] # cnt
          <5>1. i \in 1 .. Len(w) /\ Len(w) \in Nat /\ cnt \in Nat /\ d[w[i]] = cnt - i + 1
            BY <2>4
          <5> HIDE DEF cnt
          <5> QED BY <5>1, <3>3
        <4>2. /\ w[i - 1] \in P /\ Bucket(hash, w[i - 1], n) = b
              /\ d[w[i - 1]] = cnt - (i - 1) + 1
          BY <2>4, <4>1
        <4>3. d[hh_prev[w[i]]] = d[w[i - 1]]
          <5>1. d[hh_prev[w[i]]] = d[w[i]] + 1 /\ d[w[i]] = cnt - i + 1 /\ cnt \in Nat
            BY <2>4, <3>1, <4>1
          <5> HIDE DEF cnt
          <5> QED BY <5>1, <4>2
        <4>4. hh_prev[w[i]] = w[i - 1]
          BY <1>4, <3>1, <4>1, <4>2, <4>3 DEF Chained
        <4> QED BY <3>3, <4>4
      <3> QED BY <3>2, <3>3
    <2> QED BY <2>1, <2>4, <2>5 DEF Linked
  <1> QED BY <1>5, <1>6, <1>7

\* The empty table.
LEMMA InitIInv == Init => IInv
  <1> SUFFICES ASSUME Init PROVE IInv
    OBVIOUS
  <1> DEFINE N == HASH_INITIAL_NUM_BUCKETS
             V == {0, HASH_INITIAL_NUM_BUCKETS_LOG2}
             none == [k \in Key |-> 0]
  <1>1. Shape(V)
    BY TableAssumption, InitialBuckets
       DEF Init, Shape, TablesOf, BucketsOf, HASH_MAKE_TABLE, EmptyBuckets, EmptyBucket, Link
  <1>2. tbl.num_items = 0 /\ tbl.num_buckets = N /\ tbl.tail = NULL /\ N \in Nat \ {0}
    BY InitialBuckets DEF Init, HASH_MAKE_TABLE
  <1>3. ~sort.active /\ ~expand.active
    BY DEF Init, NotExpanding, NotSorting
  <1>4. \A b \in 0 .. N - 1 : buckets[b].count = 0 /\ buckets[b].hh_head = NULL
    BY DEF Init, EmptyBuckets, EmptyBucket
  <1>5. none \in [Key -> Nat] /\ none \in [Key -> 0 .. 0]
    OBVIOUS
  <1>6. InOrder({})
    BY <1>2, <1>5 DEF InOrder, Ordered, Ends, Init
  <1>7. InBuckets({})
    BY <1>2, <1>4, <1>5 DEF InBuckets, Chained, Backed
  <1>8. Stale({}, next) /\ Stale({}, hh_next)
    BY <1>5 DEF Stale, Init
  <1> QED BY <1>1, <1>3, <1>6, <1>7, <1>8 DEF IInv, Holds

----------------------------------------------------------------------------
\* The steps.

\* The values HASH_ADD leaves, with or without an expansion begun.
LEMMA AddShape ==
    ASSUME NEW V, Shape(V), Idle, NEW k \in Key, HASH_ADD(k)
    PROVE  LET b == Bucket(hash, k, tbl.num_buckets)
           IN  /\ \E V1 : Shape(V1)'
               /\ hash' = hash /\ head' = IF head = NULL THEN k ELSE head
               /\ next' = [Patch(next, tbl.tail, k) EXCEPT ![k] = NULL]
               /\ prev' = [prev EXCEPT ![k] = tbl.tail]
               /\ hh_next' = [hh_next EXCEPT ![k] = buckets[b].hh_head]
               /\ hh_prev' = [Patch(hh_prev, buckets[b].hh_head, k) EXCEPT ![k] = NULL]
               /\ tbl'.num_buckets = tbl.num_buckets /\ tbl'.tail = k
               /\ tbl'.num_items = tbl.num_items + 1
               /\ buckets'[b].hh_head = k /\ buckets'[b].count = buckets[b].count + 1
               /\ \A c \in 0 .. tbl.num_buckets - 1 : c # b => buckets'[c] = buckets[c]
               /\ ~sort'.active
               /\ \/ expand' = NotExpanding
                  \/ expand' = [active |-> TRUE, new |-> EmptyBuckets(2 * tbl.num_buckets),
                                bkt_i |-> 0, thh |-> buckets'[0].hh_head]
  <1> DEFINE b == Bucket(hash, k, tbl.num_buckets)
             t == [tbl EXCEPT !.tail = k, !.num_items = @ + 1]
             bkt == [buckets[b] EXCEPT !.count = @ + 1, !.hh_head = k]
  <1>0. PICK V1 : V1 = V \cup {0, Ideal(t)}
    OBVIOUS
  <1>1. /\ hash \in [Key -> Nat] /\ head \in Link
        /\ next \in [Key -> Link] /\ prev \in [Key -> Link]
        /\ hh_next \in [Key -> Link] /\ hh_prev \in [Key -> Link]
        /\ tbl \in TablesOf(V) /\ buckets \in BucketsOf(V, tbl.num_buckets)
        /\ tbl.num_buckets \in Nat \ {0} /\ tbl.tail \in Link
        /\ NULL \in Link /\ k \in Link
    BY DEF Shape, TablesOf, Link
  <1>2. b \in 0 .. tbl.num_buckets - 1
    BY <1>1, BucketOf
  <1>3. t \in TablesOf(V) /\ t.num_buckets = tbl.num_buckets /\ t.tail = k
        /\ t.num_items = tbl.num_items + 1
    <2>1. tbl \in TablesOf(V) /\ k \in Link
      BY <1>1
    <2>2. tbl.num_items + 1 \in Nat
      BY <2>1 DEF TablesOf
    <2>3. t \in TablesOf(V)
      BY <2>1, <2>2 DEF TablesOf
    <2>4. t.num_buckets = tbl.num_buckets /\ t.tail = k /\ t.num_items = tbl.num_items + 1
      BY <2>1 DEF TablesOf
    <2> QED BY <2>3, <2>4
  <1>4. bkt \in [hh_head : Link, count : Nat, expand_mult : V]
        /\ bkt.hh_head = k /\ bkt.count = buckets[b].count + 1
        /\ buckets[b].hh_head \in Link
    <2> HIDE DEF b
    <2>1. buckets[b] \in [hh_head : Link, count : Nat, expand_mult : V] /\ k \in Link
      BY <1>1, <1>2 DEF BucketsOf
    <2>2. buckets[b].count + 1 \in Nat
      BY <2>1
    <2> QED BY <2>1, <2>2
  <1> HIDE DEF t, bkt
  <1>5. HASH_ADD_TO_BKT(t, buckets, b, k) /\ hash' = hash /\ sort' = sort
        /\ head' = (IF head = NULL THEN k ELSE head)
        /\ next' = [Patch(next, tbl.tail, k) EXCEPT ![k] = NULL]
        /\ prev' = [prev EXCEPT ![k] = tbl.tail]
    BY <1>3 DEF HASH_ADD, Bucket, t
  <1> HIDE DEF b
  <1>6. buckets' = [buckets EXCEPT ![b] = bkt]
        /\ hh_next' = [hh_next EXCEPT ![k] = buckets[b].hh_head]
        /\ hh_prev' = [Patch(hh_prev, buckets[b].hh_head, k) EXCEPT ![k] = NULL]
    BY <1>5 DEF HASH_ADD_TO_BKT, bkt
  <1>7. \/ tbl' = t /\ expand' = NotExpanding
        \/ /\ tbl' = [t EXCEPT !.ideal_chain_maxlen = Ideal(t), !.nonideal_items = 0]
           /\ expand' = Expansion(t, buckets')
    BY <1>5 DEF HASH_ADD_TO_BKT
  <1>8. tbl' \in TablesOf(V1) /\ tbl'.num_buckets = tbl.num_buckets /\ tbl'.tail = k
        /\ tbl'.num_items = tbl.num_items + 1
    BY <1>0, <1>3, <1>7 DEF TablesOf
  <1>9. buckets' \in BucketsOf(V1, tbl.num_buckets)
        /\ buckets'[b] = bkt /\ \A c \in 0 .. tbl.num_buckets - 1 : c # b => buckets'[c] = buckets[c]
    BY <1>0, <1>1, <1>2, <1>4, <1>6 DEF BucketsOf
  <1>10. \/ expand' = NotExpanding
         \/ expand' = [active |-> TRUE, new |-> EmptyBuckets(2 * tbl.num_buckets),
                       bkt_i |-> 0, thh |-> buckets'[0].hh_head]
    BY <1>3, <1>7 DEF Expansion
  <1>11. expand' = NotExpanding \/ expand' \in ExpansionsOf(V1, tbl.num_buckets)
    <2>1. buckets'[0].hh_head \in Link /\ 0 \in 0 .. tbl.num_buckets - 1
      BY <1>1, <1>9 DEF BucketsOf
    <2>2. EmptyBuckets(2 * tbl.num_buckets) \in BucketsOf(V1, 2 * tbl.num_buckets)
      BY <1>0, <1>1 DEF EmptyBuckets, EmptyBucket, BucketsOf
    <2>3. expand' # NotExpanding =>
              expand' = [active |-> TRUE, new |-> EmptyBuckets(2 * tbl.num_buckets),
                         bkt_i |-> 0, thh |-> buckets'[0].hh_head]
      BY <1>10
    <2>4. [active |-> TRUE, new |-> EmptyBuckets(2 * tbl.num_buckets),
           bkt_i |-> 0, thh |-> buckets'[0].hh_head] \in ExpansionsOf(V1, tbl.num_buckets)
      <3> DEFINE e == EmptyBuckets(2 * tbl.num_buckets)
                 f == buckets'[0].hh_head
      <3> HIDE DEF e, f
      <3>1. e \in BucketsOf(V1, 2 * tbl.num_buckets) /\ f \in Link /\ 0 \in 0 .. tbl.num_buckets - 1
        BY <2>1, <2>2 DEF e, f
      <3>2. [active |-> TRUE, new |-> e, bkt_i |-> 0, thh |-> f] \in ExpansionsOf(V1, tbl.num_buckets)
        BY <3>1 DEF ExpansionsOf
      <3> QED BY <3>2 DEF e, f
    <2> QED BY <2>3, <2>4
  <1>12. head' \in Link /\ next' \in [Key -> Link] /\ prev' \in [Key -> Link]
         /\ hh_next' \in [Key -> Link] /\ hh_prev' \in [Key -> Link]
    BY <1>1, <1>4, <1>5, <1>6 DEF Patch
  <1>13. sort' = NotSorting
    <2>1. sort = NotSorting \/ sort \in SortsOf(V)
      BY DEF Shape
    <2>2. ~sort.active
      BY DEF Idle
    <2>3. sort \notin SortsOf(V)
      BY <2>2 DEF SortsOf
    <2> QED BY <2>1, <2>3, <1>5
  <1>14. Shape(V1)'
    <2>1. hash' \in [Key -> Nat] /\ buckets' \in BucketsOf(V1, tbl'.num_buckets)
          /\ (expand' = NotExpanding \/ expand' \in ExpansionsOf(V1, tbl'.num_buckets))
      BY <1>1, <1>5, <1>8, <1>9, <1>11
    <2> QED BY <2>1, <1>8, <1>12, <1>13 DEF Shape
  <1> QED BY <1>4, <1>5, <1>6, <1>8, <1>9, <1>10, <1>13, <1>14 DEF b, NotSorting

\* What is added is the last in the order of addition.
LEMMA AddOrder ==
    ASSUME NEW V, Shape(V), Idle, NEW P \in SUBSET Key, Stale(P, next),
           NEW pos \in [Key -> Nat], Ordered(P, pos, tbl.num_items, head, tbl.tail, next, prev),
           NEW k \in Key, k \notin P, HASH_ADD(k),
           NEW pos1, pos1 = [pos EXCEPT ![k] = tbl.num_items + 1]
    PROVE  /\ pos1 \in [Key -> Nat]
           /\ Ordered(P \cup {k}, pos1, tbl.num_items + 1, head', k, next', prev')
           /\ Ends(P \cup {k}, pos1, tbl.num_items + 1, next')
           /\ Stale(P \cup {k}, next')
  <1> DEFINE P1 == P \cup {k}
  <1>1. /\ head' = IF head = NULL THEN k ELSE head
        /\ next' = [Patch(next, tbl.tail, k) EXCEPT ![k] = NULL]
        /\ prev' = [prev EXCEPT ![k] = tbl.tail]
    BY DEF HASH_ADD
  <1>2. /\ next \in [Key -> Link] /\ prev \in [Key -> Link] /\ tbl.num_items \in Nat
        /\ NULL \notin Key
    BY TableAssumption DEF Shape, TablesOf
  <1>3. \A j \in P : next'[j] = IF j = tbl.tail THEN k ELSE next[j]
    BY <1>1, <1>2 DEF Patch
  <1>4. prev'[k] = tbl.tail /\ \A j \in P : prev'[j] = prev[j]
    BY <1>1, <1>2
  <1>5. Appended(P, k, head, tbl.tail, next, prev, head', next', prev')
    BY <1>1, <1>3, <1>4 DEF Appended
  <1>6. pos1 \in [Key -> Nat] /\ Ordered(P1, pos1, tbl.num_items + 1, head', k, next', prev')
    BY <1>2, <1>5, OrderedAppend
  <1>7. next'[k] = NULL
    BY <1>1, <1>2 DEF Patch
  <1>8. \A j \in P1 : pos1[j] = tbl.num_items + 1 => j = k
    BY <1>6, <1>2 DEF Ordered
  <1>9. Ends(P1, pos1, tbl.num_items + 1, next')
    BY <1>7, <1>8 DEF Ends
  <1>10. Stale(P1, next')
    <2>1. tbl.tail \in P \cup {NULL}
      BY DEF Ordered
    <2>2. \A j \in Key \ P1 : next'[j] = next[j]
      BY <1>1, <1>2, <2>1 DEF Patch
    <2>3. P1 \in SUBSET Key /\ P \subseteq P1
      OBVIOUS
    <2> HIDE DEF P1
    <2> QED BY <2>2, <2>3, StaleGrows
  <1> QED BY <1>6, <1>9, <1>10

\* A key that is not found goes behind the last and to the head of its bucket; if that
\* is full, all items are still in the old buckets when the expansion begins.
LEMMA AddStep ==
    ASSUME IInv, NEW k \in Key, HASH_ADD(k)
    PROVE  IInv'
  <1>1. PICK V : Shape(V) /\ \E P \in SUBSET Key : Holds(P)
    BY DEF IInv
  <1>2. PICK P \in SUBSET Key : Holds(P)
    BY <1>1
  <1>3. Idle /\ k \notin P /\ NULL \notin Key
    BY <1>1, <1>2, Found, TableAssumption DEF HASH_ADD
  <1> DEFINE n == tbl.num_buckets
             b == Bucket(hash, k, n)
             P1 == P \cup {k}
  <1>4. PICK V1 : Shape(V1)'
    BY <1>1, <1>3, AddShape
  <1>5. /\ hash' = hash /\ head' = IF head = NULL THEN k ELSE head
        /\ next' = [Patch(next, tbl.tail, k) EXCEPT ![k] = NULL]
        /\ prev' = [prev EXCEPT ![k] = tbl.tail]
        /\ hh_next' = [hh_next EXCEPT ![k] = buckets[b].hh_head]
        /\ hh_prev' = [Patch(hh_prev, buckets[b].hh_head, k) EXCEPT ![k] = NULL]
        /\ tbl'.num_buckets = n /\ tbl'.tail = k
        /\ tbl'.num_items = tbl.num_items + 1
        /\ buckets'[b].hh_head = k /\ buckets'[b].count = buckets[b].count + 1
        /\ \A c \in 0 .. n - 1 : c # b => buckets'[c] = buckets[c]
        /\ ~sort'.active
        /\ \/ expand' = NotExpanding
           \/ expand' = [active |-> TRUE, new |-> EmptyBuckets(2 * n),
                         bkt_i |-> 0, thh |-> buckets'[0].hh_head]
    BY <1>1, <1>3, AddShape
  <1>6. /\ hash \in [Key -> Nat] /\ n \in Nat \ {0} /\ tbl.num_items \in Nat
        /\ next \in [Key -> Link] /\ prev \in [Key -> Link]
        /\ hh_next \in [Key -> Link] /\ hh_prev \in [Key -> Link]
        /\ Counted(buckets, n) /\ b \in 0 .. n - 1
    BY <1>1, BucketOf DEF Shape, TablesOf, BucketsOf, Counted
  <1> HIDE DEF b, n
  <1>7. InOrder(P1)'
    <2>1. PICK pos \in [Key -> Nat] : Ordered(P, pos, tbl.num_items, head, tbl.tail, next, prev)
      BY <1>2, <1>3 DEF Idle, Holds, InOrder
    <2>2. PICK pos1 : pos1 = [pos EXCEPT ![k] = tbl.num_items + 1]
      OBVIOUS
    <2>3. /\ pos1 \in [Key -> Nat]
          /\ Ordered(P1, pos1, tbl.num_items + 1, head', k, next', prev')
          /\ Ends(P1, pos1, tbl.num_items + 1, next')
      BY <1>1, <1>2, <1>3, <2>1, <2>2, AddOrder DEF Holds
    <2> QED BY <2>3, <1>5 DEF InOrder
  <1>8. PICK M \in Nat : \E d \in [Key -> 0 .. M] : /\ Chained(P, d, n, buckets, hash, hh_next)
                                                /\ Backed(P, d, n, buckets, hash, hh_prev)
    BY <1>2, <1>3 DEF Idle, Holds, InBuckets, n
  <1>9. PICK d \in [Key -> 0 .. M] : /\ Chained(P, d, n, buckets, hash, hh_next)
                                  /\ Backed(P, d, n, buckets, hash, hh_prev)
    BY <1>8
  <1> DEFINE d1 == [d EXCEPT ![k] = buckets[b].count + 1]
             M1 == M + buckets[b].count + 1
  <1>10. buckets[b].count \in Nat /\ M1 \in Nat /\ d1 \in [Key -> 0 .. M1]
    <2>1. buckets[b].count \in Nat
      BY <1>6 DEF Counted
    <2> QED BY <2>1
  <1> HIDE DEF d1, M1
  <1>11. /\ Chained(P1, d1, n, buckets', hash, hh_next')
         /\ Backed(P1, d1, n, buckets', hash, hh_prev')
         /\ Counted(buckets', n)
    <2>1. hh_next'[k] = buckets[b].hh_head /\ \A j \in P : hh_next'[j] = hh_next[j]
      BY <1>3, <1>5, <1>6
    <2>2. hh_prev'[k] = NULL
          /\ \A j \in P : hh_prev'[j] = IF j = buckets[b].hh_head THEN k ELSE hh_prev[j]
      BY <1>3, <1>5, <1>6 DEF Patch
    <2>3. d1 = [d EXCEPT ![k] = buckets[b].count + 1] /\ b = Bucket(hash, k, n)
      BY DEF d1, b
    <2>4. Pushed(P, k, b, n, buckets, hh_next, hh_prev, buckets', hh_next', hh_prev')
      BY <2>1, <2>2, <1>5 DEF Pushed, SameButBucket
    <2> QED BY <2>3, <2>4, <1>3, <1>6, <1>9, ChainedPush
  <1>12. IF expand'.active THEN InExpansion(P1)' ELSE InBuckets(P1)'
    <2>1. CASE expand' = NotExpanding
      <3>1. InBuckets(P1)'
        BY <1>5, <1>10, <1>11 DEF InBuckets
      <3> QED BY <3>1, <2>1 DEF NotExpanding
    <2>2. CASE expand' = [active |-> TRUE, new |-> EmptyBuckets(2 * n),
                          bkt_i |-> 0, thh |-> buckets'[0].hh_head]
      <3>1. expand'.active /\ expand'.new = EmptyBuckets(2 * n) /\ expand'.bkt_i = 0
            /\ expand'.thh = buckets'[0].hh_head
        BY <2>2
      <3>2. Chained({}, d1, 2 * n, expand'.new, hash, hh_next')
            /\ Backed({}, d1, 2 * n, expand'.new, hash, hh_prev')
        BY <3>1 DEF Chained, Backed, EmptyBuckets, EmptyBucket
      <3>3. \A c \in 0 .. n - 1 :
               buckets'[c].hh_head = IF c < expand'.bkt_i THEN NULL
                                     ELSE IF c = expand'.bkt_i THEN expand'.thh ELSE buckets'[c].hh_head
        BY <3>1
      <3>4. P1 \ P1 = {}
        OBVIOUS
      <3>5. PICK L, M2, d2, left : L = P1 /\ M2 = M1 /\ d2 = d1 /\ left = buckets'
        OBVIOUS
      <3>6. Expanding(P1, L, d2, left)'
        BY <3>2, <3>3, <3>4, <3>5, <1>5, <1>11 DEF Expanding
      <3>7. InExpansion(P1)'
        BY <3>5, <3>6, <1>10 DEF InExpansion
      <3> QED BY <3>1, <3>7
    <2> QED BY <2>1, <2>2, <1>5
  <1>13. Stale(P1, next')
    <2>1. PICK pos \in [Key -> Nat] : Ordered(P, pos, tbl.num_items, head, tbl.tail, next, prev)
      BY <1>2, <1>3 DEF Idle, Holds, InOrder
    <2>2. PICK pos1 : pos1 = [pos EXCEPT ![k] = tbl.num_items + 1]
      OBVIOUS
    <2> QED BY <1>1, <1>2, <1>3, <2>1, <2>2, AddOrder DEF Holds
  <1>14. Stale(P1, hh_next')
    <2>1. \A j \in Key \ P1 : hh_next'[j] = hh_next[j]
      BY <1>5, <1>6
    <2> QED BY <2>1, <1>2, StaleGrows DEF Holds
  <1>15. P1 \in SUBSET Key
    OBVIOUS
  <1> HIDE DEF P1
  <1> QED BY <1>4, <1>5, <1>7, <1>12, <1>13, <1>14, <1>15 DEF IInv, Holds

\* The values that moving an item leaves.
LEMMA ExpandItemShape ==
    ASSUME NEW V, Shape(V), ExpandItem
    PROVE  LET k == expand.thh
               b == Bucket(hash, k, 2 * tbl.num_buckets)
           IN  /\ \E V1 : Shape(V1)'
               /\ hh_next' = [hh_next EXCEPT ![k] = expand.new[b].hh_head]
               /\ hh_prev' = [Patch(hh_prev, expand.new[b].hh_head, k) EXCEPT ![k] = NULL]
               /\ tbl'.num_buckets = tbl.num_buckets /\ tbl'.num_items = tbl.num_items
               /\ tbl'.tail = tbl.tail
               /\ expand'.active /\ expand'.bkt_i = expand.bkt_i /\ expand'.thh = hh_next[k]
               /\ expand'.new[b].hh_head = k /\ expand'.new[b].count = expand.new[b].count + 1
               /\ \A c \in 0 .. 2 * tbl.num_buckets - 1 : c # b => expand'.new[c] = expand.new[c]
  <1> DEFINE k == expand.thh
             n == tbl.num_buckets
             b == Bucket(hash, k, 2 * n)
             old == expand.new[b]
             nonideal == old.count + 1 > tbl.ideal_chain_maxlen
             mult == IF nonideal THEN (old.count + 1) \div tbl.ideal_chain_maxlen ELSE old.expand_mult
             items == IF nonideal THEN tbl.nonideal_items + 1 ELSE tbl.nonideal_items
             bkt == [hh_head |-> k, count |-> old.count + 1, expand_mult |-> mult]
  <1>0. PICK V1 : V1 = V \cup {mult, items}
    OBVIOUS
  <1>1. /\ hash \in [Key -> Nat] /\ head \in Link
        /\ next \in [Key -> Link] /\ prev \in [Key -> Link]
        /\ hh_next \in [Key -> Link] /\ hh_prev \in [Key -> Link]
        /\ tbl \in TablesOf(V) /\ buckets \in BucketsOf(V, n) /\ n \in Nat \ {0}
        /\ expand \in ExpansionsOf(V, n) /\ k \in Key /\ k \in Link /\ NULL \in Link
        /\ (sort = NotSorting \/ sort \in SortsOf(V))
    <2>1. expand \in ExpansionsOf(V, n) /\ k # NULL
      BY DEF Shape, ExpandItem, NotExpanding
    <2>2. k \in Link
      BY <2>1 DEF ExpansionsOf
    <2>3. tbl \in TablesOf(V) /\ n \in Nat \ {0}
      BY DEF Shape, TablesOf
    <2>4. k \in Key /\ NULL \in Link
      BY <2>1, <2>2 DEF Link
    <2> QED BY <2>1, <2>2, <2>3, <2>4 DEF Shape
  <1>2. b \in 0 .. 2 * n - 1 /\ 2 * n \in Nat \ {0}
    BY <1>1, BucketOf
  <1>3. expand.new \in BucketsOf(V, 2 * n) /\ expand.active
    BY <1>1 DEF ExpansionsOf, ExpandItem
  <1>4. old \in [hh_head : Link, count : Nat, expand_mult : V]
    BY <1>2, <1>3 DEF BucketsOf
  <1>5. /\ expand' = [expand EXCEPT !.new[b] = bkt, !.thh = hh_next[k]]
        /\ tbl' = [tbl EXCEPT !.nonideal_items = items]
        /\ hh_next' = [hh_next EXCEPT ![k] = old.hh_head]
        /\ hh_prev' = [Patch(hh_prev, old.hh_head, k) EXCEPT ![k] = NULL]
        /\ UNCHANGED <<hash, head, next, prev, buckets, sort, deletes>>
    <2>1. NewBucket(k) = b
      BY DEF NewBucket, Bucket
    <2> QED BY <2>1, <1>1 DEF ExpandItem, TablesOf
  <1> HIDE DEF b, mult, items, nonideal
  <1>6. bkt \in [hh_head : Link, count : Nat, expand_mult : V1]
        /\ bkt.hh_head = k /\ bkt.count = old.count + 1
    <2>1. old.count + 1 \in Nat /\ mult \in V1 /\ k \in Link
      BY <1>0, <1>1, <1>4
    <2> QED BY <2>1
  <1> HIDE DEF bkt, old
  <1> DEFINE new1 == [expand.new EXCEPT ![b] = bkt]
  <1>7. expand' = [expand EXCEPT !.new = new1, !.thh = hh_next[k]]
    BY <1>1, <1>5 DEF ExpansionsOf
  <1>8. expand.new \in BucketsOf(V1, 2 * n)
    BY <1>0, <1>3 DEF BucketsOf
  <1>9. new1 \in BucketsOf(V1, 2 * n) /\ new1[b] = bkt
        /\ \A c \in 0 .. 2 * n - 1 : c # b => new1[c] = expand.new[c]
    BY <1>2, <1>6, <1>8 DEF BucketsOf
  <1> HIDE DEF new1
  <1>10. expand' \in ExpansionsOf(V1, n) /\ expand'.new = new1 /\ expand'.active
         /\ expand'.bkt_i = expand.bkt_i /\ expand'.thh = hh_next[k]
    <2>1. hh_next[k] \in Link /\ new1 \in BucketsOf(V1, 2 * n) /\ expand \in ExpansionsOf(V, n)
      BY <1>1, <1>9
    <2>2. expand' \in ExpansionsOf(V1, n)
      BY <2>1, <1>7 DEF ExpansionsOf
    <2>3. expand'.new = new1 /\ expand'.bkt_i = expand.bkt_i /\ expand'.thh = hh_next[k]
      BY <2>1, <1>7 DEF ExpansionsOf
    <2>4. expand'.active
      BY <2>2 DEF ExpansionsOf
    <2> QED BY <2>2, <2>3, <2>4
  <1>11. tbl' \in TablesOf(V1) /\ tbl'.num_buckets = n /\ tbl'.num_items = tbl.num_items
         /\ tbl'.tail = tbl.tail
    <2>1. items \in V1 /\ tbl \in TablesOf(V1)
      BY <1>0, <1>1 DEF TablesOf
    <2> QED BY <2>1, <1>5 DEF TablesOf
  <1>12. hh_next' \in [Key -> Link] /\ hh_prev' \in [Key -> Link]
    <2>1. old.hh_head \in Link
      BY <1>4
    <2> QED BY <2>1, <1>1, <1>5 DEF Patch
  <1>13. buckets' \in BucketsOf(V1, n)
    <2>1. buckets \in BucketsOf(V1, n)
      BY <1>0, <1>1 DEF BucketsOf
    <2> QED BY <2>1, <1>5
  <1>14. sort' = NotSorting \/ sort' \in SortsOf(V1)
    <2>1. sort \in SortsOf(V) => sort \in SortsOf(V1)
      BY <1>0 DEF SortsOf
    <2> QED BY <2>1, <1>1, <1>5
  <1>15. Shape(V1)'
    <2>1. buckets' \in BucketsOf(V1, tbl'.num_buckets) /\ expand' \in ExpansionsOf(V1, tbl'.num_buckets)
          /\ hash' \in [Key -> Nat] /\ head' \in Link /\ next' \in [Key -> Link] /\ prev' \in [Key -> Link]
      BY <1>1, <1>5, <1>10, <1>11, <1>13
    <2> QED BY <2>1, <1>11, <1>12, <1>14 DEF Shape
  <1> QED BY <1>5, <1>6, <1>9, <1>10, <1>11, <1>15 DEF b, old

\* The item at the head of what is left of an old bucket goes to the head of its new one.
LEMMA ExpandItemStep == IInv /\ ExpandItem => IInv'
  <1> SUFFICES ASSUME IInv, ExpandItem PROVE IInv'
    OBVIOUS
  <1>1. PICK V : Shape(V) /\ \E P \in SUBSET Key : Holds(P)
    BY DEF IInv
  <1>2. PICK P \in SUBSET Key : Holds(P)
    BY <1>1
  <1> DEFINE k == expand.thh
             n == tbl.num_buckets
             i == expand.bkt_i
             b == Bucket(hash, k, 2 * n)
             old == expand.new[b]
  <1>3. PICK V1 : Shape(V1)'
    BY <1>1, ExpandItemShape
  <1>4. /\ hh_next' = [hh_next EXCEPT ![k] = old.hh_head]
        /\ hh_prev' = [Patch(hh_prev, old.hh_head, k) EXCEPT ![k] = NULL]
        /\ tbl'.num_buckets = n /\ tbl'.num_items = tbl.num_items /\ tbl'.tail = tbl.tail
        /\ expand'.active /\ expand'.bkt_i = i /\ expand'.thh = hh_next[k]
        /\ expand'.new[b].hh_head = k /\ expand'.new[b].count = old.count + 1
        /\ \A c \in 0 .. 2 * n - 1 : c # b => expand'.new[c] = expand.new[c]
    BY <1>1, ExpandItemShape
  <1>5. UNCHANGED <<hash, head, next, prev, buckets, sort>>
    BY DEF ExpandItem
  <1>6. /\ hash \in [Key -> Nat] /\ n \in Nat \ {0} /\ 2 * n \in Nat \ {0}
        /\ hh_next \in [Key -> Link] /\ hh_prev \in [Key -> Link]
        /\ Counted(expand.new, 2 * n) /\ i \in 0 .. n - 1 /\ k # NULL
        /\ NULL \notin Key /\ k \in Key /\ expand.active /\ ~sort.active
    <2>1. expand \in ExpansionsOf(V, n) /\ n \in Nat \ {0} /\ hash \in [Key -> Nat]
          /\ hh_next \in [Key -> Link] /\ hh_prev \in [Key -> Link] /\ k # NULL /\ expand.active
      BY <1>1 DEF Shape, TablesOf, ExpandItem, NotExpanding
    <2>2. expand.new \in BucketsOf(V, 2 * n) /\ i \in 0 .. n - 1 /\ k \in Link
      BY <2>1 DEF ExpansionsOf
    <2>3. ~sort.active
      BY <2>1, <1>2 DEF Holds
    <2>4. Counted(expand.new, 2 * n)
      BY <2>2 DEF BucketsOf, Counted
    <2>5. NULL \notin Key /\ k \in Key
      BY <2>1, <2>2, TableAssumption DEF Link
    <2>6. 2 * n \in Nat \ {0}
      BY <2>1
    <2> HIDE DEF k, i
    <2> QED BY <2>1, <2>2, <2>3, <2>4, <2>5, <2>6
  <1>7. b \in 0 .. 2 * n - 1
    BY <1>6, BucketOf
  <1>8. PICK L \in SUBSET P, M \in Nat : \E d \in [Key -> 0 .. M] : \E left : Expanding(P, L, d, left)
    BY <1>2, <1>6 DEF Holds, InExpansion
  <1> PICK d \in [Key -> 0 .. M] : \E left : Expanding(P, L, d, left)
    BY <1>8
  <1> PICK left : Expanding(P, L, d, left)
    OBVIOUS
  <1>9. /\ Chained(P \ L, d, 2 * n, expand.new, hash, hh_next)
        /\ Backed(P \ L, d, 2 * n, expand.new, hash, hh_prev)
        /\ Chained(L, d, n, left, hash, hh_next)
        /\ Counted(left, n)
        /\ \A c \in 0 .. n - 1 :
              left[c].hh_head = IF c < i THEN NULL ELSE IF c = i THEN k ELSE buckets[c].hh_head
    BY DEF Expanding
  <1>10. left[i].hh_head = k /\ k \in L /\ Bucket(hash, k, n) = i
    BY <1>6, <1>9 DEF Chained
  <1> DEFINE L1 == L \ {k}
             d1 == [d EXCEPT ![k] = old.count + 1]
             M1 == M + old.count + 1
             left1 == [c \in 0 .. n - 1 |->
                         IF c = i THEN [hh_head |-> hh_next[k], count |-> left[i].count - 1] ELSE left[c]]
  <1>11. old.count \in Nat /\ M1 \in Nat /\ d1 \in [Key -> 0 .. M1]
    <2>1. old.count \in Nat
      BY <1>6, <1>7 DEF Counted
    <2> HIDE DEF old
    <2>2. old.count + 1 \in 0 .. M1 /\ M1 \in Nat /\ \A j \in Key : d[j] \in 0 .. M1
      BY <2>1
    <2> HIDE DEF M1
    <2> QED BY <2>1, <2>2
  <1>12. \A c \in 0 .. n - 1 : c # i => left1[c] = left[c]
    OBVIOUS
  <1>13. left1[i].hh_head = hh_next[k] /\ left1[i].count = left[i].count - 1
    BY <1>6
  <1> HIDE DEF b, n, i, k, old, d1, M1, left1
  <1>14. hh_next'[k] = old.hh_head /\ \A j \in P : j # k => hh_next'[j] = hh_next[j]
    BY <1>4, <1>6
  <1>15. /\ Chained((P \ L) \cup {k}, d1, 2 * n, expand'.new, hash, hh_next')
         /\ Backed((P \ L) \cup {k}, d1, 2 * n, expand'.new, hash, hh_prev')
    <2>1. hh_prev'[k] = NULL
          /\ \A j \in P \ L : hh_prev'[j] = IF j = old.hh_head THEN k ELSE hh_prev[j]
      BY <1>4, <1>6, <1>10 DEF Patch
    <2>2. k \notin P \ L
      BY <1>10
    <2>3. Pushed(P \ L, k, b, 2 * n, expand.new, hh_next, hh_prev, expand'.new, hh_next', hh_prev')
      BY <2>1, <2>2, <1>4, <1>14 DEF Pushed, SameButBucket, old
    <2>4. d1 = [d EXCEPT ![k] = expand.new[b].count + 1] /\ b = Bucket(hash, k, 2 * n)
          /\ P \ L \in SUBSET Key
      BY DEF d1, b, old
    <2>5. /\ hash \in [Key -> Nat] /\ 2 * n \in Nat \ {0} /\ M \in Nat /\ d \in [Key -> 0 .. M]
          /\ Counted(expand.new, 2 * n) /\ k \in Key
          /\ Chained(P \ L, d, 2 * n, expand.new, hash, hh_next)
          /\ Backed(P \ L, d, 2 * n, expand.new, hash, hh_prev)
      BY <1>6, <1>9
    <2> QED BY <2>2, <2>3, <2>4, <2>5, ChainedPush
  <1>16. Chained(L1, d1, n, left1, hash, hh_next') /\ Counted(left1, n)
    <2>1. \A j \in L : j # k => hh_next'[j] = hh_next[j] /\ d1[j] = d[j]
      BY <1>14 DEF d1
    <2>2. Popped(L, k, i, n, d, left, hh_next, d1, left1, hh_next')
      BY <2>1, <1>10, <1>12, <1>13 DEF Popped, SameButBucket
    <2>3. i = Bucket(hash, k, n) /\ L \in SUBSET Key
      BY <1>10
    <2> QED BY <2>2, <2>3, <1>6, <1>9, <1>10, ChainedPop
  <1>17. \A c \in 0 .. n - 1 :
             left1[c].hh_head = IF c < i THEN NULL ELSE IF c = i THEN hh_next[k] ELSE buckets[c].hh_head
    BY <1>6, <1>9, <1>12, <1>13
  <1>18. (P \ L) \cup {k} = P \ L1
    BY <1>10
  <1>19. InExpansion(P)'
    <2>1. PICK L2, M2, d2, left2 : L2 = L1 /\ M2 = M1 /\ d2 = d1 /\ left2 = left1
      OBVIOUS
    <2>2. Expanding(P, L2, d2, left2)'
      BY <2>1, <1>4, <1>5, <1>15, <1>16, <1>17, <1>18 DEF Expanding
    <2>3. L2 \in SUBSET P /\ M2 \in Nat /\ d2 \in [Key -> 0 .. M2]
      BY <2>1, <1>11
    <2> QED BY <2>2, <2>3 DEF InExpansion
  <1>20. InOrder(P)'
    BY <1>2, <1>4, <1>5, <1>6 DEF Holds, InOrder
  <1>21. Stale(P, next)' /\ Stale(P, hh_next)'
    <2>1. \A j \in Key \ P : hh_next'[j] = hh_next[j]
      BY <1>4, <1>6, <1>10
    <2> QED BY <2>1, <1>2, <1>5, StaleGrows DEF Holds
  <1> QED BY <1>3, <1>4, <1>5, <1>6, <1>19, <1>20, <1>21 DEF IInv, Holds

\* An old bucket that is empty is left behind.
LEMMA ExpandBucketStep == IInv /\ ExpandBucket => IInv'
  <1> SUFFICES ASSUME IInv, ExpandBucket PROVE IInv'
    OBVIOUS
  <1>1. PICK V : Shape(V) /\ \E P \in SUBSET Key : Holds(P)
    BY DEF IInv
  <1>2. PICK P \in SUBSET Key : Holds(P)
    BY <1>1
  <1> DEFINE n == tbl.num_buckets
             i == expand.bkt_i
  <1>3. /\ expand' = [expand EXCEPT !.bkt_i = i + 1, !.thh = buckets[i + 1].hh_head]
        /\ UNCHANGED <<hash, head, next, prev, hh_next, hh_prev, tbl, buckets, sort>>
        /\ expand.active /\ expand.thh = NULL /\ i + 1 < n
    BY DEF ExpandBucket, links
  <1>4. expand \in ExpansionsOf(V, n) /\ buckets \in BucketsOf(V, n) /\ n \in Nat \ {0}
    BY <1>1, <1>3 DEF Shape, NotExpanding, TablesOf
  <1>5. i \in 0 .. n - 1 /\ i + 1 \in 0 .. n - 1 /\ buckets[i + 1].hh_head \in Link
    <2>1. i \in 0 .. n - 1
      BY <1>4 DEF ExpansionsOf
    <2>2. i + 1 \in 0 .. n - 1
      BY <2>1, <1>3, <1>4
    <2> HIDE DEF i
    <2> QED BY <2>1, <2>2, <1>4 DEF BucketsOf
  <1> HIDE DEF n, i
  <1>6. expand' \in ExpansionsOf(V, n) /\ expand'.active /\ expand'.new = expand.new
        /\ expand'.bkt_i = i + 1 /\ expand'.thh = buckets[i + 1].hh_head
    <2>1. expand' \in ExpansionsOf(V, n)
      BY <1>3, <1>4, <1>5 DEF ExpansionsOf
    <2>2. expand'.active
      BY <2>1 DEF ExpansionsOf
    <2>3. expand'.new = expand.new /\ expand'.bkt_i = i + 1 /\ expand'.thh = buckets[i + 1].hh_head
      BY <1>3, <1>4 DEF ExpansionsOf
    <2> QED BY <2>1, <2>2, <2>3
  <1>7. Shape(V)'
    BY <1>1, <1>3, <1>6 DEF Shape, n
  <1>8. InExpansion(P)'
    <2>1. PICK L \in SUBSET P, M \in Nat : \E d \in [Key -> 0 .. M] : \E left : Expanding(P, L, d, left)
      BY <1>2, <1>3 DEF Holds, InExpansion
    <2>2. PICK d \in [Key -> 0 .. M] : \E left : Expanding(P, L, d, left)
      BY <2>1
    <2>3. PICK left : Expanding(P, L, d, left)
      BY <2>2
    <2>4. \A c \in 0 .. n - 1 :
             left[c].hh_head = IF c < i THEN NULL ELSE IF c = i THEN NULL ELSE buckets[c].hh_head
      BY <2>3, <1>3 DEF Expanding, n, i
    <2>5. \A c \in 0 .. n - 1 :
             left[c].hh_head = IF c < i + 1 THEN NULL
                               ELSE IF c = i + 1 THEN buckets[i + 1].hh_head ELSE buckets[c].hh_head
      BY <2>4, <1>5
    <2>6. Expanding(P, L, d, left)'
      BY <2>3, <2>5, <1>3, <1>6 DEF Expanding, n
    <2> QED BY <2>6 DEF InExpansion
  <1>9. (IF sort.active THEN InSort(P) ELSE InOrder(P)) /\ ~sort.active
    BY <1>2, <1>3 DEF Holds
  <1>10. InOrder(P)'
    BY <1>3, <1>9 DEF InOrder
  <1> QED BY <1>2, <1>3, <1>6, <1>7, <1>8, <1>9, <1>10 DEF IInv, Holds

\* When the last old bucket is empty, all items hang in the new ones.
LEMMA ExpandDoneStep == IInv /\ ExpandDone => IInv'
  <1> SUFFICES ASSUME IInv, ExpandDone PROVE IInv'
    OBVIOUS
  <1>1. PICK V : Shape(V) /\ \E P \in SUBSET Key : Holds(P)
    BY DEF IInv
  <1>2. PICK P \in SUBSET Key : Holds(P)
    BY <1>1
  <1> DEFINE n == tbl.num_buckets
             i == expand.bkt_i
             ineff == IF tbl.nonideal_items > tbl.num_items \div 2 THEN tbl.ineff_expands + 1 ELSE 0
             stop == IF ineff > 1 THEN 1 ELSE tbl.noexpand
             log2 == tbl.log2_num_buckets + 1
  <1>0. PICK V1 : V1 = V \cup {ineff, stop, log2}
    OBVIOUS
  <1>4. expand \in ExpansionsOf(V, n) /\ n \in Nat \ {0} /\ tbl \in TablesOf(V) /\ 2 * n \in Nat \ {0}
    BY <1>1 DEF Shape, NotExpanding, TablesOf, ExpandDone
  <1>3. /\ tbl' = [tbl EXCEPT !.num_buckets = 2 * n, !.log2_num_buckets = log2,
                             !.ineff_expands = ineff, !.noexpand = stop]
        /\ UNCHANGED <<hash, head, next, prev, hh_next, hh_prev, sort>>
        /\ expand.active /\ expand.thh = NULL /\ i + 1 = n
        /\ expand' = NotExpanding /\ buckets' = expand.new
    BY <1>4 DEF ExpandDone, links, TablesOf
  <1>5. expand.new \in BucketsOf(V, 2 * n) /\ i \in 0 .. n - 1
    BY <1>4 DEF ExpansionsOf
  <1> HIDE DEF n, i, ineff, stop, log2
  <1>6. tbl' \in TablesOf(V1) /\ tbl'.num_buckets = 2 * n /\ tbl'.num_items = tbl.num_items
        /\ tbl'.tail = tbl.tail
    BY <1>0, <1>3, <1>4 DEF TablesOf
  <1>7. Shape(V1)'
    <2>1. buckets' \in BucketsOf(V1, tbl'.num_buckets)
      BY <1>0, <1>3, <1>5, <1>6 DEF BucketsOf
    <2>2. sort = NotSorting \/ sort \in SortsOf(V1)
      BY <1>0, <1>1 DEF Shape, SortsOf
    <2> QED BY <2>1, <2>2, <1>1, <1>3, <1>6 DEF Shape
  <1>8. InBuckets(P)'
    <2>1. PICK L \in SUBSET P, M \in Nat : \E d \in [Key -> 0 .. M] : \E left : Expanding(P, L, d, left)
      BY <1>2, <1>3 DEF Holds, InExpansion
    <2>2. PICK d \in [Key -> 0 .. M] : \E left : Expanding(P, L, d, left)
      BY <2>1
    <2>3. PICK left : Expanding(P, L, d, left)
      BY <2>2
    <2>4. \A c \in 0 .. n - 1 : left[c].hh_head = NULL
      <3>1. ASSUME NEW c \in 0 .. n - 1 PROVE left[c].hh_head = NULL
        <4>1. c < i \/ c = i
          BY <1>3, <1>4, <1>5
        <4> QED BY <4>1, <2>3, <1>3 DEF Expanding, n, i
      <3> QED BY <3>1
    <2>5. L = {}
      <3>1. SUFFICES ASSUME NEW k \in L PROVE FALSE
        OBVIOUS
      <3> DEFINE c == Bucket(hash, k, n)
      <3>2. c \in 0 .. n - 1
        BY <1>1, <1>4, BucketOf DEF Shape
      <3>3. d[k] \in 1 .. left[c].count
        BY <2>3 DEF Expanding, Chained, n
      <3>4. left[c].hh_head \in L \/ left[c].count = 0
        BY <2>3, <3>2 DEF Expanding, Chained, n
      <3>5. left[c].count = 0
        BY <2>4, <3>2, <3>4, TableAssumption
      <3> QED BY <3>3, <3>5
    <2>6. P \ L = P
      BY <2>5
    <2>7. /\ Chained(P, d, 2 * n, expand.new, hash, hh_next)
          /\ Backed(P, d, 2 * n, expand.new, hash, hh_prev)
      BY <2>3, <2>6 DEF Expanding, n
    <2> QED BY <2>7, <1>3, <1>6 DEF InBuckets
  <1>9. (IF sort.active THEN InSort(P) ELSE InOrder(P)) /\ ~sort.active
    BY <1>2, <1>3 DEF Holds
  <1>10. InOrder(P)'
    BY <1>3, <1>6, <1>9 DEF InOrder
  <1> QED BY <1>2, <1>3, <1>7, <1>8, <1>9, <1>10 DEF IInv, Holds, NotExpanding

\* With no table nothing hangs anywhere; what the links of the items freed say is stale.
LEMMA NoTableStep ==
    ASSUME IInv, Idle, NoTable, UNCHANGED <<hash, expand, sort>>
    PROVE  IInv'
  <1>1. PICK V : Shape(V) /\ \E P \in SUBSET Key : Holds(P)
    BY DEF IInv
  <1>2. PICK P \in SUBSET Key : Holds(P)
    BY <1>1
  <1> DEFINE N == HASH_INITIAL_NUM_BUCKETS
             none == [k \in Key |-> 0]
  <1>0. PICK V1 : V1 = V \cup {0, HASH_INITIAL_NUM_BUCKETS_LOG2}
    OBVIOUS
  <1>3. /\ head' = NULL /\ tbl' = HASH_MAKE_TABLE /\ buckets' = EmptyBuckets(N)
        /\ UNCHANGED <<hash, next, prev, hh_next, hh_prev, expand, sort>>
        /\ ~sort.active /\ ~expand.active /\ NULL \in Link /\ N \in Nat \ {0}
    BY InitialBuckets DEF NoTable, links, Idle, Link
  <1>4. tbl' \in TablesOf(V1) /\ tbl'.num_items = 0 /\ tbl'.num_buckets = N /\ tbl'.tail = NULL
    BY <1>0, <1>3 DEF HASH_MAKE_TABLE, TablesOf
  <1>5. buckets' \in BucketsOf(V1, N)
        /\ \A b \in 0 .. N - 1 : buckets'[b].count = 0 /\ buckets'[b].hh_head = NULL
    BY <1>0, <1>3 DEF EmptyBuckets, EmptyBucket, BucketsOf
  <1>6. expand = NotExpanding /\ sort = NotSorting
    BY <1>1, <1>3 DEF Shape, ExpansionsOf, SortsOf
  <1>7. Shape(V1)'
    BY <1>1, <1>3, <1>4, <1>5, <1>6 DEF Shape
  <1>8. none \in [Key -> Nat] /\ none \in [Key -> 0 .. 0] /\ 0 \in Nat
    OBVIOUS
  <1> HIDE DEF none
  <1>9. InOrder({})'
    <2>1. Ordered({}, none, 0, NULL, NULL, next', prev') /\ Ends({}, none, 0, next')
      BY DEF Ordered, Ends
    <2> QED BY <2>1, <1>3, <1>4, <1>8 DEF InOrder
  <1>10. InBuckets({})'
    <2>1. Chained({}, none, N, buckets', hash', hh_next') /\ Backed({}, none, N, buckets', hash', hh_prev')
      BY <1>5 DEF Chained, Backed
    <2> QED BY <2>1, <1>4, <1>8 DEF InBuckets
  <1>11. Stale({}, next') /\ Stale({}, hh_next')
    <2>1. next \in [Key -> Link] /\ hh_next \in [Key -> Link]
      BY <1>1 DEF Shape
    <2>2. Ranked(next) /\ Ranked(hh_next)
      BY <1>1, <1>2, Found
    <2> QED BY <2>1, <2>2, <1>3, RankedStale
  <1> QED BY <1>3, <1>7, <1>9, <1>10, <1>11 DEF IInv, Holds

\* HASH_CLEAR leaves no table.
LEMMA ClearStep == IInv /\ HASH_CLEAR => IInv'
  BY NoTableStep DEF HASH_CLEAR

\* What is deleted leaves the order of addition; the others close up.
LEMMA DeleteOrder ==
    ASSUME NEW V, Shape(V), Idle, NEW P \in SUBSET Key, Stale(P, next),
           NEW pos \in [Key -> Nat], Ordered(P, pos, tbl.num_items, head, tbl.tail, next, prev),
           Ends(P, pos, tbl.num_items, next),
           NEW k \in P, HASH_DELETE(k), ~(prev[k] = NULL /\ next[k] = NULL),
           NEW pos1, pos1 = ClosedUp(P, pos, k)
    PROVE  /\ pos1 \in [Key -> Nat]
           /\ Ordered(P \ {k}, pos1, tbl.num_items - 1, head', tbl'.tail, next', prev')
           /\ Ends(P \ {k}, pos1, tbl.num_items - 1, next')
           /\ Stale(P \ {k}, next')
           /\ tbl.num_items - 1 \in Nat /\ tbl'.num_items = tbl.num_items - 1
  <1>1. /\ head' = IF prev[k] = NULL THEN next[k] ELSE head
        /\ next' = Patch(next, prev[k], next[k]) /\ prev' = Patch(prev, next[k], prev[k])
        /\ tbl' = [tbl EXCEPT !.tail = TailWithout(k), !.num_items = @ - 1]
    BY DEF HASH_DELETE
  <1>2. /\ next \in [Key -> Link] /\ prev \in [Key -> Link] /\ tbl.num_items \in Nat
        /\ tbl \in TablesOf(V) /\ NULL \notin Key
    BY TableAssumption DEF Shape, TablesOf
  <1>3. tbl'.tail = TailWithout(k) /\ tbl'.num_items = tbl.num_items - 1
    BY <1>1, <1>2 DEF TablesOf
  <1>4. TakenOut(k, head, tbl.tail, next, prev, head', tbl'.tail, next', prev')
    BY <1>1, <1>3 DEF TakenOut, TailWithout
  <1>5. /\ pos1 \in [Key -> Nat]
        /\ Ordered(P \ {k}, pos1, tbl.num_items - 1, head', tbl'.tail, next', prev')
        /\ Ends(P \ {k}, pos1, tbl.num_items - 1, next')
    BY <1>2, <1>4, OrderedDelete
  <1>6. pos[k] \in 1 .. tbl.num_items
    BY DEF Ordered
  <1>7. /\ next[k] \in P \cup {NULL} /\ next[k] # k
        /\ prev[k] \in P \cup {NULL} /\ prev[k] # k
    <2>1. pos[k] # tbl.num_items => next[k] \in P /\ pos[next[k]] = pos[k] + 1
      BY <1>2, <1>6 DEF Ordered
    <2>2. pos[k] = tbl.num_items => next[k] = NULL
      BY DEF Ends
    <2>3. IF pos[k] = 1 THEN prev[k] = NULL ELSE prev[k] \in P /\ pos[prev[k]] = pos[k] - 1
      BY DEF Ordered
    <2> QED BY <1>2, <1>6, <2>1, <2>2, <2>3
  <1>8. Stale(P \ {k}, next')
    <2>1. next'[k] = next[k] /\ \A j \in Key \ P : next'[j] = next[j]
      BY <1>1, <1>2, <1>7 DEF Patch
    <2> QED BY <2>1, <1>2, <1>7, StaleDelete
  <1> QED BY <1>2, <1>3, <1>5, <1>6, <1>8

\* What is deleted is taken out of its place and of its bucket; the last takes the table.
LEMMA DeleteStep ==
    ASSUME IInv, NEW k \in Key, HASH_DELETE(k)
    PROVE  IInv'
  <1>1. PICK V : Shape(V) /\ \E P \in SUBSET Key : Holds(P)
    BY DEF IInv
  <1>2. PICK P \in SUBSET Key : Holds(P)
    BY <1>1
  <1>3. Idle /\ UNCHANGED <<hash, expand, sort>>
    BY DEF HASH_DELETE
  <1>4. k \in P /\ NULL \notin Key
    BY <1>1, <1>2, <1>3, Found, TableAssumption DEF HASH_DELETE
  <1>5. CASE prev[k] = NULL /\ next[k] = NULL
    BY <1>3, <1>5, NoTableStep DEF HASH_DELETE
  <1>6. CASE ~(prev[k] = NULL /\ next[k] = NULL)
    <2> DEFINE n == tbl.num_buckets
               b == Bucket(hash, k, n)
               items == tbl.num_items
               P1 == P \ {k}
    <2>1. /\ head' = IF prev[k] = NULL THEN next[k] ELSE head
          /\ next' = Patch(next, prev[k], next[k]) /\ prev' = Patch(prev, next[k], prev[k])
          /\ tbl' = [tbl EXCEPT !.tail = TailWithout(k), !.num_items = @ - 1]
          /\ buckets' = [buckets EXCEPT ![b].count = @ - 1,
                                        ![b].hh_head = IF @ = k THEN hh_next[k] ELSE @]
          /\ hh_next' = Patch(hh_next, hh_prev[k], hh_next[k])
          /\ hh_prev' = Patch(hh_prev, hh_next[k], hh_prev[k])
      BY <1>6 DEF HASH_DELETE, HASH_DEL_IN_BKT, Bucket
    <2>2. /\ hash \in [Key -> Nat] /\ n \in Nat \ {0} /\ items \in Nat /\ head \in Link
          /\ next \in [Key -> Link] /\ prev \in [Key -> Link]
          /\ hh_next \in [Key -> Link] /\ hh_prev \in [Key -> Link]
          /\ tbl \in TablesOf(V) /\ buckets \in BucketsOf(V, n) /\ tbl.tail \in Link
          /\ ~sort.active /\ ~expand.active
      BY <1>1, <1>3 DEF Shape, TablesOf, Idle
    <2>3. b \in 0 .. n - 1 /\ Counted(buckets, n)
      BY <2>2, BucketOf DEF BucketsOf, Counted
    <2> HIDE DEF b
    <2>4. PICK pos \in [Key -> Nat] : Ordered(P, pos, items, head, tbl.tail, next, prev)
                                    /\ Ends(P, pos, items, next)
      BY <1>2, <2>2 DEF Holds, InOrder
    <2>5. PICK M \in Nat : \E d \in [Key -> 0 .. M] : /\ Chained(P, d, n, buckets, hash, hh_next)
                                                  /\ Backed(P, d, n, buckets, hash, hh_prev)
      BY <1>2, <2>2 DEF Holds, InBuckets
    <2>6. PICK d \in [Key -> 0 .. M] : /\ Chained(P, d, n, buckets, hash, hh_next)
                                    /\ Backed(P, d, n, buckets, hash, hh_prev)
      BY <2>5
    <2>7. items - 1 \in Nat /\ buckets[b].count - 1 \in Nat
      <3>1. pos[k] \in 1 .. items
        BY <2>4, <1>4 DEF Ordered
      <3>2. d[k] \in 1 .. buckets[b].count /\ buckets[b].count \in Nat
        BY <2>3, <2>6, <1>4 DEF Chained, b, Counted
      <3> QED BY <3>1, <3>2, <2>2
    <2>0. PICK pos1 : pos1 = ClosedUp(P, pos, k)
      OBVIOUS
    <2>8. /\ pos1 \in [Key -> Nat]
          /\ Ordered(P1, pos1, items - 1, head', tbl'.tail, next', prev')
          /\ Ends(P1, pos1, items - 1, next')
          /\ Stale(P1, next')
      BY <1>1, <1>2, <1>3, <1>4, <1>6, <2>0, <2>4, DeleteOrder DEF Holds
    <2>9. /\ hh_next[k] \in P \cup {NULL} /\ hh_next[k] # k
          /\ hh_prev[k] \in P \cup {NULL} /\ hh_prev[k] # k
      <3>1. IF d[k] = 1 THEN hh_next[k] = NULL ELSE hh_next[k] \in P /\ d[hh_next[k]] = d[k] - 1
        BY <2>6, <1>4 DEF Chained
      <3>2. d[k] # buckets[b].count => hh_prev[k] \in P /\ d[hh_prev[k]] = d[k] + 1
        BY <2>6, <1>4 DEF Backed, b
      <3>3. d[k] = buckets[b].count => hh_prev[k] = NULL
        BY <2>6, <1>4 DEF Backed, b
      <3>4. d[k] \in Nat
        BY <1>4
      <3> QED BY <3>1, <3>2, <3>3, <3>4, <1>4
    <2>10. tbl' \in TablesOf(V) /\ tbl'.num_buckets = n /\ tbl'.num_items = items - 1
           /\ tbl'.tail = IF tbl.tail = k THEN prev[k] ELSE tbl.tail
      <3>1. TailWithout(k) \in Link
        BY <2>2 DEF TailWithout
      <3>2. tbl' \in TablesOf(V)
        BY <3>1, <2>1, <2>2, <2>7 DEF TablesOf
      <3>3. tbl'.num_buckets = n /\ tbl'.num_items = items - 1 /\ tbl'.tail = TailWithout(k)
        BY <2>1, <2>2 DEF TablesOf
      <3> QED BY <3>2, <3>3 DEF TailWithout
    <2>11. /\ buckets' \in BucketsOf(V, n)
           /\ buckets'[b].hh_head = IF buckets[b].hh_head = k THEN hh_next[k] ELSE buckets[b].hh_head
           /\ buckets'[b].count = buckets[b].count - 1
           /\ \A c \in 0 .. n - 1 : c # b => buckets'[c] = buckets[c]
      <3> DEFINE bkt == [buckets[b] EXCEPT !.count = @ - 1,
                                          !.hh_head = IF @ = k THEN hh_next[k] ELSE @]
      <3>1. buckets[b] \in [hh_head : Link, count : Nat, expand_mult : V]
        BY <2>2, <2>3 DEF BucketsOf
      <3>2. bkt.hh_head = (IF buckets[b].hh_head = k THEN hh_next[k] ELSE buckets[b].hh_head)
            /\ bkt.count = buckets[b].count - 1
        BY <3>1
      <3>3. bkt \in [hh_head : Link, count : Nat, expand_mult : V]
        <4>1. hh_next[k] \in Link
          BY <2>2
        <4> QED BY <3>1, <2>7, <4>1
      <3>4. buckets' = [buckets EXCEPT ![b] = bkt]
        BY <2>1, <2>2, <2>3, <3>1 DEF BucketsOf
      <3> HIDE DEF bkt
      <3> QED BY <3>2, <3>3, <3>4, <2>2, <2>3 DEF BucketsOf
    <2>12. Shape(V)'
      <3>1. next' \in [Key -> Link] /\ prev' \in [Key -> Link] /\ head' \in Link
            /\ hh_next' \in [Key -> Link] /\ hh_prev' \in [Key -> Link]
        BY <2>1, <2>2 DEF Patch
      <3>2. buckets' \in BucketsOf(V, tbl'.num_buckets)
        BY <2>10, <2>11
      <3>3. expand = NotExpanding /\ (sort = NotSorting \/ sort \in SortsOf(V))
        BY <1>1, <2>2 DEF Shape, ExpansionsOf
      <3> QED BY <3>1, <3>2, <3>3, <2>2, <2>10, <1>3 DEF Shape
    <2>13. InOrder(P1)'
      <3> HIDE DEF P1
      <3> QED BY <2>8, <2>10 DEF InOrder
    <2>14. InBuckets(P1)'
      <3>1. Unlinked(k, b, n, buckets, hh_next, hh_prev, buckets', hh_next', hh_prev')
        BY <2>1, <2>11 DEF Unlinked, SameButBucket
      <3>2. b = Bucket(hash, k, n)
        BY DEF b
      <3>3. PICK d1 \in [Key -> 0 .. M] : /\ Chained(P1, d1, n, buckets', hash, hh_next')
                                       /\ Backed(P1, d1, n, buckets', hash, hh_prev')
        BY <3>1, <3>2, <2>2, <2>3, <2>6, <1>4, ChainedDelete
      <3> HIDE DEF P1
      <3> QED BY <3>3, <2>10, <1>3 DEF InBuckets
    <2>15. Stale(P1, next')
      BY <2>8
    <2>16. Stale(P1, hh_next')
      <3>1. hh_next'[k] = hh_next[k] /\ \A j \in Key \ P : hh_next'[j] = hh_next[j]
        BY <2>1, <2>2, <2>9 DEF Patch
      <3> QED BY <3>1, <2>2, <2>9, <1>2, <1>4, StaleDelete DEF Holds
    <2>17. P1 \in SUBSET Key
      OBVIOUS
    <2> HIDE DEF P1
    <2> QED BY <1>3, <2>2, <2>12, <2>13, <2>14, <2>15, <2>16, <2>17 DEF IInv, Holds
  <1> QED BY <1>5, <1>6

\* A pass begins with all items in one run to come.
LEMMA BeginPass ==
    ASSUME NEW P \in SUBSET Key, NEW pos \in [Key -> Nat], NEW n \in Nat \ {0},
           NEW first, NEW last,
           Ordered(P, pos, n, first, last, next', prev'), Ends(P, pos, n, next'),
           sort'.p = first, sort'.q = first, sort'.psize = 0, sort'.counting,
           sort'.list = NULL, sort'.tail = NULL, tbl'.num_items = n,
           NEW z, z = n + 1
    PROVE  Sorting(P, P, pos, pos, 0, 1, 1, 1, z)' /\ InSort(P)'
  <1>1. P \ P = {}
    OBVIOUS
  <1>2. Ordered({}, pos, 0, NULL, NULL, next', prev')
    BY DEF Ordered
  <1>3. /\ \A k \in P : pos[k] \in 1 .. n
        /\ \A j, k \in P : pos[j] = pos[k] => j = k
        /\ first \in P /\ pos[first] = 1
        /\ \A k \in P : pos[k] = n => next'[k] = NULL
        /\ \A k \in P : pos[k] < n => next'[k] \in P /\ pos[next'[k]] = pos[k] + 1
    BY DEF Ordered, Ends
  <1>4. Runs(P, pos, 1, 1, 1, z)'
    <2>1. 1 <= n + 1 /\ 1 < n + 1 /\ 1 # n + 1 /\ ~(1 < 1) /\ 1 - 1 = 0
      OBVIOUS
    <2>2. \A k \in P : pos[k] \in 1 .. (n + 1) - 1
      BY <1>3
    <2>3. \A k \in P : /\ pos[k] + 1 = n + 1 => next'[k] = NULL
                       /\ pos[k] + 1 < n + 1 => next'[k] \in P /\ pos[next'[k]] = pos[k] + 1
      BY <1>3
    <2>4. \A k \in P : pos[k] \in 1 .. 1 - 1 \/ pos[k] \in 1 .. (n + 1) - 1
      BY <2>2
    <2>5. sort'.q \in P /\ pos[sort'.q] = 1 /\ sort'.p = sort'.q /\ sort'.psize = 1 - 1
      BY <1>3, <2>1
    <2>6. \A k \in P : /\ pos[k] + 1 = n + 1 => next'[k] = NULL
                       /\ pos[k] + 1 < n + 1 /\ (pos[k] + 1 # 1 \/ 1 = 1) =>
                              next'[k] \in P /\ pos[next'[k]] = pos[k] + 1
      BY <2>3
    <2>7. \A j, k \in P : pos[j] = pos[k] => j = k
      BY <1>3
    <2>9. /\ 1 <= 1 /\ 1 <= z
          /\ sort'.psize = 1 - 1
          /\ 1 < z /\ sort'.p = sort'.q /\ ~(1 < 1) /\ 1 # z
      BY <2>1, <2>5
    <2> QED BY <2>4, <2>5, <2>6, <2>7, <2>9 DEF Runs
  <1>5. Sorting(P, P, pos, pos, 0, 1, 1, 1, z)'
    BY <1>1, <1>2, <1>4 DEF Sorting
  <1>6. P \in SUBSET P /\ z \in Nat /\ 0 \in Nat /\ 1 \in Nat
    OBVIOUS
  <1> QED BY <1>5, <1>6 DEF InSort

\* What a step of the sort does to the rest.
LEMMA SortRest ==
    ASSUME NEW V, Shape(V), NEW P \in SUBSET Key, Holds(P), ~expand.active,
           NEW V1, V \subseteq V1, sort' = NotSorting \/ sort' \in SortsOf(V1),
           head' \in Link, next' \in [Key -> Link], prev' \in [Key -> Link],
           \A j \in Key \ P : next'[j] = next[j],
           tbl' \in TablesOf(V1), tbl'.num_buckets = tbl.num_buckets,
           UNCHANGED <<hash, hh_next, hh_prev, buckets, expand>>,
           IF sort'.active THEN InSort(P)' ELSE InOrder(P)'
    PROVE  IInv'
  <1>1. Shape(V1)'
    <2>1. buckets \in BucketsOf(V1, tbl.num_buckets)
      BY DEF Shape, BucketsOf
    <2>2. expand = NotExpanding
      BY DEF Shape, ExpansionsOf
    <2> QED BY <2>1, <2>2 DEF Shape
  <1>2. InBuckets(P)'
    BY DEF Holds, InBuckets
  <1>3. Stale(P, next') /\ Stale(P, hh_next')
    BY StaleGrows DEF Holds
  <1> QED BY <1>1, <1>2, <1>3 DEF IInv, Holds

\* The state of a merge that begins.
MergeBegun(m, s, p) ==
    /\ m.p = p /\ m.q = p /\ m.psize = 0 /\ m.counting
    /\ m.list = s.list /\ m.tail = s.tail /\ m.active
    /\ m.nmerges = s.nmerges + 1 /\ m.insize = s.insize
    /\ m.qsize = s.qsize /\ m.order = s.order

\* A merge is a sort in progress that begins one.
LEMMA MergeShape ==
    ASSUME NEW V, NEW s \in SortsOf(V), NEW p \in Link
    PROVE  /\ Merge(s, p) \in SortsOf(V \cup {s.nmerges + 1})
           /\ MergeBegun(Merge(s, p), s, p)
  <1> DEFINE m == Merge(s, p)
  <1>1. m = [s EXCEPT !.nmerges = s.nmerges + 1, !.p = p, !.q = p, !.psize = 0, !.counting = TRUE]
    BY DEF Merge
  <1>2. m \in SortsOf(V \cup {s.nmerges + 1})
    <2>1. PICK V1 : V1 = V \cup {s.nmerges + 1}
      OBVIOUS
    <2>2. s \in SortsOf(V1)
      BY <2>1 DEF SortsOf
    <2>3. s.nmerges + 1 \in V1
      BY <2>1
    <2>4. PICK i : i = s.nmerges + 1
      OBVIOUS
    <2>5. [s EXCEPT !.nmerges = i, !.p = p, !.q = p, !.psize = 0, !.counting = TRUE] \in SortsOf(V1)
      BY <2>2, <2>3, <2>4 DEF SortsOf
    <2> QED BY <1>1, <2>1, <2>4, <2>5
  <1>3. /\ m.p = p /\ m.q = p /\ m.psize = 0 /\ m.counting
        /\ m.list = s.list /\ m.tail = s.tail /\ m.active
        /\ m.nmerges = s.nmerges + 1 /\ m.insize = s.insize
        /\ m.qsize = s.qsize /\ m.order = s.order
    BY <1>1 DEF SortsOf
  <1> QED BY <1>2, <1>3 DEF MergeBegun

\* The state of a pass that begins.
PassBegun(m, p, insize, order) ==
    /\ m.p = p /\ m.q = p /\ m.psize = 0 /\ m.counting
    /\ m.list = NULL /\ m.tail = NULL /\ m.active
    /\ m.nmerges = 1 /\ m.insize = insize /\ m.order = order

\* A pass is a sort in progress that begins its first merge.
LEMMA PassShape ==
    ASSUME NEW V, NEW s \in SortsOf(V), NEW p \in Link, NEW insize \in V, 0 \in V
    PROVE  /\ Pass(s, p, insize) \in SortsOf(V \cup {0 + 1})
           /\ PassBegun(Pass(s, p, insize), p, insize, s.order)
  <1>0. PICK t : t = [s EXCEPT !.list = NULL, !.tail = NULL, !.nmerges = 0, !.insize = insize]
    OBVIOUS
  <1>1. Pass(s, p, insize) = Merge(t, p)
    BY <1>0 DEF Pass
  <1>2. t \in SortsOf(V)
    BY <1>0 DEF SortsOf, Link
  <1>3. /\ t.list = NULL /\ t.tail = NULL /\ t.nmerges = 0
        /\ t.insize = insize /\ t.order = s.order
    BY <1>0 DEF SortsOf
  <1>4. PICK m : m = Merge(t, p)
    OBVIOUS
  <1>5. /\ m \in SortsOf(V \cup {t.nmerges + 1})
        /\ m.p = p /\ m.q = p /\ m.psize = 0 /\ m.counting
        /\ m.list = t.list /\ m.tail = t.tail /\ m.active
        /\ m.nmerges = t.nmerges + 1 /\ m.insize = t.insize /\ m.order = t.order
    BY <1>2, <1>4, MergeShape DEF MergeBegun
  <1> QED BY <1>1, <1>3, <1>4, <1>5 DEF PassBegun

\* HASH_SRT begins a pass of runs of one.
LEMMA SortBegins ==
    ASSUME NEW V, Shape(V), HASH_SRT,
           NEW V1, V1 = V \cup {0, 1, AppOrder}
    PROVE  /\ sort' \in SortsOf(V1)
           /\ sort'.p = head /\ sort'.q = head /\ sort'.psize = 0 /\ sort'.counting
           /\ sort'.list = NULL /\ sort'.tail = NULL /\ sort'.active
           /\ sort'.nmerges = 1 /\ sort'.insize = 1 /\ sort'.order = AppOrder
  <1>4. PICK o : o = AppOrder
    OBVIOUS
  <1> DEFINE s0 == [active |-> TRUE, counting |-> TRUE, insize |-> 1, nmerges |-> 0,
                    p |-> head, q |-> head, psize |-> 0, qsize |-> 0,
                    list |-> NULL, tail |-> NULL, order |-> o]
  <1>1. V1 = V \cup {0, 1, o}
    BY <1>4
  <1>5. s0 \in SortsOf(V1) /\ head \in Link /\ 1 \in V1 /\ 0 \in V1
    BY <1>1 DEF Shape, Link, SortsOf
  <1>6. sort' = Pass(s0, head, 1)
    BY <1>4 DEF HASH_SRT
  <1>7. s0.order = AppOrder
    BY <1>4
  <1> HIDE DEF s0
  <1>8. V1 \cup {0 + 1} = V1
    BY <1>5
  <1>9. sort' \in SortsOf(V1) /\ PassBegun(sort', head, 1, AppOrder)
    BY <1>5, <1>6, <1>7, <1>8, PassShape
  <1> QED BY <1>9 DEF PassBegun

\* The first pass begins with the order of addition as it is.
LEMMA SortStep == IInv /\ HASH_SRT => IInv'
  <1> SUFFICES ASSUME IInv, HASH_SRT PROVE IInv'
    OBVIOUS
  <1>1. PICK V : Shape(V) /\ \E P \in SUBSET Key : Holds(P)
    BY DEF IInv
  <1>2. PICK P \in SUBSET Key : Holds(P)
    BY <1>1
  <1>3. /\ UNCHANGED <<hash, head, next, prev, hh_next, hh_prev, tbl, buckets, expand>>
        /\ ~expand.active /\ ~sort.active /\ head # NULL
    BY DEF HASH_SRT, Idle, links
  <1>4. PICK V1 : V1 = V \cup {0, 1, AppOrder}
    OBVIOUS
  <1>5. /\ sort' \in SortsOf(V1)
        /\ sort'.p = head /\ sort'.q = head /\ sort'.psize = 0 /\ sort'.counting
        /\ sort'.list = NULL /\ sort'.tail = NULL /\ sort'.active
    BY <1>1, <1>4, SortBegins
  <1>7. PICK pos \in [Key -> Nat] : Ordered(P, pos, tbl.num_items, head, tbl.tail, next, prev)
                                  /\ Ends(P, pos, tbl.num_items, next)
    BY <1>2, <1>3 DEF Holds, InOrder
  <1>12. V \subseteq V1
    BY <1>4
  <1>8. tbl \in TablesOf(V) /\ tbl \in TablesOf(V1) /\ tbl.num_items \in Nat
    BY <1>1, <1>12 DEF Shape, TablesOf
  <1>9. tbl.num_items # 0
    BY <1>3, <1>7 DEF Ordered
  <1>10. InSort(P)'
    <2>1. PICK z : z = tbl.num_items + 1
      OBVIOUS
    <2> QED BY <1>3, <1>5, <1>7, <1>8, <1>9, <2>1, BeginPass
  <1> QED BY <1>1, <1>2, <1>3, <1>5, <1>8, <1>10, <1>12, SortRest DEF Shape

\* What is known of the sort in progress.
LEMMA InProgress ==
    ASSUME IInv, sort.active
    PROVE  \E V : \E P \in SUBSET Key :
              /\ Shape(V) /\ Holds(P) /\ ~expand.active /\ sort \in SortsOf(V)
              /\ tbl \in TablesOf(V) /\ InSort(P)
  BY DEF IInv, Holds, Shape, NotSorting

\* The sort in progress and where everything is in it.
SortAt(V, P, R, pos, at, nd, x, w, y, z) ==
    /\ Shape(V) /\ sort \in SortsOf(V)
    /\ P \in SUBSET Key /\ R \in SUBSET P /\ pos \in [Key -> Nat] /\ at \in [Key -> Nat]
    /\ nd \in Nat /\ x \in Nat /\ w \in Nat /\ y \in Nat /\ z \in Nat
    /\ Sorting(P, R, pos, at, nd, x, w, y, z)

\* A round that counts moves the end of the first run on by one.
LEMMA CountSorting ==
    ASSUME NEW V, NEW P, NEW R, NEW pos, NEW at, NEW nd, NEW x, NEW w, NEW y, NEW z,
           SortAt(V, P, R, pos, at, nd, x, w, y, z), CountRun, NEW y1, y1 = y + 1
    PROVE  /\ sort' \in SortsOf(V) /\ sort'.active /\ Sorting(P, R, pos, at, nd, x, y1, y1, z)'
           /\ w = y /\ sort.psize = w - x /\ sort'.qsize = sort.insize
           /\ sort'.counting <=> y1 # z /\ sort.psize + 1 < sort.insize
           /\ sort'.insize = sort.insize /\ sort'.nmerges = sort.nmerges
           /\ sort'.order = sort.order
  <1> USE DEF SortAt
  <1>4. /\ sort.active /\ sort.counting
        /\ UNCHANGED <<hash, head, next, prev, hh_next, hh_prev, tbl, buckets, expand>>
    BY DEF CountRun, links
  <1>5. PICK q, ps, c : q = next[sort.q] /\ ps = sort.psize + 1
                        /\ c = (q # NULL /\ ps < sort.insize)
    OBVIOUS
  <1>6. sort' = [sort EXCEPT !.psize = ps, !.q = q, !.qsize = sort.insize, !.counting = c]
    BY <1>5 DEF CountRun
  <1>7. /\ w = y /\ y < z /\ (x = w => sort.p = sort.q) /\ x <= w
        /\ sort.q \in R /\ at[sort.q] = y /\ sort.psize = w - x
    BY <1>4 DEF Sorting, Runs
  <1>8. /\ sort' \in SortsOf(V) /\ sort'.active /\ sort'.psize = ps /\ sort'.q = q
        /\ sort'.counting = c /\ sort'.p = sort.p /\ sort'.list = sort.list /\ sort'.tail = sort.tail
        /\ sort'.qsize = sort.insize /\ sort'.insize = sort.insize
        /\ sort'.nmerges = sort.nmerges /\ sort'.order = sort.order
    <2>1. q \in Link /\ ps \in Nat /\ sort.insize \in V /\ c \in BOOLEAN
      <3>1. sort.psize \in Nat /\ sort.insize \in V
        BY DEF SortsOf
      <3>2. sort.q \in Key /\ next \in [Key -> Link]
        BY <1>7 DEF Shape
      <3> QED BY <3>1, <3>2, <1>5
    <2>2. sort' \in SortsOf(V)
      BY <2>1, <1>6 DEF SortsOf
    <2>3. /\ sort'.psize = ps /\ sort'.q = q /\ sort'.counting = c /\ sort'.p = sort.p
          /\ sort'.list = sort.list /\ sort'.tail = sort.tail
          /\ sort'.qsize = sort.insize /\ sort'.insize = sort.insize
          /\ sort'.nmerges = sort.nmerges /\ sort'.order = sort.order
      BY <1>6 DEF SortsOf
    <2> QED BY <2>2, <2>3 DEF SortsOf
  <1>9. IF y1 = z THEN q = NULL ELSE q \in R /\ at[q] = y1 /\ q # NULL
    <2>1. \A k \in R : /\ at[k] + 1 = z => next[k] = NULL
                       /\ at[k] + 1 < z => next[k] \in R /\ at[next[k]] = at[k] + 1
      BY <1>7 DEF Sorting, Runs
    <2>2. \A k \in R : k # NULL
      BY TableAssumption
    <2> QED BY <2>1, <2>2, <1>5, <1>7
  <1>10. Runs(R, at, x, y1, y1, z)'
    <2>1. \A k \in R : /\ at[k] \in Nat /\ (at[k] \in x .. w - 1 \/ at[k] \in y .. z - 1)
                       /\ at[k] + 1 = z => next[k] = NULL
                       /\ at[k] + 1 < z => next[k] \in R /\ at[next[k]] = at[k] + 1
      BY <1>7 DEF Sorting, Runs
    <2>8. x <= y1 /\ y1 <= z /\ ps = y1 - x /\ x # y1
      BY <1>5, <1>7
    <2>9. c => y1 # z
      BY <1>5, <1>9
    <2>4. x <= y1 /\ y1 <= z /\ ps = y1 - x /\ (c => y1 < z) /\ x # y1
      BY <2>8, <2>9
    <2>5. \A k \in R : at[k] \in x .. y1 - 1 \/ at[k] \in y1 .. z - 1
      BY <2>1, <1>7
    <2>6. x < y1 => sort.p \in R /\ at[sort.p] = x
      BY <1>7 DEF Sorting, Runs
    <2>7. \A j, k \in R : at[j] = at[k] => j = k
      BY DEF Sorting, Runs
    <2> QED BY <1>4, <1>8, <1>9, <2>1, <2>4, <2>5, <2>6, <2>7 DEF Runs
  <1>11. Sorting(P, R, pos, at, nd, x, y1, y1, z)'
    <2>1. nd + (y1 - x) + (z - y1) = tbl.num_items /\ tbl.num_items # 0
      BY <1>7 DEF Sorting
    <2> QED BY <2>1, <1>4, <1>8, <1>10 DEF Sorting
  <1>12. sort'.counting <=> y1 # z /\ sort.psize + 1 < sort.insize
    BY <1>5, <1>8, <1>9
  <1> QED BY <1>7, <1>8, <1>11, <1>12

\* The first run grows by one until the second is reached.
LEMMA CountStep == IInv /\ CountRun => IInv'
  <1> SUFFICES ASSUME IInv, CountRun PROVE IInv'
    OBVIOUS
  <1>1. PICK V : \E P \in SUBSET Key :
              /\ Shape(V) /\ Holds(P) /\ ~expand.active /\ sort \in SortsOf(V)
              /\ tbl \in TablesOf(V) /\ InSort(P)
    BY InProgress DEF CountRun
  <1>2. PICK P \in SUBSET Key :
              /\ Shape(V) /\ Holds(P) /\ ~expand.active /\ sort \in SortsOf(V)
              /\ tbl \in TablesOf(V) /\ InSort(P)
    BY <1>1
  <1>3. PICK R \in SUBSET P, pos \in [Key -> Nat], at \in [Key -> Nat],
             nd \in Nat, x \in Nat, w \in Nat, y \in Nat, z \in Nat :
               Sorting(P, R, pos, at, nd, x, w, y, z)
    BY <1>2 DEF InSort
  <1>0. SortAt(V, P, R, pos, at, nd, x, w, y, z)
    BY <1>2, <1>3 DEF SortAt
  <1>4. UNCHANGED <<hash, head, next, prev, hh_next, hh_prev, tbl, buckets, expand>>
    BY DEF CountRun, links
  <1>5. PICK y1 \in Nat : y1 = y + 1
    OBVIOUS
  <1>6. sort' \in SortsOf(V) /\ sort'.active /\ Sorting(P, R, pos, at, nd, x, y1, y1, z)'
    BY <1>0, <1>5, CountSorting
  <1>7. InSort(P)'
    BY <1>6 DEF InSort
  <1> QED BY <1>2, <1>4, <1>6, <1>7, SortRest DEF Shape

\* Both runs are used up, and the next begin where the second ended.
LEMMA NextMergeSorting ==
    ASSUME NEW V, NEW P, NEW R, NEW pos, NEW at, NEW nd, NEW x, NEW w, NEW y, NEW z,
           SortAt(V, P, R, pos, at, nd, x, w, y, z), NextMerge,
           NEW V1, V1 = V \cup {sort.nmerges + 1}
    PROVE  /\ sort' \in SortsOf(V1) /\ sort'.active /\ Sorting(P, R, pos, at, nd, y, y, y, z)'
           /\ x = w /\ w <= y /\ y < z /\ sort'.counting
           /\ sort'.insize = sort.insize /\ sort'.nmerges = sort.nmerges + 1
           /\ sort'.qsize = sort.qsize /\ sort'.order = sort.order
  <1> USE DEF SortAt
  <1>4. /\ sort.psize = 0 /\ sort.q # NULL /\ sort' = Merge(sort, sort.q)
        /\ UNCHANGED <<hash, head, next, prev, hh_next, hh_prev, tbl, buckets, expand>>
    BY DEF NextMerge, Merged, links
  <1>5. /\ sort' \in SortsOf(V1) /\ sort'.active /\ sort'.counting /\ sort'.psize = 0
        /\ sort'.p = sort.q /\ sort'.q = sort.q /\ sort'.list = sort.list /\ sort'.tail = sort.tail
        /\ sort'.insize = sort.insize /\ sort'.nmerges = sort.nmerges + 1
        /\ sort'.qsize = sort.qsize /\ sort'.order = sort.order
    <2>1. sort \in SortsOf(V) /\ sort.q \in Link
      BY DEF SortsOf
    <2> HIDE DEF SortAt
    <2>2. sort' \in SortsOf(V1) /\ MergeBegun(sort', sort, sort.q)
      BY <1>4, <2>1, MergeShape
    <2> QED BY <2>2 DEF MergeBegun
  <1>6. x = w /\ w <= y /\ y < z /\ sort.q \in R /\ at[sort.q] = y
    BY <1>4 DEF Sorting, Runs
  <1>7. Runs(R, at, y, y, y, z)'
    <2>1. \A k \in R : at[k] \in Nat /\ at[k] \in y .. z - 1
      BY <1>6 DEF Sorting, Runs
    <2>2. \A k \in R : /\ at[k] + 1 = z => next[k] = NULL
                       /\ at[k] + 1 < z => next[k] \in R /\ at[next[k]] = at[k] + 1
      BY <2>1, <1>6 DEF Sorting, Runs
    <2>3. \A j, k \in R : at[j] = at[k] => j = k
      BY DEF Sorting, Runs
    <2>4. y <= y /\ y <= z /\ ~(y < y) /\ y # z /\ 0 = y - y
      BY <1>6
    <2>5. \A k \in R : at[k] \in y .. y - 1 \/ at[k] \in y .. z - 1
      BY <2>1
    <2> QED BY <1>4, <1>5, <1>6, <2>2, <2>3, <2>4, <2>5 DEF Runs
  <1>8. Sorting(P, R, pos, at, nd, y, y, y, z)'
    <2>1. nd + (y - y) + (z - y) = tbl.num_items /\ tbl.num_items # 0
      BY <1>6 DEF Sorting
    <2> QED BY <2>1, <1>4, <1>5, <1>7 DEF Sorting
  <1> QED BY <1>5, <1>6, <1>8

\* The next merge is of what comes behind.
LEMMA NextMergeStep == IInv /\ NextMerge => IInv'
  <1> SUFFICES ASSUME IInv, NextMerge PROVE IInv'
    OBVIOUS
  <1>1. PICK V : \E P \in SUBSET Key :
              /\ Shape(V) /\ Holds(P) /\ ~expand.active /\ sort \in SortsOf(V)
              /\ tbl \in TablesOf(V) /\ InSort(P)
    BY InProgress DEF NextMerge, Merged, Merging
  <1>2. PICK P \in SUBSET Key :
              /\ Shape(V) /\ Holds(P) /\ ~expand.active /\ sort \in SortsOf(V)
              /\ tbl \in TablesOf(V) /\ InSort(P)
    BY <1>1
  <1>3. PICK R \in SUBSET P, pos \in [Key -> Nat], at \in [Key -> Nat],
             nd \in Nat, x \in Nat, w \in Nat, y \in Nat, z \in Nat :
               Sorting(P, R, pos, at, nd, x, w, y, z)
    BY <1>2 DEF InSort
  <1>0. SortAt(V, P, R, pos, at, nd, x, w, y, z)
    BY <1>2, <1>3 DEF SortAt
  <1>4. UNCHANGED <<hash, head, next, prev, hh_next, hh_prev, tbl, buckets, expand>>
    BY DEF NextMerge, links
  <1>5. PICK V1 : V1 = V \cup {sort.nmerges + 1}
    OBVIOUS
  <1>6. sort' \in SortsOf(V1) /\ sort'.active /\ Sorting(P, R, pos, at, nd, y, y, y, z)'
    BY <1>0, <1>5, NextMergeSorting
  <1>7. InSort(P)'
    BY <1>6 DEF InSort
  <1>8. V \subseteq V1 /\ tbl \in TablesOf(V1)
    BY <1>2, <1>5 DEF TablesOf
  <1> QED BY <1>2, <1>4, <1>6, <1>7, <1>8, SortRest DEF Shape

\* When the second run ends the list, all are merged and the last is the end.
LEMMA PassMerged ==
    ASSUME NEW V, NEW P, NEW R, NEW pos, NEW at, NEW nd, NEW x, NEW w, NEW y, NEW z,
           SortAt(V, P, R, pos, at, nd, x, w, y, z), EndPass
    PROVE  /\ x = w /\ y = z /\ R = {} /\ nd = tbl.num_items /\ tbl.num_items \in Nat \ {0}
           /\ sort.list \in P /\ sort.tail \in P
           /\ Ordered(P, pos, tbl.num_items, sort.list, sort.tail, next', prev')
           /\ Ends(P, pos, tbl.num_items, next')
           /\ next' \in [Key -> Link] /\ \A j \in Key \ P : next'[j] = next[j]
  <1> USE DEF SortAt
  <1>4. /\ sort.psize = 0 /\ sort.q = NULL /\ next' = Patch(next, sort.tail, NULL)
        /\ UNCHANGED <<hash, prev, hh_next, hh_prev, buckets, expand>>
    BY DEF EndPass, Merged
  <1>5. NULL \notin Key /\ NULL \in Link
    BY TableAssumption DEF Link
  <1> DEFINE n == tbl.num_items
  <1>6. /\ x = w /\ y = z /\ R = {} /\ nd = n /\ n \in Nat \ {0}
    <2>1. x = w /\ y = z
      BY <1>4, <1>5 DEF Sorting, Runs
    <2>2. \A k \in R : at[k] \in w .. w - 1 \/ at[k] \in z .. z - 1
      BY <2>1 DEF Sorting, Runs
    <2>3. R = {}
      BY <2>2
    <2>4. nd + (w - w) + (z - z) = n /\ n # 0
      BY <2>1 DEF Sorting
    <2> QED BY <2>1, <2>3, <2>4
  <1>7. /\ Ordered(P, pos, n, sort.list, sort.tail, next, prev)
        /\ sort.tail \in P /\ sort.list \in P
    <2>1. P \ R = P
      BY <1>6
    <2>2. Ordered(P, pos, n, sort.list, sort.tail, next, prev)
      BY <1>6, <2>1 DEF Sorting
    <2> QED BY <2>2, <1>6 DEF Ordered
  <1>8. next \in [Key -> Link] /\ prev \in [Key -> Link] /\ head \in Link
    BY DEF Shape
  <1>9. /\ next' \in [Key -> Link] /\ next'[sort.tail] = NULL
        /\ \A j \in Key : j # sort.tail => next'[j] = next[j]
    BY <1>4, <1>5, <1>7, <1>8 DEF Patch
  <1>10. /\ Ordered(P, pos, n, sort.list, sort.tail, next', prev')
         /\ Ends(P, pos, n, next')
    <2>1. pos[sort.tail] = n /\ \A k \in P : pos[k] = n => k = sort.tail
      BY <1>6, <1>7 DEF Ordered
    <2>2. Ends(P, pos, n, next')
      BY <2>1, <1>9 DEF Ends
    <2>3. \A k \in P : pos[k] < n => next'[k] = next[k]
      BY <2>1, <1>6, <1>9
    <2>4. prev' = prev
      BY <1>4
    <2>5. Ordered(P, pos, n, sort.list, sort.tail, next', prev)
      BY <1>7, <2>3 DEF Ordered
    <2> QED BY <2>2, <2>4, <2>5
  <1>11. \A j \in Key \ P : next'[j] = next[j]
    BY <1>7, <1>9
  <1> QED BY <1>6, <1>7, <1>9, <1>10, <1>11

\* All are merged: that is the order of addition, or what the next pass begins with.
LEMMA EndPassStep == IInv /\ EndPass => IInv'
  <1> SUFFICES ASSUME IInv, EndPass PROVE IInv'
    OBVIOUS
  <1>1. PICK V : \E P \in SUBSET Key :
              /\ Shape(V) /\ Holds(P) /\ ~expand.active /\ sort \in SortsOf(V)
              /\ tbl \in TablesOf(V) /\ InSort(P)
    BY InProgress DEF EndPass, Merged, Merging
  <1>2. PICK P \in SUBSET Key :
              /\ Shape(V) /\ Holds(P) /\ ~expand.active /\ sort \in SortsOf(V)
              /\ tbl \in TablesOf(V) /\ InSort(P)
    BY <1>1
  <1>3. PICK R \in SUBSET P, pos \in [Key -> Nat], at \in [Key -> Nat],
             nd \in Nat, x \in Nat, w \in Nat, y \in Nat, z \in Nat :
               Sorting(P, R, pos, at, nd, x, w, y, z)
    BY <1>2 DEF InSort
  <1>0. SortAt(V, P, R, pos, at, nd, x, w, y, z)
    BY <1>2, <1>3 DEF SortAt
  <1> DEFINE n == tbl.num_items
  <1>4. UNCHANGED <<hash, prev, hh_next, hh_prev, buckets, expand>>
    BY DEF EndPass
  <1>6. /\ n \in Nat \ {0} /\ sort.list \in P /\ sort.tail \in P
        /\ Ordered(P, pos, n, sort.list, sort.tail, next', prev')
        /\ Ends(P, pos, n, next')
        /\ next' \in [Key -> Link] /\ \A j \in Key \ P : next'[j] = next[j]
    BY <1>0, PassMerged
  <1>8. prev \in [Key -> Link] /\ head \in Link
    BY <1>2 DEF Shape
  <1>12. CASE sort.nmerges <= 1
    <2>1. /\ head' = sort.list /\ tbl' = [tbl EXCEPT !.tail = sort.tail] /\ sort' = NotSorting
      BY <1>12 DEF EndPass
    <2>2. sort.list \in Link /\ sort.tail \in Link
      BY <1>2 DEF SortsOf
    <2>3. tbl' \in TablesOf(V)
      BY <2>1, <2>2, <1>2 DEF TablesOf
    <2>4. tbl'.num_buckets = tbl.num_buckets /\ tbl'.tail = sort.tail /\ tbl'.num_items = n
      BY <2>1, <1>2 DEF TablesOf
    <2>5. InOrder(P)'
      BY <1>6, <2>1, <2>4 DEF InOrder
    <2>6. ~sort'.active
      BY <2>1 DEF NotSorting
    <2>7. prev' \in [Key -> Link] /\ head' \in Link /\ V \subseteq V
      BY <1>4, <1>8, <2>1, <2>2
    <2> QED BY <1>2, <1>4, <1>6, <2>1, <2>3, <2>4, <2>5, <2>6, <2>7, SortRest
  <1>13. CASE ~(sort.nmerges <= 1)
    <2>1. sort' = Pass(sort, sort.list, 2 * sort.insize) /\ head' = head /\ tbl' = tbl
      BY <1>13 DEF EndPass
    <2> DEFINE V0 == V \cup {0, 2 * sort.insize}
               V1 == V0 \cup {0 + 1}
    <2>2. sort \in SortsOf(V0) /\ sort.list \in Link /\ 0 \in V0 /\ 2 * sort.insize \in V0
      BY <1>2 DEF SortsOf
    <2> HIDE DEF V0
    <2>3. /\ sort' \in SortsOf(V1)
          /\ sort'.p = sort.list /\ sort'.q = sort.list /\ sort'.psize = 0 /\ sort'.counting
          /\ sort'.list = NULL /\ sort'.tail = NULL /\ sort'.active
      <3>1. sort' \in SortsOf(V1) /\ PassBegun(sort', sort.list, 2 * sort.insize, sort.order)
        BY <2>1, <2>2, PassShape
      <3> QED BY <3>1 DEF PassBegun
    <2>4. tbl'.num_items = n
      BY <2>1
    <2>5. InSort(P)'
      <3>1. PICK z1 : z1 = n + 1
        OBVIOUS
      <3> QED BY <1>6, <2>3, <2>4, <3>1, BeginPass
    <2>6. V \subseteq V1 /\ tbl' \in TablesOf(V1)
      BY <1>2, <2>1 DEF V0, TablesOf
    <2>7. prev' \in [Key -> Link] /\ head' \in Link /\ tbl'.num_buckets = tbl.num_buckets
      BY <1>4, <1>8, <2>1
    <2> HIDE DEF V1
    <2> QED BY <1>2, <1>4, <1>6, <2>3, <2>5, <2>6, <2>7, SortRest
  <1> QED BY <1>12, <1>13

\* e, the head of the first run or of the second, is taken off, which leaves R1.
OffRuns(R, e, x, w, y, z, R1) ==
    /\ e \in R /\ R1 = R \ {e} /\ \A j \in R : next'[j] = next[j]
    /\ ~sort.counting /\ ~sort'.counting
    /\ \/ /\ x < w /\ e = sort.p
          /\ sort'.p = next[e] /\ sort'.q = sort.q /\ sort'.psize = sort.psize - 1
       \/ /\ y < z /\ e = sort.q
          /\ sort'.p = sort.p /\ sort'.q = next[e] /\ sort'.psize = sort.psize

\* What is taken off the head of a run leaves the rest of both.
LEMMA RunsTake ==
    ASSUME NEW R \in SUBSET Key, NEW at \in [Key -> Nat],
           NEW x \in Nat, NEW w \in Nat, NEW y \in Nat, NEW z \in Nat, Runs(R, at, x, w, y, z),
           NEW e, NEW R1, OffRuns(R, e, x, w, y, z, R1)
    PROVE  \E x1 \in Nat, y1 \in Nat :
              /\ Runs(R1, at, x1, w, y1, z)'
              /\ \/ e = sort.p /\ x < w /\ x1 = x + 1 /\ y1 = y /\ sort'.psize = sort.psize - 1
                 \/ e = sort.q /\ y < z /\ x1 = x /\ y1 = y + 1 /\ sort'.psize = sort.psize
  <1>0. e \in R /\ R1 = R \ {e} /\ (\A j \in R : next'[j] = next[j]) /\ ~sort'.counting
    BY DEF OffRuns
  <1>1. /\ x <= w /\ w <= y /\ y <= z
        /\ sort.psize = w - x
        /\ \A k \in R : at[k] \in x .. w - 1 \/ at[k] \in y .. z - 1
        /\ \A j, k \in R : at[j] = at[k] => j = k
        /\ x < w => sort.p \in R /\ at[sort.p] = x
        /\ IF y = z THEN sort.q = NULL ELSE sort.q \in R /\ at[sort.q] = y
        /\ \A k \in R : /\ at[k] + 1 = z => next[k] = NULL
                        /\ at[k] + 1 < z /\ (at[k] + 1 # w \/ w = y) =>
                               next[k] \in R /\ at[next[k]] = at[k] + 1
    BY DEF Runs
  <1>2. \A k \in R1 : k \in R /\ at[k] # at[e] /\ next'[k] = next[k] /\ at[k] \in Nat
    BY <1>0, <1>1
  <1>3. \A k \in R : at[k] # at[e] => k \in R1
    BY <1>0
  <1>4. \A j, k \in R1 : at[j] = at[k] => j = k
    BY <1>0, <1>1
  <1>5. CASE /\ x < w /\ e = sort.p
             /\ sort'.p = next[e] /\ sort'.q = sort.q /\ sort'.psize = sort.psize - 1
    <2>1. PICK x1 \in Nat : x1 = x + 1
      OBVIOUS
    <2>2. at[e] = x
      BY <1>1, <1>5
    <2>3. x1 <= w /\ sort'.psize = w - x1
      BY <1>1, <1>5, <2>1
    <2>4. \A k \in R1 : at[k] \in x1 .. w - 1 \/ at[k] \in y .. z - 1
      BY <1>1, <1>2, <2>1, <2>2
    <2>5. x1 < w => sort'.p \in R1 /\ at[sort'.p] = x1
      BY <1>1, <1>3, <1>5, <2>1, <2>2
    <2>6. IF y = z THEN sort'.q = NULL ELSE sort'.q \in R1 /\ at[sort'.q] = y
      BY <1>1, <1>3, <1>5, <2>2
    <2>7. \A k \in R1 : /\ at[k] + 1 = z => next'[k] = NULL
                        /\ at[k] + 1 < z /\ (at[k] + 1 # w \/ w = y) =>
                               next'[k] \in R1 /\ at[next'[k]] = at[k] + 1
      BY <1>1, <1>2, <1>3, <2>1, <2>2, <2>4
    <2>8. Runs(R1, at, x1, w, y, z)'
      BY <1>0, <1>1, <1>4, <2>3, <2>4, <2>5, <2>6, <2>7 DEF Runs
    <2> QED BY <1>5, <2>1, <2>8
  <1>6. CASE /\ y < z /\ e = sort.q
             /\ sort'.p = sort.p /\ sort'.q = next[e] /\ sort'.psize = sort.psize
    <2>1. PICK y1 \in Nat : y1 = y + 1
      OBVIOUS
    <2>2. at[e] = y
      BY <1>1, <1>6
    <2>3. w <= y1 /\ y1 <= z /\ w # y1 /\ sort'.psize = w - x
      BY <1>1, <1>6, <2>1
    <2>4. \A k \in R1 : at[k] \in x .. w - 1 \/ at[k] \in y1 .. z - 1
      BY <1>1, <1>2, <2>1, <2>2
    <2>5. x < w => sort'.p \in R1 /\ at[sort'.p] = x
      BY <1>1, <1>3, <1>6, <2>2
    <2>6. IF y1 = z THEN sort'.q = NULL ELSE sort'.q \in R1 /\ at[sort'.q] = y1
      BY <1>1, <1>3, <1>6, <2>1, <2>2
    <2>7. \A k \in R1 : /\ at[k] + 1 = z => next'[k] = NULL
                        /\ at[k] + 1 < z /\ (at[k] + 1 # w \/ w = y1) =>
                               next'[k] \in R1 /\ at[next'[k]] = at[k] + 1
      <3>1. ASSUME NEW k \in R1, at[k] + 1 < z, at[k] + 1 # w \/ w = y1
            PROVE  next'[k] \in R1 /\ at[next'[k]] = at[k] + 1
        <4>1. at[k] + 1 # w
          BY <3>1, <2>3
        <4>2. next[k] \in R /\ at[next[k]] = at[k] + 1 /\ next'[k] = next[k]
          BY <1>1, <1>2, <3>1, <4>1
        <4>3. at[k] + 1 # y
          BY <1>1, <1>2, <2>1, <2>4, <4>1
        <4> QED BY <1>3, <2>2, <4>2, <4>3
      <3> QED BY <3>1, <1>1, <1>2
    <2>8. Runs(R1, at, x, w, y1, z)'
      BY <1>0, <1>1, <1>4, <2>3, <2>4, <2>5, <2>6, <2>7 DEF Runs
    <2> QED BY <1>6, <2>1, <2>8
  <1> QED BY <1>5, <1>6 DEF OffRuns

\* e goes from those left to those merged.
Moved(e, R, pos, nd, x, y, R1, pos1, nd1, x1, y1) ==
    /\ e = IF TakesQ THEN sort.q ELSE sort.p
    /\ R1 = R \ {e} /\ nd1 = nd + 1 /\ pos1 = [pos EXCEPT ![e] = nd + 1]
    /\ x1 = IF TakesQ THEN x ELSE x + 1
    /\ y1 = IF TakesQ THEN y + 1 ELSE y

\* The head of a run comes behind those merged; the rest of both runs is as it was.
LEMMA TakeSorting ==
    ASSUME NEW V, NEW P, NEW R, NEW pos, NEW at, NEW nd, NEW x, NEW w, NEW y, NEW z,
           SortAt(V, P, R, pos, at, nd, x, w, y, z), Take,
           NEW e, NEW R1, NEW nd1, NEW pos1, NEW x1, NEW y1,
           Moved(e, R, pos, nd, x, y, R1, pos1, nd1, x1, y1)
    PROVE  /\ e \in R
           /\ Sorting(P, R1, pos1, at, nd1, x1, w, y1, z)'
           /\ IF TakesQ THEN y < z ELSE x < w
           /\ sort' \in SortsOf(V \cup {sort.qsize - 1}) /\ sort'.active
           /\ ~sort.counting /\ ~sort'.counting
           /\ sort'.qsize = IF TakesQ THEN sort.qsize - 1 ELSE sort.qsize
           /\ sort'.insize = sort.insize /\ sort'.nmerges = sort.nmerges
           /\ sort'.order = sort.order
           /\ next' \in [Key -> Link] /\ prev' \in [Key -> Link]
           /\ \A j \in Key \ P : next'[j] = next[j]
  <1> USE DEF Moved
  <1> PICK V1 : V1 = V \cup {sort.qsize - 1}
    OBVIOUS
  <1> /\ Shape(V) /\ sort \in SortsOf(V)
      /\ P \in SUBSET Key /\ R \in SUBSET P /\ pos \in [Key -> Nat] /\ at \in [Key -> Nat]
      /\ nd \in Nat /\ x \in Nat /\ w \in Nat /\ y \in Nat /\ z \in Nat
      /\ Sorting(P, R, pos, at, nd, x, w, y, z)
    BY DEF SortAt
  <1>5. PICK fst : fst = IF sort.tail = NULL THEN e ELSE sort.list
    OBVIOUS
  <1>6. PICK qs : qs = sort.qsize - 1
    OBVIOUS
  <1>7. /\ sort' = IF TakesQ
                   THEN [sort EXCEPT !.q = next[e], !.qsize = qs, !.tail = e, !.list = fst]
                   ELSE [sort EXCEPT !.p = next[e], !.psize = sort.psize - 1, !.tail = e, !.list = fst]
        /\ next' = Patch(next, sort.tail, e) /\ prev' = [prev EXCEPT ![e] = sort.tail]
        /\ UNCHANGED <<hash, head, hh_next, hh_prev, tbl, buckets, expand>>
        /\ ~sort.counting
    <2>1. sort.list = IF sort.tail = NULL THEN sort.list ELSE sort.list
      OBVIOUS
    <2> QED BY <1>5, <1>6 DEF Take, Merging, SortsOf
  <1>8. /\ next \in [Key -> Link] /\ prev \in [Key -> Link] /\ head \in Link
        /\ NULL \notin Key /\ Link = Key \cup {NULL} /\ sort.psize \in Nat
    BY TableAssumption DEF Shape, SortsOf, Link
  <1>9. IF TakesQ THEN y < z /\ sort.q \in R ELSE x < w /\ sort.p \in R /\ sort.psize # 0
    <2>1. CASE TakesQ
      <3>1. sort.q # NULL
        BY <2>1, <1>8 DEF Take, TakesQ, QLeft
      <3> QED BY <2>1, <3>1 DEF Sorting, Runs
    <2>2. CASE ~TakesQ
      <3>1. sort.psize # 0
        BY <2>2 DEF TakesQ
      <3> QED BY <2>2, <3>1 DEF Sorting, Runs
    <2> QED BY <2>1, <2>2
  <1>10. e \in R /\ e \in Key /\ e \in P
    BY <1>9
  <1>0. V1 = V \cup {qs}
    BY <1>6
  <1>11. /\ sort' \in SortsOf(V1) /\ sort'.active /\ ~sort'.counting
         /\ sort'.list = fst /\ sort'.tail = e
         /\ TakesQ => sort'.p = sort.p /\ sort'.q = next[e] /\ sort'.psize = sort.psize
         /\ ~TakesQ => sort'.p = next[e] /\ sort'.q = sort.q /\ sort'.psize = sort.psize - 1
         /\ sort'.qsize = IF TakesQ THEN sort.qsize - 1 ELSE sort.qsize
         /\ sort'.insize = sort.insize /\ sort'.nmerges = sort.nmerges /\ sort'.order = sort.order
    <2>1. /\ next[e] \in Link /\ e \in Link /\ fst \in Link /\ qs \in V1
          /\ sort \in SortsOf(V1)
      BY <1>0, <1>5, <1>6, <1>8, <1>10 DEF SortsOf
    <2>2. PICK n, ps : n = next[e] /\ ps = sort.psize - 1
      OBVIOUS
    <2>3. CASE TakesQ
      <3>1. sort' = [sort EXCEPT !.q = n, !.qsize = qs, !.tail = e, !.list = fst]
        BY <1>7, <2>2, <2>3
      <3>2. sort' \in SortsOf(V1)
        BY <3>1, <2>1, <2>2 DEF SortsOf
      <3>3. /\ sort'.active = sort.active /\ sort'.counting = sort.counting
            /\ sort'.list = fst /\ sort'.tail = e
            /\ sort'.p = sort.p /\ sort'.q = n /\ sort'.psize = sort.psize /\ sort'.qsize = qs
            /\ sort'.insize = sort.insize /\ sort'.nmerges = sort.nmerges /\ sort'.order = sort.order
        BY <3>1, <2>1 DEF SortsOf
      <3> QED BY <3>2, <3>3, <2>2, <2>3, <1>6, <1>7 DEF Take, Merging
    <2>4. CASE ~TakesQ
      <3>1. sort' = [sort EXCEPT !.p = n, !.psize = ps, !.tail = e, !.list = fst]
        BY <1>7, <2>2, <2>4
      <3>2. ps \in Nat
        BY <1>8, <1>9, <2>2, <2>4
      <3>3. sort' \in SortsOf(V1)
        BY <3>1, <3>2, <2>1, <2>2 DEF SortsOf
      <3>4. /\ sort'.active = sort.active /\ sort'.counting = sort.counting
            /\ sort'.list = fst /\ sort'.tail = e
            /\ sort'.p = n /\ sort'.q = sort.q /\ sort'.psize = ps /\ sort'.qsize = sort.qsize
            /\ sort'.insize = sort.insize /\ sort'.nmerges = sort.nmerges /\ sort'.order = sort.order
        BY <3>1, <2>1 DEF SortsOf
      <3> QED BY <3>3, <3>4, <2>2, <2>4, <1>7 DEF Take, Merging
    <2> QED BY <2>3, <2>4
  <1> DEFINE D == P \ R
  <1>12. /\ Ordered(D, pos, nd, sort.list, sort.tail, next, prev)
         /\ sort.tail \in D \cup {NULL} /\ (sort.tail = NULL <=> sort.list = NULL)
    <2>1. Ordered(D, pos, nd, sort.list, sort.tail, next, prev)
      BY DEF Sorting
    <2> QED BY <2>1, <1>8 DEF Ordered
  <1>13. /\ next' \in [Key -> Link] /\ prev' \in [Key -> Link]
         /\ \A j \in Key : next'[j] = IF j = sort.tail THEN e ELSE next[j]
         /\ prev'[e] = sort.tail /\ \A j \in Key : j # e => prev'[j] = prev[j]
    BY <1>7, <1>8, <1>10, <1>12 DEF Patch
  <1>14. pos1 \in [Key -> Nat] /\ Ordered(D \cup {e}, pos1, nd + 1, fst, e, next', prev')
    <2>1. Appended(D, e, sort.list, sort.tail, next, prev, fst, next', prev')
      BY <1>5, <1>10, <1>12, <1>13 DEF Appended
    <2>2. D \in SUBSET Key /\ e \notin D
      BY <1>10
    <2> HIDE DEF D
    <2> QED BY <1>10, <1>12, <2>1, <2>2, OrderedAppend
  <1>15. PICK x2 \in Nat, y2 \in Nat :
            /\ Runs(R1, at, x2, w, y2, z)'
            /\ \/ e = sort.p /\ x < w /\ x2 = x + 1 /\ y2 = y /\ sort'.psize = sort.psize - 1
               \/ e = sort.q /\ y < z /\ x2 = x /\ y2 = y + 1 /\ sort'.psize = sort.psize
    <2>1. \A j \in R : next'[j] = next[j]
      BY <1>12, <1>13, <1>8
    <2>2. OffRuns(R, e, x, w, y, z, R1)
      BY <1>7, <1>9, <1>10, <1>11, <2>1 DEF OffRuns
    <2>3. Runs(R, at, x, w, y, z) /\ R \in SUBSET Key
      BY DEF Sorting
    <2> QED BY <2>2, <2>3, RunsTake
  <1>19. x1 = x2 /\ y1 = y2 /\ IF TakesQ THEN y < z ELSE x < w
    BY <1>8, <1>11, <1>15
  <1>16. P \ R1 = D \cup {e} /\ R1 \in SUBSET P
    BY <1>10
  <1>18. Sorting(P, R1, pos1, at, nd1, x1, w, y1, z)'
    <2>1. nd1 + (w - x1) + (z - y1) = tbl.num_items /\ tbl.num_items # 0
      BY <1>15, <1>19 DEF Sorting
    <2> HIDE DEF D
    <2>2. Ordered(P \ R1, pos1, nd1, fst, e, next', prev')
      BY <1>14, <1>16
    <2>3. Runs(R1, at, x1, w, y1, z)'
      BY <1>15, <1>19
    <2> QED BY <1>7, <1>11, <2>1, <2>2, <2>3 DEF Sorting
  <1>20. \A j \in Key \ P : next'[j] = next[j]
    BY <1>8, <1>12, <1>13
  <1> QED BY <1>7, <1>10, <1>11, <1>13, <1>14, <1>15, <1>16, <1>18, <1>19, <1>20

\* What is taken leaves all in the sort.
LEMMA TakeStep == IInv /\ Take => IInv'
  <1> SUFFICES ASSUME IInv, Take PROVE IInv'
    OBVIOUS
  <1>1. PICK V : \E P \in SUBSET Key :
              /\ Shape(V) /\ Holds(P) /\ ~expand.active /\ sort \in SortsOf(V)
              /\ tbl \in TablesOf(V) /\ InSort(P)
    BY InProgress DEF Take, Merging
  <1>2. PICK P \in SUBSET Key :
              /\ Shape(V) /\ Holds(P) /\ ~expand.active /\ sort \in SortsOf(V)
              /\ tbl \in TablesOf(V) /\ InSort(P)
    BY <1>1
  <1>3. PICK R \in SUBSET P, pos \in [Key -> Nat], at \in [Key -> Nat],
             nd \in Nat, x \in Nat, w \in Nat, y \in Nat, z \in Nat :
               Sorting(P, R, pos, at, nd, x, w, y, z)
    BY <1>2 DEF InSort
  <1>4. PICK V1 : V1 = V \cup {sort.qsize - 1}
    OBVIOUS
  <1>5. PICK e, R1, pos1, nd1, x1, y1 : Moved(e, R, pos, nd, x, y, R1, pos1, nd1, x1, y1)
    <2>1. PICK e : e = IF TakesQ THEN sort.q ELSE sort.p
      OBVIOUS
    <2>2. Moved(e, R, pos, nd, x, y, R \ {e}, [pos EXCEPT ![e] = nd + 1], nd + 1,
                IF TakesQ THEN x ELSE x + 1, IF TakesQ THEN y + 1 ELSE y)
      BY <2>1 DEF Moved
    <2> QED BY <2>2
  <1>7. /\ R1 \in SUBSET P /\ pos1 \in [Key -> Nat] /\ sort' \in SortsOf(V1) /\ sort'.active
        /\ next' \in [Key -> Link] /\ prev' \in [Key -> Link]
        /\ \A j \in Key \ P : next'[j] = next[j]
        /\ nd1 \in Nat /\ x1 \in Nat /\ y1 \in Nat
        /\ Sorting(P, R1, pos1, at, nd1, x1, w, y1, z)'
    <2>1. SortAt(V, P, R, pos, at, nd, x, w, y, z)
      BY <1>2, <1>3 DEF SortAt
    <2>8. nd + 1 \in Nat
      OBVIOUS
    <2>2. R1 \in SUBSET P /\ pos1 \in [Key -> Nat]
      <3>1. R1 = R \ {e} /\ pos1 = [pos EXCEPT ![e] = nd + 1]
        BY <1>5 DEF Moved
      <3>2. pos1 \in [Key -> Nat]
        BY <3>1, <2>8
      <3> QED BY <3>1, <3>2
    <2>3. sort' \in SortsOf(V1)
      BY <2>1, <1>4, <1>5, TakeSorting
    <2>4. sort'.active
      BY <2>1, <1>5, TakeSorting
    <2>5. next' \in [Key -> Link] /\ prev' \in [Key -> Link]
        /\ \A j \in Key \ P : next'[j] = next[j]
      BY <2>1, <1>5, TakeSorting
    <2>6. nd1 \in Nat /\ x1 \in Nat /\ y1 \in Nat
      BY <2>1, <1>5 DEF SortAt, Moved
    <2>7. Sorting(P, R1, pos1, at, nd1, x1, w, y1, z)'
      BY <2>1, <1>5, TakeSorting
    <2> QED BY <2>2, <2>3, <2>4, <2>5, <2>6, <2>7
  <1>8. InSort(P)'
    BY <1>7 DEF InSort
  <1>9. V \subseteq V1 /\ tbl \in TablesOf(V1) /\ head \in Link
    BY <1>2, <1>4 DEF TablesOf, Shape
  <1>10. UNCHANGED <<hash, head, hh_next, hh_prev, tbl, buckets, expand>>
    BY DEF Take
  <1> QED BY <1>2, <1>7, <1>8, <1>9, <1>10, SortRest

\* Every step keeps the invariant.
LEMMA NextIInv == IInv /\ [Next]_vars => IInv'
  <1> SUFFICES ASSUME IInv, [Next]_vars PROVE IInv'
    OBVIOUS
  <1>1. CASE UNCHANGED vars
    <2>1. UNCHANGED <<hash, head, next, prev, hh_next, hh_prev, tbl, buckets, expand, sort>>
      BY <1>1 DEF vars, links
    <2>2. PICK V : Shape(V) /\ \E P \in SUBSET Key : Holds(P)
      BY DEF IInv
    <2>3. PICK P \in SUBSET Key : Holds(P)
      BY <2>2
    <2>4. Shape(V)'
      BY <2>1, <2>2 DEF Shape
    <2>5. InSort(P) => InSort(P)'
      <3>1. \A R, pos, at, nd, x, w, y, z :
               Sorting(P, R, pos, at, nd, x, w, y, z) => Sorting(P, R, pos, at, nd, x, w, y, z)'
        <4>1. ASSUME NEW R, NEW pos, NEW at, NEW nd, NEW x, NEW w, NEW y, NEW z
              PROVE  Sorting(P, R, pos, at, nd, x, w, y, z) => Sorting(P, R, pos, at, nd, x, w, y, z)'
          BY <2>1 DEF Sorting, Runs
        <4> QED BY <4>1
      <3> QED BY <3>1 DEF InSort
    <2>6. InOrder(P) => InOrder(P)'
      BY <2>1 DEF InOrder
    <2>7. InExpansion(P) => InExpansion(P)'
      <3>1. \A L, d, left : Expanding(P, L, d, left) => Expanding(P, L, d, left)'
        BY <2>1 DEF Expanding
      <3> QED BY <3>1 DEF InExpansion
    <2>8. InBuckets(P) => InBuckets(P)'
      BY <2>1 DEF InBuckets
    <2>9. Holds(P)'
      BY <2>1, <2>3, <2>5, <2>6, <2>7, <2>8 DEF Holds
    <2> QED BY <2>4, <2>9 DEF IInv
  <1>2. CASE \E k \in Key : HASH_ADD(k) \/ HASH_DELETE(k)
    BY <1>2, AddStep, DeleteStep
  <1>3. CASE HASH_CLEAR
    BY <1>3, ClearStep
  <1>4. CASE HASH_SRT \/ CountRun \/ Take \/ NextMerge \/ EndPass
    BY <1>4, SortStep, CountStep, TakeStep, NextMergeStep, EndPassStep
  <1>5. CASE ExpandItem \/ ExpandBucket \/ ExpandDone
    BY <1>5, ExpandItemStep, ExpandBucketStep, ExpandDoneStep
  <1> QED BY <1>1, <1>2, <1>3, <1>4, <1>5 DEF Next

\* Whatever was added, deleted, sorted and moved to more buckets, the items are linked both
\* ways in the order of addition, as many as num_items says, and each hangs in the bucket
\* of its hash, linked both ways, as many as its count says.
THEOREM UthashInvariant == Spec => []IInv
  BY InitIInv, NextIInv, PTL DEF Spec

\* HASH_FIND finds what was added and not deleted, and nothing else, under any hash
\* function: collisions, expansions, deletions and sorts lose no handle.
THEOREM FindsExactlyHolds == Spec => []FindsExactly
  BY UthashInvariant, IInvFindsExactly, PTL

\* What HASH_FSCK would check of the links and of each count holds after every operation.
THEOREM FsckLinksHolds == Spec => []FsckLinks
  BY UthashInvariant, IInvFsckLinks, PTL

=============================================================================
