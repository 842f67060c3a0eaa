---------------------------- MODULE CJsonProofs ----------------------------
(***************************************************************************)
(* The items of cJSON are owned once, whatever is parsed, built, printed   *)
(* and deleted, and whichever allocation fails.                            *)
(*                                                                         *)
(* The first part knows only the links of the items: c[x] is the child of  *)
(* x, n[x] its next, p[x] its prev; U are the items in use and R those     *)
(* nothing links to.                                                       *)
(***************************************************************************)
EXTENDS CJson, FiniteSetTheorems, TLAPS

Holds(c, n, x, r) == c[x] = r \/ n[x] = r

\* No link leads out of S.
Closed(c, n, S) ==
    \A x \in S : (c[x] # Null => c[x] \in S) /\ (n[x] # Null => n[x] \in S)

\* What is reached from r: the least set with r that no link leads out of.
Least(c, n, r) ==
    {x \in Ref : \A S \in SUBSET Ref : Closed(c, n, S) /\ (r # Null => r \in S) => x \in S}

\* No links go round in a circle.
Acyclic(c, n) == \A T \in SUBSET Ref : T # {} => \E x \in T : c[x] \notin T /\ n[x] \notin T

Linked(c, n, p, U, R) ==
    /\ c \in [Ref -> Link] /\ n \in [Ref -> Link] /\ p \in [Ref -> Link]
    /\ U \subseteq Ref /\ R \subseteq U
    /\ \A x \in Ref : x \notin U => c[x] = Null /\ n[x] = Null /\ p[x] = Null
    /\ Closed(c, n, U)
\* Of the items in use those of R have no holder, and the others have one.
HeldOnce(c, n, U, R) ==
    /\ \A r \in R : \A x \in Ref : ~Holds(c, n, x, r)
    /\ \A r \in U : r \notin R => \E x \in U : Holds(c, n, x, r)
    /\ \A r \in Ref : \A x, y \in Ref : Holds(c, n, x, r) /\ Holds(c, n, y, r) => x = y
PrevIsBack(n, p) ==
    \A x \in Ref : /\ n[x] # Null => p[n[x]] = x
                   /\ p[x] # Null => n[p[x]] = x
\* Every item in use is reached from R.
Reached(c, n, U, R) ==
    \A S \in SUBSET Ref : Closed(c, n, S) /\ R \subseteq S => U \subseteq S

Forest(c, n, p, U, R) ==
    /\ Linked(c, n, p, U, R)
    /\ HeldOnce(c, n, U, R)
    /\ PrevIsBack(n, p)
    /\ Acyclic(c, n)
    /\ Reached(c, n, U, R)

LEMMA NullIsNoRef == Null \notin Ref
  BY DEF Null, Ref

----------------------------------------------------------------------------
\* What is reached from an item in use is in use, closed and holds it.
LEMMA LeastClosed ==
    ASSUME NEW c, NEW n, NEW U, NEW r,
           U \subseteq Ref, Closed(c, n, U), r \in U
    PROVE  /\ r \in Least(c, n, r) /\ Least(c, n, r) \subseteq U
           /\ Closed(c, n, Least(c, n, r))
  <1>1. r \in Least(c, n, r)
    BY NullIsNoRef DEF Least
  <1>2. Least(c, n, r) \subseteq U
    BY DEF Least
  <1>3. ASSUME NEW x \in Least(c, n, r)
        PROVE  /\ c[x] # Null => c[x] \in Least(c, n, r)
               /\ n[x] # Null => n[x] \in Least(c, n, r)
    <2>1. x \in U
      BY <1>2
    <2>2. /\ c[x] # Null => c[x] \in Ref
          /\ n[x] # Null => n[x] \in Ref
      BY <2>1 DEF Closed
    <2>3. ASSUME NEW S \in SUBSET Ref, Closed(c, n, S), r # Null => r \in S
          PROVE  /\ c[x] # Null => c[x] \in S
                 /\ n[x] # Null => n[x] \in S
      <3>1. x \in S
        BY <2>3 DEF Least
      <3> QED BY <2>3, <3>1 DEF Closed
    <2> QED BY <2>2, <2>3 DEF Least
  <1> QED BY <1>1, <1>2, <1>3 DEF Closed

\* A closed set that has r has what is reached from it.
LEMMA LeastWithin ==
    ASSUME NEW c, NEW n, NEW r, NEW S, S \subseteq Ref, Closed(c, n, S), r \in S
    PROVE  Least(c, n, r) \subseteq S
  BY DEF Least

\* Each item but the first is reached from another that is reached.
LEMMA LeastHeld ==
    ASSUME NEW c, NEW n, NEW U, NEW r, NEW x,
           U \subseteq Ref, Closed(c, n, U), r \in U,
           x \in Least(c, n, r), x # r
    PROVE  \E y \in Least(c, n, r) : Holds(c, n, y, x)
  <1> DEFINE L == Least(c, n, r)
             S == L \ {x}
  <1>1. r \in L /\ L \subseteq U /\ Closed(c, n, L)
    BY LeastClosed
  <1>2. SUFFICES ASSUME \A y \in L : ~Holds(c, n, y, x) PROVE FALSE
    OBVIOUS
  <1> HIDE DEF L
  <1>3. Closed(c, n, S)
    BY <1>1, <1>2 DEF Closed, Holds
  <1>4. L \subseteq S
    BY <1>1, <1>3, LeastWithin DEF L
  <1>5. x \in L
    BY DEF L
  <1> QED BY <1>4, <1>5

\* What is reached from two roots is apart.
LEMMA RootsApart ==
    ASSUME NEW c, NEW n, NEW p, NEW U, NEW R, NEW r, NEW s,
           Forest(c, n, p, U, R), r \in R, s \in R, r # s
    PROVE  Least(c, n, r) \cap Least(c, n, s) = {}
  <1> DEFINE L == Least(c, n, s)
             S == U \ L
  <1>1. U \subseteq Ref /\ R \subseteq U /\ Closed(c, n, U)
    BY DEF Forest, Linked
  <1>2. s \in L /\ L \subseteq U /\ Closed(c, n, L)
    BY <1>1, LeastClosed
  <1>3. ASSUME NEW x \in L, x # s
        PROVE  \E y \in L : Holds(c, n, y, x)
    BY <1>1, <1>3, LeastHeld
  <1>4. \A x \in Ref : ~Holds(c, n, x, r) /\ ~Holds(c, n, x, s)
    BY DEF Forest, HeldOnce
  <1>5. \A t, x, y \in Ref : Holds(c, n, x, t) /\ Holds(c, n, y, t) => x = y
    BY DEF Forest, HeldOnce
  <1> HIDE DEF L
  <1>6. r \in S
    BY <1>1, <1>2, <1>3, <1>4
  <1>7. ASSUME NEW x \in S, NEW y \in L PROVE ~Holds(c, n, x, y)
    <2>1. x \in Ref /\ y \in Ref /\ x \notin L
      BY <1>1, <1>2
    <2>2. CASE y = s
      BY <1>4, <2>1, <2>2
    <2>3. CASE y # s
      BY <1>1, <1>2, <1>3, <1>5, <2>1, <2>3
    <2> QED BY <2>2, <2>3
  <1>8. Closed(c, n, S)
    BY <1>1, <1>7 DEF Closed, Holds
  <1>9. Least(c, n, r) \subseteq S
    BY <1>1, <1>6, <1>8, LeastWithin
  <1> QED BY <1>9 DEF L

----------------------------------------------------------------------------
\* The four things that are done to the items.

\* An item is made.
LEMMA ForestMade ==
    ASSUME NEW c, NEW n, NEW p, NEW U, NEW R, NEW x,
           Forest(c, n, p, U, R), x \in Ref, x \notin U
    PROVE  Forest(c, n, p, U \cup {x}, R \cup {x})
  <1>1. /\ c \in [Ref -> Link] /\ n \in [Ref -> Link] /\ p \in [Ref -> Link]
        /\ U \subseteq Ref /\ R \subseteq U
        /\ \A y \in Ref : y \notin U => c[y] = Null /\ n[y] = Null /\ p[y] = Null
        /\ Closed(c, n, U)
    BY DEF Forest, Linked
  <1>2. HeldOnce(c, n, U, R) /\ PrevIsBack(n, p) /\ Acyclic(c, n) /\ Reached(c, n, U, R)
    BY DEF Forest
  <1>3. ASSUME NEW y \in Ref PROVE ~Holds(c, n, y, x)
    BY <1>1, NullIsNoRef DEF Closed, Holds
  <1>4. Linked(c, n, p, U \cup {x}, R \cup {x})
    <2>1. Closed(c, n, U \cup {x})
      BY <1>1 DEF Closed
    <2> QED BY <1>1, <2>1 DEF Linked
  <1>5. HeldOnce(c, n, U \cup {x}, R \cup {x})
    BY <1>2, <1>3 DEF HeldOnce
  <1>6. Reached(c, n, U \cup {x}, R \cup {x})
    BY <1>2 DEF Reached
  <1> QED BY <1>2, <1>4, <1>5, <1>6 DEF Forest

\* A root x is hung below or behind q, from which nothing came and which is not
\* reached from x: there is no circle.
LEMMA AcyclicHung ==
    ASSUME NEW c, NEW n, NEW p, NEW U, NEW R, NEW x, NEW q, NEW d, NEW m,
           Forest(c, n, p, U, R), x \in R, q \in U, q \notin Least(c, n, x),
           \A y \in Ref : y # q => d[y] = c[y] /\ m[y] = n[y],
           d[q] \in {c[q], x}, m[q] \in {n[q], x}
    PROVE  Acyclic(d, m)
  <1> DEFINE L == Least(c, n, x)
  <1>1. U \subseteq Ref /\ R \subseteq U /\ Closed(c, n, U) /\ Acyclic(c, n)
    BY DEF Forest, Linked
  <1>2. x \in L /\ L \subseteq U /\ Closed(c, n, L)
    BY <1>1, LeastClosed
  <1> HIDE DEF L
  <1>3. q \notin L
    BY DEF L
  <1>4. SUFFICES ASSUME NEW T \in SUBSET Ref, T # {}
                 PROVE  \E y \in T : d[y] \notin T /\ m[y] \notin T
    BY DEF Acyclic
  <1>5. CASE x \in T
    <2> DEFINE M == T \cap L
    <2>1. M \in SUBSET Ref /\ M # {}
      BY <1>2, <1>5
    <2>2. PICK y \in M : c[y] \notin M /\ n[y] \notin M
      BY <1>1, <2>1 DEF Acyclic
    <2>3. y \in T /\ y \in L /\ y # q /\ y \in Ref
      BY <1>3
    <2>4. c[y] \notin T /\ n[y] \notin T
      BY <1>2, <2>2, <2>3, NullIsNoRef DEF Closed
    <2> QED BY <2>3, <2>4
  <1>6. CASE x \notin T
    <2>1. PICK y \in T : c[y] \notin T /\ n[y] \notin T
      BY <1>1, <1>4 DEF Acyclic
    <2> QED BY <1>6, <2>1
  <1> QED BY <1>5, <1>6

\* A root is hung below an item that has no child.
LEMMA ForestBelow ==
    ASSUME NEW c, NEW n, NEW p, NEW U, NEW R, NEW x, NEW q,
           Forest(c, n, p, U, R), x \in R, q \in U, q \notin Least(c, n, x), c[q] = Null
    PROVE  Forest([c EXCEPT ![q] = x], n, p, U, R \ {x})
  <1> DEFINE d == [c EXCEPT ![q] = x]
  <1>1. /\ c \in [Ref -> Link] /\ n \in [Ref -> Link] /\ p \in [Ref -> Link]
        /\ U \subseteq Ref /\ R \subseteq U
        /\ \A y \in Ref : y \notin U => c[y] = Null /\ n[y] = Null /\ p[y] = Null
        /\ Closed(c, n, U)
    BY DEF Forest, Linked
  <1>2. HeldOnce(c, n, U, R) /\ PrevIsBack(n, p) /\ Acyclic(c, n) /\ Reached(c, n, U, R)
    BY DEF Forest
  <1>3. x \in Ref /\ q \in Ref /\ x \in U
    BY <1>1
  <1>4. /\ d \in [Ref -> Link]
        /\ d[q] = x /\ \A y \in Ref : y # q => d[y] = c[y]
    BY <1>1, <1>3 DEF Link
  <1> HIDE DEF d
  <1>5. Linked(d, n, p, U, R \ {x})
    <2>1. Closed(d, n, U)
      BY <1>1, <1>3, <1>4 DEF Closed
    <2> QED BY <1>1, <1>3, <1>4, <2>1 DEF Linked
  <1>6. HeldOnce(d, n, U, R \ {x})
    <2>1. \A y, r \in Ref : Holds(d, n, y, r) <=> Holds(c, n, y, r) \/ (y = q /\ r = x)
      BY <1>3, <1>4, NullIsNoRef DEF Holds
    <2>2. \A y \in Ref : ~Holds(c, n, y, x)
      BY <1>2 DEF HeldOnce
    <2> QED BY <1>1, <1>2, <1>3, <2>1, <2>2 DEF HeldOnce
  <1>7. Acyclic(d, n)
    BY <1>3, <1>4, AcyclicHung
  <1>8. Reached(d, n, U, R \ {x})
    <2> SUFFICES ASSUME NEW S \in SUBSET Ref, Closed(d, n, S), R \ {x} \subseteq S
                 PROVE  U \subseteq S
      BY DEF Reached
    <2> DEFINE T == S \cup Least(c, n, x)
    <2>1. x \in Least(c, n, x) /\ Least(c, n, x) \subseteq U /\ Closed(c, n, Least(c, n, x))
      BY <1>1, <1>3, LeastClosed
    <2>2. Closed(c, n, S)
      BY <1>3, <1>4 DEF Closed
    <2>3. Closed(c, n, T)
      BY <2>1, <2>2 DEF Closed
    <2>4. U \subseteq T
      BY <1>1, <1>2, <2>1, <2>3 DEF Reached
    <2>5. q \in S
      BY <2>4
    <2>6. x \in S
      BY <1>3, <1>4, <2>5, NullIsNoRef DEF Closed
    <2>7. Least(c, n, x) \subseteq S
      BY <2>2, <2>6, LeastWithin
    <2> QED BY <2>4, <2>7
  <1> QED BY <1>2, <1>5, <1>6, <1>7, <1>8 DEF Forest, d

\* A root is hung behind an item that is the last.
LEMMA ForestBehind ==
    ASSUME NEW c, NEW n, NEW p, NEW U, NEW R, NEW x, NEW q,
           Forest(c, n, p, U, R), x \in R, q \in U, q \notin Least(c, n, x), n[q] = Null
    PROVE  Forest(c, [n EXCEPT ![q] = x], [p EXCEPT ![x] = q], U, R \ {x})
  <1> DEFINE m == [n EXCEPT ![q] = x]
             b == [p EXCEPT ![x] = q]
  <1>1. /\ c \in [Ref -> Link] /\ n \in [Ref -> Link] /\ p \in [Ref -> Link]
        /\ U \subseteq Ref /\ R \subseteq U
        /\ \A y \in Ref : y \notin U => c[y] = Null /\ n[y] = Null /\ p[y] = Null
        /\ Closed(c, n, U)
    BY DEF Forest, Linked
  <1>2. HeldOnce(c, n, U, R) /\ PrevIsBack(n, p) /\ Acyclic(c, n) /\ Reached(c, n, U, R)
    BY DEF Forest
  <1>3. x \in Ref /\ q \in Ref /\ x \in U
    BY <1>1
  <1>4. /\ m \in [Ref -> Link] /\ b \in [Ref -> Link]
        /\ m[q] = x /\ \A y \in Ref : y # q => m[y] = n[y]
        /\ b[x] = q /\ \A y \in Ref : y # x => b[y] = p[y]
    BY <1>1, <1>3 DEF Link
  <1>5. \A y \in Ref : ~Holds(c, n, y, x)
    BY <1>2 DEF HeldOnce
  <1> HIDE DEF m, b
  <1>6. Linked(c, m, b, U, R \ {x})
    <2>1. Closed(c, m, U)
      BY <1>1, <1>3, <1>4 DEF Closed
    <2> QED BY <1>1, <1>3, <1>4, <2>1 DEF Linked
  <1>7. HeldOnce(c, m, U, R \ {x})
    <2>1. \A y, r \in Ref : Holds(c, m, y, r) <=> Holds(c, n, y, r) \/ (y = q /\ r = x)
      BY <1>3, <1>4, NullIsNoRef DEF Holds
    <2> QED BY <1>1, <1>2, <1>3, <1>5, <2>1 DEF HeldOnce
  <1>8. PrevIsBack(m, b)
    <2>1. p[x] = Null
      BY <1>1, <1>2, <1>3, <1>5 DEF PrevIsBack, Holds, Link
    <2>2. ASSUME NEW y \in Ref
          PROVE  /\ m[y] # Null => b[m[y]] = y
                 /\ b[y] # Null => m[b[y]] = y
      <3>1. /\ n[y] # Null => n[y] \in Ref /\ n[y] # x /\ p[n[y]] = y
            /\ p[y] # Null => p[y] \in Ref /\ n[p[y]] = y
        BY <1>1, <1>2, <1>5, <2>2 DEF PrevIsBack, Holds, Link
      <3>2. m[y] # Null => b[m[y]] = y
        BY <1>3, <1>4, <3>1
      <3>3. b[y] # Null => m[b[y]] = y
        BY <1>3, <1>4, <3>1, NullIsNoRef
      <3> QED BY <3>2, <3>3
    <2> QED BY <2>2 DEF PrevIsBack
  <1>9. Acyclic(c, m)
    BY <1>3, <1>4, AcyclicHung
  <1>10. Reached(c, m, U, R \ {x})
    <2> SUFFICES ASSUME NEW S \in SUBSET Ref, Closed(c, m, S), R \ {x} \subseteq S
                 PROVE  U \subseteq S
      BY DEF Reached
    <2> DEFINE T == S \cup Least(c, n, x)
    <2>1. x \in Least(c, n, x) /\ Least(c, n, x) \subseteq U /\ Closed(c, n, Least(c, n, x))
      BY <1>1, <1>3, LeastClosed
    <2>2. Closed(c, n, S)
      BY <1>3, <1>4 DEF Closed
    <2>3. Closed(c, n, T)
      BY <2>1, <2>2 DEF Closed
    <2>4. U \subseteq T
      BY <1>1, <1>2, <2>1, <2>3 DEF Reached
    <2>5. q \in S
      BY <2>4
    <2>6. x \in S
      BY <1>3, <1>4, <2>5, NullIsNoRef DEF Closed
    <2>7. Least(c, n, x) \subseteq S
      BY <2>2, <2>6, LeastWithin
    <2> QED BY <2>4, <2>7
  <1> QED BY <1>6, <1>7, <1>8, <1>9, <1>10, <1>2 DEF Forest, m, b

\* A root and what is reached from it are freed.
LEMMA ForestWithout ==
    ASSUME NEW c, NEW n, NEW p, NEW U, NEW R, NEW x, NEW d, NEW m, NEW b,
           Forest(c, n, p, U, R), x \in R,
           d = [y \in Ref |-> IF y \in Least(c, n, x) THEN Null ELSE c[y]],
           m = [y \in Ref |-> IF y \in Least(c, n, x) THEN Null ELSE n[y]],
           b = [y \in Ref |-> IF y \in Least(c, n, x) THEN Null ELSE p[y]]
    PROVE  Forest(d, m, b, U \ Least(c, n, x), R \ {x})
  <1> DEFINE L == Least(c, n, x)
  <1>1. /\ c \in [Ref -> Link] /\ n \in [Ref -> Link] /\ p \in [Ref -> Link]
        /\ U \subseteq Ref /\ R \subseteq U
        /\ \A y \in Ref : y \notin U => c[y] = Null /\ n[y] = Null /\ p[y] = Null
        /\ Closed(c, n, U)
    BY DEF Forest, Linked
  <1>2. HeldOnce(c, n, U, R) /\ PrevIsBack(n, p) /\ Acyclic(c, n) /\ Reached(c, n, U, R)
    BY DEF Forest
  <1>3. x \in L /\ L \subseteq U /\ Closed(c, n, L)
    BY <1>1, LeastClosed
  <1>4. ASSUME NEW y \in L, y # x
        PROVE  \E z \in L : Holds(c, n, z, y)
    BY <1>1, <1>4, LeastHeld
  <1>5. /\ d \in [Ref -> Link] /\ m \in [Ref -> Link] /\ b \in [Ref -> Link]
        /\ \A y \in L : d[y] = Null /\ m[y] = Null /\ b[y] = Null
        /\ \A y \in Ref : y \notin L => d[y] = c[y] /\ m[y] = n[y] /\ b[y] = p[y]
    BY <1>1, <1>3 DEF Link
  <1> HIDE DEF L
  <1>6. \A y \in Ref : ~Holds(c, n, y, x)
    BY <1>2 DEF HeldOnce
  <1>7. \A r, y, z \in Ref : Holds(c, n, y, r) /\ Holds(c, n, z, r) => y = z
    BY <1>2 DEF HeldOnce
  <1>8. ASSUME NEW y \in Ref, NEW z \in L, Holds(c, n, y, z)
        PROVE  y \in L
    BY <1>1, <1>3, <1>4, <1>6, <1>7, <1>8
  <1>9. Linked(d, m, b, U \ L, R \ {x})
    <2>1. R \ {x} \subseteq U \ L
      <3>1. ASSUME NEW r \in R, r \in L, r # x PROVE FALSE
        <4>1. \A y \in Ref : ~Holds(c, n, y, r)
          BY <1>2 DEF HeldOnce
        <4> QED BY <1>1, <1>3, <1>4, <3>1, <4>1
      <3> QED BY <1>1, <3>1
    <2>2. Closed(d, m, U \ L)
      BY <1>1, <1>5, <1>8 DEF Closed, Holds
    <2>3. \A y \in Ref : y \notin U \ L => d[y] = Null /\ m[y] = Null /\ b[y] = Null
      BY <1>1, <1>5
    <2> QED BY <1>1, <1>5, <2>1, <2>2, <2>3 DEF Linked
  <1>10. HeldOnce(d, m, U \ L, R \ {x})
    <2>1. \A y, r \in Ref : Holds(d, m, y, r) => Holds(c, n, y, r)
      BY <1>1, <1>5, NullIsNoRef DEF Holds
    <2>2. \A y, r \in Ref : Holds(c, n, y, r) /\ y \notin L => Holds(d, m, y, r)
      BY <1>5 DEF Holds
    <2>3. \A r \in R \ {x} : \A y \in Ref : ~Holds(d, m, y, r)
      BY <1>1, <1>2, <2>1 DEF HeldOnce
    <2>4. ASSUME NEW r \in U \ L, r \notin R \ {x}
          PROVE  \E y \in U \ L : Holds(d, m, y, r)
      <3>1. r \in U /\ r \notin L /\ r \notin R /\ r \in Ref
        BY <1>1, <1>3, <2>4
      <3>2. PICK y \in U : Holds(c, n, y, r)
        BY <1>2, <3>1 DEF HeldOnce
      <3>3. y \notin L
        BY <1>3, <3>1, <3>2, NullIsNoRef DEF Closed, Holds
      <3> QED BY <1>1, <2>2, <3>1, <3>2, <3>3
    <2>5. \A r, y, z \in Ref : Holds(d, m, y, r) /\ Holds(d, m, z, r) => y = z
      BY <1>7, <2>1
    <2> QED BY <2>3, <2>4, <2>5 DEF HeldOnce
  <1>11. PrevIsBack(m, b)
    <2> SUFFICES ASSUME NEW y \in Ref
                 PROVE  /\ m[y] # Null => b[m[y]] = y
                        /\ b[y] # Null => m[b[y]] = y
      BY DEF PrevIsBack
    <2>1. CASE y \in L
      BY <1>5, <2>1
    <2>2. CASE y \notin L
      <3>1. /\ n[y] # Null => n[y] \in Ref /\ p[n[y]] = y
            /\ p[y] # Null => p[y] \in Ref /\ n[p[y]] = y
        BY <1>1, <1>2 DEF PrevIsBack, Link
      <3>2. n[y] # Null => n[y] \notin L
        BY <1>8, <2>2 DEF Holds
      <3>3. p[y] # Null => p[y] \notin L
        BY <1>3, <2>2, <3>1, NullIsNoRef DEF Closed
      <3> QED BY <1>5, <2>2, <3>1, <3>2, <3>3
    <2> QED BY <2>1, <2>2
  <1>12. Acyclic(d, m)
    <2>1. \A y \in Ref : d[y] \in {c[y], Null} /\ m[y] \in {n[y], Null}
      BY <1>1, <1>3, <1>5
    <2> QED BY <1>2, <2>1, NullIsNoRef DEF Acyclic
  <1>13. Reached(d, m, U \ L, R \ {x})
    <2> SUFFICES ASSUME NEW S \in SUBSET Ref, Closed(d, m, S), R \ {x} \subseteq S
                 PROVE  U \ L \subseteq S
      BY DEF Reached
    <2>1. Closed(c, n, S \cup L)
      BY <1>1, <1>3, <1>5 DEF Closed
    <2>2. U \subseteq S \cup L
      BY <1>1, <1>2, <1>3, <2>1 DEF Reached
    <2> QED BY <2>2
  <1> QED BY <1>9, <1>10, <1>11, <1>12, <1>13 DEF Forest, L

----------------------------------------------------------------------------
\* The items of a heap, and what Below and LastFrom gather of them.

Kid(h)  == [x \in Ref |-> h[x].child]
Nxt(h)  == [x \in Ref |-> h[x].next]
Prv(h)  == [x \in Ref |-> h[x].prev]
Used(h) == {x \in Ref : h[x].type # "free"}

LEMMA LeastNull ==
    ASSUME NEW c, NEW n
    PROVE  Least(c, n, Null) = {}
  <1>1. {} \in SUBSET Ref /\ Closed(c, n, {})
    BY DEF Closed
  <1> QED BY <1>1 DEF Least

\* What is reached from an item is the item and what is reached from its links.
LEMMA LeastUnfolds ==
    ASSUME NEW c, NEW n, c \in [Ref -> Link], n \in [Ref -> Link], NEW r, r \in Ref
    PROVE  Least(c, n, r) = {r} \cup Least(c, n, c[r]) \cup Least(c, n, n[r])
  <1> DEFINE L(x) == Least(c, n, x)
             All == {r} \cup L(c[r]) \cup L(n[r])
  <1>1. Closed(c, n, Ref)
    BY DEF Closed, Link
  <1>2. \A x \in Ref : x \in L(x) /\ L(x) \subseteq Ref /\ Closed(c, n, L(x))
    BY <1>1, LeastClosed
  <1>3. L(Null) = {}
    BY LeastNull
  <1>4. \A x \in Ref, S \in SUBSET Ref : Closed(c, n, S) /\ x \in S => L(x) \subseteq S
    BY LeastWithin
  <1> HIDE DEF L
  <1>5. c[r] \in Link /\ n[r] \in Link
    OBVIOUS
  <1>6. L(c[r]) \subseteq L(r) /\ L(n[r]) \subseteq L(r)
    BY <1>2, <1>3, <1>4, <1>5 DEF Closed, Link
  <1>7. /\ L(c[r]) \subseteq Ref /\ Closed(c, n, L(c[r]))
        /\ L(n[r]) \subseteq Ref /\ Closed(c, n, L(n[r]))
        /\ c[r] # Null => c[r] \in L(c[r])
        /\ n[r] # Null => n[r] \in L(n[r])
    BY <1>2, <1>3, <1>5 DEF Link, Closed
  <1>8. Closed(c, n, All) /\ All \in SUBSET Ref
    BY <1>7 DEF Closed
  <1>9. L(r) \subseteq All
    BY <1>4, <1>8
  <1>10. L(r) = All
    BY <1>2, <1>6, <1>9
  <1> QED BY <1>10 DEF L

\* What cJSON_Delete frees is what is reached.
LEMMA BelowIsLeast ==
    ASSUME NEW h, Kid(h) \in [Ref -> Link], Nxt(h) \in [Ref -> Link],
           Acyclic(Kid(h), Nxt(h)), NEW r, r \in Link
    PROVE  Below(h, r) = Least(Kid(h), Nxt(h), r)
  <1> DEFINE c == Kid(h)
             n == Nxt(h)
             Gathers(f) ==
               f = [s \in Link |->
                      IF s = Null THEN {} ELSE {s} \cup f[h[s].child] \cup f[h[s].next]]
             f == CHOOSE f : Gathers(f)
             g == [s \in Link |-> Least(c, n, s)]
  <1>1. Below(h, r) = f[r]
    BY DEF Below
  <1>2. \A s \in Ref : c[s] = h[s].child /\ n[s] = h[s].next
    BY DEF Kid, Nxt
  <1>3. \A s \in Ref : c[s] \in Link /\ n[s] \in Link
    OBVIOUS
  <1>4. \A s \in Ref : Least(c, n, s) = {s} \cup Least(c, n, c[s]) \cup Least(c, n, n[s])
    BY LeastUnfolds
  <1>5. Least(c, n, Null) = {}
    BY LeastNull
  <1>6. Acyclic(c, n)
    OBVIOUS
  <1> HIDE DEF c, n
  <1>7. \A s \in Link : Least(c, n, s) =
          IF s = Null THEN {} ELSE {s} \cup g[h[s].child] \cup g[h[s].next]
    BY <1>2, <1>3, <1>4, <1>5 DEF Link
  <1>8. Gathers(g)
    BY <1>7
  <1>9. Gathers(f)
    BY <1>8
  <1>10. \A s \in Link :
           f[s] = IF s = Null THEN {} ELSE {s} \cup f[h[s].child] \cup f[h[s].next]
    BY <1>9
  <1> HIDE DEF f, g
  <1> DEFINE T == {s \in Ref : f[s] # Least(c, n, s)}
  <1>11. T = {}
    <2>1. SUFFICES ASSUME T # {} PROVE FALSE
      OBVIOUS
    <2>2. PICK s \in T : c[s] \notin T /\ n[s] \notin T
      BY <1>6, <2>1 DEF Acyclic
    <2>3. s \in Ref /\ s # Null /\ c[s] \in Link /\ n[s] \in Link
      BY <1>3, NullIsNoRef
    <2>4. f[Null] = Least(c, n, Null)
      BY <1>5, <1>10 DEF Link
    <2>5. f[c[s]] = Least(c, n, c[s]) /\ f[n[s]] = Least(c, n, n[s])
      BY <2>2, <2>3, <2>4 DEF Link
    <2>6. s \in Link
      BY <2>3 DEF Link
    <2>7. f[s] = {s} \cup f[h[s].child] \cup f[h[s].next]
      BY <1>10, <2>3, <2>6
    <2>8. h[s].child = c[s] /\ h[s].next = n[s]
      BY <1>2, <2>3
    <2>9. f[s] = {s} \cup f[c[s]] \cup f[n[s]]
      BY <2>7, <2>8
    <2> QED BY <1>4, <2>2, <2>3, <2>5, <2>9
  <1>12. f[r] = Least(c, n, r)
    BY <1>5, <1>10, <1>11 DEF Link
  <1> QED BY <1>1, <1>12 DEF c, n

\* The last of a list is reached from the first, and nothing comes after it.
LEMMA LastIsLast ==
    ASSUME NEW h, Kid(h) \in [Ref -> Link], Nxt(h) \in [Ref -> Link],
           Acyclic(Kid(h), Nxt(h)), NEW r, r \in Ref
    PROVE  /\ LastFrom(h, r) \in Least(Kid(h), Nxt(h), r)
           /\ h[LastFrom(h, r)].next = Null
  <1> DEFINE k == [x \in Ref |-> Null]
             n == Nxt(h)
             Gathers(f) ==
               f = [s \in Link |-> IF s = Null THEN {} ELSE {s} \cup f[h[s].next]]
             f == CHOOSE f : Gathers(f)
             g == [s \in Link |-> Least(k, n, s)]
  <1>1. LastFrom(h, r) = CHOOSE x \in f[r] : h[x].next = Null
    BY DEF LastFrom
  <1>2. k \in [Ref -> Link] /\ n \in [Ref -> Link] /\ (\A s \in Ref : k[s] = Null)
    BY DEF Link
  <1>3. \A s \in Ref : n[s] = h[s].next /\ n[s] \in Link
    BY <1>2 DEF Nxt
  <1>4. \A s \in Ref : Least(k, n, s) = {s} \cup Least(k, n, k[s]) \cup Least(k, n, n[s])
    BY <1>2, LeastUnfolds
  <1>5. Least(k, n, Null) = {}
    BY LeastNull
  <1>6. Acyclic(k, n)
    BY NullIsNoRef DEF Acyclic
  <1> HIDE DEF k
  <1>7. Closed(k, n, Ref) /\ Closed(Kid(h), n, Ref)
    BY <1>2 DEF Closed, Link
  <1> HIDE DEF n
  <1>8. \A s \in Link : Least(k, n, s) =
          IF s = Null THEN {} ELSE {s} \cup g[h[s].next]
    BY <1>2, <1>3, <1>4, <1>5 DEF Link
  <1>9. Gathers(g)
    BY <1>8
  <1>10. Gathers(f)
    BY <1>9
  <1>11. \A s \in Link : f[s] = IF s = Null THEN {} ELSE {s} \cup f[h[s].next]
    BY <1>10
  <1> HIDE DEF f, g
  <1> DEFINE T == {s \in Ref : f[s] # Least(k, n, s)}
  <1>12. T = {}
    <2>1. SUFFICES ASSUME T # {} PROVE FALSE
      OBVIOUS
    <2>2. PICK s \in T : k[s] \notin T /\ n[s] \notin T
      BY <1>6, <2>1 DEF Acyclic
    <2>3. s \in Ref /\ s # Null /\ n[s] \in Link
      BY <1>3, NullIsNoRef
    <2>4. f[Null] = Least(k, n, Null)
      BY <1>5, <1>11 DEF Link
    <2>5. f[n[s]] = Least(k, n, n[s])
      BY <2>2, <2>3, <2>4 DEF Link
    <2>6. s \in Link
      BY <2>3 DEF Link
    <2>7. f[s] = {s} \cup f[h[s].next]
      BY <1>11, <2>3, <2>6
    <2>8. f[s] = {s} \cup f[n[s]]
      BY <1>3, <2>3, <2>7
    <2>9. Least(k, n, s) = {s} \cup Least(k, n, k[s]) \cup Least(k, n, n[s])
      BY <1>4, <2>3
    <2>10. Least(k, n, k[s]) = {}
      BY <1>2, <1>5, <2>3
    <2> QED BY <2>2, <2>5, <2>8, <2>9, <2>10
  <1> DEFINE Row == f[r]
  <1>13. Row = Least(k, n, r)
    BY <1>12
  <1>14. r \in Row /\ Row \subseteq Ref /\ Closed(k, n, Row)
    BY <1>7, <1>13, LeastClosed
  <1>15. \E x \in Row : h[x].next = Null
    <2>1. PICK x \in Row : k[x] \notin Row /\ n[x] \notin Row
      BY <1>6, <1>14 DEF Acyclic
    <2>2. n[x] = Null
      BY <1>14, <2>1 DEF Closed
    <2> QED BY <1>3, <1>14, <2>1, <2>2
  <1>16. Row \subseteq Least(Kid(h), n, r)
    <2>1. r \in Least(Kid(h), n, r) /\ Closed(Kid(h), n, Least(Kid(h), n, r))
      BY <1>7, LeastClosed
    <2>2. Closed(k, n, Least(Kid(h), n, r)) /\ Least(Kid(h), n, r) \subseteq Ref
      BY <1>2, <2>1 DEF Closed, Least
    <2> QED BY <1>13, <2>1, <2>2, LeastWithin
  <1>17. LastFrom(h, r) \in Row /\ h[LastFrom(h, r)].next = Null
    BY <1>1, <1>15
  <1> QED BY <1>16, <1>17 DEF n

----------------------------------------------------------------------------
\* What an assignment to an item leaves of the heap.

Fields(x) == x = [type |-> x.type, name |-> x.name, value |-> x.value,
                  child |-> x.child, next |-> x.next, prev |-> x.prev]
Shape(h)  == h = [x \in Ref |-> h[x]] /\ \A x \in Ref : Fields(h[x])

Trees(h, R) == Shape(h) /\ Forest(Kid(h), Nxt(h), Prv(h), Used(h), R)

\* g is h but for item i.
ButFor(h, g, i) == Shape(g) /\ \A x \in Ref : x # i => g[x] = h[x]

Put(h, g, i, x) == g = [h EXCEPT ![i] = x]

LEMMA ItemPut ==
    ASSUME NEW h, NEW i, NEW x, NEW g, Shape(h), i \in Ref, Fields(x), Put(h, g, i, x)
    PROVE  ButFor(h, g, i) /\ g[i] = x
  <1>1. h = [y \in Ref |-> h[y]] /\ \A y \in Ref : Fields(h[y])
    BY DEF Shape
  <1>2. g = [y \in Ref |-> IF y = i THEN x ELSE h[y]]
    BY <1>1 DEF Put
  <1>3. g[i] = x /\ (\A y \in Ref : y # i => g[y] = h[y]) /\ g = [y \in Ref |-> g[y]]
    BY <1>2
  <1>4. \A y \in Ref : Fields(g[y])
    BY <1>1, <1>3
  <1> QED BY <1>3, <1>4 DEF ButFor, Shape

LEMMA LinksPut ==
    ASSUME NEW h, NEW g, NEW i, Shape(h), ButFor(h, g, i), i \in Ref
    PROVE  /\ Kid(g) = [Kid(h) EXCEPT ![i] = g[i].child]
           /\ Nxt(g) = [Nxt(h) EXCEPT ![i] = g[i].next]
           /\ Prv(g) = [Prv(h) EXCEPT ![i] = g[i].prev]
           /\ g[i].type # "free" => Used(g) = Used(h) \cup {i}
  <1>1. \A x \in Ref : x # i => g[x] = h[x]
    BY DEF ButFor
  <1>2. Kid(g) = [Kid(h) EXCEPT ![i] = g[i].child]
    BY <1>1 DEF Kid
  <1>3. Nxt(g) = [Nxt(h) EXCEPT ![i] = g[i].next]
    BY <1>1 DEF Nxt
  <1>4. Prv(g) = [Prv(h) EXCEPT ![i] = g[i].prev]
    BY <1>1 DEF Prv
  <1>5. g[i].type # "free" => Used(g) = Used(h) \cup {i}
    BY <1>1 DEF Used
  <1> QED BY <1>2, <1>3, <1>4, <1>5

\* An item as cJSON_New_Item makes it, or as it is made and filled.
Blank(x) == Fields(x) /\ x.type # "free" /\ x.child = Null /\ x.next = Null /\ x.prev = Null

LEMMA ZeroedIsBlank == Blank(Zeroed)
  BY DEF Blank, Fields, Zeroed, Unused

\* A new item is a root.
LEMMA ItemMade ==
    ASSUME NEW h, NEW g, NEW R, NEW i,
           Trees(h, R), ButFor(h, g, i), i \in Ref, i \notin Used(h), Blank(g[i])
    PROVE  /\ Trees(g, R \cup {i})
           /\ Kid(g) = Kid(h) /\ Nxt(g) = Nxt(h) /\ Used(g) = Used(h) \cup {i}
  <1>1. Shape(h) /\ Forest(Kid(h), Nxt(h), Prv(h), Used(h), R) /\ Shape(g)
    BY DEF Trees, ButFor
  <1>2. /\ Kid(h) \in [Ref -> Link] /\ Nxt(h) \in [Ref -> Link] /\ Prv(h) \in [Ref -> Link]
        /\ Kid(h)[i] = Null /\ Nxt(h)[i] = Null /\ Prv(h)[i] = Null
    BY <1>1 DEF Forest, Linked
  <1>3. Kid(g) = Kid(h) /\ Nxt(g) = Nxt(h) /\ Prv(g) = Prv(h) /\ Used(g) = Used(h) \cup {i}
    BY <1>1, <1>2, LinksPut DEF Blank
  <1>4. Forest(Kid(h), Nxt(h), Prv(h), Used(h) \cup {i}, R \cup {i})
    BY <1>1, ForestMade
  <1> QED BY <1>1, <1>3, <1>4 DEF Trees

\* What an item says is no matter of the trees.
LEMMA ItemMarked ==
    ASSUME NEW h, NEW g, NEW R, NEW i,
           Trees(h, R), ButFor(h, g, i), i \in Used(h), g[i].type # "free",
           g[i].child = h[i].child, g[i].next = h[i].next, g[i].prev = h[i].prev
    PROVE  /\ Trees(g, R)
           /\ Kid(g) = Kid(h) /\ Nxt(g) = Nxt(h) /\ Used(g) = Used(h)
  <1>1. Shape(h) /\ Forest(Kid(h), Nxt(h), Prv(h), Used(h), R) /\ Shape(g) /\ i \in Ref
    BY DEF Trees, ButFor, Used
  <1>2. \A x \in Ref : /\ g[x].child = h[x].child /\ g[x].next = h[x].next
                       /\ g[x].prev = h[x].prev
                       /\ (g[x].type = "free" <=> h[x].type = "free")
    BY DEF ButFor, Used
  <1>3. Kid(g) = Kid(h) /\ Nxt(g) = Nxt(h) /\ Prv(g) = Prv(h) /\ Used(g) = Used(h)
    BY <1>2 DEF Kid, Nxt, Prv, Used
  <1> QED BY <1>1, <1>3 DEF Trees

\* Item q is as it was, but that its child is x.
GivenChild(h, g, q, x) == Fields(h[q]) /\ g[q] = [h[q] EXCEPT !.child = x]

LEMMA ItemHungBelow ==
    ASSUME NEW h, NEW g, NEW R, NEW x, NEW q,
           Trees(h, R), ButFor(h, g, q), x \in R, q \in Used(h),
           q \notin Least(Kid(h), Nxt(h), x), Kid(h)[q] = Null,
           GivenChild(h, g, q, x)
    PROVE  /\ Trees(g, R \ {x})
           /\ Kid(g) = [Kid(h) EXCEPT ![q] = x] /\ Nxt(g) = Nxt(h) /\ Used(g) = Used(h)
  <1>1. Shape(h) /\ Forest(Kid(h), Nxt(h), Prv(h), Used(h), R) /\ Shape(g) /\ q \in Ref
    BY DEF Trees, ButFor, Used
  <1>2. /\ g[q].type = h[q].type /\ g[q].child = x
        /\ g[q].next = h[q].next /\ g[q].prev = h[q].prev
    BY DEF Fields, GivenChild
  <1>3. Kid(g) = [Kid(h) EXCEPT ![q] = x]
    <2>1. Kid(g) = [Kid(h) EXCEPT ![q] = g[q].child]
      BY <1>1, LinksPut
    <2> QED BY <1>2, <2>1
  <1>4. \A y \in Ref : /\ g[y].next = h[y].next /\ g[y].prev = h[y].prev
                       /\ g[y].type = h[y].type
    BY <1>2 DEF ButFor
  <1>5. Nxt(g) = Nxt(h) /\ Prv(g) = Prv(h) /\ Used(g) = Used(h)
    BY <1>4 DEF Nxt, Prv, Used
  <1>6. Kid(h)[q] = Null
    BY <1>1 DEF Kid
  <1>7. Forest([Kid(h) EXCEPT ![q] = x], Nxt(h), Prv(h), Used(h), R \ {x})
    BY <1>1, <1>6, ForestBelow
  <1> QED BY <1>1, <1>3, <1>5, <1>7 DEF Trees

Suffixed(h, g, q, x) == g = suffix_object(h, q, x)
\* g is h but that the root x comes after q.
HungBehind(h, g, R, q, x) ==
    /\ Trees(g, R \ {x})
    /\ Kid(g) = Kid(h) /\ Nxt(g) = [Nxt(h) EXCEPT ![q] = x] /\ Used(g) = Used(h)

LEMMA ItemHungBehind ==
    ASSUME NEW h, NEW R, NEW x, NEW q, NEW g,
           Trees(h, R), x \in R, q \in Used(h),
           q \notin Least(Kid(h), Nxt(h), x), Nxt(h)[q] = Null, Suffixed(h, g, q, x)
    PROVE  HungBehind(h, g, R, q, x)
  <1>1. /\ Shape(h) /\ Forest(Kid(h), Nxt(h), Prv(h), Used(h), R)
        /\ q \in Ref /\ x \in Ref /\ x \in Used(h)
    BY DEF Trees, Used, Forest, Linked
  <1>2. x # q
    BY <1>1, LeastClosed DEF Forest, Linked
  <1>3. h = [y \in Ref |-> h[y]] /\ \A y \in Ref : Fields(h[y])
    BY <1>1 DEF Shape
  <1>4. g = [y \in Ref |-> IF y = q THEN [h[q] EXCEPT !.next = x]
                           ELSE IF y = x THEN [h[x] EXCEPT !.prev = q] ELSE h[y]]
    BY <1>1, <1>2, <1>3 DEF suffix_object, Suffixed
  <1>5. /\ g[q] = [h[q] EXCEPT !.next = x] /\ g[x] = [h[x] EXCEPT !.prev = q]
        /\ \A y \in Ref : y # q /\ y # x => g[y] = h[y]
        /\ g = [y \in Ref |-> g[y]]
    BY <1>1, <1>2, <1>4
  <1>6. g[q] = [type |-> h[q].type, name |-> h[q].name, value |-> h[q].value,
                child |-> h[q].child, next |-> x, prev |-> h[q].prev]
    BY <1>1, <1>3, <1>5 DEF Fields
  <1>7. g[x] = [type |-> h[x].type, name |-> h[x].name, value |-> h[x].value,
                child |-> h[x].child, next |-> h[x].next, prev |-> q]
    BY <1>1, <1>3, <1>5 DEF Fields
  <1>8. Shape(g)
    <2>1. Fields(g[q])
      BY <1>6 DEF Fields
    <2>2. Fields(g[x])
      BY <1>7 DEF Fields
    <2> QED BY <1>3, <1>5, <2>1, <2>2 DEF Shape
  <1>9. /\ \A y \in Ref : g[y].child = h[y].child /\ g[y].type = h[y].type
        /\ \A y \in Ref : g[y].next = IF y = q THEN x ELSE h[y].next
        /\ \A y \in Ref : g[y].prev = IF y = x THEN q ELSE h[y].prev
    BY <1>2, <1>5, <1>6, <1>7
  <1>10. Kid(g) = Kid(h) /\ Used(g) = Used(h)
    BY <1>9 DEF Kid, Used
  <1>11. Nxt(g) = [Nxt(h) EXCEPT ![q] = x]
    BY <1>9 DEF Nxt
  <1>12. Prv(g) = [Prv(h) EXCEPT ![x] = q]
    BY <1>9 DEF Prv
  <1>13. Forest(Kid(h), [Nxt(h) EXCEPT ![q] = x], [Prv(h) EXCEPT ![x] = q], Used(h), R \ {x})
    BY <1>1, ForestBehind
  <1>14. Trees(g, R \ {x})
    BY <1>8, <1>10, <1>11, <1>12, <1>13 DEF Trees
  <1> QED BY <1>10, <1>11, <1>14 DEF HungBehind

\* cJSON_Delete of a root frees its tree and nothing else.
LEMMA RootDeleted ==
    ASSUME NEW h, NEW R, NEW r, Trees(h, R), r \in R
    PROVE  Trees(cJSON_Delete(h, r), R \ {r})
  <1> DEFINE g == cJSON_Delete(h, r)
             L == Least(Kid(h), Nxt(h), r)
  <1>1. Shape(h) /\ Forest(Kid(h), Nxt(h), Prv(h), Used(h), R)
    BY DEF Trees
  <1>2. /\ Kid(h) \in [Ref -> Link] /\ Nxt(h) \in [Ref -> Link] /\ Acyclic(Kid(h), Nxt(h))
        /\ r \in Link
    BY <1>1 DEF Forest, Linked, Link
  <1>3. g = [x \in Ref |-> IF x \in L THEN Unused ELSE h[x]]
    BY <1>2, BelowIsLeast DEF cJSON_Delete
  <1>4. \A x \in Ref : Fields(h[x])
    BY <1>1 DEF Shape
  <1> HIDE DEF g
  <1>5. Fields(Unused) /\ Unused.type = "free"
        /\ Unused.child = Null /\ Unused.next = Null /\ Unused.prev = Null
    BY DEF Unused, Fields
  <1>6. \A x \in Ref : (x \in L => g[x] = Unused) /\ (x \notin L => g[x] = h[x])
    BY <1>3
  <1>7. Shape(g)
    <2>1. g = [x \in Ref |-> g[x]]
      BY <1>3
    <2>2. \A x \in Ref : Fields(g[x])
      BY <1>4, <1>5, <1>6
    <2> QED BY <2>1, <2>2 DEF Shape
  <1> HIDE DEF L
  <1>8. Kid(g) = [x \in Ref |-> IF x \in L THEN Null ELSE Kid(h)[x]]
    BY <1>5, <1>6 DEF Kid
  <1>9. Nxt(g) = [x \in Ref |-> IF x \in L THEN Null ELSE Nxt(h)[x]]
    BY <1>5, <1>6 DEF Nxt
  <1>10. Prv(g) = [x \in Ref |-> IF x \in L THEN Null ELSE Prv(h)[x]]
    BY <1>5, <1>6 DEF Prv
  <1>11. Used(g) = Used(h) \ L
    BY <1>5, <1>6 DEF Used
  <1>12. Forest(Kid(g), Nxt(g), Prv(g), Used(g), R \ {r})
    BY <1>1, <1>8, <1>9, <1>10, <1>11, ForestWithout DEF L
  <1> QED BY <1>7, <1>12 DEF Trees, g

\* cJSON_AddItemToArray moves one root below another.
LEMMA RootAppended ==
    ASSUME NEW h, NEW R, NEW a, NEW x,
           Trees(h, R), a \in R, x \in R, a # x
    PROVE  Trees(cJSON_AddItemToArray(h, a, x), R \ {x})
  <1> DEFINE k == h[a].child
             q == LastFrom(h, k)
             La == Least(Kid(h), Nxt(h), a)
             Lx == Least(Kid(h), Nxt(h), x)
  <1>1. Shape(h) /\ Forest(Kid(h), Nxt(h), Prv(h), Used(h), R)
    BY DEF Trees
  <1>2. /\ Kid(h) \in [Ref -> Link] /\ Nxt(h) \in [Ref -> Link] /\ Acyclic(Kid(h), Nxt(h))
        /\ Used(h) \subseteq Ref /\ R \subseteq Used(h) /\ Closed(Kid(h), Nxt(h), Used(h))
    BY <1>1 DEF Forest, Linked
  <1>3. La \cap Lx = {}
    BY <1>1, RootsApart
  <1>4. a \in La /\ La \subseteq Used(h) /\ Closed(Kid(h), Nxt(h), La)
    BY <1>2, LeastClosed
  <1>5. a \in Ref /\ a \in Used(h) /\ Kid(h)[a] = k
    BY <1>2 DEF Kid
  <1>6. a \notin Lx
    BY <1>3, <1>4
  <1> HIDE DEF La
  <1>7. CASE k = Null
    <2> DEFINE g == cJSON_AddItemToArray(h, a, x)
               y == [h[a] EXCEPT !.child = x]
    <2>1. Put(h, g, a, y)
      BY <1>7 DEF cJSON_AddItemToArray, Put
    <2>2. Fields(h[a])
      BY <1>1, <1>5 DEF Shape
    <2>3. Fields(y)
      BY <2>2 DEF Fields
    <2> HIDE DEF g, y
    <2>4. ButFor(h, g, a) /\ g[a] = y
      BY <1>1, <1>5, <2>1, <2>3, ItemPut
    <2>5. GivenChild(h, g, a, x)
      BY <2>2, <2>4 DEF GivenChild, y
    <2>6. ButFor(h, g, a)
      BY <2>4
    <2>7. Trees(g, R \ {x})
      BY <1>5, <1>6, <1>7, <2>5, <2>6, ItemHungBelow
    <2> QED BY <2>7 DEF g
  <1>8. CASE k # Null
    <2> DEFINE g == cJSON_AddItemToArray(h, a, x)
    <2>1. Suffixed(h, g, q, x)
      BY <1>8 DEF cJSON_AddItemToArray, Suffixed
    <2>2. k \in La /\ k \in Ref
      BY <1>2, <1>4, <1>5, <1>8 DEF Closed
    <2>3. q \in Least(Kid(h), Nxt(h), k) /\ h[q].next = Null
      BY <1>2, <2>2, LastIsLast
    <2> HIDE DEF k, q, g
    <2>4. Least(Kid(h), Nxt(h), k) \subseteq La
      BY <1>2, <1>4, <2>2, LeastWithin
    <2>5. q \in Used(h) /\ q \notin Lx
      BY <1>3, <1>4, <2>3, <2>4
    <2>6. Nxt(h)[q] = Null
      BY <1>2, <2>3, <2>5 DEF Nxt
    <2>7. Trees(g, R \ {x})
      BY <2>1, <2>5, <2>6, ItemHungBehind DEF HungBehind
    <2> QED BY <2>7 DEF g
  <1> QED BY <1>7, <1>8

----------------------------------------------------------------------------
\* The invariant.

\* The items the parser is in are the last of their lists and not each other.
Open(h, i, s) ==
    /\ i \in Used(h) /\ Nxt(h)[i] = Null
    /\ s \in Seq(Ref)
    /\ \A k \in 1 .. Len(s) : s[k] \in Used(h) /\ Nxt(h)[s[k]] = Null /\ s[k] # i
    /\ \A k, l \in 1 .. Len(s) : s[k] = s[l] => k = l

InParser == {"value", "name", "after"}

\* Which roots there are, and when.
RootsApartInv ==
    /\ root # Null => root # arr /\ root # resp
    /\ arr # Null => arr # resp
RootsWhen ==
    /\ root # Null <=> pc \notin {"parse", "null"}
    /\ arr # Null => pc \in {"fill", "tid", "data"}
    /\ pc = "fill" => arr # Null
    /\ resp # Null => pc \in {"tid", "data", "status", "print"}

ParserInv ==
    /\ pc \notin InParser \cup {"fail"} => stack = <<>>
    /\ pc \in InParser => Open(heap, item, stack)
    /\ pc \in {"value", "name"} => Kid(heap)[item] = Null

Inv == pc # "crashed" =>
    /\ Trees(heap, Roots)
    /\ RootsApartInv
    /\ RootsWhen
    /\ ParserInv

\* No item is freed that is still linked, and none is left without an owner.
LEMMA TreesOwned ==
    ASSUME Trees(heap, Roots)
    PROVE  LET U == {r \in Ref : ~IsFree(r)}
               Holders(r) == {h \in U : heap[h].child = r} \cup {h \in U : heap[h].next = r}
           IN  /\ UNION {Below(heap, r) : r \in Roots} = U
               /\ \A r \in U :
                    /\ Cardinality(Holders(r)) = IF r \in Roots THEN 0 ELSE 1
                    /\ heap[r].prev = (IF \E h \in U : heap[h].next = r
                                       THEN CHOOSE h \in U : heap[h].next = r ELSE Null)
  <1> DEFINE U == {r \in Ref : ~IsFree(r)}
             Holders(r) == {h \in U : heap[h].child = r} \cup {h \in U : heap[h].next = r}
             c == Kid(heap)
             n == Nxt(heap)
             p == Prv(heap)
             All == UNION {Least(c, n, r) : r \in Roots}
  <1>1. U = Used(heap)
    BY DEF Used, IsFree
  <1>2. Forest(c, n, p, U, Roots)
    BY <1>1 DEF Trees
  <1>3. \A x \in Ref : c[x] = heap[x].child /\ n[x] = heap[x].next /\ p[x] = heap[x].prev
    BY DEF Kid, Nxt, Prv
  <1> HIDE DEF c, n, p, U
  <1>4. /\ c \in [Ref -> Link] /\ n \in [Ref -> Link] /\ p \in [Ref -> Link]
        /\ U \subseteq Ref /\ Roots \subseteq U
        /\ \A x \in Ref : x \notin U => c[x] = Null /\ n[x] = Null /\ p[x] = Null
        /\ Closed(c, n, U)
    BY <1>2 DEF Forest, Linked
  <1>5. HeldOnce(c, n, U, Roots) /\ PrevIsBack(n, p) /\ Acyclic(c, n) /\ Reached(c, n, U, Roots)
    BY <1>2 DEF Forest
  <1>6. UNION {Below(heap, r) : r \in Roots} = U
    <2>1. ASSUME NEW r \in Roots PROVE Below(heap, r) = Least(c, n, r)
      <3>1. r \in Link
        BY <1>4 DEF Link
      <3> QED BY <1>4, <1>5, <3>1, BelowIsLeast DEF c, n
    <2>2. UNION {Below(heap, r) : r \in Roots} = All
      BY <2>1
    <2>3. \A r \in Roots : r \in Least(c, n, r) /\ Least(c, n, r) \subseteq U
                           /\ Closed(c, n, Least(c, n, r))
      BY <1>4, LeastClosed
    <2>4. All \subseteq U /\ Roots \subseteq All
      BY <2>3
    <2>5. Closed(c, n, All)
      BY <2>3 DEF Closed
    <2>6. U \subseteq All
      BY <1>4, <1>5, <2>4, <2>5 DEF Reached
    <2> QED BY <2>2, <2>4, <2>6
  <1>7. ASSUME NEW r \in U
        PROVE  Cardinality(Holders(r)) = IF r \in Roots THEN 0 ELSE 1
    <2>1. \A x : x \in Holders(r) <=> x \in U /\ Holds(c, n, x, r)
      BY <1>3, <1>4 DEF Holds
    <2> HIDE DEF Holders
    <2>2. CASE r \in Roots
      <3>1. Holders(r) = {}
        BY <1>4, <1>5, <2>1, <2>2 DEF HeldOnce
      <3> QED BY <2>2, <3>1, FS_EmptySet
    <2>3. CASE r \notin Roots
      <3>1. PICK y \in U : Holds(c, n, y, r)
        BY <1>5, <2>3 DEF HeldOnce
      <3>2. \A x \in U : Holds(c, n, x, r) => x = y
        BY <1>4, <1>5, <3>1 DEF HeldOnce
      <3>3. Holders(r) = {y}
        BY <2>1, <3>1, <3>2
      <3> QED BY <2>3, <3>3, FS_Singleton
    <2> QED BY <2>2, <2>3
  <1>8. ASSUME NEW r \in U
        PROVE  heap[r].prev = (IF \E h \in U : heap[h].next = r
                               THEN CHOOSE h \in U : heap[h].next = r ELSE Null)
    <2>1. r \in Ref /\ r # Null
      BY <1>4, NullIsNoRef
    <2>2. CASE \E h \in U : heap[h].next = r
      <3> DEFINE y == CHOOSE h \in U : heap[h].next = r
      <3>1. y \in U /\ heap[y].next = r
        BY <2>2
      <3> HIDE DEF y
      <3>2. p[n[y]] = y /\ n[y] = r
        BY <1>3, <1>4, <1>5, <2>1, <3>1 DEF PrevIsBack
      <3>3. heap[r].prev = y
        BY <1>3, <2>1, <3>2
      <3> QED BY <2>2, <3>3 DEF y
    <2>3. CASE ~ \E h \in U : heap[h].next = r
      <3>1. p[r] \in Ref => n[p[r]] = r /\ p[r] \in U
        BY <1>4, <1>5, <2>1, NullIsNoRef DEF PrevIsBack
      <3>2. p[r] = Null
        BY <1>3, <1>4, <2>1, <2>3, <3>1 DEF Link
      <3> QED BY <1>3, <2>1, <2>3, <3>2
    <2> QED BY <2>2, <2>3
  <1> QED BY <1>6, <1>7, <1>8 DEF U

LEMMA InvOwned == Inv => OwnedOnce
  <1> SUFFICES ASSUME Inv, pc # "crashed" PROVE OwnedOnce
    BY DEF OwnedOnce
  <1>1. Trees(heap, Roots)
    BY DEF Inv
  <1> QED BY <1>1, TreesOwned DEF OwnedOnce

----------------------------------------------------------------------------
\* The beginning, and the ends: no item is in use.
LEMMA NoTrees == Trees([r \in Ref |-> Unused], {})
  <1> DEFINE h == [r \in Ref |-> Unused]
             N == [r \in Ref |-> Null]
  <1>1. Fields(Unused) /\ Unused.type = "free"
        /\ Unused.child = Null /\ Unused.next = Null /\ Unused.prev = Null
    BY DEF Unused, Fields
  <1>2. Shape(h)
    BY <1>1 DEF Shape
  <1>3. Kid(h) = N /\ Nxt(h) = N /\ Prv(h) = N /\ Used(h) = {}
    BY <1>1 DEF Kid, Nxt, Prv, Used
  <1>4. N \in [Ref -> Link] /\ (\A r \in Ref : N[r] = Null)
    BY DEF Link
  <1> HIDE DEF N
  <1>5. Linked(N, N, N, {}, {})
    BY <1>4 DEF Linked, Closed
  <1>6. HeldOnce(N, N, {}, {}) /\ PrevIsBack(N, N)
    BY <1>4, NullIsNoRef DEF HeldOnce, Holds, PrevIsBack
  <1>7. Acyclic(N, N) /\ Reached(N, N, {}, {})
    BY <1>4, NullIsNoRef DEF Acyclic, Reached
  <1>8. Forest(N, N, N, {}, {})
    BY <1>5, <1>6, <1>7 DEF Forest
  <1> QED BY <1>2, <1>3, <1>8 DEF Trees

LEMMA InitInv == Init => Inv
  <1> SUFFICES ASSUME Init PROVE Inv
    OBVIOUS
  <1>1. Roots = {}
    BY DEF Init, Roots
  <1>2. Trees(heap, Roots)
    BY <1>1, NoTrees DEF Init
  <1>3. RootsApartInv /\ RootsWhen /\ ParserInv
    BY DEF Init, RootsApartInv, RootsWhen, ParserInv, InParser
  <1> QED BY <1>2, <1>3 DEF Inv

----------------------------------------------------------------------------
\* What the actions do to the heap.

LEMMA Fresh ==
    ASSUME Malloc
    PROVE  New \in Ref /\ New \notin Used(heap)
  BY DEF Malloc, New, IsFree, Used

\* g is h with a new root i.
Added(h, g, R, i) ==
    /\ Trees(g, R \cup {i}) /\ R \subseteq Used(h)
    /\ Kid(g) = Kid(h) /\ Nxt(g) = Nxt(h) /\ Used(g) = Used(h) \cup {i}
    /\ Kid(h)[i] = Null /\ Nxt(h)[i] = Null

LEMMA BlankMade ==
    ASSUME NEW h, NEW R, NEW i, NEW x, NEW g,
           Trees(h, R), i \in Ref, i \notin Used(h), Blank(x), Put(h, g, i, x)
    PROVE  ButFor(h, g, i) /\ g[i] = x /\ Added(h, g, R, i)
  <1>1. ButFor(h, g, i) /\ g[i] = x
    BY ItemPut DEF Blank, Trees
  <1>2. ButFor(h, g, i) /\ Blank(g[i])
    BY <1>1
  <1>3. /\ Trees(g, R \cup {i})
        /\ Kid(g) = Kid(h) /\ Nxt(g) = Nxt(h) /\ Used(g) = Used(h) \cup {i}
        /\ Kid(h)[i] = Null /\ Nxt(h)[i] = Null
    <2>1. /\ Trees(g, R \cup {i})
          /\ Kid(g) = Kid(h) /\ Nxt(g) = Nxt(h) /\ Used(g) = Used(h) \cup {i}
      BY <1>2, ItemMade
    <2>2. Kid(h)[i] = Null /\ Nxt(h)[i] = Null
      BY DEF Trees, Forest, Linked
    <2> QED BY <2>1, <2>2
  <1>4. R \subseteq Used(h)
    BY DEF Trees, Forest, Linked
  <1> QED BY <1>1, <1>3, <1>4 DEF Added

\* Nothing but itself is reached from a new item.
LEMMA BlankAlone ==
    ASSUME NEW h, NEW i, i \in Ref, h[i].child = Null, h[i].next = Null, NEW q, q # i
    PROVE  q \notin Least(Kid(h), Nxt(h), i)
  <1>1. Closed(Kid(h), Nxt(h), {i})
    BY DEF Closed, Kid, Nxt
  <1> QED BY <1>1, LeastWithin

\* parse_array and parse_object: the first child.
FirstChild(h, g, i, q, t) == g = [h EXCEPT ![i] = Zeroed, ![q].type = t, ![q].child = i]

LEMMA ChildMade ==
    ASSUME NEW h, NEW R, NEW i, NEW q, NEW t, NEW g,
           Trees(h, R), i \in Ref, i \notin Used(h), q \in Used(h), Kid(h)[q] = Null, t # "free",
           FirstChild(h, g, i, q, t)
    PROVE  /\ Trees(g, R) /\ Kid(g)[i] = Null /\ i # q
           /\ Nxt(g) = Nxt(h) /\ Used(g) = Used(h) \cup {i} /\ Nxt(h)[i] = Null
  <1> DEFINE f == [h EXCEPT ![i] = Zeroed]
             y == [h[q] EXCEPT !.type = t]
             e == [f EXCEPT ![q] = y]
             x == [e[q] EXCEPT !.child = i]
  <1>1. Put(h, f, i, Zeroed) /\ Put(f, e, q, y)
    BY DEF Put
  <1>2. /\ Trees(f, R \cup {i}) /\ R \subseteq Used(h)
        /\ f[i] = Zeroed /\ (\A z \in Ref : z # i => f[z] = h[z])
        /\ Kid(f) = Kid(h) /\ Nxt(f) = Nxt(h) /\ Used(f) = Used(h) \cup {i}
        /\ Kid(h)[i] = Null /\ Nxt(h)[i] = Null
    <2> HIDE DEF f
    <2>1. ButFor(h, f, i) /\ f[i] = Zeroed /\ Added(h, f, R, i)
      BY <1>1, ZeroedIsBlank, BlankMade
    <2> QED BY <2>1 DEF Added, ButFor
  <1>3. q \in Ref /\ q # i /\ q \in Used(f) /\ h[q].type # "free"
    BY <1>2 DEF Used
  <1>4. Fields(h[q]) /\ Shape(h) /\ Shape(f)
    BY <1>2, <1>3 DEF Trees, Shape
  <1>5. Put(e, g, q, x)
    <2>1. h = [z \in Ref |-> h[z]]
      BY <1>4 DEF Shape
    <2> QED BY <1>3, <2>1 DEF Put, FirstChild
  <1> HIDE DEF f, e
  <1>6. f[q] = h[q] /\ f[i].child = Null /\ f[i].next = Null
    BY <1>2, <1>3 DEF Zeroed, Unused
  <1>7. /\ Fields(y) /\ y.type = t
        /\ y.child = h[q].child /\ y.next = h[q].next /\ y.prev = h[q].prev
    BY <1>4 DEF Fields
  <1> HIDE DEF y
  <1>8. ButFor(f, e, q) /\ e[q] = y
    BY <1>1, <1>3, <1>4, <1>7, ItemPut
  <1>9. Trees(e, R \cup {i}) /\ Kid(e) = Kid(f) /\ Nxt(e) = Nxt(f) /\ Used(e) = Used(f)
    BY <1>2, <1>3, <1>6, <1>7, <1>8, ItemMarked
  <1>10. e[i] = Zeroed
    BY <1>2, <1>3, <1>8 DEF ButFor
  <1>11. q \notin Least(Kid(e), Nxt(e), i)
    <2>1. e[i].child = Null /\ e[i].next = Null
      BY <1>10 DEF Zeroed, Unused
    <2> QED BY <1>3, <2>1, BlankAlone
  <1>12. Fields(e[q]) /\ Kid(e)[q] = Null /\ Shape(e)
    BY <1>2, <1>7, <1>8, <1>9 DEF Trees
  <1>13. Fields(x)
    BY <1>12 DEF Fields
  <1> HIDE DEF x
  <1>14. ButFor(e, g, q) /\ g[q] = x
    BY <1>3, <1>5, <1>12, <1>13, ItemPut
  <1>15. GivenChild(e, g, q, i) /\ ButFor(e, g, q)
    BY <1>12, <1>14 DEF GivenChild, x
  <1>16. i \in R \cup {i} /\ q \in Used(e) /\ Kid(e)[q] = Null
    BY <1>3, <1>9, <1>12
  <1>17. Trees(e, R \cup {i})
    BY <1>9
  <1>18. /\ Trees(g, (R \cup {i}) \ {i})
         /\ Nxt(g) = Nxt(e) /\ Used(g) = Used(e)
    BY <1>11, <1>15, <1>16, <1>17, ItemHungBelow
  <1>19. (R \cup {i}) \ {i} = R
    BY <1>2
  <1>20. Kid(g)[i] = Null
    <2>1. g[i] = Zeroed
      BY <1>3, <1>10, <1>14 DEF ButFor
    <2> QED BY <2>1 DEF Kid, Zeroed, Unused
  <1>21. /\ Trees(g, R) /\ Kid(g)[i] = Null /\ i # q
         /\ Nxt(g) = Nxt(h) /\ Used(g) = Used(h) \cup {i} /\ Nxt(h)[i] = Null
    BY <1>2, <1>3, <1>9, <1>18, <1>19, <1>20
  <1> QED BY <1>21

\* parse_array and parse_object: the item after a comma.
LEMMA NextMade ==
    ASSUME NEW h, NEW R, NEW i, NEW q, NEW f, NEW g,
           Trees(h, R), i \in Ref, i \notin Used(h), q \in Used(h), Nxt(h)[q] = Null,
           Put(h, f, i, Zeroed), Suffixed(f, g, q, i)
    PROVE  /\ Trees(g, R) /\ Kid(g)[i] = Null /\ i # q
           /\ Nxt(g) = [Nxt(h) EXCEPT ![q] = i]
           /\ Used(g) = Used(h) \cup {i} /\ Nxt(h)[i] = Null
  <1>1. /\ Trees(f, R \cup {i}) /\ R \subseteq Used(h)
        /\ f[i] = Zeroed /\ (\A y \in Ref : y # i => f[y] = h[y])
        /\ Kid(f) = Kid(h) /\ Nxt(f) = Nxt(h) /\ Used(f) = Used(h) \cup {i}
        /\ Kid(h)[i] = Null /\ Nxt(h)[i] = Null
    <2>1. ButFor(h, f, i) /\ f[i] = Zeroed /\ Added(h, f, R, i)
      BY ZeroedIsBlank, BlankMade
    <2> QED BY <2>1 DEF Added, ButFor
  <1>2. q \in Ref /\ q # i /\ q \in Used(f) /\ Nxt(f)[q] = Null
    BY <1>1 DEF Used
  <1>3. f[i].child = Null /\ f[i].next = Null
    BY <1>1 DEF Zeroed, Unused
  <1>4. q \notin Least(Kid(f), Nxt(f), i)
    BY <1>2, <1>3, BlankAlone
  <1>5. /\ Trees(g, (R \cup {i}) \ {i})
        /\ Kid(g) = Kid(f) /\ Nxt(g) = [Nxt(f) EXCEPT ![q] = i] /\ Used(g) = Used(f)
    <2> DEFINE S == R \cup {i}
    <2>1. Trees(f, S) /\ i \in S /\ q \in Used(f) /\ Nxt(f)[q] = Null
      BY <1>1, <1>2
    <2> HIDE DEF S
    <2>2. HungBehind(f, g, S, q, i)
      BY <1>4, <2>1, ItemHungBehind
    <2> QED BY <2>2 DEF S, HungBehind
  <1>6. (R \cup {i}) \ {i} = R
    BY <1>1
  <1>7. Kid(g)[i] = g[i].child /\ Kid(f)[i] = f[i].child
    BY DEF Kid
  <1>8. g[i].child = Null
    BY <1>3, <1>5, <1>7
  <1>9. /\ Trees(g, R) /\ Kid(g)[i] = Null /\ i # q
        /\ Nxt(g) = [Nxt(h) EXCEPT ![q] = i]
        /\ Used(g) = Used(h) \cup {i} /\ Nxt(h)[i] = Null
    BY <1>1, <1>2, <1>5, <1>6, <1>8
  <1> QED BY <1>9

\* Fill and AddMember: an item is made and appended to a root, named or not.
LEMMA MemberMade ==
    ASSUME NEW h, NEW R, NEW i, NEW x, NEW a,
           Trees(h, R), i \in Ref, i \notin Used(h), Blank(x), a \in R
    PROVE  Trees(cJSON_AddItemToArray([h EXCEPT ![i] = x], a, i), R)
  <1> DEFINE f == [h EXCEPT ![i] = x]
  <1>1. Put(h, f, i, x)
    BY DEF Put
  <1> HIDE DEF f
  <1>2. Trees(f, R \cup {i}) /\ R \subseteq Used(h)
    BY <1>1, BlankMade DEF Added
  <1>3. a \in R \cup {i} /\ i \in R \cup {i} /\ a # i /\ (R \cup {i}) \ {i} = R
    BY <1>2
  <1>4. Trees(cJSON_AddItemToArray(f, a, i), (R \cup {i}) \ {i})
    BY <1>2, <1>3, RootAppended
  <1> QED BY <1>3, <1>4 DEF f

LEMMA RootNamed ==
    ASSUME NEW h, NEW R, NEW i, NEW name, Trees(h, R), i \in R
    PROVE  Trees([h EXCEPT ![i].name = name], R)
  <1> DEFINE x == [h[i] EXCEPT !.name = name]
             g == [h EXCEPT ![i] = x]
  <1>1. i \in Used(h) /\ i \in Ref /\ Shape(h)
    BY DEF Trees, Forest, Linked
  <1>2. Fields(h[i]) /\ h[i].type # "free"
    BY <1>1 DEF Shape, Used
  <1>3. /\ Fields(x) /\ x.type = h[i].type
        /\ x.child = h[i].child /\ x.next = h[i].next /\ x.prev = h[i].prev
    BY <1>2 DEF Fields
  <1> HIDE DEF x
  <1>4. Put(h, g, i, x)
    BY DEF Put
  <1> HIDE DEF g
  <1>5. ButFor(h, g, i) /\ g[i] = x
    BY <1>4, <1>1, <1>3, ItemPut
  <1>6. Trees(g, R)
    BY <1>1, <1>2, <1>3, <1>5, ItemMarked
  <1> QED BY <1>6 DEF g, x

\* An item in use is written to, its links left alone.
Rewritten(x, y) ==
    /\ Fields(y) /\ y.type # "free"
    /\ y.child = x.child /\ y.next = x.next /\ y.prev = x.prev

LEMMA ItemRewritten ==
    ASSUME NEW h, NEW R, NEW i, NEW y, NEW g,
           Trees(h, R), i \in Used(h), Put(h, g, i, y), Rewritten(h[i], y)
    PROVE  Trees(g, R) /\ Kid(g) = Kid(h) /\ Nxt(g) = Nxt(h) /\ Used(g) = Used(h)
  <1>1. i \in Ref /\ Shape(h)
    BY DEF Trees, Used
  <1>2. ButFor(h, g, i) /\ g[i] = y
    BY <1>1, ItemPut DEF Rewritten
  <1> QED BY <1>2, ItemMarked DEF Rewritten

\* The parser stays where it is, goes into a container, on in it, and out of it.
LEMMA OpenStays ==
    ASSUME NEW h, NEW g, NEW i, NEW s, Open(h, i, s), Nxt(g) = Nxt(h), Used(g) = Used(h)
    PROVE  Open(g, i, s)
  BY DEF Open

LEMMA OpenInto ==
    ASSUME NEW h, NEW g, NEW i, NEW s, NEW x,
           Open(h, i, s), Nxt(g) = Nxt(h), Used(g) = Used(h) \cup {x},
           x \in Ref, x \notin Used(h), Nxt(h)[x] = Null
    PROVE  Open(g, x, <<i>> \o s)
  <1> DEFINE t == <<i>> \o s
  <1>1. s \in Seq(Ref) /\ i \in Ref /\ Len(s) \in Nat
    BY DEF Open, Used
  <1>2. t \in Seq(Ref) /\ Len(t) = Len(s) + 1
    BY <1>1
  <1>3. \A k \in 1 .. Len(t) : t[k] = IF k = 1 THEN i ELSE s[k - 1]
    BY <1>1
  <1> HIDE DEF t
  <1>4. \A k \in 1 .. Len(t) : k # 1 => k - 1 \in 1 .. Len(s)
    BY <1>1, <1>2
  <1>5. \A k \in 1 .. Len(t) : t[k] \in Used(h) /\ Nxt(h)[t[k]] = Null
    BY <1>3, <1>4 DEF Open
  <1>6. \A k \in 1 .. Len(t) : k # 1 => t[k] # i
    BY <1>3, <1>4 DEF Open
  <1>7. ASSUME NEW k \in 1 .. Len(t), NEW l \in 1 .. Len(t), t[k] = t[l]
        PROVE  k = l
    <2>1. CASE k = 1 \/ l = 1
      BY <1>3, <1>6, <1>7, <2>1
    <2>2. CASE k # 1 /\ l # 1
      <3>1. k - 1 \in 1 .. Len(s) /\ l - 1 \in 1 .. Len(s) /\ s[k - 1] = s[l - 1]
        BY <1>3, <1>4, <1>7, <2>2
      <3>2. k - 1 = l - 1
        BY <3>1 DEF Open
      <3> QED BY <1>1, <1>2, <3>2
    <2> QED BY <2>1, <2>2
  <1>8. Open(g, x, t)
    BY <1>2, <1>5, <1>7 DEF Open
  <1> QED BY <1>8 DEF t

LEMMA OpenOn ==
    ASSUME NEW h, NEW g, NEW i, NEW s, NEW x,
           Open(h, i, s), Nxt(g) = [Nxt(h) EXCEPT ![i] = x], Used(g) = Used(h) \cup {x},
           x \in Ref, x \notin Used(h), Nxt(h)[x] = Null
    PROVE  Open(g, x, s)
  <1>1. \A y \in Ref : y # i => Nxt(g)[y] = Nxt(h)[y]
    BY DEF Nxt
  <1>2. x # i /\ \A k \in 1 .. Len(s) : s[k] \in Ref
    BY DEF Open, Used
  <1> QED BY <1>1, <1>2 DEF Open

LEMMA OpenOut ==
    ASSUME NEW h, NEW i, NEW s, Open(h, i, s), s # <<>>
    PROVE  Open(h, Head(s), Tail(s))
  <1> DEFINE t == Tail(s)
  <1>1. s \in Seq(Ref) /\ Len(s) \in Nat /\ Len(s) # 0
    BY DEF Open
  <1>2. t \in Seq(Ref) /\ Len(t) = Len(s) - 1 /\ Head(s) = s[1]
        /\ \A k \in 1 .. Len(t) : t[k] = s[k + 1]
    BY <1>1
  <1>3. \A k \in 1 .. Len(t) : k + 1 \in 1 .. Len(s) /\ k + 1 # 1
    BY <1>1, <1>2
  <1>4. 1 \in 1 .. Len(s)
    BY <1>1
  <1> HIDE DEF t
  <1>5. \A k \in 1 .. Len(t) : t[k] \in Used(h) /\ Nxt(h)[t[k]] = Null /\ t[k] # s[1]
    BY <1>2, <1>3, <1>4 DEF Open
  <1>6. ASSUME NEW k \in 1 .. Len(t), NEW l \in 1 .. Len(t), t[k] = t[l]
        PROVE  k = l
    <2>1. k + 1 = l + 1
      BY <1>2, <1>3, <1>6 DEF Open
    <2> QED BY <1>1, <1>2, <2>1
  <1>7. s[1] \in Used(h) /\ Nxt(h)[s[1]] = Null
    BY <1>4 DEF Open
  <1>8. Open(h, s[1], t)
    BY <1>2, <1>5, <1>6, <1>7 DEF Open
  <1> QED BY <1>2, <1>8 DEF t

----------------------------------------------------------------------------
\* The steps of the parser.

LEMMA InParserInv ==
    ASSUME Inv, pc \in InParser
    PROVE  /\ Trees(heap, Roots) /\ Open(heap, item, stack)
           /\ pc # "after" => Kid(heap)[item] = Null
           /\ arr = Null /\ resp = Null /\ root # Null
  BY DEF Inv, ParserInv, RootsWhen, InParser

\* While it parses there is one root.
LEMMA ParserRoots ==
    ASSUME Inv, pc \in InParser, UNCHANGED <<root, arr, resp>>,
           pc' \in InParser \cup {"fail", "done"}
    PROVE  Roots' = Roots /\ RootsApartInv' /\ RootsWhen'
  <1>1. arr = Null /\ resp = Null /\ root # Null
    BY InParserInv
  <1> QED BY <1>1 DEF Roots, RootsApartInv, RootsWhen, InParser

LEMMA cJSON_ParseInv == Inv /\ cJSON_Parse => Inv'
  <1> SUFFICES ASSUME Inv, cJSON_Parse PROVE Inv'
    OBVIOUS
  <1>1. /\ Trees(heap, Roots) /\ stack = <<>>
        /\ pc = "parse" /\ root = Null /\ arr = Null /\ resp = Null
        /\ stack' = stack /\ arr' = arr /\ resp' = resp
    BY DEF cJSON_Parse, Inv, RootsWhen, ParserInv, InParser, answer
  <1>2. Roots = {}
    BY <1>1 DEF Roots
  <1>3. CASE Malloc /\ heap' = [heap EXCEPT ![New] = Zeroed] /\ root' = New /\ item' = New
             /\ pc' = "value"
    <2> DEFINE i == New
    <2>1. i \in Ref /\ i \notin Used(heap) /\ i # Null
      BY <1>3, Fresh, NullIsNoRef
    <2>2. Put(heap, heap', i, Zeroed) /\ root' = i /\ item' = i /\ pc' = "value"
      BY <1>3 DEF Put
    <2> HIDE DEF i
    <2>3. /\ Trees(heap', {} \cup {i})
          /\ Kid(heap') = Kid(heap) /\ Nxt(heap') = Nxt(heap)
          /\ Used(heap') = Used(heap) \cup {i}
          /\ Kid(heap)[i] = Null /\ Nxt(heap)[i] = Null
      <3>1. Trees(heap, {})
        BY <1>1, <1>2
      <3>2. Put(heap, heap', i, Zeroed)
        BY <2>2
      <3>3. Added(heap, heap', {}, i)
        BY <2>1, <3>1, <3>2, ZeroedIsBlank, BlankMade
      <3> QED BY <3>3 DEF Added
    <2>4. Roots' = {i}
      BY <1>1, <2>1, <2>2 DEF Roots
    <2>5. RootsApartInv' /\ RootsWhen'
      BY <1>1, <2>1, <2>2 DEF RootsApartInv, RootsWhen
    <2>6. Kid(heap')[i] = Null /\ Nxt(heap')[i] = Null
      BY <2>3
    <2>7. Open(heap', i, <<>>)
      BY <2>3, <2>6 DEF Open
    <2>8. ParserInv'
      BY <1>1, <2>2, <2>6, <2>7 DEF ParserInv, InParser
    <2> QED BY <2>2, <2>3, <2>4, <2>5, <2>8 DEF Inv
  <1>4. CASE pc' = "null" /\ UNCHANGED <<heap, root, item>>
    <2>1. Roots' = Roots
      BY <1>1, <1>4 DEF Roots
    <2>2. RootsApartInv' /\ RootsWhen' /\ ParserInv'
      BY <1>1, <1>4 DEF RootsApartInv, RootsWhen, ParserInv, InParser
    <2> QED BY <1>1, <1>4, <2>1, <2>2 DEF Inv
  <1> QED BY <1>3, <1>4 DEF cJSON_Parse

\* The three ways the parser writes to an item.
GivenType(h, g, i, t) == g = [h EXCEPT ![i].type = t]
GivenValue(h, g, i, v, t) == g = [h EXCEPT ![i].value = v, ![i].type = t]
GivenName(h, g, i, v, t) == g = [h EXCEPT ![i].name = v, ![i].type = t]

\* The trees are as they were.
SameTrees(h, g, R) == Trees(g, R) /\ Kid(g) = Kid(h) /\ Nxt(g) = Nxt(h) /\ Used(g) = Used(h)

LEMMA Written ==
    ASSUME NEW h, NEW R, NEW i, NEW v, NEW t, NEW g,
           Trees(h, R), i \in Used(h), t # "free",
           GivenType(h, g, i, t) \/ GivenValue(h, g, i, v, t) \/ GivenName(h, g, i, v, t)
    PROVE  SameTrees(h, g, R)
  <1>1. i \in Ref /\ h = [x \in Ref |-> h[x]] /\ Fields(h[i])
    BY DEF Trees, Used, Shape
  <1>2. CASE GivenType(h, g, i, t)
    <2> DEFINE y == [h[i] EXCEPT !.type = t]
    <2>1. Rewritten(h[i], y)
      BY <1>1 DEF Rewritten, Fields
    <2>2. Put(h, g, i, y)
      BY <1>2 DEF Put, GivenType
    <2> HIDE DEF y
    <2> QED BY <2>1, <2>2, ItemRewritten DEF SameTrees
  <1>3. CASE GivenValue(h, g, i, v, t)
    <2> DEFINE y == [type |-> t, name |-> h[i].name, value |-> v,
                     child |-> h[i].child, next |-> h[i].next, prev |-> h[i].prev]
    <2>1. Rewritten(h[i], y)
      BY DEF Rewritten, Fields
    <2>2. [h[i] EXCEPT !.value = v, !.type = t] = y
      <3> DEFINE z == [h[i] EXCEPT !.value = v]
      <3>1. z = [type |-> h[i].type, name |-> h[i].name, value |-> v,
                 child |-> h[i].child, next |-> h[i].next, prev |-> h[i].prev]
        BY <1>1 DEF Fields
      <3> HIDE DEF z
      <3>2. [z EXCEPT !.type = t] = y
        BY <3>1
      <3> QED BY <3>2 DEF z
    <2>3. Put(h, g, i, y)
      BY <1>1, <1>3, <2>2 DEF Put, GivenValue
    <2> HIDE DEF y
    <2> QED BY <2>1, <2>3, ItemRewritten DEF SameTrees
  <1>4. CASE GivenName(h, g, i, v, t)
    <2> DEFINE y == [type |-> t, name |-> v, value |-> h[i].value,
                     child |-> h[i].child, next |-> h[i].next, prev |-> h[i].prev]
    <2>1. Rewritten(h[i], y)
      BY DEF Rewritten, Fields
    <2>2. [h[i] EXCEPT !.name = v, !.type = t] = y
      <3> DEFINE z == [h[i] EXCEPT !.name = v]
      <3>1. z = [type |-> h[i].type, name |-> v, value |-> h[i].value,
                 child |-> h[i].child, next |-> h[i].next, prev |-> h[i].prev]
        BY <1>1 DEF Fields
      <3> HIDE DEF z
      <3>2. [z EXCEPT !.type = t] = y
        BY <3>1
      <3> QED BY <3>2 DEF z
    <2>3. Put(h, g, i, y)
      BY <1>1, <1>4, <2>2 DEF Put, GivenName
    <2> HIDE DEF y
    <2> QED BY <2>1, <2>3, ItemRewritten DEF SameTrees
  <1> QED BY <1>2, <1>3, <1>4

\* An item is written to, or nothing: the parser may go on to what comes after, from a
\* name to its value, or give up.
LEMMA WrittenStep ==
    ASSUME Inv, pc \in InParser, UNCHANGED <<root, arr, resp, item, stack>>,
           \/ heap' = heap
           \/ SameTrees(heap, heap', Roots),
           \/ pc' \in {"after", "fail"}
           \/ pc \in {"value", "name"} /\ pc' \in {"value", "name"}
    PROVE  Inv'
  <1>1. /\ Trees(heap, Roots) /\ Open(heap, item, stack)
        /\ pc # "after" => Kid(heap)[item] = Null
    BY InParserInv
  <1>2. Roots' = Roots /\ RootsApartInv' /\ RootsWhen'
    BY ParserRoots DEF InParser
  <1>3. /\ Trees(heap', Roots) /\ Kid(heap') = Kid(heap)
        /\ Nxt(heap') = Nxt(heap) /\ Used(heap') = Used(heap)
    BY <1>1 DEF SameTrees
  <1>4. Open(heap', item, stack)
    BY <1>1, <1>3, OpenStays
  <1>5. ParserInv'
    BY <1>1, <1>3, <1>4 DEF ParserInv, InParser
  <1> QED BY <1>2, <1>3, <1>5 DEF Inv

LEMMA ParseScalarInv == Inv /\ ParseScalar => Inv'
  <1> SUFFICES ASSUME Inv, ParseScalar PROVE Inv'
    OBVIOUS
  <1>1. /\ pc \in InParser /\ pc = "value" /\ UNCHANGED <<root, arr, resp, item, stack>>
        /\ pc' \in {"after", "fail"}
    BY DEF ParseScalar, InParser, answer
  <1>2. Trees(heap, Roots) /\ item \in Used(heap)
    BY <1>1, InParserInv DEF Open
  <1>3. heap' = heap \/ SameTrees(heap, heap', Roots)
    <2> DEFINE t == Kind(Tok(pos))
    <2>1. t # "free"
      BY DEF Kind
    <2>2. heap' = heap \/ GivenValue(heap, heap', item, Tok(pos), t)
      BY DEF ParseScalar, GivenValue
    <2> HIDE DEF t
    <2> QED BY <1>2, <2>1, <2>2, Written
  <1> QED BY <1>1, <1>3, WrittenStep

LEMMA ParseNameInv == Inv /\ ParseName => Inv'
  <1> SUFFICES ASSUME Inv, ParseName PROVE Inv'
    OBVIOUS
  <1>1. /\ pc \in InParser /\ pc = "name" /\ UNCHANGED <<root, arr, resp, item, stack>>
        /\ pc' \in {"value", "fail"}
    BY DEF ParseName, InParser, answer
  <1>2. Trees(heap, Roots) /\ item \in Used(heap)
    BY <1>1, InParserInv DEF Open
  <1>3. heap' = heap \/ SameTrees(heap, heap', Roots)
    <2>1. heap' = heap \/ GivenName(heap, heap', item, Tok(pos), "string")
      BY DEF ParseName, GivenName
    <2> QED BY <1>2, <2>1, Written
  <1> QED BY <1>1, <1>3, WrittenStep

LEMMA MalformedInv == Inv /\ Malformed => Inv'
  <1> SUFFICES ASSUME Inv, Malformed PROVE Inv'
    OBVIOUS
  <1>1. /\ pc \in InParser /\ UNCHANGED <<root, arr, resp, item, stack>>
        /\ pc' = "fail" /\ heap' = heap
    BY DEF Malformed, InParser, answer, parser
  <1> QED BY <1>1, WrittenStep

LEMMA ParseContainerInv == Inv /\ ParseContainer => Inv'
  <1> SUFFICES ASSUME Inv, ParseContainer PROVE Inv'
    OBVIOUS
  <1> DEFINE type == Container(Tok(pos))
  <1>1. /\ pc \in InParser /\ pc = "value" /\ UNCHANGED <<root, arr, resp>>
        /\ type # "free" /\ Content(type) \in {"value", "name"}
    BY DEF ParseContainer, InParser, answer, Container, Content
  <1>2. /\ Trees(heap, Roots) /\ Open(heap, item, stack) /\ item \in Used(heap)
        /\ Kid(heap)[item] = Null
    BY <1>1, InParserInv DEF Open
  <1>3. \/ /\ GivenType(heap, heap', item, type) /\ UNCHANGED <<item, stack>>
           /\ pc' \in {"after", "fail"}
        \/ /\ Malloc /\ FirstChild(heap, heap', New, item, type)
           /\ stack' = <<item>> \o stack /\ item' = New /\ pc' = Content(type)
    BY DEF ParseContainer, GivenType, FirstChild
  <1> HIDE DEF type
  <1>4. CASE /\ GivenType(heap, heap', item, type) /\ UNCHANGED <<item, stack>>
             /\ pc' \in {"after", "fail"}
    <2>1. SameTrees(heap, heap', Roots)
      BY <1>1, <1>2, <1>4, Written
    <2> QED BY <1>1, <1>4, <2>1, WrittenStep
  <1>5. CASE /\ Malloc /\ FirstChild(heap, heap', New, item, type)
             /\ stack' = <<item>> \o stack /\ item' = New /\ pc' = Content(type)
    <2> DEFINE i == New
    <2>1. i \in Ref /\ i \notin Used(heap) /\ FirstChild(heap, heap', i, item, type)
      BY <1>5, Fresh
    <2>2. stack' = <<item>> \o stack /\ item' = i /\ pc' \in {"value", "name"}
      BY <1>1, <1>5
    <2> HIDE DEF i
    <2>3. /\ Trees(heap', Roots) /\ Kid(heap')[i] = Null
          /\ Nxt(heap') = Nxt(heap) /\ Used(heap') = Used(heap) \cup {i}
          /\ Nxt(heap)[i] = Null
      BY <1>1, <1>2, <2>1, ChildMade
    <2>4. Open(heap', i, <<item>> \o stack)
      BY <1>2, <2>1, <2>3, OpenInto
    <2>5. Roots' = Roots /\ RootsApartInv' /\ RootsWhen'
      BY <1>1, <2>2, ParserRoots DEF InParser
    <2>6. ParserInv'
      BY <2>2, <2>3, <2>4 DEF ParserInv, InParser
    <2> QED BY <2>3, <2>5, <2>6 DEF Inv
  <1> QED BY <1>3, <1>4, <1>5

LEMMA CommaInv == Inv /\ Comma => Inv'
  <1> SUFFICES ASSUME Inv, Comma PROVE Inv'
    OBVIOUS
  <1> DEFINE next == Content(heap[Head(stack)].type)
  <1>1. /\ pc \in InParser /\ UNCHANGED <<root, arr, resp, stack>>
        /\ next \in {"value", "name"}
    BY DEF Comma, InParser, answer, Content
  <1>2. /\ Trees(heap, Roots) /\ Open(heap, item, stack) /\ item \in Used(heap)
        /\ Nxt(heap)[item] = Null
    BY <1>1, InParserInv DEF Open
  <1>3. \/ heap' = heap /\ item' = item /\ pc' = "fail"
        \/ /\ Malloc /\ heap' = suffix_object([heap EXCEPT ![New] = Zeroed], item, New)
           /\ item' = New /\ pc' = next
    BY DEF Comma
  <1> HIDE DEF next
  <1>4. CASE heap' = heap /\ item' = item /\ pc' = "fail"
    BY <1>1, <1>4, WrittenStep
  <1>5. CASE /\ Malloc /\ heap' = suffix_object([heap EXCEPT ![New] = Zeroed], item, New)
             /\ item' = New /\ pc' = next
    <2> DEFINE i == New
               f == [heap EXCEPT ![i] = Zeroed]
    <2>1. i \in Ref /\ i \notin Used(heap) /\ Put(heap, f, i, Zeroed)
      BY <1>5, Fresh DEF Put
    <2>2. Suffixed(f, heap', item, i) /\ item' = i /\ pc' \in {"value", "name"}
      BY <1>1, <1>5 DEF Suffixed
    <2> HIDE DEF i, f
    <2>3. /\ Trees(heap', Roots) /\ Kid(heap')[i] = Null
          /\ Nxt(heap') = [Nxt(heap) EXCEPT ![item] = i]
          /\ Used(heap') = Used(heap) \cup {i}
          /\ Nxt(heap)[i] = Null
      BY <1>2, <2>1, <2>2, NextMade
    <2>4. Open(heap', i, stack)
      BY <1>2, <2>1, <2>3, OpenOn
    <2>5. Roots' = Roots /\ RootsApartInv' /\ RootsWhen'
      BY <1>1, <2>2, ParserRoots DEF InParser
    <2>6. ParserInv'
      BY <1>1, <2>2, <2>3, <2>4 DEF ParserInv, InParser
    <2> QED BY <2>3, <2>5, <2>6 DEF Inv
  <1> QED BY <1>3, <1>4, <1>5

LEMMA CloseInv == Inv /\ Close => Inv'
  <1> SUFFICES ASSUME Inv, Close PROVE Inv'
    OBVIOUS
  <1>1. /\ pc \in InParser /\ pc' = "after" /\ UNCHANGED <<heap, root, arr, resp>>
        /\ stack # <<>> /\ item' = Head(stack) /\ stack' = Tail(stack)
    BY DEF Close, InParser, answer
  <1>2. Trees(heap, Roots) /\ Open(heap, item, stack)
    BY <1>1, InParserInv
  <1>3. Roots' = Roots /\ RootsApartInv' /\ RootsWhen'
    BY <1>1, ParserRoots DEF InParser
  <1>4. Open(heap, Head(stack), Tail(stack))
    BY <1>1, <1>2, OpenOut
  <1>5. ParserInv'
    BY <1>1, <1>4 DEF ParserInv, InParser
  <1> QED BY <1>1, <1>2, <1>3, <1>5 DEF Inv

LEMMA ParsedInv == Inv /\ Parsed => Inv'
  <1> SUFFICES ASSUME Inv, Parsed PROVE Inv'
    OBVIOUS
  <1>1. /\ pc \in InParser /\ pc' = "done" /\ UNCHANGED <<heap, root, arr, resp, item, stack>>
        /\ stack = <<>>
    BY DEF Parsed, InParser, answer, parser
  <1>2. Trees(heap, Roots)
    BY <1>1, InParserInv
  <1>3. Roots' = Roots /\ RootsApartInv' /\ RootsWhen'
    BY <1>1, ParserRoots DEF InParser
  <1>4. ParserInv'
    BY <1>1 DEF ParserInv, InParser
  <1> QED BY <1>1, <1>2, <1>3, <1>4 DEF Inv

LEMMA ParseFailedInv == Inv /\ ParseFailed => Inv'
  <1> SUFFICES ASSUME Inv, ParseFailed PROVE Inv'
    OBVIOUS
  <1>1. /\ Trees(heap, Roots) /\ root # Null /\ arr = Null /\ resp = Null
        /\ heap' = cJSON_Delete(heap, root) /\ root' = Null /\ stack' = <<>>
        /\ UNCHANGED <<arr, resp>> /\ pc' = "null"
    BY DEF ParseFailed, Inv, RootsWhen, answer
  <1>2. root \in Roots /\ Roots' = Roots \ {root}
    BY <1>1 DEF Roots
  <1>3. Trees(heap', Roots')
    BY <1>1, <1>2, RootDeleted
  <1>4. RootsApartInv' /\ RootsWhen' /\ ParserInv'
    BY <1>1 DEF RootsApartInv, RootsWhen, ParserInv, InParser
  <1> QED BY <1>3, <1>4 DEF Inv

----------------------------------------------------------------------------
\* The steps of the answer.

LEMMA ScalarIsBlank ==
    ASSUME NEW t, NEW v, t # "free"
    PROVE  Blank([Zeroed EXCEPT !.type = t]) /\ Blank([Zeroed EXCEPT !.type = t, !.value = v])
  <1> DEFINE x == [type |-> t, name |-> NoText, value |-> NoText,
                   child |-> Null, next |-> Null, prev |-> Null]
             y == [type |-> t, name |-> NoText, value |-> v,
                   child |-> Null, next |-> Null, prev |-> Null]
  <1>1. Blank(x) /\ Blank(y)
    BY DEF Blank, Fields
  <1>2. [Zeroed EXCEPT !.type = t] = x
    <2>1. Zeroed = [type |-> "zero", name |-> NoText, value |-> NoText,
                    child |-> Null, next |-> Null, prev |-> Null]
      BY DEF Zeroed, Unused
    <2> QED BY <2>1
  <1>3. [x EXCEPT !.value = v] = y
    OBVIOUS
  <1> QED BY <1>1, <1>2, <1>3

\* When the roots are as they were, only pc matters.
LEMMA AnswerStep ==
    ASSUME Inv, pc \notin InParser \cup {"fail", "parse", "null", "crashed"},
           UNCHANGED <<root, stack>>, Trees(heap', Roots'),
           root \notin {arr', resp'} \ {Null}, arr' # Null => arr' # resp',
           pc' \notin InParser \cup {"fail", "parse", "null"},
           arr' # Null => pc' \in {"fill", "tid", "data"}, pc' = "fill" => arr' # Null,
           resp' # Null => pc' \in {"tid", "data", "status", "print"}
    PROVE  Inv'
  <1>1. root # Null /\ stack = <<>>
    BY DEF Inv, RootsWhen, ParserInv
  <1>2. RootsApartInv' /\ RootsWhen' /\ ParserInv'
    BY <1>1 DEF RootsApartInv, RootsWhen, ParserInv, InParser
  <1> QED BY <1>2 DEF Inv

\* What there is while the answer is built.
LEMMA InAnswer ==
    ASSUME Inv, pc \in {"done", "array", "fill", "object", "tid", "data", "status", "print", "sent"}
    PROVE  /\ Trees(heap, Roots) /\ root \notin {arr, resp} /\ (arr # Null => arr # resp)
           /\ arr # Null => pc \in {"fill", "tid", "data"}
           /\ pc = "fill" => arr # Null
           /\ resp # Null => pc \in {"tid", "data", "status", "print"}
           /\ root # Null
           /\ pc \notin InParser \cup {"fail", "parse", "null", "crashed"}
  BY DEF Inv, RootsApartInv, RootsWhen, InParser

LEMMA RequestInv == Inv /\ Request => Inv'
  <1> SUFFICES ASSUME Inv, Request PROVE Inv'
    OBVIOUS
  <1>1. /\ pc = "done" /\ UNCHANGED <<heap, root, stack, arr, resp>>
        /\ pc' \in {"crashed", "array"}
    BY DEF Request, parser
  <1>2. Roots' = Roots
    BY <1>1 DEF Roots
  <1> QED BY <1>1, <1>2, InAnswer, AnswerStep DEF InParser

LEMMA CreateArrayInv == Inv /\ CreateArray => Inv'
  <1> SUFFICES ASSUME Inv, CreateArray PROVE Inv'
    OBVIOUS
  <1> DEFINE x == [Zeroed EXCEPT !.type = "array"]
  <1>1. pc = "array" /\ UNCHANGED <<root, stack, resp>>
    BY DEF CreateArray, parser
  <1>2. Trees(heap, Roots) /\ arr = Null /\ resp = Null /\ root # Null
    BY <1>1, InAnswer
  <1>3. Blank(x)
    BY ScalarIsBlank
  <1>4. \/ heap' = heap /\ arr' = arr /\ pc' = "object"
        \/ Malloc /\ Put(heap, heap', New, x) /\ arr' = New /\ pc' = "fill"
    BY DEF CreateArray, Put
  <1> HIDE DEF x
  <1>5. CASE heap' = heap /\ arr' = arr /\ pc' = "object"
    <2>1. Roots' = Roots
      BY <1>1, <1>5 DEF Roots
    <2> QED BY <1>1, <1>2, <1>5, <2>1, InAnswer, AnswerStep DEF InParser
  <1>6. CASE Malloc /\ Put(heap, heap', New, x) /\ arr' = New /\ pc' = "fill"
    <2> DEFINE i == New
    <2>1. i \in Ref /\ i \notin Used(heap) /\ i # Null /\ Put(heap, heap', i, x)
      BY <1>6, Fresh, NullIsNoRef
    <2>2. arr' = i
      BY <1>6
    <2> HIDE DEF i
    <2>3. Added(heap, heap', Roots, i)
      BY <1>2, <1>3, <2>1, BlankMade
    <2>4. Trees(heap', Roots \cup {i}) /\ i \notin Roots
      BY <2>1, <2>3 DEF Added
    <2>5. Roots' = Roots \cup {i} /\ root # i
      BY <1>1, <1>2, <2>1, <2>2, <2>4 DEF Roots
    <2>6. Trees(heap', Roots')
      BY <2>4, <2>5
    <2> QED BY <1>1, <1>2, <1>6, <2>1, <2>2, <2>5, <2>6, InAnswer, AnswerStep DEF InParser
  <1> QED BY <1>4, <1>5, <1>6

LEMMA FillInv == Inv /\ Fill => Inv'
  <1> SUFFICES ASSUME Inv, Fill PROVE Inv'
    OBVIOUS
  <1> DEFINE x == [Zeroed EXCEPT !.type = "number", !.value = regs[Filled + 1]]
             f == [heap EXCEPT ![New] = x]
  <1>1. pc = "fill" /\ UNCHANGED <<root, stack, resp>>
    BY DEF Fill, parser
  <1>2. /\ Trees(heap, Roots) /\ arr # Null /\ resp = Null /\ root # Null /\ root # arr
        /\ arr \in Roots
    BY <1>1, InAnswer DEF Roots
  <1>3. Blank(x)
    BY ScalarIsBlank
  <1>4. \/ Malloc /\ heap' = cJSON_AddItemToArray(f, arr, New) /\ arr' = arr /\ pc' = pc
        \/ heap' = cJSON_Delete(heap, arr) /\ arr' = Null /\ pc' = "object"
    BY DEF Fill
  <1> HIDE DEF x
  <1>5. CASE Malloc /\ heap' = cJSON_AddItemToArray(f, arr, New) /\ arr' = arr /\ pc' = pc
    <2>1. New \in Ref /\ New \notin Used(heap)
      BY <1>5, Fresh
    <2>2. Trees(heap', Roots)
      BY <1>2, <1>3, <1>5, <2>1, MemberMade
    <2>3. Roots' = Roots
      BY <1>1, <1>5 DEF Roots
    <2> QED BY <1>1, <1>2, <1>5, <2>2, <2>3, InAnswer, AnswerStep DEF InParser
  <1>6. CASE heap' = cJSON_Delete(heap, arr) /\ arr' = Null /\ pc' = "object"
    <2>1. Trees(heap', Roots \ {arr})
      BY <1>2, <1>6, RootDeleted
    <2>2. Roots' = Roots \ {arr}
      BY <1>1, <1>2, <1>6 DEF Roots
    <2>3. Trees(heap', Roots')
      BY <2>1, <2>2
    <2> QED BY <1>1, <1>2, <1>6, <2>3, InAnswer, AnswerStep DEF InParser
  <1> QED BY <1>4, <1>5, <1>6

LEMMA CreateObjectInv == Inv /\ CreateObject => Inv'
  <1> SUFFICES ASSUME Inv, CreateObject PROVE Inv'
    OBVIOUS
  <1> DEFINE x == [Zeroed EXCEPT !.type = "object"]
  <1>1. pc \in {"object", "fill"} /\ UNCHANGED <<root, stack, arr>> /\ pc' = "tid"
    BY DEF CreateObject, parser
  <1>2. Trees(heap, Roots) /\ resp = Null /\ root # Null /\ root # arr
    BY <1>1, InAnswer
  <1>3. Blank(x)
    BY ScalarIsBlank
  <1>4. \/ heap' = heap /\ resp' = resp
        \/ Malloc /\ Put(heap, heap', New, x) /\ resp' = New
    BY DEF CreateObject, Put
  <1> HIDE DEF x
  <1>5. CASE heap' = heap /\ resp' = resp
    <2>1. Roots' = Roots
      BY <1>1, <1>5 DEF Roots
    <2> QED BY <1>1, <1>2, <1>5, <2>1, InAnswer, AnswerStep DEF InParser
  <1>6. CASE Malloc /\ Put(heap, heap', New, x) /\ resp' = New
    <2> DEFINE i == New
    <2>1. i \in Ref /\ i \notin Used(heap) /\ i # Null /\ Put(heap, heap', i, x)
      BY <1>6, Fresh, NullIsNoRef
    <2>2. resp' = i
      BY <1>6
    <2> HIDE DEF i
    <2>3. Added(heap, heap', Roots, i)
      BY <1>2, <1>3, <2>1, BlankMade
    <2>4. Trees(heap', Roots \cup {i}) /\ i \notin Roots
      BY <2>1, <2>3 DEF Added
    <2>5. Roots' = Roots \cup {i} /\ root # i /\ arr # i
      BY <1>1, <1>2, <2>1, <2>2, <2>4 DEF Roots
    <2>6. Trees(heap', Roots')
      BY <2>4, <2>5
    <2> QED BY <1>1, <1>2, <2>1, <2>2, <2>5, <2>6, InAnswer, AnswerStep DEF InParser
  <1> QED BY <1>4, <1>5, <1>6

\* cJSON_AddItemToObject hangs a root below the answer, if there is one.
LEMMA MemberAdded ==
    ASSUME NEW h, NEW R, NEW x, NEW name, NEW then,
           AddMember(h, name, x, then), Trees(h, R), x \in R, resp \in R, resp # x, resp # Null
    PROVE  Trees(heap', R \ {x}) /\ pc' = then
  <1> DEFINE g == [h EXCEPT ![x].name = name]
  <1>1. Trees(g, R)
    BY RootNamed
  <1>2. /\ pc' = then
        /\ \/ heap' = cJSON_AddItemToArray(g, resp, x)
           \/ heap' = cJSON_AddItemToArray(h, resp, x)
    BY DEF AddMember
  <1> HIDE DEF g
  <1>3. /\ Trees(cJSON_AddItemToArray(g, resp, x), R \ {x})
        /\ Trees(cJSON_AddItemToArray(h, resp, x), R \ {x})
    BY <1>1, RootAppended
  <1> QED BY <1>2, <1>3

LEMMA AddScalarInv ==
    ASSUME NEW here, NEW name, NEW type, NEW value, NEW then,
           Inv, AddScalar(here, name, type, value, then),
           type # "free", here \in {"tid", "status"}, then \in {"data", "print"},
           here = "tid" => then = "data"
    PROVE  Inv'
  <1> DEFINE x == [Zeroed EXCEPT !.type = type, !.value = value]
             f == [heap EXCEPT ![New] = x]
  <1>1. pc = here /\ UNCHANGED <<root, stack, arr, resp>>
    BY DEF AddScalar, parser, answer
  <1>2. Trees(heap, Roots) /\ root # Null /\ Roots' = Roots
    BY <1>1, InAnswer DEF Roots
  <1>3. Blank(x)
    BY ScalarIsBlank
  <1>4. \/ Malloc /\ AddMember(f, name, New, then)
        \/ heap' = heap /\ pc' = then
    BY DEF AddScalar
  <1>5. ASSUME Trees(heap', Roots), pc' = then PROVE Inv'
    <2>1. Trees(heap', Roots')
      BY <1>2, <1>5
    <2> QED BY <1>1, <1>2, <1>5, <2>1, InAnswer, AnswerStep DEF InParser
  <1>6. CASE heap' = heap /\ pc' = then
    BY <1>2, <1>5, <1>6
  <1>7. CASE Malloc /\ AddMember(f, name, New, then) /\ resp = Null
    BY <1>7 DEF AddMember, Inv
  <1>8. CASE Malloc /\ AddMember(f, name, New, then) /\ resp # Null
    <2> DEFINE i == New
    <2>1. i \in Ref /\ i \notin Used(heap) /\ Put(heap, f, i, x)
      BY <1>8, Fresh DEF Put
    <2>2. AddMember(f, name, i, then)
      BY <1>8
    <2> HIDE DEF i, f, x
    <2>3. Added(heap, f, Roots, i)
      BY <1>2, <1>3, <2>1, BlankMade
    <2>4. /\ Trees(f, Roots \cup {i}) /\ i \notin Roots
      BY <2>1, <2>3 DEF Added
    <2>5. resp \in Roots /\ resp # i
      BY <1>8, <2>4 DEF Roots
    <2> DEFINE S == Roots \cup {i}
    <2>6. Trees(f, S) /\ i \in S /\ resp \in S /\ resp # i /\ resp # Null
      BY <1>8, <2>4, <2>5
    <2> HIDE DEF S
    <2>7. Trees(heap', S \ {i}) /\ pc' = then
      BY <2>2, <2>6, MemberAdded
    <2>8. Trees(heap', (Roots \cup {i}) \ {i}) /\ pc' = then
      BY <2>7 DEF S
    <2>9. (Roots \cup {i}) \ {i} = Roots
      BY <2>4
    <2>10. Trees(heap', Roots)
      BY <2>8, <2>9
    <2> QED BY <1>5, <2>8, <2>10
  <1> QED BY <1>4, <1>6, <1>7, <1>8

LEMMA AddDataInv == Inv /\ AddData => Inv'
  <1> SUFFICES ASSUME Inv, AddData PROVE Inv'
    OBVIOUS
  <1>1. pc = "data" /\ UNCHANGED <<root, stack, resp>> /\ arr' = Null
    BY DEF AddData, parser
  <1>2. /\ Trees(heap, Roots) /\ root # Null /\ root # arr /\ root # resp
        /\ arr # Null => arr # resp
    BY <1>1, InAnswer
  <1>3. Roots' = Roots \ {arr}
    BY <1>1, <1>2 DEF Roots
  <1>4. ASSUME Trees(heap', Roots'), pc' = "status" PROVE Inv'
    BY <1>1, <1>2, <1>4, InAnswer, AnswerStep DEF InParser
  <1>5. CASE arr = Null
    <2>1. heap' = heap /\ pc' = "status"
      BY <1>5 DEF AddData
    <2>2. Roots' = Roots
      BY <1>3, <1>5 DEF Roots
    <2> QED BY <1>2, <1>4, <2>1, <2>2
  <1>6. CASE arr # Null /\ resp = Null
    BY <1>6 DEF AddData, AddMember, Inv
  <1>7. CASE arr # Null /\ resp # Null
    <2>1. AddMember(heap, "data", arr, "status")
      BY <1>7 DEF AddData
    <2>2. arr \in Roots /\ resp \in Roots /\ resp # arr
      BY <1>2, <1>7 DEF Roots
    <2>3. Trees(heap', Roots \ {arr}) /\ pc' = "status"
      BY <1>2, <1>7, <2>1, <2>2, MemberAdded
    <2> QED BY <1>3, <1>4, <2>3
  <1> QED BY <1>5, <1>6, <1>7

LEMMA PrintAnswerInv == Inv /\ PrintAnswer => Inv'
  <1> SUFFICES ASSUME Inv, PrintAnswer, pc' # "crashed" PROVE Inv'
    BY DEF Inv
  <1>1. /\ pc = "print" /\ UNCHANGED <<root, stack, arr>> /\ resp' = Null
        /\ resp # Null /\ heap' = cJSON_Delete(heap, resp) /\ pc' = "sent"
    BY DEF PrintAnswer
  <1>2. Trees(heap, Roots) /\ root # Null /\ root # resp /\ arr = Null
    BY <1>1, InAnswer
  <1>3. resp \in Roots /\ Roots' = Roots \ {resp}
    BY <1>1, <1>2 DEF Roots
  <1>4. Trees(heap', Roots')
    BY <1>1, <1>2, <1>3, RootDeleted
  <1> QED BY <1>1, <1>2, <1>4, InAnswer, AnswerStep DEF InParser

\* The end of the request, and of the daemon.
LEMMA LastRoot ==
    ASSUME Inv, pc \in {"sent", "done"}, UNCHANGED <<stack, arr, resp>>, root' = Null,
           pc' = "parse", heap' = cJSON_Delete(heap, root) \/ heap' = [r \in Ref |-> Unused]
    PROVE  Inv'
  <1>1. Trees(heap, Roots) /\ root # Null /\ arr = Null /\ resp = Null
    BY InAnswer
  <1>2. stack = <<>>
    BY DEF Inv, ParserInv, InParser
  <1>3. Roots = {root} /\ Roots' = {}
    BY <1>1 DEF Roots
  <1>4. Trees(heap', {})
    <2>1. Trees(cJSON_Delete(heap, root), Roots \ {root})
      BY <1>1, <1>3, RootDeleted
    <2>2. Roots \ {root} = {}
      BY <1>3
    <2> QED BY <2>1, <2>2, NoTrees
  <1>5. RootsApartInv' /\ RootsWhen' /\ ParserInv'
    BY <1>1, <1>2 DEF RootsApartInv, RootsWhen, ParserInv, InParser
  <1> QED BY <1>3, <1>4, <1>5 DEF Inv

LEMMA DeleteRequestInv == Inv /\ DeleteRequest => Inv'
  <1> SUFFICES ASSUME Inv, DeleteRequest PROVE Inv'
    OBVIOUS
  <1>1. /\ pc = "sent" /\ UNCHANGED <<stack, arr, resp>> /\ root' = Null /\ pc' = "parse"
        /\ heap' = cJSON_Delete(heap, root)
    BY DEF DeleteRequest, answer
  <1> QED BY <1>1, LastRoot

LEMMA SaveConfigInv == Inv /\ SaveConfig => Inv'
  <1> SUFFICES ASSUME Inv, SaveConfig PROVE Inv'
    OBVIOUS
  <1>1. /\ pc = "done" /\ UNCHANGED <<stack, arr, resp>> /\ root' = Null /\ pc' = "parse"
        /\ heap' = [r \in Ref |-> Unused]
    BY DEF SaveConfig, answer
  <1> QED BY <1>1, LastRoot

LEMMA StutterInv == Inv /\ UNCHANGED vars => Inv'
  <1> SUFFICES ASSUME Inv, UNCHANGED vars PROVE Inv'
    OBVIOUS
  <1>1. UNCHANGED <<heap, root, item, stack, pc, arr, resp>>
    BY DEF vars, parser, answer
  <1> QED BY <1>1 DEF Inv, Roots, RootsApartInv, RootsWhen, ParserInv

LEMMA NextInv == Inv /\ [Next]_vars => Inv'
  <1> SUFFICES ASSUME Inv, [Next]_vars PROVE Inv'
    OBVIOUS
  <1>1. CASE cJSON_Parse \/ ParseScalar \/ ParseContainer \/ ParseName
    BY <1>1, cJSON_ParseInv, ParseScalarInv, ParseContainerInv, ParseNameInv
  <1>2. CASE Comma \/ Close \/ Parsed \/ Malformed \/ ParseFailed
    BY <1>2, CommaInv, CloseInv, ParsedInv, MalformedInv, ParseFailedInv
  <1>3. CASE Request \/ CreateArray \/ Fill \/ CreateObject \/ AddData
    BY <1>3, RequestInv, CreateArrayInv, FillInv, CreateObjectInv, AddDataInv
  <1>4. CASE AddTid
    BY <1>4, AddScalarInv DEF AddTid
  <1>5. CASE AddStatus
    BY <1>5, AddScalarInv DEF AddStatus
  <1>6. CASE PrintAnswer \/ DeleteRequest \/ SaveConfig
    BY <1>6, PrintAnswerInv, DeleteRequestInv, SaveConfigInv
  <1>7. CASE UNCHANGED vars
    BY <1>7, StutterInv
  <1> QED BY <1>1, <1>2, <1>3, <1>4, <1>5, <1>6, <1>7 DEF Next

\* The items form trees below root, json_arr and resp_root in every state, and the parser
\* writes to the ends of the lists it is in only.
THEOREM TreesInvariant == Spec => []Inv
  <1>1. Init => Inv
    BY InitInv
  <1>2. Inv /\ [Next]_vars => Inv'
    BY NextInv
  <1> QED BY <1>1, <1>2, PTL DEF Spec

\* Whatever is parsed, built, printed and deleted, and whichever allocations fail,
\* cJSON_Delete frees no item twice and leaves none behind: every item in use has one
\* owner, its prev is the item it comes after, and from the roots all are reached.
THEOREM ItemsOwnedOnce == Spec => []OwnedOnce
  <1>1. Inv => OwnedOnce
    BY InvOwned
  <1> QED BY <1>1, TreesInvariant, PTL

=============================================================================
