---------------------------- MODULE BstProofs -----------------------------
(* Theorems about Bst for any number of threads, nodes and keys. *)
EXTENDS Bst, FiniteSetTheorems, WellFoundedInduction, TLAPS

-----------------------------------------------------------------------------
(* What links lead to *)

\* A set of numbers that is not empty has a least one.
LEMMA LeastNumber ==
    ASSUME NEW S \in SUBSET Nat, S # {}
    PROVE  \E n \in S : \A m \in S : n <= m
<1> DEFINE R == OpToRel(<, Nat)
<1>1. IsWellFoundedOn(R, Nat)
  BY NatLessThanWellFounded, Zenon
<1>2. \A n, m \in Nat : <<n, m>> \in R <=> n < m
  BY DEF OpToRel
<1> HIDE DEF R
<1>3. PICK n \in S : \A m \in S : ~(<<m, n>> \in R)
  BY <1>1, WFMin
<1>4. \A m \in S : ~(m < n)
  BY <1>2, <1>3
<1> QED BY <1>4

Links == [Nodes -> Nodes \cup {NULL}]

\* One turn of the iteration of Closure.
Grown(l, r, S) == (S \cup UNION {{l[n], r[n]} : n \in S}) \ {NULL}

\* f is the iteration of Closure up to n.
Iterates(f, n, l, r, S) == f = [i \in 0..n |-> IF i = 0 THEN S \ {NULL} ELSE Grown(l, r, f[i - 1])]

\* The turns that the closure takes exist as a function.
LEMMA IterationExists ==
    ASSUME NEW l \in Links, NEW r \in Links, NEW S, NEW n \in Nat
    PROVE  \E f : Iterates(f, n, l, r, S)
<1> DEFINE Bad == {i \in Nat : ~\E f : Iterates(f, i, l, r, S)}
<1> SUFFICES ASSUME Bad # {} PROVE FALSE
  OBVIOUS
<1>1. PICK m \in Bad : \A i \in Bad : m <= i
  BY LeastNumber
<1>2. CASE m = 0
  <2>1. Iterates([i \in 0..0 |-> S \ {NULL}], 0, l, r, S)
    BY DEF Iterates
  <2> QED BY <1>2, <2>1
<1>3. CASE m # 0
  <2>1. m - 1 \in Nat /\ m - 1 \notin Bad /\ m \in Nat
    BY <1>1, <1>3
  <2>2. PICK f : Iterates(f, m - 1, l, r, S)
    BY <2>1
  <2> DEFINE g == [i \in 0..m |-> IF i = m THEN Grown(l, r, f[m - 1]) ELSE f[i]]
  <2>3. ASSUME NEW i \in 0..m PROVE g[i] = IF i = 0 THEN S \ {NULL} ELSE Grown(l, r, g[i - 1])
    <3>1. CASE i = 0
      BY <1>3, <2>1, <2>2, <3>1 DEF Iterates
    <3>2. CASE i = m
      <4>1. g[i] = Grown(l, r, f[m - 1]) /\ g[m - 1] = f[m - 1]
        BY <1>3, <2>1, <3>2
      <4> QED BY <1>3, <3>2, <4>1
    <3>3. CASE i # 0 /\ i # m
      <4>1. g[i] = f[i] /\ g[i - 1] = f[i - 1] /\ i \in 0..(m - 1)
        BY <2>1, <3>3
      <4>2. f[i] = Grown(l, r, f[i - 1])
        BY <2>2, <3>3, <4>1 DEF Iterates
      <4> QED BY <3>3, <4>1, <4>2
    <3> QED BY <3>1, <3>2, <3>3
  <2>4. Iterates(g, m, l, r, S)
    BY <2>3 DEF Iterates
  <2> QED BY <1>1, <2>4
<1> QED BY <1>2, <1>3

\* The closure is the last of its turns.
LEMMA ClosureIterates ==
    ASSUME NEW l \in Links, NEW r \in Links, NEW S
    PROVE  \E f : /\ Iterates(f, Cardinality(Nodes), l, r, S)
                  /\ Closure(l, r, S) = f[Cardinality(Nodes)]
<1>1. Cardinality(Nodes) \in Nat
  BY BstAssumption, FS_CardinalityType
<1>2. \E f : Iterates(f, Cardinality(Nodes), l, r, S)
  BY <1>1, IterationExists
<1> DEFINE F == CHOOSE f : Iterates(f, Cardinality(Nodes), l, r, S)
<1>3. Iterates(F, Cardinality(Nodes), l, r, S)
  BY <1>2
<1>4. Closure(l, r, S) = F[Cardinality(Nodes)]
  BY Zenon DEF Closure, Iterates, Grown
<1> QED BY <1>3, <1>4

\* The set C has with a node the nodes it links to.
Closed(C, l, r) == \A n \in C : l[n] \in C \cup {NULL} /\ r[n] \in C \cup {NULL}

\* Closure is within each closed set that has S.
LEMMA ClosureLeast ==
    ASSUME NEW l \in Links, NEW r \in Links, NEW S, NEW C, Closed(C, l, r), S \subseteq C \cup {NULL}
    PROVE  Closure(l, r, S) \subseteq C
<1> DEFINE N == Cardinality(Nodes)
<1>1. PICK f : Iterates(f, N, l, r, S) /\ Closure(l, r, S) = f[N]
  BY ClosureIterates
<1>2. N \in Nat
  BY BstAssumption, FS_CardinalityType
<1> HIDE DEF N
<1> DEFINE Bad == {i \in 0..N : ~(f[i] \subseteq C)}
<1> SUFFICES ASSUME Bad # {} PROVE FALSE
  BY <1>1, <1>2
<1>0. Bad \in SUBSET Nat
  BY <1>2
<1>3. PICK m \in Bad : \A i \in Bad : m <= i
  <2> HIDE DEF Bad
  <2> QED BY <1>0, LeastNumber
<1>4. m \in 0..N /\ ~(f[m] \subseteq C)
  BY <1>3
<1>5. CASE m = 0
  BY <1>1, <1>4, <1>5 DEF Iterates
<1>6. CASE m # 0
  <2>1. m - 1 \in 0..N /\ m - 1 \notin Bad
    BY <1>2, <1>3, <1>6
  <2>2. f[m - 1] \subseteq C /\ f[m] = Grown(l, r, f[m - 1])
    BY <1>1, <1>4, <1>6, <2>1 DEF Iterates
  <2>3. Grown(l, r, f[m - 1]) \subseteq C
    BY <2>2 DEF Grown, Closed
  <2> QED BY <1>4, <2>2, <2>3
<1> QED BY <1>5, <1>6

\* Closure has S; it is closed, since a turn of the iteration that adds nothing
\* is followed by none that does, and there are as many turns as nodes.
LEMMA ClosureClosed ==
    ASSUME NEW l \in Links, NEW r \in Links, NEW S, S \subseteq Nodes \cup {NULL}
    PROVE  /\ Closure(l, r, S) \subseteq Nodes
           /\ S \subseteq Closure(l, r, S) \cup {NULL}
           /\ Closed(Closure(l, r, S), l, r)
<1> DEFINE N == Cardinality(Nodes)
<1>1. PICK f : Iterates(f, N, l, r, S) /\ Closure(l, r, S) = f[N]
  BY ClosureIterates
<1>2. N \in Nat /\ IsFiniteSet(Nodes)
  BY BstAssumption, FS_CardinalityType
<1>3. Closure(l, r, S) \subseteq Nodes
  <2>1. Closed(Nodes, l, r)
    BY DEF Closed, Links
  <2> QED BY <2>1, ClosureLeast
<1> HIDE DEF N
<1>0. f[0] = S \ {NULL} /\ \A i \in 1..N : f[i] = Grown(l, r, f[i - 1])
  <2>1. \A i \in 0..N : f[i] = IF i = 0 THEN S \ {NULL} ELSE Grown(l, r, f[i - 1])
    BY <1>1 DEF Iterates
  <2>2. 0 \in 0..N /\ \A i \in 1..N : i \in 0..N /\ i # 0
    BY <1>2
  <2> QED BY <2>1, <2>2
<1>4. \A i \in 1..N : f[i - 1] \subseteq f[i]
  <2> DEFINE Bad == {i \in 0..N : NULL \in f[i]}
  <2>1. Bad = {}
    BY <1>0, <1>2 DEF Grown
  <2>2. SUFFICES ASSUME NEW i \in 1..N PROVE f[i - 1] \subseteq f[i]
    OBVIOUS
  <2>3. NULL \notin f[i - 1]
    BY <1>2, <2>1
  <2> QED BY <1>0, <2>3 DEF Grown
\* Each of the first turns is full or has as many nodes as its number.
<1>5. ASSUME NEW k \in 0..N PROVE f[k] \subseteq Nodes /\ S \ {NULL} \subseteq f[k] /\
             (Closed(f[k], l, r) \/ (Cardinality(f[k]) \in Nat /\ Cardinality(f[k]) >= k))
  <2> DEFINE P(i) == f[i] \subseteq Nodes /\ S \ {NULL} \subseteq f[i] /\
             (Closed(f[i], l, r) \/ (Cardinality(f[i]) \in Nat /\ Cardinality(f[i]) >= i))
             Bad == {i \in 0..N : ~P(i)}
  <2> SUFFICES ASSUME Bad # {} PROVE FALSE
    OBVIOUS
  <2>0. Bad \in SUBSET Nat
    BY <1>2
  <2>1. PICK m \in Bad : \A i \in Bad : m <= i
    <3> HIDE DEF Bad
    <3> QED BY <2>0, LeastNumber
  <2>2. m \in 0..N /\ ~P(m)
    BY <2>1
  <2>3. CASE m = 0
    <3>1. f[0] \subseteq Nodes
      BY <1>0
    <3>2. IsFiniteSet(f[0])
      BY <1>2, <3>1, FS_Subset
    <3>3. Cardinality(f[0]) \in Nat
      BY <3>2, FS_CardinalityType
    <3>4. Cardinality(f[0]) >= 0 /\ S \ {NULL} \subseteq f[0]
      BY <1>0, <3>3
    <3> QED BY <2>2, <2>3, <3>1, <3>3, <3>4
  <2>4. CASE m # 0
    <3>1. m - 1 \in 0..N /\ m - 1 \notin Bad /\ m \in 1..N
      BY <1>2, <2>1, <2>4
    <3>2. P(m - 1)
      BY <3>1
    <3>3. f[m] = Grown(l, r, f[m - 1]) /\ f[m - 1] \subseteq f[m]
      BY <1>0, <1>4, <3>1
    <3>4. f[m] \subseteq Nodes
      BY <3>2, <3>3 DEF Grown, Links
    <3>5. IsFiniteSet(f[m]) /\ IsFiniteSet(f[m - 1])
      BY <1>2, <3>4, <3>2, FS_Subset
    <3>6. Cardinality(f[m]) \in Nat /\ Cardinality(f[m - 1]) \in Nat
      BY <3>5, FS_CardinalityType
    <3>7. CASE f[m] = f[m - 1]
      <4>1. Closed(f[m], l, r)
        BY <3>3, <3>4, <3>7 DEF Grown, Closed
      <4> QED BY <2>2, <3>2, <3>3, <3>4, <4>1
    <3>8. CASE f[m] # f[m - 1]
      <4>1. /\ Cardinality(f[m - 1]) <= Cardinality(f[m])
            /\ Cardinality(f[m]) = Cardinality(f[m - 1]) => f[m] = f[m - 1]
        BY <3>3, <3>5, FS_Subset
      <4>2. CASE Closed(f[m - 1], l, r)
        <5>1. f[m] \subseteq f[m - 1]
          BY <3>3, <4>2 DEF Grown, Closed
        <5> QED BY <3>3, <3>8, <5>1
      <4>3. CASE Cardinality(f[m - 1]) >= m - 1
        <5>1. Cardinality(f[m]) >= m
          BY <2>2, <3>6, <3>8, <4>1, <4>3
        <5> QED BY <2>2, <3>2, <3>3, <3>4, <3>6, <5>1
      <4> QED BY <3>2, <4>2, <4>3
    <3> QED BY <3>7, <3>8
  <2> QED BY <2>3, <2>4
<1>6. Closed(f[N], l, r)
  <2>1. CASE Cardinality(f[N]) \in Nat /\ Cardinality(f[N]) >= N
    <3>1. f[N] \subseteq Nodes
      BY <1>2, <1>5
    <3>2. Cardinality(f[N]) <= Cardinality(Nodes) /\ (Cardinality(Nodes) = Cardinality(f[N]) => Nodes = f[N])
      BY <1>2, <3>1, FS_Subset
    <3>3. f[N] = Nodes
      BY <1>2, <2>1, <3>2 DEF N
    <3> QED BY <3>3 DEF Closed, Links
  <2> QED BY <1>2, <1>5, <2>1
<1> QED BY <1>1, <1>2, <1>3, <1>5, <1>6

-----------------------------------------------------------------------------
(* Subtrees *)

\* What hangs from x.
Sub(l, r, x) == Closure(l, r, {x})

\* A subtree is made of nodes, has its own root and all that its links lead to.
LEMMA SubFacts ==
    ASSUME NEW l \in Links, NEW r \in Links, NEW x \in Nodes \cup {NULL}
    PROVE  /\ Sub(l, r, x) \subseteq Nodes
           /\ x \in Sub(l, r, x) \cup {NULL}
           /\ Closed(Sub(l, r, x), l, r)
BY ClosureClosed DEF Sub

\* A subtree is in every set that has its root and what the links lead to.
LEMMA SubLeast ==
    ASSUME NEW l \in Links, NEW r \in Links, NEW x, NEW C, Closed(C, l, r), x \in C \cup {NULL}
    PROVE  Sub(l, r, x) \subseteq C
BY ClosureLeast DEF Sub

\* Nothing hangs from NULL.
LEMMA SubNull ==
    ASSUME NEW l \in Links, NEW r \in Links
    PROVE  Sub(l, r, NULL) = {}
<1>1. Closed({}, l, r)
  BY DEF Closed
<1> QED BY <1>1, SubLeast

\* What hangs from a node of a subtree is in the subtree.
LEMMA SubBelow ==
    ASSUME NEW l \in Links, NEW r \in Links, NEW x \in Nodes \cup {NULL}, NEW y \in Sub(l, r, x) \cup {NULL}
    PROVE  Sub(l, r, y) \subseteq Sub(l, r, x)
BY SubFacts, SubLeast

\* A node, and what hangs from its links.
LEMMA SubSplit ==
    ASSUME NEW l \in Links, NEW r \in Links, NEW x \in Nodes
    PROVE  Sub(l, r, x) = {x} \cup Sub(l, r, l[x]) \cup Sub(l, r, r[x])
<1> DEFINE C == {x} \cup Sub(l, r, l[x]) \cup Sub(l, r, r[x])
<1>1. l[x] \in Nodes \cup {NULL} /\ r[x] \in Nodes \cup {NULL} /\ x # NULL
  BY BstAssumption DEF Links
<1>2. /\ Closed(Sub(l, r, l[x]), l, r) /\ Closed(Sub(l, r, r[x]), l, r)
      /\ l[x] \in Sub(l, r, l[x]) \cup {NULL} /\ r[x] \in Sub(l, r, r[x]) \cup {NULL}
  BY <1>1, SubFacts
<1>3. Closed(C, l, r)
  BY <1>2 DEF Closed
<1>4. Sub(l, r, x) \subseteq C
  BY <1>3, SubLeast
<1>5. x \in Sub(l, r, x) /\ Closed(Sub(l, r, x), l, r)
  BY <1>1, SubFacts
<1>6. l[x] \in Sub(l, r, x) \cup {NULL} /\ r[x] \in Sub(l, r, x) \cup {NULL}
  BY <1>5 DEF Closed
<1>7. Sub(l, r, l[x]) \subseteq Sub(l, r, x) /\ Sub(l, r, r[x]) \subseteq Sub(l, r, x)
  BY <1>6, SubBelow
<1> QED BY <1>4, <1>5, <1>7

\* Below x a node hangs from another.
LEMMA SubParent ==
    ASSUME NEW l \in Links, NEW r \in Links, NEW x \in Nodes \cup {NULL},
           NEW y \in Sub(l, r, x), y # x
    PROVE  \E z \in Sub(l, r, x) : y = l[z] \/ y = r[z]
<1> DEFINE C == {c \in Sub(l, r, x) : c = x \/ \E z \in Sub(l, r, x) : c = l[z] \/ c = r[z]}
<1>1. x \in Sub(l, r, x) \cup {NULL} /\ Closed(Sub(l, r, x), l, r)
  BY SubFacts
<1>2. Closed(C, l, r) /\ x \in C \cup {NULL}
  BY <1>1 DEF Closed
<1>3. Sub(l, r, x) \subseteq C
  BY <1>2, SubLeast
<1> QED BY <1>3

\* Of two nodes one hangs below the other, or they are on two sides of a third.
LEMMA SubFork ==
    ASSUME NEW l \in Links, NEW r \in Links, NEW t \in Nodes \cup {NULL},
           NEW x \in Sub(l, r, t), NEW y \in Sub(l, r, t)
    PROVE  \/ x \in Sub(l, r, y) \/ y \in Sub(l, r, x)
           \/ \E a \in Sub(l, r, t) : \/ x \in Sub(l, r, l[a]) /\ y \in Sub(l, r, r[a])
                                      \/ x \in Sub(l, r, r[a]) /\ y \in Sub(l, r, l[a])
<1> DEFINE T == Sub(l, r, t)
           Apart(c) == \E a \in T : \/ c \in Sub(l, r, l[a]) /\ y \in Sub(l, r, r[a])
                                    \/ c \in Sub(l, r, r[a]) /\ y \in Sub(l, r, l[a])
           C == {c \in T : c \in Sub(l, r, y) \/ y \in Sub(l, r, c) \/ Apart(c)}
<1>1. T \subseteq Nodes /\ t \in T \cup {NULL} /\ Closed(T, l, r) /\ y \in T /\ NULL \notin Nodes
  BY SubFacts, BstAssumption
<1>2. t \in C \cup {NULL}
  BY <1>1
<1>3. ASSUME NEW c \in C, NEW d, d \in {l[c], r[c]}, d # NULL PROVE d \in C
  <2>1. d \in T /\ c \in Nodes /\ d \in Nodes /\ y \in Nodes
    BY <1>1, <1>3 DEF Closed
  <2>2. CASE c \in Sub(l, r, y)
    BY <1>3, <2>1, <2>2, SubFacts DEF Closed
  <2>3. CASE y \in Sub(l, r, c)
    <3>1. y \in {c} \cup Sub(l, r, l[c]) \cup Sub(l, r, r[c])
      BY <2>1, <2>3, SubSplit
    <3>2. d \in Sub(l, r, d)
      BY <1>3, <2>1, SubFacts
    <3>3. CASE y = c
      <4>1. d \in Sub(l, r, y)
        BY <1>3, <2>1, <3>3, SubFacts, BstAssumption DEF Closed
      <4> QED BY <2>1, <4>1
    <3>4. CASE y \in Sub(l, r, d)
      BY <2>1, <3>4
    <3>5. CASE y # c /\ y \notin Sub(l, r, d)
      <4>1. Apart(d)
        BY <1>3, <3>1, <3>2, <3>5
      <4> QED BY <2>1, <4>1
    <3> QED BY <3>3, <3>4, <3>5
  <2>4. CASE Apart(c)
    <3>1. PICK a \in T : \/ c \in Sub(l, r, l[a]) /\ y \in Sub(l, r, r[a])
                         \/ c \in Sub(l, r, r[a]) /\ y \in Sub(l, r, l[a])
      BY <2>4
    <3>2. a \in Nodes /\ l[a] \in Nodes \cup {NULL} /\ r[a] \in Nodes \cup {NULL}
      BY <1>1 DEF Links
    <3>3. Closed(Sub(l, r, l[a]), l, r) /\ Closed(Sub(l, r, r[a]), l, r)
      BY <3>2, SubFacts
    <3>4. \/ d \in Sub(l, r, l[a]) /\ y \in Sub(l, r, r[a])
          \/ d \in Sub(l, r, r[a]) /\ y \in Sub(l, r, l[a])
      BY <1>3, <3>1, <3>3 DEF Closed
    <3> QED BY <2>1, <3>4
  <2> QED BY <1>3, <2>2, <2>3, <2>4
<1>4. Closed(C, l, r)
  BY <1>3 DEF Closed
<1>5. T \subseteq C
  BY <1>2, <1>4, SubLeast
<1> QED BY <1>5

\* The links l2 and r2 lead to y where those to n were, for the nodes in T.
Bypass(T, l, r, l2, r2, n, y) ==
    \A a \in T : /\ l2[a] = (IF l[a] = n THEN y ELSE l[a])
                 /\ r2[a] = (IF r[a] = n THEN y ELSE r[a])

\* Taking out a node with one child y at most takes it out of every subtree and
\* does nothing else.
LEMMA SubUnlink ==
    ASSUME NEW l \in Links, NEW r \in Links, NEW l2 \in Links, NEW r2 \in Links,
           NEW T \in SUBSET Nodes, Closed(T, l, r), NEW n \in T, NEW y \in Nodes \cup {NULL}, y # n,
           l[n] \in {y, NULL}, r[n] \in {y, NULL}, y \in {l[n], r[n]},
           Bypass(T, l, r, l2, r2, n, y),
           NEW x \in T \cup {NULL}
    PROVE  Sub(l2, r2, IF x = n THEN y ELSE x) = Sub(l, r, x) \ {n}
<1> DEFINE z == IF x = n THEN y ELSE x
           A == Sub(l, r, x)
           B == Sub(l2, r2, z)
<1>1. n # NULL /\ x \in Nodes \cup {NULL} /\ z \in Nodes \cup {NULL}
  BY BstAssumption
<1>2. A \subseteq T /\ x \in A \cup {NULL} /\ Closed(A, l, r)
  BY <1>1, SubFacts, SubLeast
<1>3. B \subseteq Nodes /\ z \in B \cup {NULL} /\ Closed(B, l2, r2)
  BY <1>1, SubFacts
<1> HIDE DEF A, B
<1>4. n \in A => y \in A \cup {NULL}
  BY <1>2 DEF Closed
<1>5. Closed(A \ {n}, l2, r2)
  BY <1>1, <1>2, <1>4 DEF Closed, Bypass
<1>6. z \in (A \ {n}) \cup {NULL}
  BY <1>1, <1>2, <1>4
<1>7. B \subseteq A \ {n}
  BY <1>5, <1>6, SubLeast DEF B
<1>8. CASE y \in B \cup {NULL}
  <2>1. Closed(B \cup {n}, l, r)
    BY <1>2, <1>3, <1>7, <1>8 DEF Closed, Bypass
  <2>2. x \in (B \cup {n}) \cup {NULL}
    BY <1>3
  <2>3. A \subseteq B \cup {n}
    BY <2>1, <2>2, SubLeast DEF A
  <2> QED BY <1>7, <2>3 DEF A, B
<1>9. CASE y \notin B \cup {NULL}
  <2>1. Closed(B, l, r)
    BY <1>2, <1>3, <1>7, <1>9 DEF Closed, Bypass
  <2>2. x \in B \cup {NULL}
    BY <1>3, <1>9
  <2>3. A \subseteq B
    BY <2>1, <2>2, SubLeast DEF A
  <2> QED BY <1>7, <2>3 DEF A, B
<1> QED BY <1>8, <1>9

\* The links l2 and r2 have the new leaf m where l (with left) or r led nowhere
\* from n.
Grafted(T, l, r, l2, r2, n, m, isleft) ==
    /\ \A a \in T : /\ l2[a] = (IF a = n /\ isleft THEN m ELSE l[a])
                    /\ r2[a] = (IF a = n /\ ~isleft THEN m ELSE r[a])
    /\ l2[m] = NULL /\ r2[m] = NULL
    /\ IF isleft THEN l[n] = NULL ELSE r[n] = NULL

\* A new leaf comes into the subtrees of the nodes above it.
LEMMA SubGraft ==
    ASSUME NEW l \in Links, NEW r \in Links, NEW l2 \in Links, NEW r2 \in Links,
           NEW T \in SUBSET Nodes, Closed(T, l, r), NEW n \in T, NEW m \in Nodes, m \notin T,
           NEW isleft \in BOOLEAN, Grafted(T, l, r, l2, r2, n, m, isleft),
           NEW x \in T \cup {NULL}
    PROVE  Sub(l2, r2, x) = Sub(l, r, x) \cup (IF n \in Sub(l, r, x) THEN {m} ELSE {})
<1> DEFINE A == Sub(l, r, x)
           B == Sub(l2, r2, x)
<1>1. n # NULL /\ x \in Nodes \cup {NULL}
  BY BstAssumption
<1>2. A \subseteq T /\ x \in A \cup {NULL} /\ Closed(A, l, r)
  BY <1>1, SubFacts, SubLeast
<1>3. B \subseteq Nodes /\ x \in B \cup {NULL} /\ Closed(B, l2, r2)
  BY <1>1, SubFacts
<1> HIDE DEF A, B
<1>4. Closed(A \cup (IF n \in A THEN {m} ELSE {}), l2, r2)
  BY <1>2 DEF Closed, Grafted
<1>5. B \subseteq A \cup (IF n \in A THEN {m} ELSE {})
  BY <1>2, <1>4, SubLeast DEF B
<1>6. Closed({b \in B : b \in T}, l, r)
  BY <1>3 DEF Closed, Grafted
<1>7. A \subseteq {b \in B : b \in T}
  BY <1>3, <1>6, SubLeast DEF A
<1>8. n \in A => m \in B
  <2> SUFFICES ASSUME n \in A PROVE m \in B
    OBVIOUS
  <2>1. n \in B /\ m # NULL
    BY <1>7, BstAssumption
  <2> QED BY <1>3, <2>1 DEF Closed, Grafted
<1> QED BY <1>5, <1>7, <1>8 DEF A, B

-----------------------------------------------------------------------------
(* The inductive invariant *)

Below(x) == Sub(left, right, x)

\* A node hangs from one link only, and the root from none; the keys are in
\* order.
TreeInv ==
    /\ \A a, b \in InTree : /\ left[a] # NULL /\ left[a] = left[b] => a = b
                            /\ right[a] # NULL /\ right[a] = right[b] => a = b
                            /\ left[a] # NULL => left[a] # right[b]
    /\ \A a \in InTree : root # left[a] /\ root # right[a]
    /\ \A a \in InTree : /\ \A m \in Below(left[a]) : key[m] < key[a]
                         /\ \A m \in Below(right[a]) : key[a] < key[m]

\* What is allocated is in the tree or about to be freed by one thread.  The
\* tree is destroyed when nobody uses it.
Doomed == {q \in Threads : pc[q] = "free"}
HeapInv ==
    /\ alloc = Linked \cup {succ[p] : p \in Doomed}
    /\ \A p \in Doomed : succ[p] \in Nodes \ InTree
    /\ \A p, q \in Doomed : succ[p] = succ[q] => p = q
    /\ destroyed => \A p \in Threads : pc[p] = "idle"

\* Where the pointers of a thread are: a thread waits for a node it has found
\* in a link of a node that it has locked, or in root with the tree locked.
Place(p) ==
    /\ pc[p] \in {"idle", "free"} <=> op[p] = NULL
    /\ pc[p] \in {"idle", "tree"} => Uses(p) = {}
    /\ pc[p] = "root" => /\ cur[p] = NULL /\ prev[p] = NULL /\ succ[p] = NULL
                         /\ next[p] = root /\ root # NULL
    /\ pc[p] = "step" => /\ cur[p] \in InTree /\ prev[p] = NULL /\ succ[p] = NULL
                         /\ op[p].type # "delete" /\ key[cur[p]] # op[p].key
                         /\ next[p] = Child(cur[p], op[p].key) /\ next[p] # NULL
    /\ pc[p] = "child" => /\ prev[p] \in InTree /\ cur[p] = NULL /\ succ[p] = NULL
                          /\ op[p].type = "delete" /\ key[prev[p]] # op[p].key
                          /\ is_left[p] = (op[p].key < key[prev[p]])
                          /\ next[p] = Child(prev[p], op[p].key) /\ next[p] # NULL
    /\ pc[p] = "succ" => /\ cur[p] \in InTree /\ prev[p] \in InTree /\ succ[p] \in InTree
                         /\ op[p].type = "delete" /\ key[cur[p]] = op[p].key
                         /\ left[cur[p]] # NULL /\ next[p] # NULL
                         /\ succ[p] = cur[p] => prev[p] = cur[p] /\ next[p] = right[cur[p]]
                         /\ succ[p] # cur[p] => /\ prev[p] # succ[p] /\ next[p] = left[succ[p]]
                                                /\ succ[p] \in Below(right[cur[p]])
    /\ pc[p] = "free" => cur[p] \in InTree \cup {NULL} /\ prev[p] = NULL /\ next[p] = NULL

\* A thread that looks for its key is on the right side of every node above.
Seeks(p) == pc[p] \in {"root", "step", "child"}
SeekInv(p) == Seeks(p) => \A a \in InTree : /\ next[p] \in Below(left[a]) => op[p].key < key[a]
                                            /\ next[p] \in Below(right[a]) => key[a] < op[p].key

\* A thread on the way to the successor has passed on the left of all that it
\* leaves behind, and of what others look for there.
Passed(p) == IF pc[p] = "succ" /\ succ[p] # cur[p] THEN Below(right[cur[p]]) \ Below(next[p]) ELSE {}
PassInv(p) ==
    /\ \A x \in Passed(p) : key[succ[p]] <= key[x]
    /\ \A q \in Threads : Seeks(q) /\ next[q] \in Passed(p) => key[succ[p]] < op[q].key

Inv == /\ TypeOK /\ TreeInv /\ HeapInv /\ LockDiscipline
       /\ \A p \in Threads : Place(p) /\ SeekInv(p) /\ PassInv(p)

-----------------------------------------------------------------------------
(* What the invariant says of the tree *)

\* The tree with links l and r from the root t.
LEMMA TreeFacts ==
    ASSUME NEW l \in Links, NEW r \in Links, NEW t \in Nodes \cup {NULL}
    PROVE  /\ Sub(l, r, t) \subseteq Nodes /\ NULL \notin Sub(l, r, t)
           /\ t \in Sub(l, r, t) \cup {NULL} /\ Sub(l, r, NULL) = {}
           /\ Closed(Sub(l, r, t), l, r)
           /\ \A x \in Sub(l, r, t) : /\ x \in Sub(l, r, x) /\ Sub(l, r, x) \subseteq Sub(l, r, t)
                                      /\ l[x] \in Sub(l, r, t) \cup {NULL} /\ r[x] \in Sub(l, r, t) \cup {NULL}
                                      /\ Sub(l, r, x) = {x} \cup Sub(l, r, l[x]) \cup Sub(l, r, r[x])
                                      /\ \A y \in Sub(l, r, x) : Sub(l, r, y) \subseteq Sub(l, r, x)
<1>1. /\ Sub(l, r, t) \subseteq Nodes /\ NULL \notin Nodes
      /\ t \in Sub(l, r, t) \cup {NULL} /\ Closed(Sub(l, r, t), l, r)
  BY SubFacts, BstAssumption
<1>2. ASSUME NEW x \in Sub(l, r, t)
      PROVE  /\ x \in Sub(l, r, x) /\ Sub(l, r, x) \subseteq Sub(l, r, t)
             /\ l[x] \in Sub(l, r, t) \cup {NULL} /\ r[x] \in Sub(l, r, t) \cup {NULL}
             /\ Sub(l, r, x) = {x} \cup Sub(l, r, l[x]) \cup Sub(l, r, r[x])
             /\ \A y \in Sub(l, r, x) : Sub(l, r, y) \subseteq Sub(l, r, x)
  <2>1. x \in Nodes /\ x # NULL
    BY <1>1
  <2>2. x \in Sub(l, r, x) /\ \A y \in Sub(l, r, x) : Sub(l, r, y) \subseteq Sub(l, r, x)
    BY <2>1, SubFacts, SubBelow
  <2>3. Sub(l, r, x) \subseteq Sub(l, r, t)
    BY SubBelow
  <2>4. l[x] \in Sub(l, r, t) \cup {NULL} /\ r[x] \in Sub(l, r, t) \cup {NULL}
    BY <1>1 DEF Closed
  <2>5. Sub(l, r, x) = {x} \cup Sub(l, r, l[x]) \cup Sub(l, r, r[x])
    BY <2>1, SubSplit
  <2> QED BY <2>2, <2>3, <2>4, <2>5
<1>3. Sub(l, r, NULL) = {}
  BY SubNull
<1> QED BY <1>1, <1>2, <1>3

\* The same for the tree of a state.
LEMMA InTreeFacts ==
    ASSUME TypeOK
    PROVE  /\ left \in Links /\ right \in Links /\ root \in Nodes \cup {NULL}
           /\ InTree \subseteq Nodes /\ NULL \notin InTree /\ NULL \notin Nodes
           /\ InTree = Below(root) /\ root \in InTree \cup {NULL} /\ Below(NULL) = {}
           /\ Closed(InTree, left, right)
           /\ \A x \in InTree : /\ x \in Below(x) /\ Below(x) \subseteq InTree
                                /\ left[x] \in InTree \cup {NULL} /\ right[x] \in InTree \cup {NULL}
                                /\ Below(x) = {x} \cup Below(left[x]) \cup Below(right[x])
                                /\ \A y \in Below(x) : Below(y) \subseteq Below(x)
<1>1. left \in Links /\ right \in Links /\ root \in Nodes \cup {NULL} /\ NULL \notin Nodes
  BY BstAssumption DEF TypeOK, Links
<1>2. InTree = Below(root) /\ \A x : Below(x) = Sub(left, right, x)
  BY DEF InTree, Reach, Below, Sub
<1> QED BY <1>1, <1>2, TreeFacts

\* What hangs from a node other than itself hangs from a link of a node there;
\* the root hangs from none.
LEMMA Parents ==
    ASSUME TypeOK, TreeInv
    PROVE  /\ \A y, z \in InTree : \A x \in Below(y) :
                 x # y /\ x \in {left[z], right[z]} => z \in Below(y)
           /\ \A a \in InTree : root \notin Below(left[a]) /\ root \notin Below(right[a])
<1>0. /\ left \in Links /\ right \in Links /\ InTree \subseteq Nodes /\ NULL \notin InTree /\ Below(NULL) = {}
      /\ \A x \in InTree : Below(x) \subseteq InTree
      /\ \A x \in InTree : left[x] \in InTree \cup {NULL} /\ right[x] \in InTree \cup {NULL}
  BY InTreeFacts
<1>1. ASSUME NEW y \in InTree, NEW x \in Below(y), x # y
      PROVE  \E z \in Below(y) : x \in {left[z], right[z]}
  BY <1>0, <1>1, SubParent DEF Below
<1>2. ASSUME NEW y \in InTree, NEW z \in InTree, NEW x \in Below(y), x # y, x \in {left[z], right[z]}
      PROVE  z \in Below(y)
  <2>1. PICK w \in Below(y) : x \in {left[w], right[w]}
    BY <1>1, <1>2
  <2>2. w \in InTree /\ x # NULL
    BY <1>0
  <2>3. z = w
    BY <1>2, <2>1, <2>2 DEF TreeInv
  <2> QED BY <2>3
<1>3. ASSUME NEW y \in InTree \cup {NULL}, root \in Below(y) PROVE y = root
  <2>1. y \in InTree
    BY <1>0, <1>3
  <2> QED BY <1>0, <1>1, <1>3, <2>1 DEF TreeInv
<1>4. ASSUME NEW a \in InTree PROVE root \notin Below(left[a]) /\ root \notin Below(right[a])
  BY <1>0, <1>3 DEF TreeInv
<1> QED BY <1>2, <1>4

\* A node is not below itself, and nothing is on both of its sides.
LEMMA Sides ==
    ASSUME TypeOK, TreeInv, NEW a \in InTree
    PROVE  /\ a \notin Below(left[a]) /\ a \notin Below(right[a])
           /\ Below(left[a]) \cap Below(right[a]) = {}
           /\ left[a] # a /\ right[a] # a
           /\ left[a] # NULL => left[a] \in Below(left[a]) /\ key[left[a]] < key[a]
           /\ right[a] # NULL => right[a] \in Below(right[a]) /\ key[a] < key[right[a]]
<1>1. /\ \A x \in InTree : x \in Below(x) /\ Below(x) \subseteq InTree
      /\ left[a] \in InTree \cup {NULL} /\ right[a] \in InTree \cup {NULL} /\ Below(NULL) = {}
      /\ InTree \subseteq Nodes /\ NULL \notin InTree
  BY InTreeFacts
<1>2. \A x \in InTree : key[x] \in Int
  BY <1>1, BstAssumption DEF TypeOK
<1>3. Below(left[a]) \subseteq InTree /\ Below(right[a]) \subseteq InTree
  BY <1>1
<1>4. (\A m \in Below(left[a]) : key[m] < key[a]) /\ (\A m \in Below(right[a]) : key[a] < key[m])
  BY DEF TreeInv
<1>5. a \notin Below(left[a]) /\ a \notin Below(right[a])
  BY <1>2, <1>4
<1>6. Below(left[a]) \cap Below(right[a]) = {}
  <2> SUFFICES ASSUME NEW m \in Below(left[a]), m \in Below(right[a]) PROVE FALSE
    OBVIOUS
  <2>1. key[m] < key[a] /\ key[a] < key[m] /\ key[m] \in Int /\ key[a] \in Int
    BY <1>2, <1>3, <1>4
  <2> QED BY <2>1
<1> QED BY <1>1, <1>4, <1>5, <1>6

-----------------------------------------------------------------------------
(* Locks *)

\* A thread has exactly the locks that its place in the code says.
LEMMA Holding ==
    ASSUME TypeOK, LockDiscipline, NEW p \in Threads
    PROVE  /\ Holds(p) \subseteq Nodes
           /\ \A n \in Nodes : lock[n] = p <=> n \in Holds(p)
BY DEF LockDiscipline

\* A step of p takes the locks in got, then releases those in gave.
LEMMA LockStep ==
    ASSUME TypeOK, LockDiscipline, NEW p \in Threads, NEW got \in SUBSET Nodes, NEW gave,
           Locks(p, got, gave), \A n \in (got \cup gave) \cap Nodes : lock[n] \in {p, NULL},
           Holds(p)' = (Holds(p) \cup got) \ gave,
           \A q \in Threads \ {p} : Holds(q)' = Holds(q),
           \A q \in Threads : tlock' = q <=> pc'[q] = "root"
    PROVE  LockDiscipline' /\ lock' \in [Nodes -> Threads \cup {NULL}]
<1>1. lock \in [Nodes -> Threads \cup {NULL}] /\ NULL \notin Threads
  BY BstAssumption DEF TypeOK
<1>2. lock' = [n \in Nodes |-> IF n \in gave THEN NULL ELSE IF n \in got THEN p ELSE lock[n]]
  BY DEF Locks
<1>3. lock' \in [Nodes -> Threads \cup {NULL}]
  BY <1>1, <1>2
<1>4. ASSUME NEW q \in Threads PROVE {n \in Nodes : lock'[n] = q} = Holds(q)'
  <2>1. Holds(q) = {n \in Nodes : lock[n] = q}
    BY DEF LockDiscipline
  <2>2. CASE q = p
    BY <1>1, <1>2, <2>1, <2>2
  <2>3. CASE q # p
    <3>1. ASSUME NEW n \in Nodes PROVE lock'[n] = q <=> lock[n] = q
      BY <1>1, <1>2, <2>3
    <3> QED BY <2>1, <2>3, <3>1
  <2> QED BY <2>2, <2>3
<1> QED BY <1>3, <1>4 DEF LockDiscipline

\* Whoever wants to pass a link to n needs a lock that p has.
Guarded(p, n) ==
    /\ n \in InTree
    /\ n = root => tlock = p
    /\ \A a \in InTree : n \in {left[a], right[a]} => lock[a] = p

\* Nobody but p has to do with n.
LEMMA Reached ==
    ASSUME Inv, NEW p \in Threads, pc[p] \in {"root", "step", "child", "succ"}
    PROVE  Guarded(p, next[p]) /\ next[p] # NULL /\ next[p] \in Nodes /\ op[p] \in Ops
<1>0. /\ TypeOK /\ TreeInv /\ LockDiscipline /\ Place(p)
      /\ \A n \in Nodes : lock[n] = p <=> n \in Holds(p)
  BY Holding DEF Inv
<1>1. /\ InTree \subseteq Nodes /\ NULL \notin InTree /\ root \in InTree \cup {NULL}
      /\ \A x \in InTree : left[x] \in InTree \cup {NULL} /\ right[x] \in InTree \cup {NULL}
  BY <1>0, InTreeFacts
<1>2. op[p] \in Ops
  BY <1>0 DEF TypeOK, Place
<1>3. CASE pc[p] = "root"
  <2>1. tlock = p
    BY <1>0, <1>3 DEF LockDiscipline
  <2>2. next[p] = root /\ root \in InTree
    BY <1>0, <1>1, <1>3 DEF Place
  <2> QED BY <1>0, <1>1, <1>2, <2>1, <2>2 DEF Guarded, TreeInv
<1>4. ASSUME NEW u \in InTree, lock[u] = p, next[p] \in {left[u], right[u]}, next[p] # NULL
      PROVE  Guarded(p, next[p]) /\ next[p] \in Nodes
  <2>1. next[p] \in InTree /\ next[p] # root
    BY <1>0, <1>1, <1>4 DEF TreeInv
  <2>2. ASSUME NEW a \in InTree, next[p] \in {left[a], right[a]} PROVE a = u
    BY <1>0, <1>4, <2>2 DEF TreeInv
  <2> QED BY <1>1, <1>4, <2>1, <2>2 DEF Guarded
<1>5. CASE pc[p] = "step"
  <2>1. cur[p] \in InTree /\ next[p] \in {left[cur[p]], right[cur[p]]} /\ next[p] # NULL
    BY <1>0, <1>5 DEF Place, Child
  <2>2. lock[cur[p]] = p
    BY <1>0, <1>1, <1>5, <2>1 DEF Holds
  <2> QED BY <1>2, <1>4, <2>1, <2>2
<1>6. CASE pc[p] = "child"
  <2>1. prev[p] \in InTree /\ next[p] \in {left[prev[p]], right[prev[p]]} /\ next[p] # NULL
    BY <1>0, <1>6 DEF Place, Child
  <2>2. lock[prev[p]] = p
    BY <1>0, <1>1, <1>6, <2>1 DEF Holds
  <2> QED BY <1>2, <1>4, <2>1, <2>2
<1>7. CASE pc[p] = "succ"
  <2>1. succ[p] \in InTree /\ next[p] \in {left[succ[p]], right[succ[p]]} /\ next[p] # NULL
    BY <1>0, <1>7 DEF Place
  <2>2. lock[succ[p]] = p
    BY <1>0, <1>1, <1>7, <2>1 DEF Holds
  <2> QED BY <1>2, <1>4, <2>1, <2>2
<1> QED BY <1>3, <1>5, <1>6, <1>7

\* The nodes a thread has locked, or waits for, are no other thread's.
LEMMA Away ==
    ASSUME Inv, NEW p \in Threads, NEW q \in Threads, p # q
    PROVE  /\ \A n \in Holds(q) : lock[n] = q /\ n \in InTree
           /\ \A n \in Nodes : Guarded(p, n) /\ lock[n] = NULL => n \notin Uses(q)
           /\ pc[q] \in {"root", "step", "child", "succ"} =>
                 /\ next[q] \in InTree
                 /\ \A n \in Nodes : Guarded(p, n) => next[q] # n
<1>0. TypeOK /\ LockDiscipline /\ Place(q) /\ HeapInv /\ pc[q] \in {"idle", "tree", "root", "step", "child", "succ", "free"}
  BY DEF Inv, TypeOK
<1>1. Holds(q) \subseteq Nodes /\ \A n \in Nodes : lock[n] = q <=> n \in Holds(q)
  BY <1>0, Holding
<1>2. InTree \subseteq Nodes /\ NULL \notin InTree /\ NULL \notin Threads /\ NULL \notin Nodes
  BY <1>0, InTreeFacts, BstAssumption
<1>3. Holds(q) \subseteq InTree
  BY <1>0 DEF Holds, Place
<1>4. ASSUME pc[q] \in {"root", "step", "child", "succ"}
      PROVE  next[q] \in InTree /\ \A n \in Nodes : Guarded(p, n) => next[q] # n
  <2>1. Guarded(q, next[q]) /\ next[q] \in InTree
    BY <1>4, Reached DEF Guarded
  <2>2. SUFFICES ASSUME Guarded(p, next[q]) PROVE FALSE
    BY <2>1
  <2>3. next[q] # root
    <3>1. next[q] = root => tlock = p /\ tlock = q
      BY <2>1, <2>2 DEF Guarded
    <3> QED BY <3>1
  <2>4. \A a \in InTree : next[q] \notin {left[a], right[a]}
    BY <2>1, <2>2 DEF Guarded
  <2>5. \/ next[q] = root
        \/ \E a \in InTree : next[q] \in {left[a], right[a]}
    BY <1>0, <1>4 DEF Place, Child
  <2> QED BY <2>3, <2>4, <2>5
<1>5. ASSUME NEW n \in Nodes, Guarded(p, n), lock[n] = NULL PROVE n \notin Uses(q)
  <2>1. n \notin Holds(q) /\ n \in InTree
    BY <1>1, <1>2, <1>5 DEF Guarded
  <2>2. pc[q] = "free" => succ[q] # n
    BY <1>0, <2>1 DEF HeapInv, Doomed
  <2>3. CASE pc[q] \in {"root", "step", "child", "succ"}
    BY <1>0, <1>4, <1>5, <2>1, <2>3 DEF Uses, Place, Holds
  <2>4. CASE pc[q] = "free"
    BY <1>0, <2>1, <2>2, <2>4, <1>2 DEF Uses, Place, Holds
  <2>5. CASE pc[q] \in {"idle", "tree"}
    BY <1>0, <2>5 DEF Place
  <2> QED BY <1>0, <2>3, <2>4, <2>5
<1> QED BY <1>1, <1>3, <1>4, <1>5

-----------------------------------------------------------------------------
(* Steps that leave the tree alone *)

\* A step of p is seen by p only, as far as threads go.
Same(p) == \A q \in Threads \ {p} :
    /\ pc'[q] = pc[q] /\ op'[q] = op[q] /\ is_left'[q] = is_left[q]
    /\ cur'[q] = cur[q] /\ prev'[q] = prev[q] /\ succ'[q] = succ[q] /\ next'[q] = next[q]

\* A step that leaves the root and the links alone leaves the tree as it was.
LEMMA TreeKept ==
    ASSUME UNCHANGED <<root, fields>>
    PROVE  /\ InTree' = InTree /\ \A x : Sub(left', right', x) = Below(x)
           /\ \A a : Below(left[a])' = Below(left[a]) /\ Below(right[a])' = Below(right[a])
           /\ TreeInv => TreeInv'
<1>1. left' = left /\ right' = right /\ root' = root /\ key' = key
  BY DEF fields
<1>2. InTree' = InTree
  BY <1>1 DEF InTree, Reach
<1>3. \A x : Sub(left', right', x) = Below(x)
  BY <1>1 DEF Below
<1>4. \A a : Below(left[a])' = Below(left[a]) /\ Below(right[a])' = Below(right[a])
  BY <1>1 DEF Below
<1>5. TreeInv => TreeInv'
  BY <1>1, <1>2, <1>4 DEF TreeInv
<1> QED BY <1>2, <1>3, <1>4, <1>5

\* Such a step leaves what the invariant says of the other threads as it was.
LEMMA Frame ==
    ASSUME Inv, NEW p \in Threads, UNCHANGED <<root, fields>>, Same(p),
           TypeOK', HeapInv', LockDiscipline', Place(p)', SeekInv(p)', PassInv(p)',
           \A q \in Threads \ {p} : Seeks(p)' /\ next'[p] \in Passed(q) => key[succ[q]] < op'[p].key
    PROVE  Inv'
<1>0. left' = left /\ right' = right /\ root' = root /\ key' = key /\ TreeInv
  BY DEF fields, Inv
<1>1. /\ InTree' = InTree /\ \A x : Sub(left', right', x) = Below(x)
      /\ \A a : Below(left[a])' = Below(left[a]) /\ Below(right[a])' = Below(right[a])
      /\ TreeInv'
  BY <1>0, TreeKept
<1>2. ASSUME NEW q \in Threads, q # p PROVE Place(q)' /\ SeekInv(q)' /\ PassInv(q)'
  <2>0. /\ Place(q) /\ SeekInv(q) /\ PassInv(q)
        /\ pc'[q] = pc[q] /\ op'[q] = op[q] /\ is_left'[q] = is_left[q]
        /\ cur'[q] = cur[q] /\ prev'[q] = prev[q] /\ succ'[q] = succ[q] /\ next'[q] = next[q]
    BY <1>2 DEF Inv, Same
  <2>1. Below(right[cur[q]])' = Below(right[cur[q]]) /\ Below(next[q])' = Below(next[q])
    BY <1>0, <1>1, <2>0 DEF Below
  <2>2. Place(q)'
    BY <1>0, <1>1, <2>0, <2>1 DEF Place, Uses, Child
  <2>3. SeekInv(q)'
    BY <1>0, <1>1, <2>0 DEF SeekInv, Seeks
  <2>4. Passed(q)' = Passed(q)
    BY <2>0, <2>1 DEF Passed
  <2>5. ASSUME NEW r \in Threads, Seeks(r)', next'[r] \in Passed(q)
        PROVE  key[succ[q]] < op'[r].key
    <3>1. CASE r = p
      BY <1>2, <2>5, <3>1
    <3>2. CASE r # p
      <4>1. Seeks(r) /\ next'[r] = next[r] /\ op'[r] = op[r]
        BY <2>5, <3>2 DEF Same, Seeks
      <4> QED BY <2>0, <2>5, <4>1 DEF PassInv
    <3> QED BY <3>1, <3>2
  <2>6. PassInv(q)'
    BY <1>0, <2>0, <2>4, <2>5 DEF PassInv
  <2> QED BY <2>2, <2>3, <2>6
<1> QED BY <1>1, <1>2 DEF Inv

\* The heap is as it was when p neither had a node to free nor has one now.
LEMMA HeapKept ==
    ASSUME Inv, NEW p \in Threads, UNCHANGED <<root, fields, alloc, destroyed>>, Same(p),
           pc[p] # "free", pc'[p] # "free", ~destroyed
    PROVE  HeapInv'
<1>1. InTree' = InTree /\ alloc' = alloc /\ destroyed' = destroyed
  BY TreeKept
<1>2. Doomed' = Doomed /\ \A q \in Doomed : succ'[q] = succ[q]
  BY DEF Doomed, Same
<1>3. HeapInv
  BY DEF Inv
<1>4. {succ'[q] : q \in Doomed} = {succ[q] : q \in Doomed}
  BY <1>2
<1>5. alloc' = Linked' \cup {succ'[q] : q \in Doomed'}
  BY <1>1, <1>2, <1>3, <1>4 DEF HeapInv, Linked
<1>6. \A q \in Doomed' : succ'[q] \in Nodes \ InTree'
  BY <1>1, <1>2, <1>3 DEF HeapInv
<1>7. \A q, r \in Doomed' : succ'[q] = succ'[r] => q = r
  BY <1>2, <1>3 DEF HeapInv
<1> QED BY <1>1, <1>5, <1>6, <1>7 DEF HeapInv

\* The other threads hold what they held.
LEMMA OthersHold ==
    ASSUME NEW p \in Threads, Same(p)
    PROVE  \A q \in Threads \ {p} : Holds(q)' = Holds(q) /\ (pc'[q] = "root" <=> pc[q] = "root")
<1> SUFFICES ASSUME NEW q \in Threads \ {p} PROVE Holds(q)' = Holds(q) /\ (pc'[q] = "root" <=> pc[q] = "root")
  OBVIOUS
<1>1. pc'[q] = pc[q] /\ cur'[q] = cur[q] /\ prev'[q] = prev[q] /\ succ'[q] = succ[q]
  BY DEF Same
<1> QED BY <1>1 DEF Holds

\* A thread that does something is in a tree that exists.
LEMMA Alive ==
    ASSUME Inv, NEW p \in Threads, pc[p] # "idle"
    PROVE  ~destroyed /\ Linked = InTree
BY DEF Inv, HeapInv, Linked

\* The types of the threads' variables after a step of p.
Results == {"0", "-1", "no memory", NULL} \cup Values
Pcs == {"idle", "tree", "root", "step", "child", "succ", "free"}
ThreadTypes ==
    /\ pc \in [Threads -> Pcs] /\ op \in [Threads -> Ops \cup {NULL}]
    /\ res \in [Threads -> Results] /\ calls \in [Threads -> 0..MaxOps]
    /\ cur \in [Threads -> Nodes \cup {NULL}] /\ prev \in [Threads -> Nodes \cup {NULL}]
    /\ succ \in [Threads -> Nodes \cup {NULL}] /\ next \in [Threads -> Nodes \cup {NULL}]
    /\ is_left \in [Threads -> BOOLEAN]

\* The type invariant, split into what threads and what nodes have.
LEMMA Types ==
    TypeOK <=> /\ ThreadTypes
               /\ root \in Nodes \cup {NULL} /\ tlock \in Threads \cup {NULL}
               /\ key \in [Nodes -> Keys] /\ value \in [Nodes -> Values]
               /\ left \in Links /\ right \in Links
               /\ lock \in [Nodes -> Threads \cup {NULL}] /\ alloc \subseteq Nodes
               /\ destroyed \in BOOLEAN
BY DEF TypeOK, ThreadTypes, Pcs, Results, Links

\* The same after a step.
LEMMA TypesNext ==
    TypeOK' <=> /\ ThreadTypes'
                /\ root' \in Nodes \cup {NULL} /\ tlock' \in Threads \cup {NULL}
                /\ key' \in [Nodes -> Keys] /\ value' \in [Nodes -> Values]
                /\ left' \in Links /\ right' \in Links
                /\ lock' \in [Nodes -> Threads \cup {NULL}] /\ alloc' \subseteq Nodes
                /\ destroyed' \in BOOLEAN
BY DEF TypeOK, ThreadTypes, Pcs, Results, Links

\* What a step of p does to the variables of threads.
Moves(p, l, o, c, v, s, x) ==
    /\ pc' = [pc EXCEPT ![p] = l] /\ op' = [op EXCEPT ![p] = o]
    /\ Points(p, c, v, s, x)
    /\ \E r \in Results : res' = [res EXCEPT ![p] = r]
    /\ \E i \in BOOLEAN : is_left' = [is_left EXCEPT ![p] = i]

\* A step that moves p alone keeps the types of the threads.
LEMMA Moved ==
    ASSUME ThreadTypes, NEW p \in Threads, NEW l, NEW o, NEW c, NEW v, NEW s, NEW x,
           Moves(p, l, o, c, v, s, x), calls' \in [Threads -> 0..MaxOps],
           l \in Pcs, o \in Ops \cup {NULL}, {c, v, s, x} \subseteq Nodes \cup {NULL}
    PROVE  /\ Same(p) /\ ThreadTypes'
           /\ pc'[p] = l /\ op'[p] = o /\ cur'[p] = c /\ prev'[p] = v /\ succ'[p] = s /\ next'[p] = x
<1>1. /\ pc' = [pc EXCEPT ![p] = l] /\ op' = [op EXCEPT ![p] = o]
      /\ cur' = [cur EXCEPT ![p] = c] /\ prev' = [prev EXCEPT ![p] = v]
      /\ succ' = [succ EXCEPT ![p] = s] /\ next' = [next EXCEPT ![p] = x]
  BY DEF Moves, Points
<1>2. /\ pc \in [Threads -> Pcs] /\ op \in [Threads -> Ops \cup {NULL}]
      /\ cur \in [Threads -> Nodes \cup {NULL}] /\ prev \in [Threads -> Nodes \cup {NULL}]
      /\ succ \in [Threads -> Nodes \cup {NULL}] /\ next \in [Threads -> Nodes \cup {NULL}]
  BY DEF ThreadTypes
<1>3. /\ pc' \in [Threads -> Pcs] /\ op' \in [Threads -> Ops \cup {NULL}]
      /\ cur' \in [Threads -> Nodes \cup {NULL}] /\ prev' \in [Threads -> Nodes \cup {NULL}]
      /\ succ' \in [Threads -> Nodes \cup {NULL}] /\ next' \in [Threads -> Nodes \cup {NULL}]
  BY <1>1, <1>2
<1>4. res' \in [Threads -> Results]
  BY DEF Moves, ThreadTypes
<1>5. is_left' \in [Threads -> BOOLEAN] /\ \A q \in Threads \ {p} : is_left'[q] = is_left[q]
  BY DEF Moves, ThreadTypes
<1>6. ThreadTypes'
  BY <1>3, <1>4, <1>5 DEF ThreadTypes
<1>7. Same(p)
  BY <1>1, <1>2, <1>5 DEF Same
<1> QED BY <1>1, <1>2, <1>6, <1>7

\* p leaves root, or has not been there.
LEMMA TreeUnlocked ==
    ASSUME Inv, NEW p \in Threads, Same(p), pc'[p] # "root",
           tlock' = IF pc[p] = "root" THEN NULL ELSE tlock
    PROVE  (\A q \in Threads : tlock' = q <=> pc'[q] = "root") /\ tlock' \in Threads \cup {NULL}
<1>1. /\ \A q \in Threads : tlock = q <=> pc[q] = "root"
      /\ \A q \in Threads \ {p} : pc'[q] = pc[q]
      /\ tlock \in Threads \cup {NULL} /\ NULL \notin Threads
  BY BstAssumption DEF Inv, LockDiscipline, Same, TypeOK
<1>2. ASSUME NEW q \in Threads PROVE tlock' = q <=> pc'[q] = "root"
  BY <1>1
<1> QED BY <1>1, <1>2

\* p returns without a change to the tree: a key that is found or not found,
\* no memory.
LEMMA Leaves ==
    ASSUME Inv, NEW p \in Threads, Seeks(p), lock[next[p]] = NULL,
           UNCHANGED <<root, fields, alloc, calls, destroyed>>,
           Moves(p, "idle", NULL, NULL, NULL, NULL, NULL), Locks(p, {}, Holds(p) \cup {next[p]}),
           tlock' = IF pc[p] = "root" THEN NULL ELSE tlock
    PROVE  Inv'
<1>0. TypeOK /\ ThreadTypes /\ LockDiscipline /\ next[p] \in Nodes /\ pc[p] # "idle" /\ pc[p] # "free" /\ ~destroyed
  BY Types, Reached, Alive DEF Inv, Seeks
<1>1. calls' \in [Threads -> 0..MaxOps]
  BY <1>0 DEF ThreadTypes
<1>2. /\ Same(p) /\ ThreadTypes' /\ pc'[p] = "idle" /\ op'[p] = NULL
      /\ cur'[p] = NULL /\ prev'[p] = NULL /\ succ'[p] = NULL /\ next'[p] = NULL
  <2>1. "idle" \in Pcs /\ NULL \in Ops \cup {NULL} /\ {NULL, NULL, NULL, NULL} \subseteq Nodes \cup {NULL}
    BY DEF Pcs
  <2> QED BY <1>0, <1>1, <2>1, Moved
<1>3. (\A q \in Threads : tlock' = q <=> pc'[q] = "root") /\ tlock' \in Threads \cup {NULL}
  BY <1>2, TreeUnlocked
<1>4. LockDiscipline' /\ lock' \in [Nodes -> Threads \cup {NULL}]
  <2>1. Holds(p)' = {}
    BY <1>2 DEF Holds
  <2>2. \A n \in Holds(p) : lock[n] = p
    BY <1>0, Holding
  <2>3. \A q \in Threads \ {p} : Holds(q)' = Holds(q)
    BY <1>2, OthersHold
  <2> QED BY <1>0, <1>3, <2>1, <2>2, <2>3, LockStep
<1>5. TypeOK'
  BY <1>0, <1>2, <1>3, <1>4, Types, TypesNext DEF fields
<1>6. HeapInv'
  BY <1>0, <1>2, HeapKept
<1>7. Place(p)' /\ SeekInv(p)' /\ PassInv(p)' /\ ~Seeks(p)'
  BY <1>2 DEF Place, Uses, SeekInv, PassInv, Passed, Seeks
<1> QED BY <1>2, <1>4, <1>5, <1>6, <1>7, Frame

\* The link that p follows for its key leads to the right side.
LEMMA FollowKey ==
    ASSUME Inv, NEW p \in Threads, Seeks(p), NEW n, n = next[p], lock[n] = NULL,
           NEW x, x = Child(n, op[p].key), x # NULL, key[n] # op[p].key
    PROVE  /\ \A a \in InTree : /\ x \in Below(left[a]) => op[p].key < key[a]
                                /\ x \in Below(right[a]) => key[a] < op[p].key
           /\ \A q \in Threads \ {p} : x \in Passed(q) => key[succ[q]] < op[p].key
           /\ x \in InTree
<1>0. TypeOK /\ TreeInv /\ SeekInv(p) /\ n \in InTree /\ op[p] \in Ops /\ LockDiscipline
  BY Reached DEF Inv, Seeks, Guarded
<1>1. /\ InTree \subseteq Nodes /\ NULL \notin InTree /\ Below(NULL) = {}
      /\ \A y \in InTree : /\ y \in Below(y) /\ Below(y) \subseteq InTree
                           /\ left[y] \in InTree \cup {NULL} /\ right[y] \in InTree \cup {NULL}
                           /\ Below(y) = {y} \cup Below(left[y]) \cup Below(right[y])
                           /\ \A z \in Below(y) : Below(z) \subseteq Below(y)
  BY <1>0, InTreeFacts
<1>2. key[n] \in Int /\ op[p].key \in Int
  BY <1>0, <1>1, BstAssumption DEF TypeOK, Ops
<1>3. x \in InTree /\ x \in {left[n], right[n]}
  BY <1>0, <1>1 DEF Child
<1>4. ASSUME NEW y \in InTree \cup {NULL}, x \in Below(y) PROVE y = x \/ n \in Below(y)
  <2>1. y \in InTree
    BY <1>1, <1>4
  <2> QED BY <1>0, <1>3, <1>4, <2>1, Parents
<1>5. ASSUME NEW a \in InTree, x \in Below(left[a]) PROVE op[p].key < key[a]
  <2>1. CASE n \in Below(left[a])
    BY <1>0, <2>1 DEF SeekInv
  <2>2. CASE left[a] = x
    <3>1. a = n /\ right[n] # x
      BY <1>0, <1>3, <2>2 DEF TreeInv
    <3> QED BY <1>2, <3>1 DEF Child
  <2> QED BY <1>1, <1>4, <1>5, <2>1, <2>2
<1>6. ASSUME NEW a \in InTree, x \in Below(right[a]) PROVE key[a] < op[p].key
  <2>1. CASE n \in Below(right[a])
    BY <1>0, <2>1 DEF SeekInv
  <2>2. CASE right[a] = x
    <3>1. a = n /\ left[n] # x
      BY <1>0, <1>3, <2>2 DEF TreeInv
    <3> QED BY <1>2, <3>1 DEF Child
  <2> QED BY <1>1, <1>4, <1>6, <2>1, <2>2
<1>7. ASSUME NEW q \in Threads \ {p}, x \in Passed(q) PROVE key[succ[q]] < op[p].key
  <2>1. /\ pc[q] = "succ" /\ succ[q] # cur[q] /\ PassInv(q) /\ Place(q)
        /\ x \in Below(right[cur[q]]) /\ x \notin Below(next[q])
    BY <1>7 DEF Passed, Inv
  <2>2. cur[q] \in InTree /\ lock[cur[q]] = q
    <3>1. cur[q] \in Holds(q)
      BY <2>1 DEF Holds
    <3> QED BY <3>1, Away
  <2>3. right[cur[q]] # x
    <3>1. right[cur[q]] = x => cur[q] = n
      BY <1>0, <1>3, <2>2 DEF TreeInv
    <3>2. q # NULL
      BY BstAssumption
    <3> QED BY <2>2, <3>1, <3>2
  <2>4. n \in Below(right[cur[q]])
    BY <1>1, <1>4, <2>1, <2>2, <2>3
  <2>5. next[q] \in InTree
    BY <2>1, Away
  <2>6. n \notin Below(next[q])
    <3> SUFFICES ASSUME n \in Below(next[q]) PROVE FALSE
      OBVIOUS
    <3>1. Below(n) \subseteq Below(next[q])
      BY <1>1, <2>5
    <3>2. x \in Below(n)
      BY <1>0, <1>1, <1>3
    <3> QED BY <2>1, <3>1, <3>2
  <2>7. n \in Passed(q)
    BY <2>1, <2>4, <2>6 DEF Passed
  <2> QED BY <2>1, <2>7 DEF PassInv
<1> QED BY <1>3, <1>5, <1>6, <1>7

\* p goes on to a child of the node it has just locked.
LEMMA Descends ==
    ASSUME Inv, NEW p \in Threads, Seeks(p), NEW n, n = next[p], lock[n] = NULL,
           key[n] # op[p].key, Child(n, op[p].key) # NULL,
           UNCHANGED <<root, fields, alloc, calls, destroyed>>,
           \/ /\ Moves(p, "step", op[p], n, NULL, NULL, Child(n, op[p].key)) /\ op[p].type # "delete"
           \/ /\ Moves(p, "child", op[p], NULL, n, NULL, Child(n, op[p].key)) /\ op[p].type = "delete"
              /\ is_left'[p] = (op[p].key < key[n]),
           Locks(p, {n}, Holds(p)),
           tlock' = IF pc[p] = "root" THEN NULL ELSE tlock
    PROVE  Inv'
<1>0. /\ TypeOK /\ ThreadTypes /\ LockDiscipline /\ n \in Nodes /\ n \in InTree /\ n # NULL /\ op[p] \in Ops
      /\ pc[p] # "idle" /\ pc[p] # "free" /\ ~destroyed
  BY Types, Reached, Alive DEF Inv, Seeks, Guarded
<1>1. calls' \in [Threads -> 0..MaxOps]
  BY <1>0 DEF ThreadTypes
<1> DEFINE x == Child(n, op[p].key)
<1>2. /\ \A a \in InTree : /\ x \in Below(left[a]) => op[p].key < key[a]
                           /\ x \in Below(right[a]) => key[a] < op[p].key
      /\ \A q \in Threads \ {p} : x \in Passed(q) => key[succ[q]] < op[p].key
      /\ x \in InTree /\ x # NULL
  BY FollowKey
<1>3. x \in Nodes
  BY <1>0, <1>2, InTreeFacts
<1>4. /\ Same(p) /\ ThreadTypes' /\ op'[p] = op[p] /\ succ'[p] = NULL /\ next'[p] = x
      /\ \/ pc'[p] = "step" /\ cur'[p] = n /\ prev'[p] = NULL /\ op[p].type # "delete"
         \/ /\ pc'[p] = "child" /\ cur'[p] = NULL /\ prev'[p] = n /\ op[p].type = "delete"
            /\ is_left'[p] = (op[p].key < key[n])
  <2>1. "step" \in Pcs /\ "child" \in Pcs /\ op[p] \in Ops \cup {NULL}
    BY <1>0 DEF Pcs
  <2>2. {n, NULL, NULL, x} \subseteq Nodes \cup {NULL} /\ {NULL, n, NULL, x} \subseteq Nodes \cup {NULL}
    BY <1>0, <1>3
  <2>3. CASE Moves(p, "step", op[p], n, NULL, NULL, x) /\ op[p].type # "delete"
    <3> HIDE DEF x
    <3> QED BY <1>0, <1>1, <2>1, <2>2, <2>3, Moved
  <2>4. CASE Moves(p, "child", op[p], NULL, n, NULL, x) /\ op[p].type = "delete" /\ is_left'[p] = (op[p].key < key[n])
    <3> HIDE DEF x
    <3> QED BY <1>0, <1>1, <2>1, <2>2, <2>4, Moved
  <2> QED BY <2>3, <2>4
<1>5. (\A q \in Threads : tlock' = q <=> pc'[q] = "root") /\ tlock' \in Threads \cup {NULL}
  BY <1>4, TreeUnlocked
<1>6. LockDiscipline' /\ lock' \in [Nodes -> Threads \cup {NULL}]
  <2>1. Holds(p)' = {n}
    BY <1>4 DEF Holds
  <2>2. (\A m \in Holds(p) : lock[m] = p) /\ n \notin Holds(p)
    <3>1. p # NULL
      BY BstAssumption
    <3> QED BY <1>0, <3>1, Holding
  <2>3. \A q \in Threads \ {p} : Holds(q)' = Holds(q)
    BY <1>4, OthersHold
  <2>4. Holds(p)' = (Holds(p) \cup {n}) \ Holds(p)
    BY <2>1, <2>2
  <2> QED BY <1>0, <1>5, <2>2, <2>3, <2>4, LockStep
<1>7. TypeOK'
  BY <1>0, <1>4, <1>5, <1>6, Types, TypesNext DEF fields
<1>8. HeapInv'
  BY <1>0, <1>4, HeapKept
<1>9. key' = key /\ left' = left /\ right' = right /\ InTree' = InTree
      /\ \A a : Below(left[a])' = Below(left[a]) /\ Below(right[a])' = Below(right[a])
  BY TreeKept DEF fields
<1>10. Place(p)' /\ PassInv(p)'
  <2>1. op'[p] # NULL
    BY <1>0, <1>4 DEF Inv, Place, Seeks
  <2>2. Place(p)'
    BY <1>0, <1>2, <1>4, <1>9, <2>1 DEF Place, Child
  <2>3. PassInv(p)'
    BY <1>4 DEF PassInv, Passed
  <2> QED BY <2>2, <2>3
<1>11. SeekInv(p)'
  BY <1>2, <1>4, <1>9 DEF SeekInv
<1> QED BY <1>2, <1>4, <1>6, <1>7, <1>8, <1>10, <1>11, Frame

\* A thread calls an operation.
LEMMA Called ==
    ASSUME Inv, NEW p \in Threads, CallOp(p)
    PROVE  Inv'
<1>0. /\ TypeOK /\ ThreadTypes /\ LockDiscipline /\ Place(p) /\ pc[p] = "idle" /\ ~destroyed
      /\ UNCHANGED <<root, fields, alloc, destroyed>>
  BY Types DEF Inv, CallOp, fields
<1>1. PICK o \in Ops : op' = [op EXCEPT ![p] = o]
  BY DEF CallOp
<1>2. /\ Same(p) /\ pc'[p] = "tree" /\ op'[p] = o /\ o # NULL
      /\ cur' = cur /\ prev' = prev /\ succ' = succ /\ next' = next /\ tlock' = tlock /\ lock' = lock
  BY <1>0, <1>1, BstAssumption DEF CallOp, At, ptrs, ThreadTypes, Same
<1>3. ThreadTypes'
  <2>1. calls[p] \in 0..MaxOps /\ calls[p] < MaxOps /\ MaxOps \in Nat
    BY <1>0, BstAssumption DEF ThreadTypes, CallOp
  <2>2. calls' \in [Threads -> 0..MaxOps]
    BY <1>0, <2>1 DEF ThreadTypes, CallOp
  <2>3. pc' \in [Threads -> Pcs]
    BY <1>0 DEF ThreadTypes, CallOp, At, Pcs
  <2>4. op' \in [Threads -> Ops \cup {NULL}]
    BY <1>0, <1>1 DEF ThreadTypes
  <2>5. res' = res /\ is_left' = is_left
    BY DEF CallOp
  <2> QED BY <1>0, <1>2, <2>2, <2>3, <2>4, <2>5 DEF ThreadTypes
<1>4. TypeOK'
  BY <1>0, <1>2, <1>3, Types, TypesNext DEF fields
<1>5. LockDiscipline'
  <2>1. Holds(p) = {} /\ Holds(p)' = {}
    BY <1>0, <1>2 DEF Holds
  <2>2. \A q \in Threads \ {p} : Holds(q)' = Holds(q) /\ (pc'[q] = "root" <=> pc[q] = "root")
    BY <1>2, OthersHold
  <2>3. \A q \in Threads : Holds(q)' = Holds(q) /\ (pc'[q] = "root" <=> pc[q] = "root")
    BY <1>0, <1>2, <2>1, <2>2
  <2> QED BY <1>0, <1>2, <2>3 DEF LockDiscipline
<1>6. HeapInv'
  BY <1>0, <1>2, HeapKept
<1>7. Place(p)' /\ SeekInv(p)' /\ PassInv(p)' /\ ~Seeks(p)'
  BY <1>0, <1>2 DEF Place, Uses, SeekInv, PassInv, Passed, Seeks
<1> QED BY <1>0, <1>2, <1>4, <1>5, <1>6, <1>7, Frame

\* p finds no tree, and there is none to make.
LEMMA NoTree ==
    ASSUME Inv, NEW p \in Threads, pc[p] = "tree", UNCHANGED <<root, fields, alloc, tlock, lock, calls, ptrs, is_left, destroyed>>,
           NEW r \in Results, Returns(p, r), At(p, "idle")
    PROVE  Inv'
<1>0. /\ TypeOK /\ ThreadTypes /\ LockDiscipline /\ Place(p) /\ ~destroyed
      /\ UNCHANGED <<root, fields, alloc, destroyed>>
  BY Types, Alive DEF Inv
<1>2. /\ Same(p) /\ pc'[p] = "idle" /\ op'[p] = NULL
      /\ cur' = cur /\ prev' = prev /\ succ' = succ /\ next' = next
  BY <1>0 DEF At, ptrs, ThreadTypes, Same, Returns
<1>3. ThreadTypes'
  <2>1. pc' \in [Threads -> Pcs]
    BY <1>0 DEF ThreadTypes, At, Pcs
  <2>2. op' \in [Threads -> Ops \cup {NULL}] /\ res' \in [Threads -> Results]
    BY <1>0 DEF ThreadTypes, Returns
  <2> QED BY <1>0, <1>2, <2>1, <2>2 DEF ThreadTypes
<1>4. TypeOK'
  BY <1>0, <1>3, Types, TypesNext DEF fields
<1>5. LockDiscipline'
  <2>1. Holds(p) = {} /\ Holds(p)' = {}
    BY <1>0, <1>2 DEF Holds
  <2>2. \A q \in Threads \ {p} : Holds(q)' = Holds(q) /\ (pc'[q] = "root" <=> pc[q] = "root")
    BY <1>2, OthersHold
  <2>3. \A q \in Threads : Holds(q)' = Holds(q) /\ (pc'[q] = "root" <=> pc[q] = "root")
    BY <1>0, <1>2, <2>1, <2>2
  <2> QED BY <1>0, <2>3 DEF LockDiscipline
<1>6. HeapInv'
  BY <1>0, <1>2, HeapKept
<1>7. Place(p)' /\ SeekInv(p)' /\ PassInv(p)' /\ ~Seeks(p)'
  BY <1>0, <1>2 DEF Place, Uses, SeekInv, PassInv, Passed, Seeks
<1> QED BY <1>0, <1>2, <1>4, <1>5, <1>6, <1>7, Frame

\* p locks the tree and goes for the root.
LEMMA TreeLocked ==
    ASSUME Inv, NEW p \in Threads, LockTree(p)
    PROVE  Inv'
<1>0. /\ TypeOK /\ TreeInv /\ ThreadTypes /\ LockDiscipline /\ Place(p) /\ ~destroyed
      /\ UNCHANGED <<root, fields, alloc, destroyed>>
      /\ pc[p] = "tree" /\ tlock = NULL /\ root # NULL /\ tlock' = p /\ lock' = lock
  BY Types, Alive DEF Inv, LockTree
<1>1. root \in InTree /\ root \in Nodes
  BY <1>0, InTreeFacts
<1>2. /\ Same(p) /\ ThreadTypes' /\ pc'[p] = "root" /\ op'[p] = op[p]
      /\ cur'[p] = NULL /\ prev'[p] = NULL /\ succ'[p] = NULL /\ next'[p] = root
  <2>1. op' = [op EXCEPT ![p] = op[p]] /\ res' = [res EXCEPT ![p] = res[p]] /\ is_left' = [is_left EXCEPT ![p] = is_left[p]]
    BY <1>0 DEF LockTree, ThreadTypes
  <2>2. res[p] \in Results /\ is_left[p] \in BOOLEAN /\ op[p] \in Ops \cup {NULL} /\ calls' = calls
    BY <1>0 DEF LockTree, ThreadTypes
  <2>3. Moves(p, "root", op[p], NULL, NULL, NULL, root)
    BY <2>1, <2>2 DEF LockTree, At, Moves
  <2>4. "root" \in Pcs /\ {NULL, NULL, NULL, root} \subseteq Nodes \cup {NULL} /\ calls' \in [Threads -> 0..MaxOps]
    BY <1>0, <1>1, <2>2 DEF Pcs, ThreadTypes
  <2> QED BY <1>0, <2>2, <2>3, <2>4, Moved
<1>4. TypeOK'
  BY <1>0, <1>2, Types, TypesNext DEF fields
<1>5. LockDiscipline'
  <2>1. Holds(p) = {} /\ Holds(p)' = {}
    BY <1>0, <1>2 DEF Holds
  <2>2. \A q \in Threads \ {p} : Holds(q)' = Holds(q) /\ (pc'[q] = "root" <=> pc[q] = "root")
    BY <1>2, OthersHold
  <2>3. \A q \in Threads : pc[q] # "root"
    BY <1>0, BstAssumption DEF LockDiscipline
  <2> QED BY <1>0, <1>2, <2>1, <2>2, <2>3 DEF LockDiscipline
<1>6. HeapInv'
  BY <1>0, <1>2, HeapKept
<1>7. \A a \in InTree : root \notin Below(left[a]) /\ root \notin Below(right[a])
  BY <1>0, Parents
<1>8. key' = key /\ left' = left /\ right' = right /\ root' = root /\ InTree' = InTree
      /\ \A a : Below(left[a])' = Below(left[a]) /\ Below(right[a])' = Below(right[a])
  BY <1>0, TreeKept DEF fields
<1>9. Place(p)' /\ PassInv(p)'
  BY <1>0, <1>2, <1>8 DEF Place, PassInv, Passed
<1>10. SeekInv(p)'
  BY <1>2, <1>7, <1>8 DEF SeekInv
<1>11. \A q \in Threads \ {p} : next'[p] \notin Passed(q)
  <2> SUFFICES ASSUME NEW q \in Threads \ {p} PROVE root \notin Passed(q)
    BY <1>2
  <2>1. pc[q] = "succ" => cur[q] \in InTree
    BY DEF Inv, Place
  <2> QED BY <1>7, <2>1 DEF Passed
<1> QED BY <1>0, <1>2, <1>4, <1>5, <1>6, <1>9, <1>10, <1>11, Frame

\* p has found a key to overwrite: it goes for the right child.
LEMMA SeeksSuccessor ==
    ASSUME Inv, NEW p \in Threads, Seeks(p), NEW n, n = next[p], lock[n] = NULL,
           op[p].type = "delete", key[n] = op[p].key, TwoChildren(n),
           UNCHANGED <<root, fields, alloc, calls, destroyed>>,
           Moves(p, "succ", op[p], n, n, n, right[n]), Locks(p, {n}, Holds(p)),
           tlock' = IF pc[p] = "root" THEN NULL ELSE tlock
    PROVE  Inv'
<1>0. /\ TypeOK /\ ThreadTypes /\ LockDiscipline /\ n \in Nodes /\ n \in InTree /\ n # NULL /\ op[p] \in Ops
      /\ pc[p] # "idle" /\ pc[p] # "free" /\ ~destroyed
  BY Types, Reached, Alive DEF Inv, Seeks, Guarded
<1>1. calls' \in [Threads -> 0..MaxOps]
  BY <1>0 DEF ThreadTypes
<1>2. right[n] \in InTree /\ right[n] \in Nodes /\ left[n] # NULL /\ right[n] # NULL
  BY <1>0, InTreeFacts DEF TwoChildren
<1>4. /\ Same(p) /\ ThreadTypes' /\ op'[p] = op[p] /\ pc'[p] = "succ"
      /\ cur'[p] = n /\ prev'[p] = n /\ succ'[p] = n /\ next'[p] = right[n]
  <2>1. "succ" \in Pcs /\ op[p] \in Ops \cup {NULL}
    BY <1>0 DEF Pcs
  <2>2. {n, n, n, right[n]} \subseteq Nodes \cup {NULL}
    BY <1>0, <1>2
  <2> QED BY <1>0, <1>1, <2>1, <2>2, Moved
<1>5. (\A q \in Threads : tlock' = q <=> pc'[q] = "root") /\ tlock' \in Threads \cup {NULL}
  BY <1>4, TreeUnlocked
<1>6. LockDiscipline' /\ lock' \in [Nodes -> Threads \cup {NULL}]
  <2>1. Holds(p)' = {n}
    BY <1>4 DEF Holds
  <2>2. (\A m \in Holds(p) : lock[m] = p) /\ n \notin Holds(p)
    <3>1. p # NULL
      BY BstAssumption
    <3> QED BY <1>0, <3>1, Holding
  <2>3. \A q \in Threads \ {p} : Holds(q)' = Holds(q)
    BY <1>4, OthersHold
  <2>4. Holds(p)' = (Holds(p) \cup {n}) \ Holds(p)
    BY <2>1, <2>2
  <2> QED BY <1>0, <1>5, <2>2, <2>3, <2>4, LockStep
<1>7. TypeOK'
  BY <1>0, <1>4, <1>5, <1>6, Types, TypesNext DEF fields
<1>8. HeapInv'
  BY <1>0, <1>4, HeapKept
<1>9. key' = key /\ left' = left /\ right' = right /\ InTree' = InTree
  BY TreeKept DEF fields
<1>10. Place(p)'
  <2>1. op'[p] # NULL
    BY <1>0, <1>4, BstAssumption
  <2> QED BY <1>0, <1>2, <1>4, <1>9, <2>1 DEF Place
<1>11. PassInv(p)' /\ SeekInv(p)' /\ ~Seeks(p)'
  BY <1>4 DEF PassInv, Passed, SeekInv, Seeks
<1> QED BY <1>4, <1>6, <1>7, <1>8, <1>10, <1>11, Frame

\* p goes one node to the left, and passes the right side of a node.
LEMMA Passes ==
    ASSUME Inv, NEW p \in Threads, SuccessorStep(p)
    PROVE  Inv'
<1> DEFINE n == next[p]
<1>0. /\ TypeOK /\ TreeInv /\ ThreadTypes /\ LockDiscipline /\ Place(p) /\ PassInv(p) /\ ~destroyed
      /\ n \in Nodes /\ n \in InTree /\ n # NULL /\ op[p] \in Ops /\ Guarded(p, n)
      /\ pc[p] = "succ" /\ lock[n] = NULL /\ left[n] # NULL
      /\ UNCHANGED <<root, fields, alloc, destroyed>> /\ tlock' = tlock
  BY Types, Reached, Alive DEF Inv, Guarded, SuccessorStep
<1>1. /\ cur[p] \in InTree /\ prev[p] \in InTree /\ succ[p] \in InTree
      /\ op[p].type = "delete" /\ key[cur[p]] = op[p].key /\ left[cur[p]] # NULL
      /\ succ[p] = cur[p] => prev[p] = cur[p] /\ n = right[cur[p]]
      /\ succ[p] # cur[p] => /\ prev[p] # succ[p] /\ n = left[succ[p]]
                             /\ succ[p] \in Below(right[cur[p]])
  BY <1>0 DEF Place
<1>2. /\ InTree \subseteq Nodes /\ NULL \notin InTree /\ NULL \notin Nodes /\ Below(NULL) = {}
      /\ \A y \in InTree : /\ y \in Below(y) /\ Below(y) \subseteq InTree
                           /\ left[y] \in InTree \cup {NULL} /\ right[y] \in InTree \cup {NULL}
                           /\ Below(y) = {y} \cup Below(left[y]) \cup Below(right[y])
                           /\ \A z \in Below(y) : Below(z) \subseteq Below(y)
  BY <1>0, InTreeFacts
<1>3. n \notin {cur[p], prev[p], succ[p]}
  <2>1. Holds(p) = {cur[p], prev[p], succ[p]} /\ p # NULL
    BY <1>0, BstAssumption DEF Holds
  <2> QED BY <1>0, <2>1, Holding
<1>4. /\ Same(p) /\ ThreadTypes' /\ op'[p] = op[p] /\ pc'[p] = "succ"
      /\ cur'[p] = cur[p] /\ prev'[p] = succ[p] /\ succ'[p] = n /\ next'[p] = left[n]
  <2>1. /\ op' = [op EXCEPT ![p] = op[p]] /\ res' = [res EXCEPT ![p] = res[p]]
        /\ is_left' = [is_left EXCEPT ![p] = is_left[p]] /\ pc' = [pc EXCEPT ![p] = "succ"]
    BY <1>0 DEF SuccessorStep, ThreadTypes
  <2>2. res[p] \in Results /\ is_left[p] \in BOOLEAN /\ op[p] \in Ops \cup {NULL} /\ calls' = calls
    BY <1>0 DEF SuccessorStep, ThreadTypes
  <2>3. Moves(p, "succ", op[p], cur[p], succ[p], n, left[n])
    BY <2>1, <2>2 DEF SuccessorStep, Moves
  <2>4. "succ" \in Pcs /\ {cur[p], succ[p], n, left[n]} \subseteq Nodes \cup {NULL} /\ calls' \in [Threads -> 0..MaxOps]
    BY <1>0, <1>1, <1>2, <2>2 DEF Pcs, ThreadTypes
  <2> HIDE DEF n
  <2> QED BY <1>0, <2>2, <2>3, <2>4, Moved
<1>5. LockDiscipline' /\ lock' \in [Nodes -> Threads \cup {NULL}]
  <2>1. Holds(p) = {cur[p], prev[p], succ[p]} /\ Holds(p)' = {cur[p], succ[p], n}
    BY <1>0, <1>4 DEF Holds
  <2>2. \A m \in Holds(p) : lock[m] = p
    BY <1>0, Holding
  <2>3. \A q \in Threads \ {p} : Holds(q)' = Holds(q) /\ (pc'[q] = "root" <=> pc[q] = "root")
    BY <1>4, OthersHold
  <2>4. Holds(p)' = (Holds(p) \cup {n}) \ ({prev[p]} \ {cur[p]})
    BY <1>1, <1>3, <2>1
  <2>5. \A q \in Threads : tlock' = q <=> pc'[q] = "root"
    BY <1>0, <1>4, <2>3 DEF LockDiscipline
  <2>6. Locks(p, {n}, {prev[p]} \ {cur[p]})
    BY DEF SuccessorStep
  <2>7. \A m \in ({n} \cup ({prev[p]} \ {cur[p]})) \cap Nodes : lock[m] \in {p, NULL}
    BY <1>0, <2>1, <2>2
  <2> HIDE DEF n
  <2> QED BY <1>0, <2>3, <2>4, <2>5, <2>6, <2>7, LockStep
<1>6. TypeOK'
  BY <1>0, <1>4, <1>5, Types, TypesNext DEF fields
<1>7. HeapInv'
  BY <1>0, <1>4, HeapKept
<1>8. key' = key /\ left' = left /\ right' = right /\ InTree' = InTree
      /\ \A x : Sub(left', right', x) = Below(x)
  BY <1>0, TreeKept DEF fields
<1>9. Below(right[cur[p]])' = Below(right[cur[p]]) /\ Below(next[p])' = Below(left[n])
  BY <1>4, <1>8 DEF Below
<1>10. n \in Below(right[cur[p]]) /\ Below(n) \subseteq Below(right[cur[p]])
  BY <1>0, <1>1, <1>2
<1>11. Place(p)'
  <2>1. op'[p] # NULL
    BY <1>0, <1>4, BstAssumption
  <2> HIDE DEF n
  <2> QED BY <1>0, <1>1, <1>3, <1>4, <1>8, <1>9, <1>10, <2>1 DEF Place
<1>12. \A x \in InTree : key[x] \in Int
  BY <1>0, <1>2, BstAssumption DEF TypeOK
<1>13. succ[p] # cur[p] => key[n] < key[succ[p]]
  BY <1>0, <1>1, Sides
<1>14. Passed(p)' \subseteq Passed(p) \cup {n} \cup Below(right[n])
  <2>1. Passed(p)' = Below(right[cur[p]]) \ Below(left[n])
    BY <1>3, <1>4, <1>9 DEF Passed
  <2>2. Below(n) = {n} \cup Below(left[n]) \cup Below(right[n])
    BY <1>0, <1>2
  <2>3. CASE succ[p] = cur[p]
    BY <1>1, <2>1, <2>2, <2>3
  <2>4. CASE succ[p] # cur[p]
    BY <1>0, <2>1, <2>2, <2>4 DEF Passed
  <2> QED BY <2>3, <2>4
<1>15. ASSUME NEW x \in Passed(p) PROVE succ[p] # cur[p] /\ key[succ[p]] <= key[x] /\ x \in InTree
  BY <1>0, <1>1, <1>2, <1>15 DEF Passed, PassInv
<1>16. ASSUME NEW x \in Below(right[n]) PROVE key[n] < key[x] /\ x \in InTree
  BY <1>0, <1>2, <1>16 DEF TreeInv
<1>17. ASSUME NEW x \in Passed(p)' PROVE key[n] <= key[x]
  <2>1. CASE x \in Passed(p)
    <3>1. key[n] < key[succ[p]] /\ key[succ[p]] <= key[x]
      BY <1>13, <1>15, <2>1
    <3> QED BY <1>0, <1>1, <1>12, <1>15, <2>1, <3>1
  <2>2. CASE x \in Below(right[n])
    <3> HIDE DEF n
    <3> QED BY <1>0, <1>12, <1>16, <2>2
  <2>3. CASE x = n
    BY <1>0, <1>12, <2>3
  <2> QED BY <1>14, <1>17, <2>1, <2>2, <2>3
<1>18. ASSUME NEW q \in Threads, Seeks(q)', next'[q] \in Passed(p)' PROVE key[n] < op'[q].key
  <2>1. q # p
    BY <1>4, <1>18 DEF Seeks
  <2>2. Seeks(q) /\ next'[q] = next[q] /\ op'[q] = op[q] /\ SeekInv(q)
    BY <1>4, <1>18, <2>1 DEF Same, Seeks, Inv
  <2>3. op[q].key \in Int
    <3>1. op[q] \in Ops
      BY <2>2, Reached DEF Seeks
    <3> QED BY <3>1, BstAssumption DEF Ops
  <2>4. next[q] # n
    <3>1. pc[q] \in {"root", "step", "child", "succ"}
      BY <2>2 DEF Seeks
    <3> QED BY <1>0, <2>1, <3>1, Away
  <2>5. CASE next[q] \in Passed(p)
    <3>1. succ[p] # cur[p] /\ key[succ[p]] < op[q].key
      BY <1>0, <1>15, <2>2, <2>5 DEF PassInv
    <3> QED BY <1>0, <1>1, <1>12, <1>13, <2>2, <2>3, <3>1
  <2>6. CASE next[q] \in Below(right[n])
    BY <1>0, <2>2, <2>6 DEF SeekInv
  <2> QED BY <1>14, <1>18, <2>2, <2>4, <2>5, <2>6
<1>19. PassInv(p)'
  BY <1>4, <1>8, <1>17, <1>18 DEF PassInv
<1>20. SeekInv(p)' /\ ~Seeks(p)'
  BY <1>4 DEF SeekInv, Seeks
<1> QED BY <1>0, <1>4, <1>5, <1>6, <1>7, <1>11, <1>19, <1>20, Frame

\* p frees the node it has unlinked.
LEMMA Frees ==
    ASSUME Inv, NEW p \in Threads, FreeNode(p)
    PROVE  Inv'
<1>0. /\ TypeOK /\ ThreadTypes /\ LockDiscipline /\ HeapInv /\ Place(p) /\ ~destroyed /\ Linked = InTree
      /\ UNCHANGED <<root, fields>> /\ destroyed' = destroyed /\ tlock' = tlock
      /\ pc[p] = "free" /\ alloc' = alloc \ {succ[p]}
  BY Types, Alive DEF Inv, FreeNode
<1>1. /\ Same(p) /\ ThreadTypes' /\ pc'[p] = "idle" /\ op'[p] = NULL
      /\ cur'[p] = NULL /\ prev'[p] = NULL /\ succ'[p] = NULL /\ next'[p] = NULL
  <2>1. op[p] = NULL
    BY <1>0 DEF Place
  <2>2. /\ op' = [op EXCEPT ![p] = NULL] /\ res' = [res EXCEPT ![p] = res[p]]
        /\ is_left' = [is_left EXCEPT ![p] = is_left[p]]
    BY <1>0, <2>1 DEF FreeNode, ThreadTypes
  <2>3. res[p] \in Results /\ is_left[p] \in BOOLEAN /\ calls' = calls
    BY <1>0 DEF FreeNode, ThreadTypes
  <2>4. Moves(p, "idle", NULL, NULL, NULL, NULL, NULL)
    BY <2>2, <2>3 DEF FreeNode, Moves, At, Forgets
  <2>5. /\ "idle" \in Pcs /\ {NULL, NULL, NULL, NULL} \subseteq Nodes \cup {NULL} /\ NULL \in Ops \cup {NULL}
        /\ calls' \in [Threads -> 0..MaxOps]
    BY <1>0, <2>3 DEF Pcs, ThreadTypes
  <2> QED BY <1>0, <2>4, <2>5, Moved
<1>2. LockDiscipline' /\ lock' \in [Nodes -> Threads \cup {NULL}]
  <2>1. Holds(p) = {cur[p]} \ {NULL} /\ Holds(p)' = {}
    BY <1>0, <1>1 DEF Holds
  <2>2. \A m \in Holds(p) : lock[m] = p
    BY <1>0, Holding
  <2>3. \A q \in Threads \ {p} : Holds(q)' = Holds(q) /\ (pc'[q] = "root" <=> pc[q] = "root")
    BY <1>1, OthersHold
  <2>5. \A q \in Threads : tlock' = q <=> pc'[q] = "root"
    BY <1>0, <1>1, <2>3 DEF LockDiscipline
  <2>6. Locks(p, {}, Holds(p))
    BY <2>1 DEF FreeNode
  <2> QED BY <1>0, <2>1, <2>2, <2>3, <2>5, <2>6, LockStep
<1>3. TypeOK'
  BY <1>0, <1>1, <1>2, Types, TypesNext DEF fields
<1>4. HeapInv'
  <2>1. InTree' = InTree
    BY <1>0, TreeKept
  <2>2. Doomed' = Doomed \ {p} /\ p \in Doomed /\ \A q \in Doomed' : succ'[q] = succ[q]
    BY <1>0, <1>1 DEF Doomed, Same
  <2>3. {succ'[q] : q \in Doomed'} = {succ[q] : q \in Doomed} \ {succ[p]}
    BY <1>0, <2>2 DEF HeapInv
  <2>4. succ[p] \notin InTree
    BY <1>0, <2>2 DEF HeapInv
  <2>5. alloc' = Linked' \cup {succ'[q] : q \in Doomed'}
    BY <1>0, <2>1, <2>3, <2>4 DEF HeapInv, Linked
  <2>6. \A q \in Doomed' : succ'[q] \in Nodes \ InTree'
    BY <1>0, <2>1, <2>2 DEF HeapInv
  <2>7. \A q, r \in Doomed' : succ'[q] = succ'[r] => q = r
    BY <1>0, <2>2 DEF HeapInv
  <2> QED BY <1>0, <2>5, <2>6, <2>7 DEF HeapInv
<1>7. Place(p)' /\ SeekInv(p)' /\ PassInv(p)' /\ ~Seeks(p)'
  BY <1>1 DEF Place, Uses, SeekInv, PassInv, Passed, Seeks
<1> QED BY <1>0, <1>1, <1>2, <1>3, <1>4, <1>7, Frame

\* Nothing but the heap changes.
LEMMA Still ==
    ASSUME Inv, UNCHANGED <<root, tlock, fields, lock, pc, op, res, calls, ptrs, is_left>>, HeapInv',
           alloc' \subseteq Nodes, destroyed' \in BOOLEAN
    PROVE  Inv'
<1>1. /\ left' = left /\ right' = right /\ root' = root /\ key' = key /\ TreeInv /\ TypeOK
      /\ cur' = cur /\ prev' = prev /\ succ' = succ /\ next' = next
  BY DEF fields, ptrs, Inv
<1>2. /\ InTree' = InTree /\ \A x : Sub(left', right', x) = Below(x)
      /\ \A a : Below(left[a])' = Below(left[a]) /\ Below(right[a])' = Below(right[a])
      /\ TreeInv'
  BY <1>1, TreeKept
<1>3. TypeOK'
  BY <1>1, Types, TypesNext DEF fields, ThreadTypes
<1>4. LockDiscipline'
  BY <1>1 DEF LockDiscipline, Holds, Inv
<1>5. ASSUME NEW q \in Threads PROVE Place(q)' /\ SeekInv(q)' /\ PassInv(q)'
  <2>0. Place(q) /\ SeekInv(q) /\ PassInv(q)
    BY DEF Inv
  <2>1. Below(right[cur[q]])' = Below(right[cur[q]]) /\ Below(next[q])' = Below(next[q])
    BY <1>1, <1>2 DEF Below
  <2>2. Place(q)'
    BY <1>1, <1>2, <2>0, <2>1 DEF Place, Uses, Child
  <2>3. SeekInv(q)'
    BY <1>1, <1>2, <2>0 DEF SeekInv, Seeks
  <2>4. Passed(q)' = Passed(q)
    BY <1>1, <2>1 DEF Passed
  <2>5. PassInv(q)'
    BY <1>1, <2>0, <2>4 DEF PassInv, Seeks
  <2> QED BY <2>2, <2>3, <2>5
<1> QED BY <1>2, <1>3, <1>4, <1>5 DEF Inv

\* bst_destroy keeps the invariant.
LEMMA Destroyed ==
    ASSUME Inv, Destroy
    PROVE  Inv'
<1>1. TypeOK /\ HeapInv /\ ~destroyed /\ destroyed' = TRUE /\ alloc' = alloc \ InTree /\ pc' = pc
      /\ \A p \in Threads : pc[p] = "idle"
  BY DEF Inv, Destroy
<1>2. Doomed = {} /\ Doomed' = {} /\ Linked = InTree /\ Linked' = {}
  BY <1>1 DEF Doomed, Linked
<1>3. alloc' = {}
  BY <1>1, <1>2 DEF HeapInv
<1>4. HeapInv'
  BY <1>1, <1>2, <1>3 DEF HeapInv
<1> QED BY <1>3, <1>4, Still DEF Destroy

\* So does a step that changes nothing.
LEMMA Stutters ==
    ASSUME Inv, UNCHANGED vars
    PROVE  Inv'
<1>1. /\ alloc' = alloc /\ destroyed' = destroyed /\ pc' = pc /\ succ' = succ
      /\ UNCHANGED <<root, tlock, fields, lock, pc, op, res, calls, ptrs, is_left>>
  BY DEF vars, ptrs
<1>2. InTree' = InTree
  BY <1>1, TreeKept
<1>3. HeapInv'
  BY <1>1, <1>2 DEF HeapInv, Inv, Linked, Doomed
<1>4. alloc' \subseteq Nodes /\ destroyed' \in BOOLEAN
  BY <1>1 DEF Inv, TypeOK
<1> QED BY <1>1, <1>3, <1>4, Still

-----------------------------------------------------------------------------
(* Steps that change the tree *)

\* What another thread has locked is not changed.
Spares(p) ==
    /\ tlock \in Threads \ {p} => root' = root
    /\ \A u \in InTree : lock[u] \in Threads \ {p} =>
          u \in InTree' /\ key'[u] = key[u] /\ left'[u] = left[u] /\ right'[u] = right[u]
    /\ \A u \in InTree : lock[u] \in Threads \ {p} =>
          \A s \in InTree : lock[s] = lock[u] /\ s \in Below(right[u]) => s \in Below(right[u])'

\* A step of p that spares the nodes others have locked keeps their places.
LEMMA OthersStay ==
    ASSUME Inv, NEW p \in Threads, Same(p), Spares(p), NEW q \in Threads \ {p}
    PROVE  /\ Place(q)'
           /\ Seeks(q)' <=> Seeks(q)
           /\ \A u \in Holds(q) : /\ u \in InTree /\ lock[u] = q /\ u \in InTree'
                                  /\ key'[u] = key[u] /\ left'[u] = left[u] /\ right'[u] = right[u]
<1>0. /\ Place(q) /\ LockDiscipline /\ TypeOK
      /\ pc'[q] = pc[q] /\ op'[q] = op[q] /\ is_left'[q] = is_left[q]
      /\ cur'[q] = cur[q] /\ prev'[q] = prev[q] /\ succ'[q] = succ[q] /\ next'[q] = next[q]
  BY DEF Inv, Same
<1>1. ASSUME NEW u \in Holds(q)
      PROVE  /\ u \in InTree /\ lock[u] = q /\ u \in InTree'
             /\ key'[u] = key[u] /\ left'[u] = left[u] /\ right'[u] = right[u]
  <2>1. u \in InTree /\ lock[u] = q
    BY <1>1, Away
  <2> QED BY <2>1 DEF Spares
<1>2. pc[q] = "root" => root' = root
  BY <1>0 DEF LockDiscipline, Spares
<1>3. pc[q] = "step" => Place(q)'
  <2> SUFFICES ASSUME pc[q] = "step" PROVE Place(q)'
    OBVIOUS
  <2>1. cur[q] \in Holds(q)
    BY DEF Holds
  <2>2. /\ cur[q] \in InTree' /\ key'[cur[q]] = key[cur[q]]
        /\ left'[cur[q]] = left[cur[q]] /\ right'[cur[q]] = right[cur[q]]
    BY <1>1, <2>1
  <2>3. Child(cur[q], op[q].key)' = Child(cur[q], op[q].key)
    BY <1>0, <2>2 DEF Child
  <2>4. /\ op[q] # NULL /\ prev[q] = NULL /\ succ[q] = NULL
        /\ op[q].type # "delete" /\ key[cur[q]] # op[q].key
        /\ next[q] = Child(cur[q], op[q].key) /\ next[q] # NULL
    BY <1>0 DEF Place
  <2> QED BY <1>0, <2>2, <2>3, <2>4 DEF Place
<1>4. pc[q] = "child" => Place(q)'
  <2> SUFFICES ASSUME pc[q] = "child" PROVE Place(q)'
    OBVIOUS
  <2>1. prev[q] \in Holds(q)
    BY DEF Holds
  <2>2. /\ prev[q] \in InTree' /\ key'[prev[q]] = key[prev[q]]
        /\ left'[prev[q]] = left[prev[q]] /\ right'[prev[q]] = right[prev[q]]
    BY <1>1, <2>1
  <2>3. Child(prev[q], op[q].key)' = Child(prev[q], op[q].key)
    BY <1>0, <2>2 DEF Child
  <2>4. /\ op[q] # NULL /\ cur[q] = NULL /\ succ[q] = NULL
        /\ op[q].type = "delete" /\ key[prev[q]] # op[q].key
        /\ is_left[q] = (op[q].key < key[prev[q]])
        /\ next[q] = Child(prev[q], op[q].key) /\ next[q] # NULL
    BY <1>0 DEF Place
  <2> QED BY <1>0, <2>2, <2>3, <2>4 DEF Place
<1>5. pc[q] = "succ" => Place(q)'
  <2> SUFFICES ASSUME pc[q] = "succ" PROVE Place(q)'
    OBVIOUS
  <2>1. cur[q] \in Holds(q) /\ prev[q] \in Holds(q) /\ succ[q] \in Holds(q)
    BY DEF Holds
  <2>2. /\ cur[q] \in InTree' /\ prev[q] \in InTree' /\ succ[q] \in InTree'
        /\ cur[q] \in InTree /\ succ[q] \in InTree /\ lock[cur[q]] = q /\ lock[succ[q]] = q
        /\ key'[cur[q]] = key[cur[q]]
        /\ left'[cur[q]] = left[cur[q]] /\ right'[cur[q]] = right[cur[q]] /\ left'[succ[q]] = left[succ[q]]
    BY <1>1, <2>1
  <2>3. succ[q] \in Below(right[cur[q]]) => succ[q] \in Sub(left', right', right'[cur[q]])
    BY <2>2 DEF Spares, Below
  <2>4. Sub(left', right', right'[cur[q]]) = Below(right[cur[q]])'
    BY <1>0 DEF Below
  <2> QED BY <1>0, <2>2, <2>3, <2>4 DEF Place
<1>6. pc[q] = "free" => Place(q)'
  <2> SUFFICES ASSUME pc[q] = "free" PROVE Place(q)'
    OBVIOUS
  <2>1. cur[q] # NULL => cur[q] \in Holds(q)
    BY DEF Holds
  <2>2. cur[q] \in InTree' \cup {NULL}
    BY <1>1, <2>1
  <2> QED BY <1>0, <2>2 DEF Place
<1>7. pc[q] \in {"idle", "tree", "root"} => Place(q)'
  BY <1>0, <1>2 DEF Place, Uses
<1>8. pc[q] \in {"idle", "tree", "root", "step", "child", "succ", "free"}
  BY <1>0 DEF TypeOK
<1> QED BY <1>0, <1>1, <1>3, <1>4, <1>5, <1>6, <1>7, <1>8 DEF Seeks

\* The node n, which has one child at most, is taken out of the tree.
TakenOut(n) ==
    /\ ~TwoChildren(n) /\ left' \in Links /\ right' \in Links
    /\ root' = IF root = n THEN OnlyChild(n) ELSE root
    /\ Bypass(InTree, left, right, left', right', n, OnlyChild(n))

\* Taking out a node takes it out of every subtree and nothing else.
LEMMA Unlinked ==
    ASSUME TypeOK, TreeInv, NEW n \in InTree, TakenOut(n)
    PROVE  /\ InTree' = InTree \ {n}
           /\ \A a \in InTree : /\ Below(left[a])' = Below(left[a]) \ {n}
                                /\ Below(right[a])' = Below(right[a]) \ {n}
           /\ \A x \in InTree \ {n} : Sub(left', right', x) = Below(x) \ {n}
           /\ \A a, b \in InTree' : /\ left'[a] # NULL /\ left'[a] = left'[b] => a = b
                                    /\ right'[a] # NULL /\ right'[a] = right'[b] => a = b
                                    /\ left'[a] # NULL => left'[a] # right'[b]
           /\ \A a \in InTree' : root' # left'[a] /\ root' # right'[a]
           /\ root' \in Nodes \cup {NULL}
<1> DEFINE y == OnlyChild(n)
<1>0. /\ left \in Links /\ right \in Links /\ root \in Nodes \cup {NULL}
      /\ InTree \subseteq Nodes /\ NULL \notin InTree /\ InTree \in SUBSET Nodes
      /\ InTree = Below(root) /\ root \in InTree \cup {NULL} /\ Closed(InTree, left, right)
      /\ \A x \in InTree : left[x] \in InTree \cup {NULL} /\ right[x] \in InTree \cup {NULL}
  BY InTreeFacts
<1>1. /\ y \in InTree \cup {NULL} /\ y \in {left[n], right[n]}
      /\ left[n] \in {y, NULL} /\ right[n] \in {y, NULL}
  BY <1>0 DEF OnlyChild, TakenOut, TwoChildren
<1>2. y # n
  BY <1>1, Sides
<1>3. /\ left' \in Links /\ right' \in Links /\ root' = (IF root = n THEN y ELSE root)
      /\ Bypass(InTree, left, right, left', right', n, y)
      /\ \A a \in InTree : /\ left'[a] = (IF left[a] = n THEN y ELSE left[a])
                           /\ right'[a] = (IF right[a] = n THEN y ELSE right[a])
  BY DEF TakenOut, Bypass
<1>4. y \in Nodes \cup {NULL} /\ n \in Nodes
  BY <1>0, <1>1
<1> HIDE DEF y
<1>5. ASSUME NEW x \in InTree \cup {NULL}
      PROVE  Sub(left', right', IF x = n THEN y ELSE x) = Sub(left, right, x) \ {n}
  BY <1>0, <1>1, <1>2, <1>3, <1>4, SubUnlink
<1>6. InTree' = InTree \ {n}
  <2>1. InTree' = Sub(left', right', root')
    BY DEF InTree, Reach, Sub
  <2> QED BY <1>0, <1>3, <1>5, <2>1 DEF Below
<1>7. ASSUME NEW a \in InTree
      PROVE  Below(left[a])' = Below(left[a]) \ {n} /\ Below(right[a])' = Below(right[a]) \ {n}
  <2>1. Below(left[a])' = Sub(left', right', left'[a]) /\ Below(right[a])' = Sub(left', right', right'[a])
    BY DEF Below
  <2> QED BY <1>0, <1>3, <1>5, <2>1 DEF Below
<1>8. ASSUME NEW x \in InTree \ {n} PROVE Sub(left', right', x) = Below(x) \ {n}
  BY <1>5 DEF Below
<1>9. ASSUME NEW a \in InTree', NEW b \in InTree'
      PROVE  /\ left'[a] # NULL /\ left'[a] = left'[b] => a = b
             /\ right'[a] # NULL /\ right'[a] = right'[b] => a = b
             /\ left'[a] # NULL => left'[a] # right'[b]
  <2>1. a \in InTree /\ b \in InTree /\ a # n /\ b # n
    BY <1>6
  <2>2. /\ left[a] # NULL /\ left[a] = left[b] => a = b
        /\ right[a] # NULL /\ right[a] = right[b] => a = b
        /\ left[a] # NULL => left[a] # right[b]
    BY <2>1 DEF TreeInv
  \* Only n had a link to y.
  <2>3. y # NULL => left[a] # y /\ right[a] # y /\ left[b] # y /\ right[b] # y
    BY <1>1, <2>1 DEF TreeInv
  <2> QED BY <1>0, <1>3, <2>1, <2>2, <2>3
<1>10. ASSUME NEW a \in InTree' PROVE root' # left'[a] /\ root' # right'[a]
  <2>1. a \in InTree /\ a # n
    BY <1>6
  <2>2. root # left[a] /\ root # right[a] /\ (root = n => left[a] # n /\ right[a] # n)
    BY <2>1 DEF TreeInv
  <2>3. y # NULL => left[a] # y /\ right[a] # y /\ root # y
    BY <1>1, <2>1 DEF TreeInv
  <2>4. root' # NULL
    <3>1. InTree' = Sub(left', right', root')
      BY DEF InTree, Reach, Sub
    <3> QED BY <1>3, <1>10, <3>1, SubNull
  <2> QED BY <1>0, <1>3, <2>1, <2>2, <2>3, <2>4
<1> QED BY <1>0, <1>3, <1>4, <1>6, <1>7, <1>8, <1>9, <1>10

\* p takes out a node; no key gets smaller, and none changes that p has not
\* locked.
LEMMA TakesOut ==
    ASSUME Inv, NEW p \in Threads, Same(p), NEW n \in Nodes, Guarded(p, n), lock[n] = NULL, TakenOut(n),
           alloc' = alloc, destroyed' = destroyed, ~destroyed,
           pc[p] # "free", pc'[p] = "free", succ'[p] = n,
           \A x \in InTree : key'[x] \in Int /\ key[x] <= key'[x] /\ (lock[x] # p => key'[x] = key[x])
    PROVE  /\ HeapInv'
           /\ \A q \in Threads \ {p} : Place(q)' /\ PassInv(q)' /\ next'[q] = next[q]
<1>0. TypeOK /\ TreeInv /\ HeapInv /\ LockDiscipline /\ n \in InTree /\ NULL \notin Threads /\ InTree \subseteq Nodes
  BY BstAssumption, InTreeFacts DEF Inv, Guarded
<1>1. /\ InTree' = InTree \ {n}
      /\ \A a \in InTree : /\ Below(left[a])' = Below(left[a]) \ {n}
                           /\ Below(right[a])' = Below(right[a]) \ {n}
      /\ \A x \in InTree \ {n} : Sub(left', right', x) = Below(x) \ {n}
  BY <1>0, Unlinked
<1>2. Spares(p)
  <2>1. tlock \in Threads \ {p} => root' = root
    BY DEF Guarded, TakenOut
  <2>2. ASSUME NEW u \in InTree, lock[u] \in Threads \ {p}
        PROVE  u \in InTree' /\ key'[u] = key[u] /\ left'[u] = left[u] /\ right'[u] = right[u]
    <3>1. u # n /\ lock[u] # p
      BY <1>0, <2>2
    <3>2. left[u] # n /\ right[u] # n
      BY <3>1 DEF Guarded
    <3> QED BY <1>1, <3>1, <3>2 DEF TakenOut, Bypass
  <2>3. ASSUME NEW u \in InTree, lock[u] \in Threads \ {p}, NEW s \in InTree, lock[s] = lock[u], s \in Below(right[u])
        PROVE  s \in Below(right[u])'
    <3>1. s # n
      BY <1>0, <2>3
    <3> QED BY <1>1, <2>3, <3>1
  <2> QED BY <2>1, <2>2, <2>3 DEF Spares
<1>3. HeapInv'
  <2>1. Doomed' = Doomed \cup {p} /\ p \notin Doomed /\ \A q \in Doomed : succ'[q] = succ[q]
    BY DEF Doomed, Same
  <2>2. {succ'[q] : q \in Doomed'} = {succ[q] : q \in Doomed} \cup {n}
    BY <2>1
  <2>3. alloc' = Linked' \cup {succ'[q] : q \in Doomed'}
    BY <1>0, <1>1, <2>2 DEF HeapInv, Linked
  <2>4. \A q \in Doomed' : succ'[q] \in Nodes \ InTree'
    BY <1>0, <1>1, <2>1 DEF HeapInv
  <2>5. \A q, r \in Doomed' : succ'[q] = succ'[r] => q = r
    BY <1>0, <2>1 DEF HeapInv
  <2> QED BY <2>3, <2>4, <2>5 DEF HeapInv
<1>4. ASSUME NEW q \in Threads \ {p}
      PROVE  Place(q)' /\ PassInv(q)' /\ next'[q] = next[q]
  <2>0. PassInv(q) /\ Place(q) /\ pc'[q] = pc[q] /\ succ'[q] = succ[q] /\ cur'[q] = cur[q] /\ next'[q] = next[q]
    BY DEF Inv, Same
  <2>1. /\ Place(q)'
        /\ \A u \in Holds(q) : /\ u \in InTree /\ lock[u] = q /\ u \in InTree'
                               /\ key'[u] = key[u] /\ left'[u] = left[u] /\ right'[u] = right[u]
    BY <1>2, OthersStay
  <2>2. CASE pc[q] = "succ" /\ succ[q] # cur[q]
    <3>1. cur[q] \in InTree /\ succ[q] \in InTree /\ key'[succ[q]] = key[succ[q]] /\ key[succ[q]] \in Int
      <4>1. cur[q] \in Holds(q) /\ succ[q] \in Holds(q)
        BY <2>2 DEF Holds
      <4> QED BY <1>0, <2>1, <4>1, BstAssumption DEF TypeOK
    <3>2. next[q] \in InTree \ {n}
      BY <2>2, Away
    <3>3. Below(right[cur[q]])' = Below(right[cur[q]]) \ {n}
      <4>1. Below(right[cur[q]])' = Sub(left', right', right'[cur[q]])
        BY <2>0 DEF Below
      <4>2. Sub(left', right', right'[cur[q]]) = Below(right[cur[q]]) \ {n}
        BY <1>1, <3>1 DEF Below
      <4> QED BY <4>1, <4>2
    <3>4. Below(next[q])' = Below(next[q]) \ {n}
      BY <1>1, <2>0, <3>2 DEF Below
    <3>5. Passed(q)' \subseteq Passed(q)
      BY <2>0, <2>2, <3>3, <3>4 DEF Passed
    <3>6. Passed(q) \subseteq InTree
      <4>1. right[cur[q]] \in InTree \cup {NULL}
        BY <1>0, <3>1, InTreeFacts
      <4>2. Below(right[cur[q]]) \subseteq InTree
        BY <1>0, <4>1, InTreeFacts
      <4> QED BY <4>2 DEF Passed
    <3>7. ASSUME NEW x \in Passed(q)' PROVE key[succ[q]] <= key'[x]
      <4>1. x \in InTree /\ key[succ[q]] <= key[x] /\ key[x] \in Int
        BY <1>0, <2>0, <3>5, <3>6, <3>7, BstAssumption DEF PassInv, TypeOK
      <4> QED BY <3>1, <4>1
    <3>8. ASSUME NEW r \in Threads, Seeks(r)', next'[r] \in Passed(q)' PROVE key[succ[q]] < op'[r].key
      <4>1. r # p
        BY <3>8 DEF Seeks
      <4>2. Seeks(r) /\ next'[r] = next[r] /\ op'[r] = op[r]
        BY <3>8, <4>1 DEF Same, Seeks
      <4> QED BY <2>0, <3>5, <3>8, <4>2 DEF PassInv
    <3>9. PassInv(q)'
      BY <2>0, <3>1, <3>7, <3>8 DEF PassInv
    <3> QED BY <2>0, <2>1, <3>9
  <2>3. CASE ~(pc[q] = "succ" /\ succ[q] # cur[q])
    <3>1. Passed(q)' = {}
      BY <2>0, <2>3 DEF Passed
    <3> QED BY <2>0, <2>1, <3>1 DEF PassInv
  <2> QED BY <2>2, <2>3
<1> QED BY <1>3, <1>4

\* p deletes a node with one child at most.
LEMMA Unlinks ==
    ASSUME Inv, NEW p \in Threads, Seeks(p), NEW n, n = next[p], lock[n] = NULL, TakenOut(n),
           UNCHANGED <<key, value, alloc, calls, destroyed>>,
           Moves(p, "free", NULL, NULL, NULL, n, NULL), Locks(p, {}, Holds(p) \cup {n}),
           tlock' = IF pc[p] = "root" THEN NULL ELSE tlock
    PROVE  Inv'
<1>0. /\ TypeOK /\ TreeInv /\ ThreadTypes /\ LockDiscipline /\ n \in Nodes /\ n \in InTree /\ n # NULL /\ Guarded(p, n)
      /\ pc[p] # "idle" /\ pc[p] # "free" /\ ~destroyed
  BY Types, Reached, Alive DEF Inv, Seeks, Guarded
<1>1. calls' \in [Threads -> 0..MaxOps]
  BY <1>0 DEF ThreadTypes
<1>2. /\ Same(p) /\ ThreadTypes' /\ pc'[p] = "free" /\ op'[p] = NULL
      /\ cur'[p] = NULL /\ prev'[p] = NULL /\ succ'[p] = n /\ next'[p] = NULL
  <2>1. "free" \in Pcs /\ NULL \in Ops \cup {NULL} /\ {NULL, NULL, n, NULL} \subseteq Nodes \cup {NULL}
    BY <1>0 DEF Pcs
  <2> QED BY <1>0, <1>1, <2>1, Moved
<1>3. (\A q \in Threads : tlock' = q <=> pc'[q] = "root") /\ tlock' \in Threads \cup {NULL}
  BY <1>2, TreeUnlocked
<1>4. LockDiscipline' /\ lock' \in [Nodes -> Threads \cup {NULL}]
  <2>1. Holds(p)' = {}
    BY <1>2 DEF Holds
  <2>2. \A m \in Holds(p) : lock[m] = p
    BY <1>0, Holding
  <2>3. \A q \in Threads \ {p} : Holds(q)' = Holds(q)
    BY <1>2, OthersHold
  <2> QED BY <1>0, <1>3, <2>1, <2>2, <2>3, LockStep
<1>5. /\ InTree' = InTree \ {n}
      /\ \A a \in InTree : /\ Below(left[a])' = Below(left[a]) \ {n}
                           /\ Below(right[a])' = Below(right[a]) \ {n}
      /\ \A a, b \in InTree' : /\ left'[a] # NULL /\ left'[a] = left'[b] => a = b
                               /\ right'[a] # NULL /\ right'[a] = right'[b] => a = b
                               /\ left'[a] # NULL => left'[a] # right'[b]
      /\ \A a \in InTree' : root' # left'[a] /\ root' # right'[a]
      /\ root' \in Nodes \cup {NULL}
  BY <1>0, Unlinked
<1>6. TypeOK'
  BY <1>0, <1>2, <1>3, <1>4, <1>5, Types, TypesNext DEF TakenOut
<1>7. TreeInv'
  BY <1>0, <1>5 DEF TreeInv
<1>8. /\ HeapInv'
      /\ \A q \in Threads \ {p} : Place(q)' /\ PassInv(q)' /\ next'[q] = next[q]
  <2>1. \A x \in InTree : key'[x] \in Int /\ key[x] <= key'[x] /\ (lock[x] # p => key'[x] = key[x])
    <3>1. InTree \subseteq Nodes /\ key \in [Nodes -> Keys] /\ Keys \subseteq Int /\ key' = key
      BY <1>0, InTreeFacts, BstAssumption DEF TypeOK
    <3>2. \A x \in InTree : key[x] \in Int
      BY <3>1
    <3> QED BY <3>1, <3>2
  <2> QED BY <1>0, <1>2, <2>1, TakesOut
<1>9. \A q \in Threads \ {p} : SeekInv(q)'
  <2> SUFFICES ASSUME NEW q \in Threads \ {p} PROVE SeekInv(q)'
    OBVIOUS
  <2>1. SeekInv(q) /\ pc'[q] = pc[q] /\ next'[q] = next[q] /\ op'[q] = op[q]
    BY <1>2 DEF Inv, Same
  <2> QED BY <1>5, <2>1 DEF SeekInv, Seeks
<1>10. Place(p)' /\ SeekInv(p)' /\ PassInv(p)'
  BY <1>2 DEF Place, SeekInv, PassInv, Passed, Seeks
<1> QED BY <1>4, <1>6, <1>7, <1>8, <1>9, <1>10 DEF Inv

\* The step to overwrite a node takes out its successor.
LEMMA SuccessorOut ==
    ASSUME Inv, NEW p \in Threads, SuccessorTake(p)
    PROVE  /\ TakenOut(next[p]) /\ next[p] \in InTree /\ cur[p] \in InTree /\ next[p] # cur[p]
           /\ op[p].type = "delete" /\ key[cur[p]] = op[p].key
<1> DEFINE s == next[p]
           c == cur[p]
           u == succ[p]
<1>0. /\ TypeOK /\ TreeInv /\ LockDiscipline /\ Place(p)
      /\ s \in Nodes /\ s \in InTree /\ s # NULL /\ pc[p] = "succ" /\ lock[s] = NULL /\ left[s] = NULL
  BY Reached DEF Inv, Guarded, SuccessorTake, ReplaceSuccessor
<1>1. /\ c \in InTree /\ u \in InTree /\ op[p].type = "delete" /\ key[c] = op[p].key
      /\ u = c => s = right[c]
      /\ u # c => s = left[u]
  BY <1>0 DEF Place
<1>2. InTree \subseteq Nodes /\ left \in Links /\ right \in Links /\ right[s] \in Nodes \cup {NULL} /\ NULL \notin InTree
  BY <1>0, InTreeFacts DEF Links
<1>3. s # c
  <2>1. c \in Holds(p) /\ p # NULL
    BY <1>0, BstAssumption DEF Holds
  <2> QED BY <1>0, <2>1, Holding
<1>4. /\ root' = root
      /\ u = c => right' = [right EXCEPT ![c] = right[s]] /\ left' = left
      /\ u # c => left' = [left EXCEPT ![u] = right[s]] /\ right' = right
  BY DEF SuccessorTake, ReplaceSuccessor
<1> HIDE DEF s, c, u
<1>5. TakenOut(s)
  <2>1. OnlyChild(s) = right[s] /\ ~TwoChildren(s)
    BY <1>0 DEF OnlyChild, TwoChildren
  <2>2. left' \in Links /\ right' \in Links
    BY <1>2, <1>4 DEF Links
  <2>3. root # s
    BY <1>0, <1>1 DEF TreeInv
  <2>4. ASSUME NEW a \in InTree PROVE left'[a] = (IF left[a] = s THEN right[s] ELSE left[a])
    <3>1. CASE u = c
      BY <1>0, <1>1, <1>4, <2>4, <3>1 DEF TreeInv
    <3>2. CASE u # c
      <4>1. left[a] = s <=> a = u
        BY <1>0, <1>1, <2>4, <3>2 DEF TreeInv
      <4> QED BY <1>1, <1>2, <1>4, <2>4, <3>2, <4>1 DEF Links
    <3> QED BY <3>1, <3>2
  <2>5. ASSUME NEW a \in InTree PROVE right'[a] = (IF right[a] = s THEN right[s] ELSE right[a])
    <3>1. CASE u # c
      BY <1>0, <1>1, <1>4, <2>5, <3>1 DEF TreeInv
    <3>2. CASE u = c
      <4>1. right[a] = s <=> a = c
        BY <1>0, <1>1, <2>5, <3>2 DEF TreeInv
      <4> QED BY <1>1, <1>2, <1>4, <2>5, <3>2, <4>1 DEF Links
    <3> QED BY <3>1, <3>2
  <2> QED BY <1>4, <2>1, <2>2, <2>3, <2>4, <2>5 DEF TakenOut, Bypass
<1> QED BY <1>0, <1>1, <1>3, <1>5 DEF s, c

\* p moves the successor's key to the node to overwrite and takes out the
\* successor.
LEMMA Takes ==
    ASSUME Inv, NEW p \in Threads, SuccessorTake(p)
    PROVE  Inv'
<1> DEFINE s == next[p]
           c == cur[p]
           u == succ[p]
<1>0. /\ TypeOK /\ TreeInv /\ ThreadTypes /\ LockDiscipline /\ Place(p) /\ PassInv(p) /\ ~destroyed
      /\ s \in Nodes /\ s \in InTree /\ s # NULL /\ op[p] \in Ops /\ Guarded(p, s)
      /\ pc[p] = "succ" /\ lock[s] = NULL /\ left[s] = NULL
  BY Types, Reached, Alive DEF Inv, Guarded, SuccessorTake, ReplaceSuccessor
<1>1. /\ c \in InTree /\ prev[p] \in InTree /\ u \in InTree
      /\ u = c => prev[p] = c /\ s = right[c]
      /\ u # c => /\ s = left[u] /\ u \in Below(right[c])
  BY <1>0 DEF Place
<1>2. /\ InTree \subseteq Nodes /\ NULL \notin InTree /\ NULL \notin Nodes /\ Below(NULL) = {}
      /\ left \in Links /\ right \in Links /\ right[s] \in Nodes \cup {NULL}
      /\ \A y \in InTree : /\ y \in Below(y) /\ Below(y) \subseteq InTree
                           /\ left[y] \in InTree \cup {NULL} /\ right[y] \in InTree \cup {NULL}
                           /\ Below(y) = {y} \cup Below(left[y]) \cup Below(right[y])
                           /\ \A z \in Below(y) : Below(z) \subseteq Below(y)
  BY <1>0, InTreeFacts
<1>3. /\ lock[c] = p /\ lock[u] = p /\ lock[prev[p]] = p /\ p # NULL
      /\ Holds(p) = {c, prev[p], u} /\ s \notin Holds(p) /\ s # c
  <2>1. Holds(p) = {c, prev[p], u} /\ p # NULL
    BY <1>0, BstAssumption DEF Holds
  <2> QED BY <1>0, <1>1, <2>1, Holding
<1>4. /\ key' = [key EXCEPT ![c] = key[s]] /\ value' = [value EXCEPT ![c] = value[s]]
      /\ root' = root /\ tlock' = tlock /\ alloc' = alloc /\ calls' = calls /\ destroyed' = destroyed
      /\ Locks(p, {}, {prev[p], u, s} \ {c})
      /\ u = c => right' = [right EXCEPT ![c] = right[s]] /\ left' = left
      /\ u # c => left' = [left EXCEPT ![u] = right[s]] /\ right' = right
  BY DEF SuccessorTake, ReplaceSuccessor
<1>5. /\ Same(p) /\ ThreadTypes' /\ op'[p] = NULL /\ pc'[p] = "free"
      /\ cur'[p] = c /\ prev'[p] = NULL /\ succ'[p] = s /\ next'[p] = NULL
  <2>1. is_left' = [is_left EXCEPT ![p] = is_left[p]] /\ is_left[p] \in BOOLEAN /\ "0" \in Results
    BY <1>0 DEF SuccessorTake, ReplaceSuccessor, ThreadTypes, Results
  <2>2. Moves(p, "free", NULL, c, NULL, s, NULL)
    BY <2>1 DEF SuccessorTake, ReplaceSuccessor, Returns, At, Moves
  <2>3. /\ "free" \in Pcs /\ {c, NULL, s, NULL} \subseteq Nodes \cup {NULL} /\ NULL \in Ops \cup {NULL}
        /\ calls' \in [Threads -> 0..MaxOps]
    BY <1>0, <1>1, <1>2, <1>4 DEF Pcs, ThreadTypes
  <2> HIDE DEF s, c
  <2> QED BY <1>0, <2>2, <2>3, Moved
<1> HIDE DEF s, c, u
<1>6. LockDiscipline' /\ lock' \in [Nodes -> Threads \cup {NULL}]
  <2>1. Holds(p)' = {c}
    BY <1>1, <1>2, <1>5 DEF Holds
  <2>2. Holds(p)' = (Holds(p) \cup {}) \ ({prev[p], u, s} \ {c})
    BY <1>3, <2>1
  <2>3. \A q \in Threads \ {p} : Holds(q)' = Holds(q) /\ (pc'[q] = "root" <=> pc[q] = "root")
    BY <1>5, OthersHold
  <2>4. \A q \in Threads : tlock' = q <=> pc'[q] = "root"
    BY <1>0, <1>4, <1>5, <2>3 DEF LockDiscipline
  <2>5. \A m \in ({} \cup ({prev[p], u, s} \ {c})) \cap Nodes : lock[m] \in {p, NULL}
    BY <1>0, <1>3
  <2> QED BY <1>0, <1>4, <2>2, <2>3, <2>4, <2>5, LockStep
<1>7. TakenOut(s)
  BY SuccessorOut DEF s
<1>8. /\ InTree' = InTree \ {s}
      /\ \A a \in InTree : /\ Below(left[a])' = Below(left[a]) \ {s}
                           /\ Below(right[a])' = Below(right[a]) \ {s}
      /\ \A a, b \in InTree' : /\ left'[a] # NULL /\ left'[a] = left'[b] => a = b
                               /\ right'[a] # NULL /\ right'[a] = right'[b] => a = b
                               /\ left'[a] # NULL => left'[a] # right'[b]
      /\ \A a \in InTree' : root' # left'[a] /\ root' # right'[a]
      /\ root' \in Nodes \cup {NULL}
  BY <1>0, <1>7, Unlinked
<1>9. /\ \A x \in InTree : key[x] \in Int
      /\ key'[c] = key[s] /\ \A x \in InTree \ {c} : key'[x] = key[x]
  <2>1. InTree \subseteq Nodes /\ key \in [Nodes -> Keys] /\ Keys \subseteq Int
    BY <1>0, <1>2, BstAssumption DEF TypeOK
  <2>2. \A x \in InTree : key[x] \in Int
    BY <2>1
  <2> QED BY <1>1, <1>4, <2>1, <2>2
<1>10. s \in Below(right[c]) /\ key[c] < key[s] /\ s \in Below(c)
  <2>1. s \in Below(right[c])
    <3>1. CASE u = c
      BY <1>0, <1>1, <1>2, <3>1
    <3>2. CASE u # c
      <4>1. s \in Below(u)
        BY <1>0, <1>1, <1>2, <3>2
      <4>2. right[c] \in InTree
        BY <1>1, <1>2, <3>2
      <4> QED BY <1>1, <1>2, <3>2, <4>1, <4>2
    <3> QED BY <3>1, <3>2
  <2> QED BY <1>0, <1>1, <1>2, <2>1 DEF TreeInv
\* The successor's key is less than all on the right of c, and than what others
\* look for there.
<1>11. Below(right[c]) \ {s} \subseteq Passed(p) \cup Below(right[s])
  <2>1. Below(s) = {s} \cup Below(right[s])
    BY <1>0, <1>2
  <2>2. CASE u = c
    BY <1>1, <2>1, <2>2
  <2>3. CASE u # c
    BY <1>0, <2>1, <2>3 DEF Passed, s, u, c
  <2> QED BY <2>2, <2>3
<1>12. ASSUME NEW x \in Passed(p) PROVE u # c /\ key[s] < key[u] /\ key[u] <= key[x] /\ x \in InTree
  <2>1. u # c /\ x \in Below(right[c]) /\ key[u] <= key[x]
    BY <1>0, <1>12 DEF Passed, PassInv, u, c
  <2>2. x \in InTree
    BY <1>1, <1>2, <2>1
  <2>3. key[s] < key[u]
    BY <1>0, <1>1, <2>1, Sides
  <2> QED BY <2>1, <2>2, <2>3
<1>13. ASSUME NEW x \in Below(right[c]), x # s PROVE key[s] < key[x]
  <2>1. CASE x \in Passed(p)
    BY <1>0, <1>1, <1>9, <1>12, <2>1
  <2>2. CASE x \in Below(right[s])
    BY <1>0, <2>2 DEF TreeInv
  <2> QED BY <1>11, <1>13, <2>1, <2>2
<1>14. ASSUME NEW q \in Threads, q # p, Seeks(q), next[q] \in Below(right[c]), next[q] # s PROVE key[s] < op[q].key
  <2>1. CASE next[q] \in Passed(p)
    <3>1. key[u] < op[q].key /\ key[s] < key[u]
      BY <1>0, <1>12, <1>14, <2>1 DEF PassInv, u
    <3>2. op[q] \in Ops
      BY <1>14, Reached DEF Seeks
    <3>3. op[q].key \in Int
      BY <3>2, BstAssumption DEF Ops
    <3> QED BY <1>0, <1>1, <1>9, <3>1, <3>3
  <2>2. CASE next[q] \in Below(right[s])
    BY <1>0, <1>14, <2>2 DEF SeekInv, Inv
  <2> QED BY <1>11, <1>14, <2>1, <2>2
<1>15. TypeOK'
  <2>1. key' \in [Nodes -> Keys] /\ value' \in [Nodes -> Values]
    BY <1>0, <1>4 DEF TypeOK
  <2> QED BY <1>0, <1>4, <1>5, <1>6, <1>7, <1>8, <2>1, Types, TypesNext DEF TakenOut
<1>16. TreeInv'
  <2>1. ASSUME NEW a \in InTree', NEW x \in Below(left[a])' PROVE key'[x] < key'[a]
    <3>1. a \in InTree /\ a # s /\ x \in Below(left[a]) /\ x # s
      BY <1>8, <2>1
    <3>2. x \in InTree /\ key[x] < key[a]
      BY <1>0, <1>2, <3>1 DEF TreeInv
    <3>3. CASE a = c
      <4>1. x # c
        BY <1>0, <1>9, <3>2, <3>3
      <4> QED BY <1>0, <1>1, <1>9, <1>10, <3>2, <3>3, <4>1
    <3>4. CASE x = c /\ a # c
      <4>1. left[a] \in InTree
        BY <1>2, <3>1
      <4>2. s \in Below(left[a])
        BY <1>2, <1>10, <3>1, <3>4, <4>1
      <4>3. key[s] < key[a]
        BY <1>0, <3>1, <4>2 DEF TreeInv
      <4> QED BY <1>9, <3>1, <3>4, <4>3
    <3>5. CASE x # c /\ a # c
      BY <1>9, <3>1, <3>2, <3>5
    <3> QED BY <3>3, <3>4, <3>5
  <2>2. ASSUME NEW a \in InTree', NEW x \in Below(right[a])' PROVE key'[a] < key'[x]
    <3>1. a \in InTree /\ a # s /\ x \in Below(right[a]) /\ x # s
      BY <1>8, <2>2
    <3>2. x \in InTree /\ key[a] < key[x]
      BY <1>0, <1>2, <3>1 DEF TreeInv
    <3>3. CASE a = c
      <4>1. x # c
        BY <1>0, <1>9, <3>2, <3>3
      <4> QED BY <1>9, <1>13, <3>1, <3>2, <3>3, <4>1
    <3>4. CASE x = c /\ a # c
      BY <1>0, <1>9, <1>10, <3>1, <3>2, <3>4
    <3>5. CASE x # c /\ a # c
      BY <1>9, <3>1, <3>2, <3>5
    <3> QED BY <3>3, <3>4, <3>5
  <2> QED BY <1>8, <2>1, <2>2 DEF TreeInv
<1>17. /\ HeapInv'
       /\ \A q \in Threads \ {p} : Place(q)' /\ PassInv(q)' /\ next'[q] = next[q]
  <2>1. \A x \in InTree : key'[x] \in Int /\ key[x] <= key'[x] /\ (lock[x] # p => key'[x] = key[x])
    BY <1>0, <1>1, <1>3, <1>9, <1>10
  <2>2. pc[p] # "free"
    BY <1>0
  <2> QED BY <1>0, <1>4, <1>5, <1>7, <2>1, <2>2, TakesOut
<1>18. \A q \in Threads \ {p} : SeekInv(q)'
  <2> SUFFICES ASSUME NEW q \in Threads \ {p}, Seeks(q)', NEW a \in InTree'
               PROVE  /\ next'[q] \in Below(left[a])' => op'[q].key < key'[a]
                      /\ next'[q] \in Below(right[a])' => key'[a] < op'[q].key
    BY DEF SeekInv
  <2>1. SeekInv(q) /\ Seeks(q) /\ next'[q] = next[q] /\ op'[q] = op[q]
    BY <1>5 DEF Inv, Same, Seeks
  <2>2. op[q] \in Ops
    BY <2>1, Reached DEF Seeks
  <2>3. op[q].key \in Int
    BY <2>2, BstAssumption DEF Ops
  <2>4. /\ a \in InTree /\ a # s
        /\ next[q] \in Below(left[a]) => op[q].key < key[a]
        /\ next[q] \in Below(right[a]) => key[a] < op[q].key
    BY <1>8, <2>1 DEF SeekInv
  <2>5. CASE a = c
    BY <1>0, <1>8, <1>9, <1>10, <1>14, <2>1, <2>3, <2>4, <2>5
  <2>6. CASE a # c
    BY <1>8, <1>9, <2>1, <2>4, <2>6
  <2> QED BY <2>5, <2>6
<1>19. Place(p)' /\ SeekInv(p)' /\ PassInv(p)'
  BY <1>1, <1>3, <1>5, <1>8 DEF Place, SeekInv, PassInv, Passed, Seeks
<1> QED BY <1>6, <1>15, <1>16, <1>17, <1>18, <1>19 DEF Inv

\* The leaf m has been hung from the node n.
Planted(n, m, isleft) ==
    /\ left' \in Links /\ right' \in Links /\ root' = root
    /\ Grafted(InTree, left, right, left', right', n, m, isleft)

\* Hanging a leaf adds it to the subtrees of the nodes above and to no other.
LEMMA Hung ==
    ASSUME TypeOK, TreeInv, NEW n \in InTree, NEW m \in Nodes \ InTree, NEW isleft \in BOOLEAN,
           Planted(n, m, isleft)
    PROVE  /\ InTree' = InTree \cup {m}
           /\ \A a \in InTree :
                 /\ Below(left[a])' = Below(left[a]) \cup (IF n \in Below(left[a]) \/ (a = n /\ isleft) THEN {m} ELSE {})
                 /\ Below(right[a])' = Below(right[a]) \cup (IF n \in Below(right[a]) \/ (a = n /\ ~isleft) THEN {m} ELSE {})
           /\ Sub(left', right', left'[m]) = {} /\ Sub(left', right', right'[m]) = {}
           /\ \A x \in InTree : Sub(left', right', x) = Below(x) \cup (IF n \in Below(x) THEN {m} ELSE {})
           /\ \A a, b \in InTree' : /\ left'[a] # NULL /\ left'[a] = left'[b] => a = b
                                    /\ right'[a] # NULL /\ right'[a] = right'[b] => a = b
                                    /\ left'[a] # NULL => left'[a] # right'[b]
           /\ \A a \in InTree' : root' # left'[a] /\ root' # right'[a]
<1>0. /\ left \in Links /\ right \in Links /\ root \in Nodes \cup {NULL} /\ Below(NULL) = {}
      /\ InTree \subseteq Nodes /\ NULL \notin InTree /\ NULL \notin Nodes /\ InTree \in SUBSET Nodes
      /\ InTree = Below(root) /\ root \in InTree \cup {NULL} /\ Closed(InTree, left, right)
      /\ \A x \in InTree : left[x] \in InTree \cup {NULL} /\ right[x] \in InTree \cup {NULL}
  BY InTreeFacts
<1>1. /\ left' \in Links /\ right' \in Links /\ root' = root
      /\ Grafted(InTree, left, right, left', right', n, m, isleft)
      /\ \A a \in InTree : /\ left'[a] = (IF a = n /\ isleft THEN m ELSE left[a])
                           /\ right'[a] = (IF a = n /\ ~isleft THEN m ELSE right[a])
      /\ left'[m] = NULL /\ right'[m] = NULL
      /\ IF isleft THEN left[n] = NULL ELSE right[n] = NULL
  BY DEF Planted, Grafted
<1>2. ASSUME NEW x \in InTree \cup {NULL}
      PROVE  Sub(left', right', x) = Sub(left, right, x) \cup (IF n \in Sub(left, right, x) THEN {m} ELSE {})
  BY <1>0, <1>1, SubGraft
<1>3. Sub(left', right', NULL) = {} /\ Sub(left', right', m) = {m}
  <2>1. Sub(left', right', NULL) = {}
    BY <1>1, SubNull
  <2>2. Sub(left', right', m) = {m} \cup Sub(left', right', left'[m]) \cup Sub(left', right', right'[m])
    BY <1>1, SubSplit
  <2> QED BY <1>1, <2>1, <2>2
<1>4. InTree' = InTree \cup {m}
  <2>1. InTree' = Sub(left', right', root')
    BY DEF InTree, Reach, Sub
  <2> QED BY <1>0, <1>1, <1>2, <2>1 DEF Below
<1>5. ASSUME NEW a \in InTree
      PROVE  /\ Below(left[a])' = Below(left[a]) \cup (IF n \in Below(left[a]) \/ (a = n /\ isleft) THEN {m} ELSE {})
             /\ Below(right[a])' = Below(right[a]) \cup (IF n \in Below(right[a]) \/ (a = n /\ ~isleft) THEN {m} ELSE {})
  <2>1. Below(left[a])' = Sub(left', right', left'[a]) /\ Below(right[a])' = Sub(left', right', right'[a])
    BY DEF Below
  <2>2. left[a] \in InTree \cup {NULL} /\ right[a] \in InTree \cup {NULL}
    BY <1>0
  <2>3. Below(left[a])' = Below(left[a]) \cup (IF n \in Below(left[a]) \/ (a = n /\ isleft) THEN {m} ELSE {})
    <3>1. CASE a = n /\ isleft
      BY <1>0, <1>1, <1>3, <2>1, <3>1
    <3>2. CASE ~(a = n /\ isleft)
      BY <1>1, <1>2, <2>1, <2>2, <3>2 DEF Below
    <3> QED BY <3>1, <3>2
  <2>4. Below(right[a])' = Below(right[a]) \cup (IF n \in Below(right[a]) \/ (a = n /\ ~isleft) THEN {m} ELSE {})
    <3>1. CASE a = n /\ ~isleft
      BY <1>0, <1>1, <1>3, <2>1, <3>1
    <3>2. CASE ~(a = n /\ ~isleft)
      BY <1>1, <1>2, <2>1, <2>2, <3>2 DEF Below
    <3> QED BY <3>1, <3>2
  <2> QED BY <2>3, <2>4
<1>6. ASSUME NEW x \in InTree PROVE Sub(left', right', x) = Below(x) \cup (IF n \in Below(x) THEN {m} ELSE {})
  BY <1>2 DEF Below
<1>7. ASSUME NEW a \in InTree', NEW b \in InTree'
      PROVE  /\ left'[a] # NULL /\ left'[a] = left'[b] => a = b
             /\ right'[a] # NULL /\ right'[a] = right'[b] => a = b
             /\ left'[a] # NULL => left'[a] # right'[b]
  <2>1. a \in InTree \cup {m} /\ b \in InTree \cup {m}
    BY <1>4
  <2>2. a \in InTree /\ b \in InTree =>
           /\ left[a] # NULL /\ left[a] = left[b] => a = b
           /\ right[a] # NULL /\ right[a] = right[b] => a = b
           /\ left[a] # NULL => left[a] # right[b]
    BY DEF TreeInv
  <2>3. CASE a = m \/ b = m
    BY <1>0, <1>1, <2>1, <2>3
  <2>4. CASE a \in InTree /\ b \in InTree
    <3>1. left[a] # m /\ left[b] # m /\ right[a] # m /\ right[b] # m
      BY <1>0, <2>4
    <3> QED BY <1>1, <2>2, <2>4, <3>1
  <2> QED BY <2>1, <2>3, <2>4
<1>8. ASSUME NEW a \in InTree' PROVE root' # left'[a] /\ root' # right'[a]
  <2>1. root # NULL
    <3>1. n \in Below(root)
      BY <1>0
    <3> QED BY <1>0, <3>1
  <2>2. CASE a = m
    BY <1>1, <2>1, <2>2
  <2>3. CASE a \in InTree
    BY <1>0, <1>1, <2>1, <2>3 DEF TreeInv
  <2> QED BY <1>4, <1>8, <2>2, <2>3
<1> QED BY <1>1, <1>3, <1>4, <1>5, <1>6, <1>7, <1>8

\* p inserts a leaf.
LEMMA Inserts ==
    ASSUME Inv, NEW p \in Threads, Seeks(p), NEW n, n = next[p], lock[n] = NULL,
           NEW m \in Nodes \ alloc, NEW isleft \in BOOLEAN, isleft <=> op[p].key < key[n],
           key[n] # op[p].key, op[p].type = "insert", Planted(n, m, isleft), alloc' = alloc \cup {m},
           key' = [key EXCEPT ![m] = op[p].key], value' = [value EXCEPT ![m] = op[p].value],
           UNCHANGED <<calls, destroyed>>,
           Moves(p, "idle", NULL, NULL, NULL, NULL, NULL), Locks(p, {}, Holds(p) \cup {n}),
           tlock' = IF pc[p] = "root" THEN NULL ELSE tlock
    PROVE  Inv'
<1>0. /\ TypeOK /\ TreeInv /\ ThreadTypes /\ LockDiscipline /\ HeapInv /\ SeekInv(p) /\ n \in Nodes /\ n \in InTree /\ n # NULL
      /\ op[p] \in Ops /\ Guarded(p, n) /\ pc[p] # "idle" /\ pc[p] # "free" /\ ~destroyed /\ Linked = InTree
  BY Types, Reached, Alive DEF Inv, Seeks, Guarded
<1>1. m \in Nodes \ InTree /\ isleft \in BOOLEAN /\ calls' \in [Threads -> 0..MaxOps] /\ m # n
  BY <1>0 DEF HeapInv, ThreadTypes
<1>2. /\ Same(p) /\ ThreadTypes' /\ pc'[p] = "idle" /\ op'[p] = NULL
      /\ cur'[p] = NULL /\ prev'[p] = NULL /\ succ'[p] = NULL /\ next'[p] = NULL
  <2>1. "idle" \in Pcs /\ NULL \in Ops \cup {NULL} /\ {NULL, NULL, NULL, NULL} \subseteq Nodes \cup {NULL}
    BY DEF Pcs
  <2> QED BY <1>0, <1>1, <2>1, Moved
<1>3. (\A q \in Threads : tlock' = q <=> pc'[q] = "root") /\ tlock' \in Threads \cup {NULL}
  BY <1>2, TreeUnlocked
<1>4. LockDiscipline' /\ lock' \in [Nodes -> Threads \cup {NULL}]
  <2>1. Holds(p)' = {}
    BY <1>2 DEF Holds
  <2>2. \A x \in Holds(p) : lock[x] = p
    BY <1>0, Holding
  <2>3. \A q \in Threads \ {p} : Holds(q)' = Holds(q)
    BY <1>2, OthersHold
  <2> QED BY <1>0, <1>3, <2>1, <2>2, <2>3, LockStep
<1>5. /\ InTree' = InTree \cup {m}
      /\ \A a \in InTree :
            /\ Below(left[a])' = Below(left[a]) \cup (IF n \in Below(left[a]) \/ (a = n /\ isleft) THEN {m} ELSE {})
            /\ Below(right[a])' = Below(right[a]) \cup (IF n \in Below(right[a]) \/ (a = n /\ ~isleft) THEN {m} ELSE {})
      /\ Sub(left', right', left'[m]) = {} /\ Sub(left', right', right'[m]) = {}
      /\ \A x \in InTree : Sub(left', right', x) = Below(x) \cup (IF n \in Below(x) THEN {m} ELSE {})
      /\ \A a, b \in InTree' : /\ left'[a] # NULL /\ left'[a] = left'[b] => a = b
                               /\ right'[a] # NULL /\ right'[a] = right'[b] => a = b
                               /\ left'[a] # NULL => left'[a] # right'[b]
      /\ \A a \in InTree' : root' # left'[a] /\ root' # right'[a]
  BY <1>0, <1>1, Hung
<1>6. Below(left[m])' = {} /\ Below(right[m])' = {}
  BY <1>5 DEF Below
<1>7. op[p].key \in Keys /\ op[p].value \in Values /\ op[p].key \in Int /\ key \in [Nodes -> Keys] /\ value \in [Nodes -> Values]
  BY <1>0, BstAssumption DEF Ops, TypeOK
<1>8. /\ \A x \in InTree : key'[x] = key[x] /\ key[x] \in Int
      /\ key'[m] = op[p].key
  <2>1. InTree \subseteq Nodes /\ Keys \subseteq Int
    BY <1>0, InTreeFacts, BstAssumption
  <2>2. \A x \in InTree : key[x] \in Int
    BY <1>7, <2>1
  <2> QED BY <1>1, <1>7, <2>1, <2>2
<1>9. TypeOK'
  <2>1. key' \in [Nodes -> Keys] /\ value' \in [Nodes -> Values] /\ alloc' \subseteq Nodes
    BY <1>0, <1>7 DEF TypeOK
  <2> QED BY <1>0, <1>2, <1>3, <1>4, <2>1, Types, TypesNext DEF Planted
<1>10. HeapInv'
  <2>1. Doomed' = Doomed /\ \A q \in Doomed : succ'[q] = succ[q]
    BY <1>0, <1>2 DEF Doomed, Same
  <2>2. {succ'[q] : q \in Doomed} = {succ[q] : q \in Doomed}
    BY <2>1
  <2>3. alloc' = Linked' \cup {succ'[q] : q \in Doomed'}
    BY <1>0, <1>5, <2>1, <2>2 DEF HeapInv, Linked
  <2>4. \A q \in Doomed' : succ'[q] \in Nodes \ InTree'
    <3>1. m \notin {succ[q] : q \in Doomed}
      BY <1>0 DEF HeapInv
    <3> QED BY <1>0, <1>5, <2>1, <3>1 DEF HeapInv
  <2>5. \A q, r \in Doomed' : succ'[q] = succ'[r] => q = r
    BY <1>0, <2>1 DEF HeapInv
  <2> QED BY <1>0, <2>3, <2>4, <2>5 DEF HeapInv
<1>11. TreeInv'
  <2>1. ASSUME NEW a \in InTree', NEW x \in Below(left[a])' PROVE key'[x] < key'[a]
    <3>1. a \in InTree
      BY <1>5, <1>6, <2>1
    <3>2. CASE x \in Below(left[a])
      <4>1. x \in InTree
        <5>1. left[a] \in InTree \cup {NULL}
          BY <1>0, <3>1, InTreeFacts
        <5> QED BY <1>0, <3>2, <5>1, InTreeFacts
      <4>2. key[x] < key[a]
        BY <1>0, <3>1, <3>2 DEF TreeInv
      <4> QED BY <1>8, <3>1, <4>1, <4>2
    <3>3. CASE x = m /\ n \in Below(left[a])
      <4>1. op[p].key < key[a]
        BY <1>0, <3>1, <3>3 DEF SeekInv
      <4> QED BY <1>8, <3>1, <3>3, <4>1
    <3>4. CASE x = m /\ a = n /\ isleft
      BY <1>8, <3>1, <3>4
    <3> QED BY <1>5, <2>1, <3>1, <3>2, <3>3, <3>4
  <2>2. ASSUME NEW a \in InTree', NEW x \in Below(right[a])' PROVE key'[a] < key'[x]
    <3>1. a \in InTree
      BY <1>5, <1>6, <2>2
    <3>2. CASE x \in Below(right[a])
      <4>1. x \in InTree
        <5>1. right[a] \in InTree \cup {NULL}
          BY <1>0, <3>1, InTreeFacts
        <5> QED BY <1>0, <3>2, <5>1, InTreeFacts
      <4>2. key[a] < key[x]
        BY <1>0, <3>1, <3>2 DEF TreeInv
      <4> QED BY <1>8, <3>1, <4>1, <4>2
    <3>3. CASE x = m /\ n \in Below(right[a])
      <4>1. key[a] < op[p].key
        BY <1>0, <3>1, <3>3 DEF SeekInv
      <4> QED BY <1>8, <3>1, <3>3, <4>1
    <3>4. CASE x = m /\ a = n /\ ~isleft
      <4>1. ~(op[p].key < key[n])
        BY <3>4
      <4>2. key[n] < op[p].key
        BY <1>0, <1>7, <1>8, <4>1
      <4> QED BY <1>8, <3>1, <3>4, <4>2
    <3> QED BY <1>5, <2>2, <3>1, <3>2, <3>3, <3>4
  <2> QED BY <1>5, <2>1, <2>2 DEF TreeInv
<1>12. Spares(p)
  <2>1. ASSUME NEW u \in InTree, lock[u] \in Threads \ {p}
        PROVE  u \in InTree' /\ key'[u] = key[u] /\ left'[u] = left[u] /\ right'[u] = right[u]
    <3>1. u # n
      BY <2>1, BstAssumption
    <3> QED BY <1>5, <1>8, <3>1 DEF Planted, Grafted
  <2>2. ASSUME NEW u \in InTree, NEW s \in Below(right[u]) PROVE s \in Below(right[u])'
    BY <1>5, <2>2
  <2> QED BY <2>1, <2>2 DEF Spares, Planted
<1>13. ASSUME NEW q \in Threads \ {p} PROVE Place(q)' /\ SeekInv(q)' /\ PassInv(q)'
  <2>0. /\ PassInv(q) /\ SeekInv(q) /\ Place(q) /\ pc'[q] = pc[q] /\ op'[q] = op[q]
        /\ succ'[q] = succ[q] /\ cur'[q] = cur[q] /\ next'[q] = next[q]
    BY <1>2 DEF Inv, Same
  <2>1. /\ Place(q)' /\ (Seeks(q)' <=> Seeks(q))
        /\ \A u \in Holds(q) : /\ u \in InTree /\ lock[u] = q /\ u \in InTree'
                               /\ key'[u] = key[u] /\ left'[u] = left[u] /\ right'[u] = right[u]
    BY <1>2, <1>12, OthersStay
  <2>2. SeekInv(q)'
    <3> SUFFICES ASSUME Seeks(q)', NEW a \in InTree'
                 PROVE  /\ next'[q] \in Below(left[a])' => op'[q].key < key'[a]
                        /\ next'[q] \in Below(right[a])' => key'[a] < op'[q].key
      BY DEF SeekInv
    <3>1. next[q] \in InTree /\ next[q] # m /\ Seeks(q)
      <4>1. pc[q] \in {"root", "step", "child", "succ"}
        BY <2>1 DEF Seeks
      <4> QED BY <1>1, <2>1, <4>1, Away
    <3>2. CASE a = m
      BY <1>6, <3>2
    <3>3. CASE a \in InTree
      <4>1. /\ next[q] \in Below(left[a]) => op[q].key < key[a]
            /\ next[q] \in Below(right[a]) => key[a] < op[q].key
        BY <2>0, <3>1, <3>3 DEF SeekInv
      <4>2. /\ next[q] \in Below(left[a])' => next[q] \in Below(left[a])
            /\ next[q] \in Below(right[a])' => next[q] \in Below(right[a])
        BY <1>5, <3>1, <3>3
      <4> QED BY <1>8, <2>0, <3>3, <4>1, <4>2
    <3> QED BY <1>5, <3>2, <3>3
  <2>3. CASE pc[q] = "succ" /\ succ[q] # cur[q]
    <3>1. /\ cur[q] \in InTree /\ succ[q] \in InTree /\ key'[succ[q]] = key[succ[q]] /\ key[succ[q]] \in Int
          /\ cur[q] # n /\ right'[cur[q]] = right[cur[q]]
      <4>1. cur[q] \in Holds(q) /\ succ[q] \in Holds(q)
        BY <2>3 DEF Holds
      <4> QED BY <1>8, <2>1, <4>1, BstAssumption
    <3>2. next[q] \in InTree
      BY <2>3, Away
    <3>3. Below(right[cur[q]])' = Below(right[cur[q]]) \cup (IF n \in Below(right[cur[q]]) THEN {m} ELSE {})
      <4>1. Below(right[cur[q]])' = Sub(left', right', right'[cur[q]])
        BY <2>0 DEF Below
      <4>2. Sub(left', right', right'[cur[q]]) = Below(right[cur[q]]) \cup (IF n \in Below(right[cur[q]]) THEN {m} ELSE {})
        BY <1>5, <3>1 DEF Below
      <4> QED BY <4>1, <4>2
    <3>4. Below(next[q])' = Below(next[q]) \cup (IF n \in Below(next[q]) THEN {m} ELSE {})
      BY <1>5, <2>0, <3>2 DEF Below
    <3>5. Passed(q)' \subseteq Passed(q) \cup (IF n \in Passed(q) THEN {m} ELSE {})
      BY <2>0, <2>3, <3>3, <3>4 DEF Passed
    <3>6. Passed(q) \subseteq InTree
      <4>1. right[cur[q]] \in InTree \cup {NULL}
        BY <1>0, <3>1, InTreeFacts
      <4>2. Below(right[cur[q]]) \subseteq InTree
        BY <1>0, <4>1, InTreeFacts
      <4> QED BY <4>2 DEF Passed
    <3>7. n \in Passed(q) => key[succ[q]] < op[p].key
      BY <2>0 DEF PassInv
    <3>8. ASSUME NEW x \in Passed(q)' PROVE key[succ[q]] <= key'[x]
      <4>1. CASE x = m /\ n \in Passed(q)
        BY <1>7, <1>8, <3>1, <3>7, <4>1
      <4>2. CASE x \in Passed(q)
        BY <1>8, <2>0, <3>6, <4>2 DEF PassInv
      <4> QED BY <3>5, <3>8, <4>1, <4>2
    <3>9. ASSUME NEW r \in Threads, Seeks(r)', next'[r] \in Passed(q)' PROVE key[succ[q]] < op'[r].key
      <4>1. r # p
        BY <1>2, <3>9 DEF Seeks
      <4>2. Seeks(r) /\ next'[r] = next[r] /\ op'[r] = op[r]
        BY <1>2, <3>9, <4>1 DEF Same, Seeks
      <4>3. next[r] # m
        <5>1. Guarded(r, next[r])
          BY <4>2, Reached DEF Seeks
        <5> QED BY <1>1, <5>1 DEF Guarded
      <4> QED BY <2>0, <3>5, <3>9, <4>2, <4>3 DEF PassInv
    <3>10. PassInv(q)'
      BY <2>0, <3>1, <3>8, <3>9 DEF PassInv
    <3> QED BY <2>1, <2>2, <3>10
  <2>4. CASE ~(pc[q] = "succ" /\ succ[q] # cur[q])
    <3>1. Passed(q)' = {}
      BY <2>0, <2>4 DEF Passed
    <3> QED BY <2>1, <2>2, <3>1 DEF PassInv
  <2> QED BY <2>3, <2>4
<1>14. Place(p)' /\ SeekInv(p)' /\ PassInv(p)'
  BY <1>2 DEF Place, Uses, SeekInv, PassInv, Passed, Seeks
<1> QED BY <1>4, <1>9, <1>10, <1>11, <1>13, <1>14 DEF Inv

\* p makes the root.
LEMMA Roots ==
    ASSUME Inv, NEW p \in Threads, pc[p] = "tree", tlock = NULL, root = NULL, op[p].type = "insert",
           NEW m \in Nodes \ alloc, NewNode(m, op[p]), root' = m,
           left' = [left EXCEPT ![m] = NULL], right' = [right EXCEPT ![m] = NULL],
           Returns(p, "0"), At(p, "idle"), UNCHANGED <<tlock, lock, calls, ptrs, is_left, destroyed>>
    PROVE  Inv'
<1>0. /\ TypeOK /\ ThreadTypes /\ LockDiscipline /\ HeapInv /\ Place(p) /\ ~destroyed /\ Linked = InTree
      /\ op[p] \in Ops /\ NULL \notin Threads /\ m # NULL /\ m \in Nodes
  <2>1. op[p] # NULL
    BY DEF Inv, Place
  <2> QED BY <2>1, Types, Alive, BstAssumption DEF Inv, TypeOK
<1>1. left \in Links /\ right \in Links /\ left' \in Links /\ right' \in Links /\ left'[m] = NULL /\ right'[m] = NULL
  BY <1>0, InTreeFacts DEF Links
<1>2. InTree = {}
  BY <1>0, InTreeFacts
<1>3. InTree' = {m}
  <2>1. InTree' = Sub(left', right', m)
    BY DEF InTree, Reach, Sub
  <2>2. \A l, r \in Links : l[m] = NULL /\ r[m] = NULL => Sub(l, r, m) = {m}
    BY <1>0, SubSplit, SubNull
  <2> QED BY <1>1, <2>1, <2>2
<1>4. Below(left[m])' = {} /\ Below(right[m])' = {}
  BY <1>1, SubNull DEF Below
<1>5. /\ Same(p) /\ pc'[p] = "idle" /\ op'[p] = NULL
      /\ cur' = cur /\ prev' = prev /\ succ' = succ /\ next' = next
  BY <1>0 DEF At, ptrs, ThreadTypes, Same, Returns
<1>6. ThreadTypes'
  <2>1. pc' \in [Threads -> Pcs]
    BY <1>0 DEF ThreadTypes, At, Pcs
  <2>2. op' \in [Threads -> Ops \cup {NULL}] /\ res' \in [Threads -> Results]
    BY <1>0 DEF ThreadTypes, Returns, Results
  <2> QED BY <1>0, <1>5, <2>1, <2>2 DEF ThreadTypes
<1>7. TypeOK'
  <2>1. op[p].key \in Keys /\ op[p].value \in Values
    BY <1>0 DEF Ops
  <2>2. key' \in [Nodes -> Keys] /\ value' \in [Nodes -> Values] /\ alloc' \subseteq Nodes
    BY <1>0, <2>1 DEF TypeOK, NewNode
  <2> QED BY <1>0, <1>1, <1>6, <2>2, Types, TypesNext
<1>8. LockDiscipline'
  <2>1. Holds(p) = {} /\ Holds(p)' = {}
    BY <1>0, <1>5 DEF Holds
  <2>2. \A q \in Threads \ {p} : Holds(q)' = Holds(q) /\ (pc'[q] = "root" <=> pc[q] = "root")
    BY <1>5, OthersHold
  <2>3. \A q \in Threads : Holds(q)' = Holds(q) /\ (pc'[q] = "root" <=> pc[q] = "root")
    BY <1>0, <1>5, <2>1, <2>2
  <2> QED BY <1>0, <2>3 DEF LockDiscipline
<1>9. HeapInv'
  <2>1. Doomed' = Doomed /\ \A q \in Doomed : succ'[q] = succ[q]
    BY <1>0, <1>5 DEF Doomed, Same
  <2>2. {succ'[q] : q \in Doomed} = {succ[q] : q \in Doomed}
    BY <2>1
  <2>3. alloc' = Linked' \cup {succ'[q] : q \in Doomed'}
    BY <1>0, <1>2, <1>3, <2>1, <2>2 DEF HeapInv, Linked, NewNode
  <2>4. \A q \in Doomed' : succ'[q] \in Nodes \ InTree'
    <3>1. m \notin {succ[q] : q \in Doomed}
      BY <1>0 DEF HeapInv
    <3> QED BY <1>0, <1>3, <2>1, <3>1 DEF HeapInv
  <2>5. \A q, r \in Doomed' : succ'[q] = succ'[r] => q = r
    BY <1>0, <2>1 DEF HeapInv
  <2> QED BY <1>0, <2>3, <2>4, <2>5 DEF HeapInv
<1>10. TreeInv'
  BY <1>0, <1>1, <1>3, <1>4 DEF TreeInv
<1>11. ASSUME NEW q \in Threads \ {p} PROVE Place(q)' /\ SeekInv(q)' /\ PassInv(q)'
  <2>1. pc[q] \notin {"root", "step", "child", "succ"} /\ pc'[q] = pc[q]
    BY <1>2, <1>5, Away DEF Same
  <2>2. Spares(p)
    BY <1>0, <1>2 DEF Spares
  <2>3. Place(q)'
    BY <1>5, <2>2, OthersStay
  <2> QED BY <2>1, <2>3 DEF SeekInv, Seeks, PassInv, Passed
<1>12. Place(p)' /\ SeekInv(p)' /\ PassInv(p)'
  BY <1>0, <1>5 DEF Place, Uses, SeekInv, PassInv, Passed, Seeks
<1> QED BY <1>7, <1>8, <1>9, <1>10, <1>11, <1>12 DEF Inv

-----------------------------------------------------------------------------
(* The invariant *)

\* The invariant holds when bst_init returns.
LEMMA Begins == Init => Inv
<1> SUFFICES ASSUME Init PROVE Inv
  OBVIOUS
<1>1. TypeOK
  <2>1. (CHOOSE k \in Keys : TRUE) \in Keys /\ (CHOOSE v \in Values : TRUE) \in Values
    BY BstAssumption
  <2>2. 0 \in 0..MaxOps
    BY BstAssumption
  <2>3. /\ op = [p \in Threads |-> NULL] /\ res = [p \in Threads |-> NULL] /\ cur = [p \in Threads |-> NULL]
        /\ prev = [p \in Threads |-> NULL] /\ succ = [p \in Threads |-> NULL] /\ next = [p \in Threads |-> NULL]
        /\ pc = [p \in Threads |-> "idle"] /\ calls = [p \in Threads |-> 0] /\ is_left = [p \in Threads |-> FALSE]
        /\ left = [n \in Nodes |-> NULL] /\ right = [n \in Nodes |-> NULL] /\ lock = [n \in Nodes |-> NULL]
        /\ key = [n \in Nodes |-> CHOOSE k \in Keys : TRUE] /\ value = [n \in Nodes |-> CHOOSE v \in Values : TRUE]
        /\ root = NULL /\ tlock = NULL /\ alloc = {} /\ destroyed = FALSE
    BY DEF Init, Quiet
  <2>4. ThreadTypes
    BY <2>2, <2>3 DEF ThreadTypes, Pcs, Results
  <2>5. key \in [Nodes -> Keys] /\ value \in [Nodes -> Values]
    BY <2>1, <2>3
  <2>6. left \in Links /\ right \in Links /\ lock \in [Nodes -> Threads \cup {NULL}]
    BY <2>3 DEF Links
  <2> QED BY <2>3, <2>4, <2>5, <2>6, Types
<1>2. InTree = {}
  BY <1>1, InTreeFacts DEF Init
<1>3. \A p \in Threads : /\ pc[p] = "idle" /\ op[p] = NULL
                         /\ cur[p] = NULL /\ prev[p] = NULL /\ succ[p] = NULL /\ next[p] = NULL
  BY DEF Init, Quiet
<1>4. TreeInv
  BY <1>2 DEF TreeInv
<1>5. HeapInv
  BY <1>2, <1>3 DEF HeapInv, Doomed, Linked, Init, Quiet
<1>6. LockDiscipline
  BY <1>3, BstAssumption DEF LockDiscipline, Holds, Init, Quiet
<1>7. \A p \in Threads : Place(p) /\ SeekInv(p) /\ PassInv(p)
  BY <1>3 DEF Place, Uses, SeekInv, Seeks, PassInv, Passed
<1> QED BY <1>1, <1>4, <1>5, <1>6, <1>7 DEF Inv

\* A step of insert or lookup at the node it has just locked.
LEMMA Visiting ==
    ASSUME Inv, NEW p \in Threads, VisitRoot(p) \/ VisitChild(p)
    PROVE  /\ Seeks(p) /\ lock[next[p]] = NULL /\ op[p].type \in {"insert", "lookup"}
           /\ tlock' = IF pc[p] = "root" THEN NULL ELSE tlock
           /\ UNCHANGED <<root, calls, is_left, destroyed>>
           /\ is_left' = [is_left EXCEPT ![p] = is_left[p]] /\ is_left[p] \in BOOLEAN
           /\ \/ Found(p, next[p], Holds(p)) \/ InsertLeaf(p, next[p], Holds(p))
              \/ LookupFails(p, next[p], Holds(p)) \/ Descend(p, next[p], Holds(p))
<1>1. is_left' = is_left /\ is_left \in [Threads -> BOOLEAN]
  BY DEF VisitRoot, VisitChild, Inv, TypeOK
<1>2. is_left' = [is_left EXCEPT ![p] = is_left[p]] /\ is_left[p] \in BOOLEAN
  BY <1>1
<1>3. CASE VisitRoot(p)
  <2>1. Holds(p) = {} /\ pc[p] = "root"
    BY <1>3 DEF VisitRoot, Holds
  <2> QED BY <1>2, <1>3, <2>1 DEF VisitRoot, Visit, Seeks
<1>4. CASE VisitChild(p)
  <2>1. Holds(p) = {cur[p]} /\ pc[p] = "step"
    BY <1>4 DEF VisitChild, Holds
  <2> QED BY <1>2, <1>4, <2>1 DEF VisitChild, Visit, Seeks
<1> QED BY <1>3, <1>4

\* The links of a new node and of the node it hangs from.
LEMMA Plants ==
    ASSUME Inv, NEW p \in Threads, Seeks(p), NEW n, n = next[p], NEW m \in Nodes, NewNode(m, op[p]),
           Child(n, op[p].key) = NULL, root' = root,
           left' = [left EXCEPT ![m] = NULL, ![n] = IF op[p].key < key[n] THEN m ELSE @],
           right' = [right EXCEPT ![m] = NULL, ![n] = IF op[p].key < key[n] THEN @ ELSE m]
    PROVE  m \in Nodes \ InTree /\ \E isleft \in BOOLEAN : (isleft <=> op[p].key < key[n]) /\ Planted(n, m, isleft)
<1>1. /\ TypeOK /\ n \in Nodes /\ n \in InTree /\ InTree \subseteq alloc
  <2>1. Linked = InTree /\ Guarded(p, n) /\ n \in Nodes
    BY Alive, Reached DEF Seeks
  <2> QED BY <2>1 DEF Inv, HeapInv, Guarded
<1>2. m \in Nodes \ alloc
  BY DEF NewNode
<1>3. PICK isleft \in BOOLEAN : isleft <=> op[p].key < key[n]
  OBVIOUS
<1>4. m # n /\ left \in Links /\ right \in Links /\ InTree \subseteq Nodes /\ m \notin InTree
  BY <1>1, <1>2, InTreeFacts
<1>5. /\ left' = [left EXCEPT ![m] = NULL, ![n] = IF isleft THEN m ELSE @]
      /\ right' = [right EXCEPT ![m] = NULL, ![n] = IF isleft THEN @ ELSE m]
      /\ IF isleft THEN left[n] = NULL ELSE right[n] = NULL
  BY <1>3 DEF Child
<1>6. left' \in Links /\ right' \in Links
  BY <1>1, <1>4, <1>5 DEF Links
<1>7. Grafted(InTree, left, right, left', right', n, m, isleft)
  BY <1>1, <1>4, <1>5 DEF Links, Grafted
<1>8. Planted(n, m, isleft)
  BY <1>6, <1>7 DEF Planted
<1> QED BY <1>3, <1>4, <1>8

\* Steps of insert and lookup keep the invariant.
LEMMA Visits ==
    ASSUME Inv, NEW p \in Threads, VisitRoot(p) \/ VisitChild(p)
    PROVE  Inv'
<1> DEFINE n == next[p]
<1>0. /\ Seeks(p) /\ lock[n] = NULL /\ op[p].type \in {"insert", "lookup"}
      /\ tlock' = IF pc[p] = "root" THEN NULL ELSE tlock
      /\ UNCHANGED <<root, calls, is_left, destroyed>>
      /\ is_left' = [is_left EXCEPT ![p] = is_left[p]] /\ is_left[p] \in BOOLEAN
      /\ \/ Found(p, n, Holds(p)) \/ InsertLeaf(p, n, Holds(p))
         \/ LookupFails(p, n, Holds(p)) \/ Descend(p, n, Holds(p))
  BY Visiting
<1>1. /\ TypeOK /\ ThreadTypes /\ n \in Nodes /\ n \in InTree /\ op[p] \in Ops /\ InTree \subseteq alloc
  <2>1. Linked = InTree /\ Guarded(p, n) /\ n \in Nodes /\ op[p] \in Ops
    BY <1>0, Alive, Reached DEF Seeks
  <2> QED BY <2>1, Types DEF Inv, HeapInv, Guarded
<1>2. value[n] \in Results /\ "0" \in Results /\ "-1" \in Results /\ "no memory" \in Results
  BY <1>1 DEF TypeOK, Results
\* The ways to return with the tree as it was.
<1>3. ASSUME NEW r \in Results, Returns(p, r), Locks(p, {}, Holds(p) \cup {n}), At(p, "idle"), Forgets(p), UNCHANGED <<fields, alloc>>
      PROVE  Inv'
  <2>1. Moves(p, "idle", NULL, NULL, NULL, NULL, NULL)
    BY <1>0, <1>3 DEF Moves, Returns, At, Forgets
  <2>2. UNCHANGED <<root, fields, alloc, calls, destroyed>>
    BY <1>0, <1>3
  <2> QED BY <1>0, <1>3, <2>1, <2>2, Leaves
<1>4. CASE Found(p, n, Holds(p))
  <2>1. (IF op[p].type = "lookup" THEN value[n] ELSE "-1") \in Results
    BY <1>2
  <2> QED BY <1>3, <1>4, <2>1 DEF Found
<1>5. CASE LookupFails(p, n, Holds(p))
  BY <1>2, <1>3, <1>5 DEF LookupFails
<1>6. CASE Descend(p, n, Holds(p))
  <2>1. /\ key[n] # op[p].key /\ Child(n, op[p].key) # NULL
        /\ Points(p, n, NULL, NULL, Child(n, op[p].key)) /\ Locks(p, {n}, Holds(p)) /\ At(p, "step")
        /\ UNCHANGED <<fields, alloc, op, res>>
    BY <1>6 DEF Descend, DescendTo
  <2>2. op' = [op EXCEPT ![p] = op[p]] /\ res' = [res EXCEPT ![p] = res[p]] /\ res[p] \in Results
    BY <1>1, <2>1 DEF ThreadTypes
  <2>3. Moves(p, "step", op[p], n, NULL, NULL, Child(n, op[p].key))
    BY <1>0, <2>1, <2>2 DEF Moves, At
  <2>4. UNCHANGED <<root, fields, alloc, calls, destroyed>> /\ op[p].type # "delete"
    BY <1>0, <2>1
  <2> QED BY <1>0, <2>1, <2>3, <2>4, Descends
<1>7. CASE InsertLeaf(p, n, Holds(p))
  <2>1. /\ op[p].type = "insert" /\ key[n] # op[p].key /\ Child(n, op[p].key) = NULL
        /\ Locks(p, {}, Holds(p) \cup {n}) /\ At(p, "idle") /\ Forgets(p)
        /\ \/ /\ \E m \in Nodes :
                    /\ NewNode(m, op[p])
                    /\ left' = [left EXCEPT ![m] = NULL, ![n] = IF op[p].key < key[n] THEN m ELSE @]
                    /\ right' = [right EXCEPT ![m] = NULL, ![n] = IF op[p].key < key[n] THEN @ ELSE m]
              /\ Returns(p, "0")
           \/ Returns(p, "no memory") /\ UNCHANGED <<fields, alloc>>
    BY <1>7 DEF InsertLeaf
  <2>2. CASE Returns(p, "no memory") /\ UNCHANGED <<fields, alloc>>
    BY <1>2, <1>3, <2>1, <2>2
  <2>3. ASSUME NEW m \in Nodes, NewNode(m, op[p]), Returns(p, "0"),
               left' = [left EXCEPT ![m] = NULL, ![n] = IF op[p].key < key[n] THEN m ELSE @],
               right' = [right EXCEPT ![m] = NULL, ![n] = IF op[p].key < key[n] THEN @ ELSE m]
        PROVE  Inv'
    <3>1. Moves(p, "idle", NULL, NULL, NULL, NULL, NULL)
      BY <1>0, <1>2, <2>1, <2>3 DEF Moves, Returns, At, Forgets
    <3>2. /\ m \in Nodes \ alloc /\ alloc' = alloc \cup {m}
          /\ key' = [key EXCEPT ![m] = op[p].key] /\ value' = [value EXCEPT ![m] = op[p].value]
      BY <2>3 DEF NewNode
    <3> HIDE DEF n
    <3>3. PICK isleft \in BOOLEAN : (isleft <=> op[p].key < key[n]) /\ Planted(n, m, isleft)
      <4>1. n = next[p] /\ root' = root /\ Seeks(p) /\ Child(n, op[p].key) = NULL
        BY <1>0, <2>1 DEF n
      <4> QED BY <2>3, <4>1, Plants
    <3>9. UNCHANGED <<calls, destroyed>> /\ n = next[p]
      BY <1>0 DEF n
    <3>10. /\ Seeks(p) /\ lock[n] = NULL /\ tlock' = IF pc[p] = "root" THEN NULL ELSE tlock
      BY <1>0
    <3>11. key[n] # op[p].key /\ op[p].type = "insert" /\ Locks(p, {}, Holds(p) \cup {n})
      BY <2>1
    <3> QED BY <3>1, <3>2, <3>3, <3>9, <3>10, <3>11, Inserts
  <2> QED BY <2>1, <2>2, <2>3
<1> QED BY <1>0, <1>4, <1>5, <1>6, <1>7

\* A step of delete at the node it has just locked.
LEMMA Deleting ==
    ASSUME Inv, NEW p \in Threads, DeleteRoot(p) \/ DeleteChild(p)
    PROVE  /\ Seeks(p) /\ lock[next[p]] = NULL /\ op[p].type = "delete"
           /\ tlock' = IF pc[p] = "root" THEN NULL ELSE tlock
           /\ UNCHANGED <<alloc, calls, destroyed>>
           /\ \E l \in BOOLEAN : /\ pc[p] = "child" => l = is_left[p]
                                 /\ \/ Unlink(p, next[p], Holds(p), l) \/ SeekSuccessor(p, next[p], Holds(p))
                                    \/ DeleteFails(p, next[p], Holds(p)) \/ DeleteDescends(p, next[p], Holds(p))
<1>1. is_left[p] \in BOOLEAN
  BY DEF Inv, TypeOK
<1>3. CASE DeleteRoot(p)
  <2>1. Holds(p) = {} /\ pc[p] = "root"
    BY <1>3 DEF DeleteRoot, Holds
  <2> QED BY <1>3, <2>1 DEF DeleteRoot, DeleteAt, Seeks
<1>4. CASE DeleteChild(p)
  <2>1. Holds(p) = {prev[p]} /\ pc[p] = "child"
    BY <1>4 DEF DeleteChild, Holds
  <2> QED BY <1>1, <1>4, <2>1 DEF DeleteChild, DeleteAt, Seeks
<1> QED BY <1>3, <1>4

\* The link that delete changes is the only one that led to the node.
LEMMA UnlinkTakesOut ==
    ASSUME Inv, NEW p \in Threads, Seeks(p), op[p].type = "delete", NEW n, n = next[p],
           NEW l \in BOOLEAN, pc[p] = "child" => l = is_left[p], Unlink(p, n, Holds(p), l)
    PROVE  TakenOut(n)
<1>0. /\ TypeOK /\ TreeInv /\ Place(p) /\ n \in Nodes /\ n \in InTree /\ n # NULL
      /\ pc[p] \in {"root", "step", "child"}
  BY Reached DEF Inv, Seeks, Guarded
<1>1. /\ InTree \subseteq Nodes /\ left \in Links /\ right \in Links
      /\ OnlyChild(n) \in Nodes \cup {NULL}
  BY <1>0, InTreeFacts DEF OnlyChild, Links
<1>2. /\ ~TwoChildren(n) /\ root' = IF Holds(p) = {} THEN OnlyChild(n) ELSE root
      /\ left' = [m \in Nodes |-> IF m \in Holds(p) /\ l THEN OnlyChild(n) ELSE left[m]]
      /\ right' = [m \in Nodes |-> IF m \in Holds(p) /\ ~l THEN OnlyChild(n) ELSE right[m]]
  BY DEF Unlink
<1>3. left' \in Links /\ right' \in Links
  BY <1>1, <1>2 DEF Links
<1>4. CASE pc[p] = "root"
  <2>1. Holds(p) = {} /\ n = root
    BY <1>0, <1>4 DEF Holds, Place
  <2>2. \A a \in InTree : left[a] # n /\ right[a] # n
    BY <1>0, <2>1 DEF TreeInv
  <2>3. Bypass(InTree, left, right, left', right', n, OnlyChild(n))
    BY <1>1, <1>2, <2>1, <2>2 DEF Bypass
  <2> QED BY <1>2, <1>3, <2>1, <2>3 DEF TakenOut
<1>5. CASE pc[p] = "child"
  <2>1. /\ Holds(p) = {prev[p]} /\ prev[p] \in InTree
        /\ is_left[p] = (op[p].key < key[prev[p]]) /\ n = Child(prev[p], op[p].key)
    BY <1>0, <1>5 DEF Holds, Place
  <2>2. IF l THEN n = left[prev[p]] ELSE n = right[prev[p]]
    BY <1>5, <2>1 DEF Child
  <2>3. root # n
    BY <1>0, <2>1, <2>2 DEF TreeInv
  <2>4. \A a \in InTree : /\ left[a] = n <=> a = prev[p] /\ l
                          /\ right[a] = n <=> a = prev[p] /\ ~l
    BY <1>0, <2>1, <2>2 DEF TreeInv
  <2>5. Bypass(InTree, left, right, left', right', n, OnlyChild(n))
    BY <1>1, <1>2, <2>1, <2>4 DEF Bypass
  <2> QED BY <1>2, <1>3, <2>1, <2>3, <2>5 DEF TakenOut
<1>6. pc[p] # "step"
  BY <1>0 DEF Place
<1> QED BY <1>0, <1>4, <1>5, <1>6

\* Steps of delete before the walk to the successor keep the invariant.
LEMMA Deletes ==
    ASSUME Inv, NEW p \in Threads, DeleteRoot(p) \/ DeleteChild(p)
    PROVE  Inv'
<1> DEFINE n == next[p]
<1>0. /\ Seeks(p) /\ lock[n] = NULL /\ op[p].type = "delete"
      /\ tlock' = IF pc[p] = "root" THEN NULL ELSE tlock
      /\ UNCHANGED <<alloc, calls, destroyed>>
  BY Deleting
<1>1. PICK l \in BOOLEAN : /\ pc[p] = "child" => l = is_left[p]
                           /\ \/ Unlink(p, n, Holds(p), l) \/ SeekSuccessor(p, n, Holds(p))
                              \/ DeleteFails(p, n, Holds(p)) \/ DeleteDescends(p, n, Holds(p))
  BY Deleting
<1>2. ThreadTypes /\ n = next[p] /\ n \in Nodes /\ op[p] \in Ops
  BY <1>0, Reached, Types DEF Inv, Seeks
<1>3. "0" \in Results /\ "-1" \in Results /\ res[p] \in Results
  BY <1>2 DEF Results, ThreadTypes
<1> HIDE DEF n
<1>4. CASE Unlink(p, n, Holds(p), l)
  <2>1. TakenOut(n)
    BY <1>0, <1>1, <1>2, <1>4, UnlinkTakesOut
  <2>2. Moves(p, "free", NULL, NULL, NULL, n, NULL) /\ Locks(p, {}, Holds(p) \cup {n}) /\ UNCHANGED <<key, value>>
    BY <1>3, <1>4 DEF Unlink, Moves, Returns, At, Side
  <2>3. UNCHANGED <<key, value, alloc, calls, destroyed>>
    BY <1>0, <2>2
  <2> QED BY <1>0, <1>2, <2>1, <2>2, <2>3, Unlinks
<1>5. CASE SeekSuccessor(p, n, Holds(p))
  <2>1. /\ key[n] = op[p].key /\ TwoChildren(n) /\ Points(p, n, n, n, right[n]) /\ Side(p, FALSE)
        /\ Locks(p, {n}, Holds(p)) /\ At(p, "succ") /\ UNCHANGED <<root, fields, op, res>>
    BY <1>5 DEF SeekSuccessor
  <2>2. op' = [op EXCEPT ![p] = op[p]] /\ res' = [res EXCEPT ![p] = res[p]]
    BY <1>2, <2>1 DEF ThreadTypes
  <2>3. Moves(p, "succ", op[p], n, n, n, right[n])
    BY <1>3, <2>1, <2>2 DEF Moves, At, Side
  <2>4. UNCHANGED <<root, fields, alloc, calls, destroyed>>
    BY <1>0, <2>1
  <2> QED BY <1>0, <1>2, <2>1, <2>3, <2>4, SeeksSuccessor
<1>6. CASE DeleteFails(p, n, Holds(p))
  <2>1. Moves(p, "idle", NULL, NULL, NULL, NULL, NULL) /\ Locks(p, {}, Holds(p) \cup {n}) /\ UNCHANGED <<root, fields>>
    BY <1>3, <1>6 DEF DeleteFails, Moves, Returns, At, Side, Forgets
  <2>2. UNCHANGED <<root, fields, alloc, calls, destroyed>>
    BY <1>0, <2>1
  <2>3. Locks(p, {}, Holds(p) \cup {next[p]}) /\ lock[next[p]] = NULL
    BY <1>0, <1>2, <2>1
  <2> QED BY <1>0, <2>1, <2>2, <2>3, Leaves
<1>7. CASE DeleteDescends(p, n, Holds(p))
  <2>1. /\ key[n] # op[p].key /\ Child(n, op[p].key) # NULL
        /\ Points(p, NULL, n, NULL, Child(n, op[p].key)) /\ Side(p, op[p].key < key[n])
        /\ Locks(p, {n}, Holds(p)) /\ At(p, "child") /\ UNCHANGED <<root, fields, op, res>>
    BY <1>7 DEF DeleteDescends
  <2>2. op' = [op EXCEPT ![p] = op[p]] /\ res' = [res EXCEPT ![p] = res[p]]
    BY <1>2, <2>1 DEF ThreadTypes
  <2>3. is_left' = [is_left EXCEPT ![p] = (op[p].key < key[n])] /\ (op[p].key < key[n]) \in BOOLEAN
    BY <2>1 DEF Side
  <2>4. Moves(p, "child", op[p], NULL, n, NULL, Child(n, op[p].key))
    BY <1>3, <2>1, <2>2, <2>3 DEF Moves, At
  <2>5. is_left'[p] = (op[p].key < key[n])
    BY <1>2, <2>3 DEF ThreadTypes
  <2>6. UNCHANGED <<root, fields, alloc, calls, destroyed>>
    BY <1>0, <2>1
  <2> QED BY <1>0, <1>2, <2>1, <2>4, <2>5, <2>6, Descends
<1> QED BY <1>1, <1>4, <1>5, <1>6, <1>7

\* So do steps on the empty tree.
LEMMA Empties ==
    ASSUME Inv, NEW p \in Threads, EmptyTree(p)
    PROVE  Inv'
<1>1. /\ pc[p] = "tree" /\ tlock = NULL /\ root = NULL /\ At(p, "idle")
      /\ UNCHANGED <<tlock, lock, calls, ptrs, is_left, destroyed>>
      /\ "0" \in Results /\ "-1" \in Results /\ "no memory" \in Results
  BY DEF EmptyTree, Results
<1>2. CASE Returns(p, "-1") /\ UNCHANGED <<root, fields, alloc>>
  BY <1>1, <1>2, NoTree
<1>3. CASE Returns(p, "no memory") /\ UNCHANGED <<root, fields, alloc>>
  BY <1>1, <1>3, NoTree
<1>4. ASSUME op[p].type = "insert", Returns(p, "0"), NEW m \in Nodes, NewNode(m, op[p]), root' = m,
             left' = [left EXCEPT ![m] = NULL], right' = [right EXCEPT ![m] = NULL]
      PROVE  Inv'
  <2>1. m \in Nodes \ alloc
    BY <1>4 DEF NewNode
  <2> QED BY <1>1, <1>4, <2>1, Roots
<1> QED BY <1>2, <1>3, <1>4 DEF EmptyTree

\* Every step keeps the invariant.
LEMMA Preserved == Inv /\ [Next]_vars => Inv'
<1> SUFFICES ASSUME Inv, [Next]_vars PROVE Inv'
  OBVIOUS
<1>1. ASSUME NEW p \in Threads, CallOp(p) \/ Step(p) PROVE Inv'
  <2>1. CASE CallOp(p)
    BY <2>1, Called
  <2>2. CASE EmptyTree(p)
    BY <2>2, Empties
  <2>3. CASE LockTree(p)
    BY <2>3, TreeLocked
  <2>4. CASE VisitRoot(p) \/ VisitChild(p)
    BY <2>4, Visits
  <2>5. CASE DeleteRoot(p) \/ DeleteChild(p)
    BY <2>5, Deletes
  <2>6. CASE SuccessorStep(p)
    BY <2>6, Passes
  <2>7. CASE SuccessorTake(p)
    BY <2>7, Takes
  <2>8. CASE FreeNode(p)
    BY <2>8, Frees
  <2> QED BY <1>1, <2>1, <2>2, <2>3, <2>4, <2>5, <2>6, <2>7, <2>8 DEF Step
<1>2. CASE Destroy
  BY <1>2, Destroyed
<1>3. CASE Terminated \/ UNCHANGED vars
  BY <1>3, Stutters DEF Terminated
<1> QED BY <1>1, <1>2, <1>3 DEF Next

\* The inductive invariant holds.
THEOREM TreeInvariant == Spec => []Inv
BY Begins, Preserved, PTL DEF Spec

\* At every step of any number of threads the linked nodes form a search tree.
THEOREM AlwaysSearchTree == Spec => []SearchTree
<1>1. Inv => SearchTree
  <2> SUFFICES ASSUME Inv, NEW n \in InTree
               PROVE  /\ \A m \in Reach({left[n]}) : key[m] < key[n]
                      /\ \A m \in Reach({right[n]}) : key[n] < key[m]
                      /\ Reach({left[n]}) \cap Reach({right[n]}) = {}
    BY DEF SearchTree
  <2>1. Reach({left[n]}) = Below(left[n]) /\ Reach({right[n]}) = Below(right[n])
    BY DEF Reach, Below, Sub
  <2>2. TypeOK /\ TreeInv
    BY DEF Inv
  <2>3. (\A m \in Below(left[n]) : key[m] < key[n]) /\ \A m \in Below(right[n]) : key[n] < key[m]
    BY <2>2 DEF TreeInv
  <2>4. Below(left[n]) \cap Below(right[n]) = {}
    BY <2>2, Sides
  <2> QED BY <2>1, <2>3, <2>4
<1> QED BY <1>1, TreeInvariant, PTL

\* No thread uses or waits for a freed node, none is lost or freed twice, and
\* every path releases what it locked.
THEOREM NodesAlwaysSafe == Spec => []NodesSafe
<1>1. Inv => NodesSafe
  <2> SUFFICES ASSUME Inv PROVE NoUseAfterFree /\ NoLeak
    BY DEF NodesSafe, Inv
  <2>0. TypeOK /\ HeapInv /\ Linked \subseteq InTree
    BY DEF Inv, Linked
  <2>1. NoLeak
    <3>1. {succ[p] : p \in {q \in Threads : pc[q] = "free"}} = {succ[p] : p \in Doomed}
      BY DEF Doomed
    <3>2. Linked \cap {succ[p] : p \in Doomed} = {}
      BY <2>0 DEF HeapInv
    <3>3. \A p, q \in Threads : pc[p] = "free" /\ pc[q] = "free" /\ p # q => succ[p] # succ[q]
      BY <2>0 DEF HeapInv, Doomed
    <3> QED BY <2>0, <3>1, <3>2, <3>3 DEF NoLeak, HeapInv
  <2>2. ASSUME NEW p \in Threads PROVE Uses(p) \subseteq InTree \cup (IF pc[p] = "free" THEN {succ[p]} ELSE {})
    <3>1. Place(p) /\ pc[p] \in {"idle", "tree", "root", "step", "child", "succ", "free"}
      BY <2>0 DEF Inv, TypeOK
    <3>2. pc[p] \in {"root", "step", "child", "succ"} => next[p] \in InTree
      BY Reached DEF Guarded
    <3> QED BY <3>1, <3>2 DEF Place, Uses
  <2>3. ASSUME NEW p \in Threads PROVE Uses(p) \subseteq alloc
    <3>1. CASE pc[p] = "idle"
      BY <3>1 DEF Inv, Place
    <3>2. CASE pc[p] # "idle"
      <4>1. InTree \subseteq alloc
        BY <2>0, <3>2, Alive DEF HeapInv
      <4>2. pc[p] = "free" => succ[p] \in alloc
        BY <2>0 DEF HeapInv, Doomed
      <4> QED BY <2>2, <4>1, <4>2
    <3> QED BY <3>1, <3>2
  <2>4. ASSUME NEW p \in Threads, NEW q \in Threads, pc[p] = "free", p # q PROVE succ[p] \notin Uses(q)
    <3>1. succ[p] \notin InTree /\ (pc[q] = "free" => succ[p] # succ[q])
      BY <2>0, <2>4 DEF HeapInv, Doomed
    <3> QED BY <2>2, <3>1
  <2>5. Linked \subseteq alloc
    BY <2>0 DEF HeapInv
  <2> QED BY <2>1, <2>3, <2>4, <2>5 DEF NoUseAfterFree
<1> QED BY <1>1, TreeInvariant, PTL

-----------------------------------------------------------------------------
(* The dictionary *)

\* A key is in one node.
LEMMA KeysUnique ==
    ASSUME TypeOK, TreeInv
    PROVE  \A x, y \in InTree : key[x] = key[y] => x = y
<1>0. /\ left \in Links /\ right \in Links /\ root \in Nodes \cup {NULL} /\ InTree = Sub(left, right, root)
      /\ \A x \in InTree : Below(x) = {x} \cup Below(left[x]) \cup Below(right[x])
  BY InTreeFacts DEF Below
<1>1. \A x \in InTree : key[x] \in Int
  <2>1. InTree \subseteq Nodes /\ key \in [Nodes -> Keys] /\ Keys \subseteq Int
    BY InTreeFacts, BstAssumption DEF TypeOK
  <2> QED BY <2>1
<1> SUFFICES ASSUME NEW x \in InTree, NEW y \in InTree, key[x] = key[y], x # y PROVE FALSE
  OBVIOUS
<1>2. \/ x \in Below(y) \/ y \in Below(x)
      \/ \E a \in InTree : \/ x \in Below(left[a]) /\ y \in Below(right[a])
                           \/ x \in Below(right[a]) /\ y \in Below(left[a])
  BY <1>0, SubFork DEF Below
<1>3. ~(x \in Below(y))
  BY <1>0, <1>1 DEF TreeInv
<1>4. ~(y \in Below(x))
  BY <1>0, <1>1 DEF TreeInv
<1>5. ASSUME NEW a \in InTree, \/ x \in Below(left[a]) /\ y \in Below(right[a])
                               \/ x \in Below(right[a]) /\ y \in Below(left[a])
      PROVE  FALSE
  <2>1. key[x] \in Int /\ key[y] \in Int /\ key[a] \in Int
    BY <1>1, <1>5
  <2>2. (key[x] < key[a] /\ key[a] < key[y]) \/ (key[a] < key[x] /\ key[y] < key[a])
    BY <1>5 DEF TreeInv
  <2> QED BY <2>1, <2>2
<1> QED BY <1>2, <1>3, <1>4, <1>5

\* The key that a thread looks for is below the node it is at, or nowhere.
LEMMA NotElsewhere ==
    ASSUME Inv, NEW p \in Threads, Seeks(p), NEW x \in InTree, key[x] = op[p].key
    PROVE  x \in Below(next[p])
<1> DEFINE n == next[p]
<1>0. TypeOK /\ TreeInv /\ SeekInv(p) /\ n \in InTree /\ op[p] \in Ops
  BY Reached DEF Inv, Seeks, Guarded
<1>1. /\ left \in Links /\ right \in Links /\ root \in Nodes \cup {NULL} /\ InTree = Sub(left, right, root)
      /\ \A y \in InTree : y \in Below(y) /\ Below(y) = {y} \cup Below(left[y]) \cup Below(right[y])
  BY <1>0, InTreeFacts DEF Below
<1>2. (\A y \in InTree : key[y] \in Int) /\ op[p].key \in Int
  <2>1. InTree \subseteq Nodes /\ key \in [Nodes -> Keys] /\ Keys \subseteq Int /\ op[p].key \in Keys
    BY <1>0, InTreeFacts, BstAssumption DEF TypeOK, Ops
  <2> QED BY <2>1
<1> HIDE DEF n
<1>3. \/ x \in Below(n) \/ n \in Below(x)
      \/ \E a \in InTree : \/ x \in Below(left[a]) /\ n \in Below(right[a])
                           \/ x \in Below(right[a]) /\ n \in Below(left[a])
  BY <1>0, <1>1, SubFork DEF Below
<1>4. \A a \in InTree : /\ n \in Below(left[a]) => op[p].key < key[a]
                        /\ n \in Below(right[a]) => key[a] < op[p].key
  BY <1>0 DEF SeekInv, n
<1>5. CASE n \in Below(x)
  <2>1. ~(n \in Below(left[x])) /\ ~(n \in Below(right[x]))
    BY <1>2, <1>4
  <2> QED BY <1>1, <1>5, <2>1 DEF n
<1>6. ASSUME NEW a \in InTree, \/ x \in Below(left[a]) /\ n \in Below(right[a])
                               \/ x \in Below(right[a]) /\ n \in Below(left[a])
      PROVE  FALSE
  <2>1. op[p].key \in Int /\ key[a] \in Int
    BY <1>2, <1>6
  <2>2. op[p].key < key[a] /\ key[a] < op[p].key
    BY <1>0, <1>4, <1>6 DEF TreeInv
  <2> QED BY <2>1, <2>2
<1> QED BY <1>3, <1>5, <1>6 DEF n

\* A key not found at a node without a link on its side is nowhere.
LEMMA NotThere ==
    ASSUME Inv, NEW p \in Threads, Seeks(p), key[next[p]] # op[p].key, Child(next[p], op[p].key) = NULL
    PROVE  \A x \in InTree : key[x] # op[p].key
<1> DEFINE n == next[p]
<1>0. TypeOK /\ TreeInv /\ n \in InTree /\ op[p] \in Ops
  BY Reached DEF Inv, Seeks, Guarded
<1>1. Below(n) = {n} \cup Below(left[n]) \cup Below(right[n]) /\ Below(NULL) = {}
  BY <1>0, InTreeFacts
<1>2. key[n] \in Int /\ op[p].key \in Int
  <2>1. InTree \subseteq Nodes /\ key \in [Nodes -> Keys] /\ Keys \subseteq Int /\ op[p].key \in Keys
    BY <1>0, InTreeFacts, BstAssumption DEF TypeOK, Ops
  <2> QED BY <1>0, <2>1
<1>3. SUFFICES ASSUME NEW x \in InTree, key[x] = op[p].key PROVE FALSE
  OBVIOUS
<1>4. x \in Below(n) /\ x # n
  BY <1>3, NotElsewhere
<1>5. CASE x \in Below(left[n])
  <2>1. op[p].key < key[n] /\ left[n] # NULL
    BY <1>0, <1>1, <1>3, <1>5 DEF TreeInv
  <2> QED BY <2>1 DEF Child
<1>6. CASE x \in Below(right[n])
  <2>1. key[n] < op[p].key /\ right[n] # NULL
    BY <1>0, <1>1, <1>3, <1>6 DEF TreeInv
  <2>2. ~(op[p].key < key[n])
    BY <1>2, <2>1
  <2> QED BY <2>1, <2>2 DEF Child
<1> QED BY <1>1, <1>4, <1>5, <1>6

\* The dictionary of the nodes in T with their keys and values.
Map(T, ky, vl) == [k \in Keys |-> IF \E n \in T : ky[n] = k THEN vl[CHOOSE n \in T : ky[n] = k] ELSE NULL]

\* What that dictionary has for a key, when no two nodes have the same.
LEMMA Mapped ==
    ASSUME NEW T, NEW ky, NEW vl, \A x, y \in T : ky[x] = ky[y] => x = y
    PROVE  \A k \in Keys : /\ \A n \in T : ky[n] = k => Map(T, ky, vl)[k] = vl[n]
                           /\ (\A n \in T : ky[n] # k) => Map(T, ky, vl)[k] = NULL
<1> SUFFICES ASSUME NEW k \in Keys
             PROVE  /\ \A n \in T : ky[n] = k => Map(T, ky, vl)[k] = vl[n]
                    /\ (\A n \in T : ky[n] # k) => Map(T, ky, vl)[k] = NULL
  OBVIOUS
<1>1. Map(T, ky, vl)[k] = IF \E n \in T : ky[n] = k THEN vl[CHOOSE n \in T : ky[n] = k] ELSE NULL
  BY DEF Map
<1>2. ASSUME NEW n \in T, ky[n] = k PROVE Map(T, ky, vl)[k] = vl[n]
  <2>1. (CHOOSE x \in T : ky[x] = k) \in T /\ ky[CHOOSE x \in T : ky[x] = k] = k
    BY <1>2
  <2>2. (CHOOSE x \in T : ky[x] = k) = n
    BY <1>2, <2>1
  <2> QED BY <1>1, <1>2, <2>2
<1> QED BY <1>1, <1>2

\* What a state's dictionary has.
LEMMA Holdings ==
    ASSUME Inv
    PROVE  /\ Contents = Map(InTree, key, value)
           /\ \A n \in InTree : /\ key[n] \in Keys /\ Contents[key[n]] = value[n]
                                /\ value[n] \in Values /\ value[n] # NULL
           /\ \A k \in Keys : (\A n \in InTree : key[n] # k) => Contents[k] = NULL
<1>1. Contents = Map(InTree, key, value)
  BY DEF Contents, Map
<1>2. \A x, y \in InTree : key[x] = key[y] => x = y
  BY KeysUnique DEF Inv
<1>3. /\ InTree \subseteq Nodes /\ key \in [Nodes -> Keys] /\ value \in [Nodes -> Values] /\ NULL \notin Values
  BY InTreeFacts, BstAssumption DEF Inv, TypeOK
<1>4. \A n \in InTree : key[n] \in Keys /\ value[n] \in Values /\ value[n] # NULL
  BY <1>3
<1> QED BY <1>1, <1>2, <1>4, Mapped

\* The dictionary is a function.
LEMMA ContentsFunction ==
    /\ Contents = [k \in Keys |-> Contents[k]]
    /\ Contents' = [k \in Keys |-> Contents'[k]]
BY DEF Contents

\* A step that leaves root and nodes alone leaves the dictionary as it was.
LEMMA ContentsKept ==
    ASSUME UNCHANGED <<root, fields>>
    PROVE  Contents' = Contents
<1>1. InTree' = InTree /\ key' = key /\ value' = value
  BY TreeKept DEF fields
<1> QED BY <1>1 DEF Contents

\* What a state's dictionary has after a step.
LEMMA HoldingsNext ==
    ASSUME Inv'
    PROVE  /\ \A n \in InTree' : /\ key'[n] \in Keys /\ Contents'[key'[n]] = value'[n]
                                 /\ value'[n] \in Values /\ value'[n] # NULL
           /\ \A k \in Keys : (\A n \in InTree' : key'[n] # k) => Contents'[k] = NULL
           /\ \A x, y \in InTree' : key'[x] = key'[y] => x = y
<1>1. Contents' = Map(InTree', key', value')
  BY DEF Contents, Map
<1>2. \A x, y \in InTree' : key'[x] = key'[y] => x = y
  <2>1. (TypeOK /\ TreeInv => \A x, y \in InTree : key[x] = key[y] => x = y)'
    BY KeysUnique, PTL
  <2> QED BY <2>1 DEF Inv
<1>3. /\ InTree' \subseteq Nodes /\ key' \in [Nodes -> Keys] /\ value' \in [Nodes -> Values] /\ NULL \notin Values
  <2>1. (TypeOK => InTree \subseteq Nodes)'
    BY InTreeFacts, PTL
  <2> QED BY <2>1, BstAssumption DEF Inv, TypeOK
<1>4. \A n \in InTree' : key'[n] \in Keys /\ value'[n] \in Values /\ value'[n] # NULL
  BY <1>3
<1> QED BY <1>1, <1>2, <1>4, Mapped

\* An operation takes effect.
Effects(p) == \/ Linear!Insert(p, op[p]) \/ Linear!Lookup(p, op[p]) \/ Linear!Delete(p, op[p])

\* That is a step of the dictionary.
LEMMA EffectIsStep ==
    ASSUME NEW p \in Threads, op[p] # NULL, Effects(p)
    PROVE  Linear!DNext
BY DEF Effects, Linear!DNext

\* The result of an operation is the one that the dictionary before it gives.
LEMMA Answers ==
    ASSUME NEW p \in Threads, op[p] # NULL, NEW r, Returns(p, r), Contents' = Contents,
           \/ op[p].type = "lookup" /\ r = IF Contents[op[p].key] = NULL THEN "-1" ELSE Contents[op[p].key]
           \/ op[p].type = "insert" /\ Contents[op[p].key] # NULL /\ r = "-1"
           \/ op[p].type = "insert" /\ Contents[op[p].key] = NULL /\ r = "no memory"
           \/ op[p].type = "delete" /\ Contents[op[p].key] = NULL /\ r = "-1"
    PROVE  Linear!DNext
<1>1. Linear!Effect(p, r, Contents)
  BY DEF Linear!Effect, Returns
<1>2. Effects(p)
  BY <1>1 DEF Effects, Linear!Insert, Linear!Lookup, Linear!Delete
<1> QED BY <1>2, EffectIsStep

\* An insert that finds its key absent and adds it is a step of the dictionary.
LEMMA Added ==
    ASSUME NEW p \in Threads, op[p] # NULL, Returns(p, "0"), op[p].type = "insert",
           Contents[op[p].key] = NULL, Contents' = [Contents EXCEPT ![op[p].key] = op[p].value]
    PROVE  Linear!DNext
<1>1. Linear!Effect(p, "0", [Contents EXCEPT ![op[p].key] = op[p].value])
  BY DEF Linear!Effect, Returns
<1>2. Effects(p)
  BY <1>1 DEF Effects, Linear!Insert
<1> QED BY <1>2, EffectIsStep

\* A delete that finds its key and removes it is a step of the dictionary.
LEMMA Removed ==
    ASSUME NEW p \in Threads, op[p] # NULL, Returns(p, "0"), op[p].type = "delete",
           Contents[op[p].key] # NULL, Contents' = [Contents EXCEPT ![op[p].key] = NULL]
    PROVE  Linear!DNext
<1>1. Linear!Effect(p, "0", [Contents EXCEPT ![op[p].key] = NULL])
  BY DEF Linear!Effect, Returns
<1>2. Effects(p)
  BY <1>1 DEF Effects, Linear!Delete
<1> QED BY <1>2, EffectIsStep

\* A new node with a key that was nowhere.
LEMMA AddedKey ==
    ASSUME Inv, Inv', NEW k \in Keys, NEW v \in Values, \A x \in InTree : key[x] # k,
           NEW m \in Nodes, m \notin InTree, InTree' = InTree \cup {m},
           key' = [key EXCEPT ![m] = k], value' = [value EXCEPT ![m] = v]
    PROVE  Contents[k] = NULL /\ Contents' = [Contents EXCEPT ![k] = v]
<1>0. InTree \subseteq Nodes /\ key \in [Nodes -> Keys] /\ value \in [Nodes -> Values]
  BY InTreeFacts DEF Inv, TypeOK
<1>1. Contents[k] = NULL
  BY Holdings
<1>2. /\ key'[m] = k /\ value'[m] = v
      /\ \A x \in InTree : key'[x] = key[x] /\ value'[x] = value[x]
  BY <1>0
<1>3. ASSUME NEW j \in Keys PROVE Contents'[j] = IF j = k THEN v ELSE Contents[j]
  <2>1. CASE j = k
    BY <1>2, <2>1, HoldingsNext
  <2>2. CASE j # k /\ \E x \in InTree : key[x] = j
    <3>1. PICK x \in InTree : key[x] = j
      BY <2>2
    <3>2. Contents[j] = value[x] /\ Contents'[j] = value'[x]
      BY <1>2, <3>1, Holdings, HoldingsNext
    <3> QED BY <1>2, <2>2, <3>2
  <2>3. CASE j # k /\ \A x \in InTree : key[x] # j
    <3>1. \A x \in InTree' : key'[x] # j
      BY <1>2, <2>3
    <3>2. Contents[j] = NULL /\ Contents'[j] = NULL
      BY <2>3, <3>1, Holdings, HoldingsNext
    <3> QED BY <2>3, <3>2
  <2> QED BY <2>1, <2>2, <2>3
<1>4. Contents' = [Contents EXCEPT ![k] = v]
  BY <1>3, ContentsFunction
<1> QED BY <1>1, <1>4

\* A key that was in the tree is gone, the others are there with their values.
LEMMA RemovedKey ==
    ASSUME Inv, Inv', NEW c \in InTree, NEW k, k = key[c],
           \A x \in InTree' : key'[x] # k,
           \A x \in InTree : x # c => \E y \in InTree' : key'[y] = key[x] /\ value'[y] = value[x],
           \A y \in InTree' : \E x \in InTree : key[x] = key'[y]
    PROVE  Contents[k] # NULL /\ Contents' = [Contents EXCEPT ![k] = NULL]
<1>1. k \in Keys /\ Contents[k] # NULL
  BY Holdings
<1>2. ASSUME NEW j \in Keys PROVE Contents'[j] = IF j = k THEN NULL ELSE Contents[j]
  <2>1. CASE j = k
    BY <2>1, HoldingsNext
  <2>2. CASE j # k /\ \E x \in InTree : key[x] = j
    <3>1. PICK x \in InTree : key[x] = j
      BY <2>2
    <3>2. x # c
      BY <2>2, <3>1
    <3>3. PICK y \in InTree' : key'[y] = key[x] /\ value'[y] = value[x]
      BY <3>2
    <3>4. Contents[j] = value[x] /\ Contents'[j] = value'[y]
      BY <3>1, <3>3, Holdings, HoldingsNext
    <3> QED BY <2>2, <3>3, <3>4
  <2>3. CASE j # k /\ \A x \in InTree : key[x] # j
    <3>1. \A y \in InTree' : key'[y] # j
      BY <2>3
    <3>2. Contents[j] = NULL /\ Contents'[j] = NULL
      BY <2>3, <3>1, Holdings, HoldingsNext
    <3> QED BY <2>3, <3>2
  <2> QED BY <2>1, <2>2, <2>3
<1>3. Contents' = [Contents EXCEPT ![k] = NULL]
  BY <1>1, <1>2, ContentsFunction
<1> QED BY <1>1, <1>3

\* A step of the tree is a step of the dictionary, or one that it does not see.
Linearized == Linear!DNext \/ Linear!dvars' = Linear!dvars

\* Moving down, locking and freeing is not seen.
LEMMA Unseen ==
    ASSUME UNCHANGED <<root, fields, op, res>>
    PROVE  Linearized
<1>1. Contents' = Contents /\ op' = op /\ res' = res
  BY ContentsKept
<1> QED BY <1>1 DEF Linearized, Linear!dvars

\* A call is a call.
LEMMA CallSeen ==
    ASSUME Inv, NEW p \in Threads, CallOp(p)
    PROVE  Linearized
<1>1. op[p] = NULL
  BY DEF CallOp, Inv, Place
<1>2. Contents' = Contents
  BY ContentsKept DEF CallOp
<1>3. PICK o \in Ops : op' = [op EXCEPT ![p] = o]
  BY DEF CallOp
<1>4. Linear!Call(p, o)
  BY <1>1, <1>2, <1>3 DEF CallOp, Linear!Call
<1> QED BY <1>4 DEF Linearized, Linear!DNext

\* A thread that has called has an operation.
LEMMA Busy ==
    ASSUME Inv, NEW p \in Threads, pc[p] \notin {"idle", "free"}
    PROVE  op[p] # NULL /\ op[p] \in Ops /\ op[p].key \in Keys
<1>1. op[p] # NULL /\ op[p] \in Ops
  BY DEF Inv, Place, TypeOK
<1>2. op[p].key \in Keys
  BY <1>1 DEF Ops
<1> QED BY <1>1, <1>2

\* An operation on the empty tree takes effect when it has the tree lock.
LEMMA EmptySeen ==
    ASSUME Inv, Inv', NEW p \in Threads, EmptyTree(p)
    PROVE  Linearized
<1>0. pc[p] = "tree" /\ root = NULL /\ op[p] # NULL /\ op[p] \in Ops /\ op[p].key \in Keys
  BY Busy DEF EmptyTree
<1>1. InTree = {} /\ TypeOK
  BY <1>0, InTreeFacts DEF Inv
<1>2. Contents[op[p].key] = NULL
  BY <1>0, <1>1, Holdings
<1>3. CASE op[p].type # "insert" /\ Returns(p, "-1") /\ UNCHANGED <<root, fields, alloc>>
  <2>1. op[p].type = "lookup" \/ op[p].type = "delete"
    BY <1>0, <1>3 DEF Ops
  <2>2. Contents' = Contents
    BY <1>3, ContentsKept
  <2> QED BY <1>0, <1>2, <1>3, <2>1, <2>2, Answers DEF Linearized
<1>4. CASE op[p].type = "insert" /\ Returns(p, "no memory") /\ UNCHANGED <<root, fields, alloc>>
  <2>1. Contents' = Contents
    BY <1>4, ContentsKept
  <2> QED BY <1>0, <1>2, <1>4, <2>1, Answers DEF Linearized
<1>5. ASSUME op[p].type = "insert", Returns(p, "0"), NEW m \in Nodes, NewNode(m, op[p]), root' = m,
             left' = [left EXCEPT ![m] = NULL], right' = [right EXCEPT ![m] = NULL]
      PROVE  Linearized
  <2>1. left' \in Links /\ right' \in Links /\ left'[m] = NULL /\ right'[m] = NULL /\ m # NULL
    BY <1>1, <1>5, InTreeFacts, BstAssumption DEF Links
  <2>2. InTree' = {m}
    <3>1. InTree' = Sub(left', right', m)
      BY <1>5 DEF InTree, Reach, Sub
    <3>2. \A l, r \in Links : l[m] = NULL /\ r[m] = NULL => Sub(l, r, m) = {m}
      BY <2>1, SubSplit, SubNull
    <3> QED BY <2>1, <3>1, <3>2
  <2>3. op[p].value \in Values
    BY <1>0, <1>5 DEF Ops
  <2>4. key' = [key EXCEPT ![m] = op[p].key] /\ value' = [value EXCEPT ![m] = op[p].value]
    BY <1>5 DEF NewNode
  <2>5. InTree' = InTree \cup {m} /\ m \notin InTree /\ \A x \in InTree : key[x] # op[p].key
    BY <1>1, <2>2
  <2>6. Contents' = [Contents EXCEPT ![op[p].key] = op[p].value]
    BY <1>0, <2>3, <2>4, <2>5, AddedKey
  <2> QED BY <1>0, <1>2, <1>5, <2>6, Added DEF Linearized
<1> QED BY <1>3, <1>4, <1>5 DEF EmptyTree

\* Insert and lookup take effect at the node that has the key or the free link.
LEMMA VisitSeen ==
    ASSUME Inv, Inv', NEW p \in Threads, VisitRoot(p) \/ VisitChild(p)
    PROVE  Linearized
<1> DEFINE n == next[p]
<1>0. /\ Seeks(p) /\ op[p].type \in {"insert", "lookup"} /\ root' = root
      /\ \/ Found(p, n, Holds(p)) \/ InsertLeaf(p, n, Holds(p))
         \/ LookupFails(p, n, Holds(p)) \/ Descend(p, n, Holds(p))
  BY Visiting
<1>1. n = next[p] /\ n \in InTree /\ op[p] # NULL /\ op[p] \in Ops /\ op[p].key \in Keys
  BY <1>0, Busy, Reached DEF Seeks, Guarded
<1> HIDE DEF n
<1>2. ASSUME UNCHANGED fields PROVE Contents' = Contents
  BY <1>0, <1>2, ContentsKept
<1>3. ASSUME key[n] # op[p].key, Child(n, op[p].key) = NULL
      PROVE  Contents[op[p].key] = NULL /\ \A x \in InTree : key[x] # op[p].key
  BY <1>0, <1>1, <1>3, NotThere, Holdings
<1>4. CASE Found(p, n, Holds(p))
  <2>1. /\ key[n] = op[p].key /\ UNCHANGED fields
        /\ Returns(p, IF op[p].type = "lookup" THEN value[n] ELSE "-1")
    BY <1>4 DEF Found
  <2>2. Contents[op[p].key] = value[n] /\ value[n] # NULL
    BY <1>1, <2>1, Holdings
  <2>3. Contents' = Contents
    BY <1>2, <2>1
  <2>4. CASE op[p].type = "lookup"
    <3>1. Returns(p, value[n])
      BY <2>1, <2>4
    <3> QED BY <1>1, <2>2, <2>3, <2>4, <3>1, Answers DEF Linearized
  <2>5. CASE op[p].type = "insert"
    <3>1. Returns(p, "-1")
      BY <2>1, <2>5
    <3> QED BY <1>1, <2>2, <2>3, <2>5, <3>1, Answers DEF Linearized
  <2> QED BY <1>0, <2>4, <2>5
<1>5. CASE LookupFails(p, n, Holds(p))
  <2>1. op[p].type = "lookup" /\ key[n] # op[p].key /\ Child(n, op[p].key) = NULL /\ Returns(p, "-1") /\ UNCHANGED fields
    BY <1>5 DEF LookupFails
  <2> QED BY <1>1, <1>2, <1>3, <2>1, Answers DEF Linearized
<1>6. CASE Descend(p, n, Holds(p))
  BY <1>0, <1>6, Unseen DEF Descend, DescendTo
<1>7. CASE InsertLeaf(p, n, Holds(p))
  <2>1. op[p].type = "insert" /\ key[n] # op[p].key /\ Child(n, op[p].key) = NULL
    BY <1>7 DEF InsertLeaf
  <2>2. CASE Returns(p, "no memory") /\ UNCHANGED <<fields, alloc>>
    BY <1>1, <1>2, <1>3, <2>1, <2>2, Answers DEF Linearized
  <2>3. ASSUME NEW m \in Nodes, NewNode(m, op[p]), Returns(p, "0"),
               left' = [left EXCEPT ![m] = NULL, ![n] = IF op[p].key < key[n] THEN m ELSE @],
               right' = [right EXCEPT ![m] = NULL, ![n] = IF op[p].key < key[n] THEN @ ELSE m]
        PROVE  Linearized
    <3>1. m \in Nodes \ InTree /\ \E isleft \in BOOLEAN : Planted(n, m, isleft)
      BY <1>0, <1>1, <2>1, <2>3, Plants
    <3>2. InTree' = InTree \cup {m}
      BY <1>1, <3>1, Hung DEF Inv
    <3>3. key' = [key EXCEPT ![m] = op[p].key] /\ value' = [value EXCEPT ![m] = op[p].value]
      BY <2>3 DEF NewNode
    <3>4. op[p].value \in Values
      BY <1>1, <2>1 DEF Ops
    <3>5. Contents[op[p].key] = NULL /\ \A x \in InTree : key[x] # op[p].key
      BY <1>3, <2>1
    <3>6. Contents' = [Contents EXCEPT ![op[p].key] = op[p].value]
      BY <1>1, <3>1, <3>2, <3>3, <3>4, <3>5, AddedKey
    <3> QED BY <1>1, <2>1, <2>3, <3>5, <3>6, Added DEF Linearized
  <2> QED BY <1>7, <2>2, <2>3 DEF InsertLeaf
<1> QED BY <1>0, <1>4, <1>5, <1>6, <1>7

\* Delete takes effect when it unlinks the node, or finds the free link.
LEMMA DeleteSeen ==
    ASSUME Inv, Inv', NEW p \in Threads, DeleteRoot(p) \/ DeleteChild(p)
    PROVE  Linearized
<1> DEFINE n == next[p]
<1>0. Seeks(p) /\ op[p].type = "delete"
  BY Deleting
<1>1. PICK l \in BOOLEAN : /\ pc[p] = "child" => l = is_left[p]
                           /\ \/ Unlink(p, n, Holds(p), l) \/ SeekSuccessor(p, n, Holds(p))
                              \/ DeleteFails(p, n, Holds(p)) \/ DeleteDescends(p, n, Holds(p))
  BY Deleting
<1>2. n = next[p] /\ n \in InTree /\ op[p] # NULL /\ op[p].key \in Keys /\ TypeOK /\ TreeInv
  BY <1>0, Busy, Reached DEF Seeks, Guarded, Inv
<1> HIDE DEF n
<1>3. CASE Unlink(p, n, Holds(p), l)
  <2>1. TakenOut(n) /\ key[n] = op[p].key /\ Returns(p, "0") /\ key' = key /\ value' = value
    BY <1>0, <1>1, <1>2, <1>3, UnlinkTakesOut DEF Unlink
  <2>2. InTree' = InTree \ {n}
    BY <1>2, <2>1, Unlinked
  <2>3. \A x, y \in InTree : key[x] = key[y] => x = y
    BY <1>2, KeysUnique
  <2>4. \A x \in InTree' : key'[x] # op[p].key
    BY <1>2, <2>1, <2>2, <2>3
  <2>5. \A x \in InTree : x # n => \E y \in InTree' : key'[y] = key[x] /\ value'[y] = value[x]
    BY <2>1, <2>2
  <2>6. \A y \in InTree' : \E x \in InTree : key[x] = key'[y]
    BY <2>1, <2>2
  <2>7. op[p].key = key[n]
    BY <2>1
  <2>8. Contents[op[p].key] # NULL /\ Contents' = [Contents EXCEPT ![op[p].key] = NULL]
    BY <1>2, <2>4, <2>5, <2>6, <2>7, RemovedKey
  <2> QED BY <1>0, <1>2, <2>1, <2>8, Removed DEF Linearized
<1>4. CASE SeekSuccessor(p, n, Holds(p))
  BY <1>4, Unseen DEF SeekSuccessor
<1>5. CASE DeleteDescends(p, n, Holds(p))
  BY <1>5, Unseen DEF DeleteDescends
<1>6. CASE DeleteFails(p, n, Holds(p))
  <2>1. key[n] # op[p].key /\ Child(n, op[p].key) = NULL /\ Returns(p, "-1") /\ UNCHANGED <<root, fields>>
    BY <1>6 DEF DeleteFails
  <2>2. Contents[op[p].key] = NULL
    BY <1>0, <1>2, <2>1, NotThere, Holdings
  <2>3. Contents' = Contents
    BY <2>1, ContentsKept
  <2> QED BY <1>0, <1>2, <2>1, <2>2, <2>3, Answers DEF Linearized
<1> QED BY <1>1, <1>3, <1>4, <1>5, <1>6

\* The key to delete is gone once its node has the successor's, which is in
\* one node again when the successor is out of the tree.
LEMMA TakeSeen ==
    ASSUME Inv, Inv', NEW p \in Threads, SuccessorTake(p)
    PROVE  Linearized
<1> DEFINE s == next[p]
           c == cur[p]
<1>0. /\ TakenOut(s) /\ s \in InTree /\ c \in InTree /\ s # c
      /\ op[p].type = "delete" /\ op[p].key = key[c] /\ TypeOK /\ TreeInv
  BY SuccessorOut DEF Inv
<1>1. /\ pc[p] = "succ" /\ Returns(p, "0")
      /\ key' = [key EXCEPT ![c] = key[s]] /\ value' = [value EXCEPT ![c] = value[s]]
  BY DEF SuccessorTake, ReplaceSuccessor
<1>2. op[p] # NULL
  BY <1>1, Busy
<1> HIDE DEF s, c
<1>3. InTree' = InTree \ {s}
  BY <1>0, Unlinked
<1>4. \A x, y \in InTree : key[x] = key[y] => x = y
  BY <1>0, KeysUnique
<1>5. /\ key'[c] = key[s] /\ value'[c] = value[s]
      /\ \A x \in InTree : x # c => key'[x] = key[x] /\ value'[x] = value[x]
  <2>1. InTree \subseteq Nodes /\ key \in [Nodes -> Keys] /\ value \in [Nodes -> Values]
    BY <1>0, InTreeFacts DEF TypeOK
  <2> QED BY <1>0, <1>1, <2>1
<1>6. \A x \in InTree' : key'[x] # op[p].key
  BY <1>0, <1>3, <1>4, <1>5
<1>7. \A x \in InTree : x # c => \E y \in InTree' : key'[y] = key[x] /\ value'[y] = value[x]
  BY <1>0, <1>3, <1>5
<1>8. \A y \in InTree' : \E x \in InTree : key[x] = key'[y]
  BY <1>0, <1>3, <1>5
<1>9. Contents[op[p].key] # NULL /\ Contents' = [Contents EXCEPT ![op[p].key] = NULL]
  BY <1>0, <1>6, <1>7, <1>8, RemovedKey
<1> QED BY <1>0, <1>1, <1>2, <1>9, Removed DEF Linearized

\* Every step of the tree is a step of the dictionary or is not seen.
LEMMA StepSeen ==
    ASSUME Inv, Inv', [Next]_vars
    PROVE  Linearized
<1>1. ASSUME NEW p \in Threads, CallOp(p) PROVE Linearized
  BY <1>1, CallSeen
<1>2. ASSUME NEW p \in Threads, EmptyTree(p) PROVE Linearized
  BY <1>2, EmptySeen
<1>3. ASSUME NEW p \in Threads, VisitRoot(p) \/ VisitChild(p) PROVE Linearized
  BY <1>3, VisitSeen
<1>4. ASSUME NEW p \in Threads, DeleteRoot(p) \/ DeleteChild(p) PROVE Linearized
  BY <1>4, DeleteSeen
<1>5. ASSUME NEW p \in Threads, SuccessorTake(p) PROVE Linearized
  BY <1>5, TakeSeen
<1>6. ASSUME NEW p \in Threads, LockTree(p) \/ SuccessorStep(p) \/ FreeNode(p) PROVE Linearized
  BY <1>6, Unseen DEF LockTree, SuccessorStep, FreeNode
<1>7. CASE Destroy \/ UNCHANGED vars
  BY <1>7, Unseen DEF Destroy, vars
<1> QED BY <1>1, <1>2, <1>3, <1>4, <1>5, <1>6, <1>7 DEF Next, Step, Terminated

\* The tree of bst_init is an empty dictionary.
LEMMA StartSeen == Init => Linear!DInit
<1> SUFFICES ASSUME Init PROVE Linear!DInit
  OBVIOUS
<1>1. Inv
  BY Begins
<1>2. InTree = {}
  BY <1>1, InTreeFacts DEF Init, Inv
<1>3. \A k \in Keys : Contents[k] = NULL
  BY <1>1, <1>2, Holdings
<1>4. Contents \in [Keys -> Values \cup {NULL}]
  BY <1>3, ContentsFunction
<1> QED BY <1>4 DEF Init, Quiet, Linear!DInit

\* Threads that insert, look up and delete at once see one dictionary: each
\* operation takes effect with the result it returns at one instant between
\* its call and its return, whatever the locks that the others hold.
THEOREM OperationsLinearizable == Spec => Linearizable
<1>1. Inv /\ Inv' /\ [Next]_vars => [Linear!DNext]_(Linear!dvars)
  BY StepSeen DEF Linearized
<1> QED BY <1>1, StartSeen, TreeInvariant, PTL DEF Spec, Linearizable, Linear!DSpec
=============================================================================
