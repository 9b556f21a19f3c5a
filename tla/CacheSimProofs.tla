--------------------------- MODULE CacheSimProofs ---------------------------
(* Theorems about CacheSim, for caches of any shape and traces of any length.*)
(* The invariant says of each set of lines that a valid line's counter is    *)
(* the last use of its block, and that a block that was used and is gone is  *)
(* older than every line of its set, all of which are valid.                 *)
EXTENDS CacheSim, FiniteSetTheorems, WellFoundedInduction, TLAPS

-----------------------------------------------------------------------------
(* Numbers *)

\* A set of numbers that is not empty has a least one.
LEMMA LeastNumber ==
    ASSUME NEW S \in SUBSET Nat, S # {}
    PROVE  \E n \in S : \A m \in S : n <= m
<1> DEFINE R == OpToRel(<, Nat)
<1>1. IsWellFoundedOn(R, Nat)
  BY NatLessThanWellFounded, Zenon
<1>2. \A n, m \in Nat : <<n, m>> \in R <=> n < m
  BY DEF OpToRel
<1> HIDE DEF R
<1>3. PICK n \in S : \A m \in S : ~(<<m, n>> \in R)
  BY <1>1, WFMin
<1>4. \A m \in S : ~(m < n)
  BY <1>2, <1>3
<1> QED BY <1>4

\* Min is that number.
LEMMA MinLeast ==
    ASSUME NEW S \in SUBSET Nat, S # {}
    PROVE  Min(S) \in S /\ \A m \in S : Min(S) <= m
<1>1. \E n \in S : \A m \in S : n <= m
  BY LeastNumber
<1> QED BY <1>1, Zenon DEF Min

\* A set of numbers up to n that is not empty has a greatest one, which is Max.
LEMMA MaxGreatest ==
    ASSUME NEW n \in Nat, NEW S \in SUBSET (1..n), S # {}
    PROVE  Max(S) \in S /\ \A m \in S : m <= Max(S)
<1> DEFINE D == {n - m : m \in S}
<1>1. D \in SUBSET Nat /\ D # {}
  <2>1. \A m \in S : n - m \in Nat
    OBVIOUS
  <2> QED BY <2>1
<1>2. PICK d \in D : \A e \in D : d <= e
  BY <1>1, LeastNumber
<1>3. PICK x \in S : d = n - x
  BY <1>2
<1>4. ASSUME NEW m \in S PROVE m <= x
  <2>1. d <= n - m
    BY <1>2
  <2> QED BY <1>3, <2>1
<1>5. \E y \in S : \A m \in S : y >= m
  BY <1>4
<1>6. Max(S) \in S /\ \A m \in S : Max(S) >= m
  BY <1>5, Zenon DEF Max
<1> QED BY <1>6

\* f is the function of Pow2 up to n.
Doubles(f, n) == f = [i \in 0..n |-> IF i = 0 THEN 1 ELSE 2 * f[i - 1]]

\* It exists.
LEMMA DoublesExist ==
    ASSUME NEW n \in Nat
    PROVE  \E f : Doubles(f, n)
<1> DEFINE Bad == {i \in Nat : ~\E f : Doubles(f, i)}
<1> SUFFICES ASSUME Bad # {} PROVE FALSE
  OBVIOUS
<1>1. PICK k \in Bad : \A i \in Bad : k <= i
  BY LeastNumber
<1>2. CASE k = 0
  <2>1. Doubles([i \in 0..0 |-> 1], 0)
    BY DEF Doubles
  <2> QED BY <1>2, <2>1
<1>3. CASE k # 0
  <2>1. k - 1 \in Nat /\ k - 1 \notin Bad /\ k \in Nat
    BY <1>1, <1>3
  <2>2. PICK f : Doubles(f, k - 1)
    BY <2>1
  <2> DEFINE g == [i \in 0..k |-> IF i = k THEN 2 * f[k - 1] ELSE f[i]]
  <2>3. ASSUME NEW i \in 0..k PROVE g[i] = IF i = 0 THEN 1 ELSE 2 * g[i - 1]
    <3>1. CASE i = 0
      BY <1>3, <2>1, <2>2, <3>1 DEF Doubles
    <3>2. CASE i = k
      <4>1. g[i] = 2 * f[k - 1] /\ g[k - 1] = f[k - 1]
        BY <1>3, <2>1, <3>2
      <4> QED BY <1>3, <3>2, <4>1
    <3>3. CASE i # 0 /\ i # k
      <4>1. g[i] = f[i] /\ g[i - 1] = f[i - 1] /\ i \in 0..(k - 1)
        BY <2>1, <3>3
      <4>2. f[i] = 2 * f[i - 1]
        BY <2>2, <3>3, <4>1 DEF Doubles
      <4> QED BY <3>3, <4>1, <4>2
    <3> QED BY <3>1, <3>2, <3>3
  <2>4. Doubles(g, k)
    BY <2>3 DEF Doubles
  <2> QED BY <1>1, <2>4
<1> QED BY <1>2, <1>3

\* Two such functions agree where both are defined.
LEMMA DoublesAgree ==
    ASSUME NEW n \in Nat, NEW m \in Nat, NEW f, NEW g, Doubles(f, n), Doubles(g, m)
    PROVE  \A i \in 0..n : i <= m => f[i] = g[i] /\ f[i] \in Nat \ {0}
<1> DEFINE Bad == {i \in 0..n : i <= m /\ ~(f[i] = g[i] /\ f[i] \in Nat \ {0})}
<1> SUFFICES ASSUME Bad # {} PROVE FALSE
  OBVIOUS
<1>0. Bad \in SUBSET Nat
  OBVIOUS
<1>1. PICK k \in Bad : \A i \in Bad : k <= i
  BY <1>0, LeastNumber
<1>2. CASE k = 0
  BY <1>1, <1>2 DEF Doubles
<1>3. CASE k # 0
  <2>1. k - 1 \in 0..n /\ k - 1 <= m /\ k - 1 \notin Bad /\ k \in 0..n /\ k \in 0..m
    BY <1>1, <1>3
  <2>2. f[k - 1] = g[k - 1] /\ f[k - 1] \in Nat \ {0}
    BY <2>1
  <2>3. f[k] = 2 * f[k - 1] /\ g[k] = 2 * g[k - 1]
    BY <1>3, <2>1 DEF Doubles
  <2>4. f[k] = g[k] /\ f[k] \in Nat \ {0}
    BY <2>2, <2>3
  <2> QED BY <1>1, <2>4
<1> QED BY <1>2, <1>3

\* Pow2 is its last value.
LEMMA Pow2Is ==
    ASSUME NEW n \in Nat
    PROVE  \E f : Doubles(f, n) /\ Pow2(n) = f[n]
<1>1. \E f : Doubles(f, n)
  BY DoublesExist
<1> DEFINE F == CHOOSE f : Doubles(f, n)
<1>2. Doubles(F, n)
  BY <1>1
<1>3. Pow2(n) = F[n]
  BY Zenon DEF Pow2, Doubles
<1> QED BY <1>2, <1>3

\* Pow2 is a positive number.
LEMMA Pow2Type ==
    ASSUME NEW n \in Nat
    PROVE  Pow2(n) \in Nat \ {0}
<1>1. PICK f : Doubles(f, n) /\ Pow2(n) = f[n]
  BY Pow2Is
<1>2. f[n] \in Nat \ {0}
  BY <1>1, DoublesAgree
<1> QED BY <1>1, <1>2

\* Pow2 doubles from one number to the next.
LEMMA Pow2Next ==
    ASSUME NEW n \in Nat
    PROVE  Pow2(n + 1) = 2 * Pow2(n)
<1>1. PICK f : Doubles(f, n) /\ Pow2(n) = f[n]
  BY Pow2Is
<1>2. PICK g : Doubles(g, n + 1) /\ Pow2(n + 1) = g[n + 1]
  BY Pow2Is
<1>3. f[n] = g[n]
  BY <1>1, <1>2, DoublesAgree
<1>4. g[n + 1] = 2 * g[n]
  BY <1>2 DEF Doubles
<1> QED BY <1>1, <1>2, <1>3, <1>4

\* Shifting by a sum.
LEMMA Pow2Sum ==
    ASSUME NEW m \in Nat, NEW n \in Nat
    PROVE  Pow2(m + n) = Pow2(m) * Pow2(n)
<1> DEFINE Bad == {i \in Nat : Pow2(m + i) # Pow2(m) * Pow2(i)}
<1> SUFFICES ASSUME Bad # {} PROVE FALSE
  OBVIOUS
<1>1. PICK k \in Bad : \A i \in Bad : k <= i
  BY LeastNumber
<1>2. Pow2(0) = 1
  <2>1. PICK f : Doubles(f, 0) /\ Pow2(0) = f[0]
    BY Pow2Is
  <2> QED BY <2>1 DEF Doubles
<1>3. CASE k = 0
  <2>1. m + 0 = m /\ Pow2(m) * 1 = Pow2(m)
    BY Pow2Type
  <2> QED BY <1>1, <1>2, <1>3, <2>1
<1>4. CASE k # 0
  <2>1. k - 1 \in Nat /\ k - 1 \notin Bad /\ m + k = (m + (k - 1)) + 1 /\ k = (k - 1) + 1 /\ m + (k - 1) \in Nat
    BY <1>1, <1>4
  <2>2. Pow2(m + (k - 1)) = Pow2(m) * Pow2(k - 1)
    BY <2>1
  <2>3. Pow2(m + k) = 2 * Pow2(m + (k - 1)) /\ Pow2(k) = 2 * Pow2(k - 1)
    BY <2>1, Pow2Next
  <2>4. \A x, y \in Nat : 2 * (x * y) = x * (2 * y)
    OBVIOUS
  <2>5. Pow2(m) \in Nat /\ Pow2(k - 1) \in Nat
    BY <2>1, Pow2Type
  <2>6. 2 * (Pow2(m) * Pow2(k - 1)) = Pow2(m) * (2 * Pow2(k - 1))
    BY <2>4, <2>5
  <2> QED BY <1>1, <2>2, <2>3, <2>6
<1> QED BY <1>3, <1>4

\* A larger factor gives a larger product.
LEMMA TimesMonotone ==
    ASSUME NEW m \in Nat, NEW x \in Int, NEW y \in Int, x <= y
    PROVE  m * x <= m * y
<1>1. y - x \in Nat
  OBVIOUS
<1>2. \A k \in Nat : m * k >= 0
  OBVIOUS
<1>3. m * (y - x) >= 0
  BY <1>1, <1>2
<1>4. m * (y - x) = m * y - m * x
  OBVIOUS
<1> QED BY <1>3, <1>4

\* Quotient and remainder are the only numbers of their kind.
LEMMA DivUnique ==
    ASSUME NEW m \in Nat \ {0}, NEW q \in Int, NEW r \in 0..(m - 1)
    PROVE  (m * q + r) \div m = q /\ (m * q + r) % m = r
<1> DEFINE x == m * q + r
           d == x \div m
           e == x % m
<1>1. x \in Int
  OBVIOUS
<1> HIDE DEF x
<1>2. d \in Int /\ e \in 0..(m - 1) /\ x = m * d + e
  BY <1>1
<1> HIDE DEF d, e
<1>3. m * d + e = m * q + r
  BY <1>2 DEF x
<1>4. CASE d >= q + 1
  <2>1. m * (q + 1) <= m * d
    BY <1>2, <1>4, TimesMonotone
  <2>2. m * (q + 1) = m * q + m
    OBVIOUS
  <2>3. m * q \in Int /\ m * d \in Int
    BY <1>2
  <2> QED BY <1>2, <1>3, <2>1, <2>2, <2>3
<1>5. CASE d <= q - 1
  <2>1. m * d <= m * (q - 1)
    BY <1>2, <1>5, TimesMonotone
  <2>2. m * (q - 1) = m * q - m
    OBVIOUS
  <2>3. m * q \in Int /\ m * d \in Int
    BY <1>2
  <2> QED BY <1>2, <1>3, <2>1, <2>2, <2>3
<1>6. CASE d = q
  <2>1. m * q \in Int /\ m * d = m * q
    BY <1>6
  <2>2. e = r
    BY <1>2, <1>3, <2>1
  <2> QED BY <1>6, <2>2 DEF d, e, x
<1> QED BY <1>2, <1>4, <1>5, <1>6

\* Two shifts are one.
LEMMA DivTwice ==
    ASSUME NEW a \in Nat, NEW m \in Nat \ {0}, NEW n \in Nat \ {0}
    PROVE  a \div (m * n) = (a \div n) \div m
<1> DEFINE x == a \div n
           r == a % n
           y == x \div m
           t == x % m
<1>1. x \in Int /\ r \in 0..(n - 1) /\ a = n * x + r
  OBVIOUS
<1> HIDE DEF x, r
<1>2. y \in Int /\ t \in 0..(m - 1) /\ x = m * y + t
  BY <1>1
<1> HIDE DEF y, t
<1>3. m * n \in Nat \ {0}
  <2>1. m * n >= m * 1
    BY TimesMonotone
  <2>2. m * n \in Int /\ m * 1 = m
    OBVIOUS
  <2> QED BY <2>1, <2>2
<1>4. a = (m * n) * y + (n * t + r)
  <2>1. n * x = n * (m * y + t)
    BY <1>2
  <2>2. n * (m * y + t) = (m * n) * y + n * t
    BY <1>2
  <2>3. n * t \in Int /\ (m * n) * y \in Int
    BY <1>2, <1>3
  <2> QED BY <1>1, <2>1, <2>2, <2>3
<1>5. n * t + r \in 0..(m * n - 1)
  <2>1. n * 0 <= n * t /\ n * t <= n * (m - 1)
    BY <1>2, TimesMonotone
  <2>2. n * (m - 1) = m * n - n /\ n * 0 = 0
    OBVIOUS
  <2>3. n * t \in Int /\ m * n \in Int
    BY <1>2, <1>3
  <2> QED BY <1>1, <2>1, <2>2, <2>3
<1> DEFINE mn == m * n
           tr == n * t + r
<1>6. mn \in Nat \ {0} /\ tr \in 0..(mn - 1) /\ a = mn * y + tr
  BY <1>3, <1>4, <1>5
<1> HIDE DEF mn, tr
<1>7. (mn * y + tr) \div mn = y
  BY <1>2, <1>6, DivUnique
<1>8. a \div mn = y
  BY <1>6, <1>7
<1> QED BY <1>8 DEF y, x, mn

-----------------------------------------------------------------------------
(* Addresses, blocks and sets *)

Sized == s \in Nat /\ b \in Nat /\ E \in Nat \ {0}

\* The block with a tag in set i.
BlockOf(i, tag) == Pow2(s) * tag + i
SetOf(k) == k % Pow2(s)
Sets == 0..Pow2(s) - 1

\* A block is its tag and its set, and an address has its block's.
LEMMA BlockFacts ==
    ASSUME Sized, NEW a \in Nat
    PROVE  /\ Block(a) \in Nat /\ Tag(a) \in Nat /\ SetIndex(a) \in Sets
           /\ Block(a) = BlockOf(SetIndex(a), Tag(a))
           /\ SetIndex(a) = SetOf(Block(a))
<1>1. Pow2(s) \in Nat \ {0} /\ Pow2(b) \in Nat \ {0} /\ Pow2(s + b) = Pow2(s) * Pow2(b)
  BY Pow2Type, Pow2Sum DEF Sized
<1>2. Tag(a) = Block(a) \div Pow2(s)
  BY <1>1, DivTwice DEF Tag, Block
<1>3. \A x \in Nat, m \in Nat \ {0} : /\ x \div m \in Nat /\ x % m \in 0..(m - 1)
                                    /\ x = m * (x \div m) + (x % m)
  OBVIOUS
<1>4. Block(a) \in Nat
  BY <1>1, <1>3 DEF Block
<1> QED BY <1>1, <1>2, <1>3, <1>4 DEF SetIndex, Block, BlockOf, SetOf, Sets

\* Which is the only way to write it.
LEMMA BlockOfUnique ==
    ASSUME Sized, NEW i \in Sets, NEW t \in Nat
    PROVE  /\ BlockOf(i, t) \in Nat /\ SetOf(BlockOf(i, t)) = i
           /\ \A u \in Nat : BlockOf(i, t) = BlockOf(i, u) => t = u
<1>1. Pow2(s) \in Nat \ {0}
  BY Pow2Type DEF Sized
<1> DEFINE m == Pow2(s)
<1>0. m \in Nat \ {0} /\ i \in 0..(m - 1)
  BY <1>1 DEF Sets
<1> HIDE DEF m
<1>5. ASSUME NEW u \in Nat PROVE (m * u + i) \div m = u /\ (m * u + i) % m = i
  BY <1>0, DivUnique
<1>2. \A u \in Nat : BlockOf(i, u) \div Pow2(s) = u /\ BlockOf(i, u) % Pow2(s) = i
  BY <1>5 DEF BlockOf, m
<1>3. \A w, x, y \in Nat : w * x + y \in Nat
  OBVIOUS
<1>4. BlockOf(i, t) \in Nat
  BY <1>1, <1>3 DEF BlockOf, Sets
<1> QED BY <1>2, <1>4 DEF SetOf
-----------------------------------------------------------------------------
(* Counting *)

\* A set is no larger than one that f maps onto it.
LEMMA FewImages ==
    ASSUME NEW L, IsFiniteSet(L), NEW U, NEW f, \A x \in U : \E l \in L : f[l] = x
    PROVE  IsFiniteSet(U) /\ Cardinality(U) <= Cardinality(L)
<1> DEFINE g == [x \in U |-> CHOOSE l \in L : f[l] = x]
<1>1. \A x \in U : g[x] \in L /\ f[g[x]] = x
  OBVIOUS
<1>2. g \in [U -> L]
  BY <1>1
<1>3. \A x, y \in U : g[x] = g[y] => x = y
  BY <1>1
<1>4. g \in Injection(U, L)
  BY <1>2, <1>3 DEF Injection, IsInjective
<1> QED BY <1>4, FS_Injection

\* A set is no smaller than one that f maps into it without loss.
LEMMA ManyImages ==
    ASSUME NEW L, NEW U, IsFiniteSet(U), NEW f, \A l \in L : f[l] \in U,
           \A l, m \in L : f[l] = f[m] => l = m
    PROVE  Cardinality(L) <= Cardinality(U)
<1> DEFINE g == [l \in L |-> f[l]]
<1>1. g \in Injection(L, U)
  BY DEF Injection, IsInjective
<1> QED BY <1>1, FS_Injection

-----------------------------------------------------------------------------
(* One set of lines *)

Line == [valid : BOOLEAN, tag : Nat, counter : Nat]

\* Access k is the last one in trace t to the block.
LastUse(t, k, block) == /\ k \in 1..Len(t) /\ Block(t[k]) = block
                        /\ \A l \in 1..Len(t) : k < l => Block(t[l]) # block

\* A valid line's counter is the last use of its block.
LinesRight(c, t, i) == \A j \in 0..E - 1 : c[j].valid => LastUse(t, c[j].counter, BlockOf(i, c[j].tag))

\* No block is in two lines.
TagsApart(c) == \A j, k \in 0..E - 1 : c[j].valid /\ c[k].valid /\ c[j].tag = c[k].tag => j = k

\* A block of the set that was used is in a line, or all lines are in use and
\* were used later.
LeftBehind(c, t, i) == \A k \in 1..Len(t) : SetIndex(t[k]) = i =>
    \/ \E j \in 0..E - 1 : c[j].valid /\ Block(t[k]) = BlockOf(i, c[j].tag)
    \/ \A j \in 0..E - 1 : c[j].valid /\ k < c[j].counter

SetGood(c, t, i) == /\ c \in [0..E - 1 -> Line]
                    /\ LinesRight(c, t, i) /\ TagsApart(c) /\ LeftBehind(c, t, i)

\* What the trace is after an access.
LEMMA Appended ==
    ASSUME NEW t \in Seq(Nat), NEW a \in Nat
    PROVE  /\ Append(t, a) \in Seq(Nat) /\ Len(t) \in Nat /\ Len(Append(t, a)) = Len(t) + 1
           /\ Append(t, a)[Len(t) + 1] = a
           /\ \A k \in 1..Len(t) : Append(t, a)[k] = t[k] /\ t[k] \in Nat
OBVIOUS

\* An access is the last use of its block, and of no other.
LEMMA UseMoves ==
    ASSUME NEW t \in Seq(Nat), NEW a \in Nat
    PROVE  /\ LastUse(Append(t, a), Len(t) + 1, Block(a))
           /\ \A k, block : LastUse(t, k, block) /\ block # Block(a) => LastUse(Append(t, a), k, block)
<1> DEFINE u == Append(t, a)
<1>1. /\ Len(t) \in Nat /\ Len(u) = Len(t) + 1 /\ u[Len(t) + 1] = a
      /\ \A k \in 1..Len(t) : u[k] = t[k]
  BY Appended
<1> HIDE DEF u
<1>2. LastUse(u, Len(t) + 1, Block(a))
  BY <1>1 DEF LastUse
<1>3. ASSUME NEW k, NEW block, LastUse(t, k, block), block # Block(a) PROVE LastUse(u, k, block)
  <2>1. k \in 1..Len(u) /\ Block(u[k]) = block
    BY <1>1, <1>3 DEF LastUse
  <2>2. ASSUME NEW l \in 1..Len(u), k < l PROVE Block(u[l]) # block
    <3>1. l \in 1..Len(t) \/ l = Len(t) + 1
      BY <1>1
    <3> QED BY <1>1, <1>3, <2>2, <3>1 DEF LastUse
  <2> QED BY <2>1, <2>2 DEF LastUse
<1> QED BY <1>2, <1>3 DEF u

\* An access to another set changes nothing.
LEMMA OtherSet ==
    ASSUME Sized, NEW t \in Seq(Nat), NEW a \in Nat, NEW i \in Sets, i # SetIndex(a),
           NEW c, SetGood(c, t, i)
    PROVE  SetGood(c, Append(t, a), i)
<1> DEFINE u == Append(t, a)
<1>1. /\ Len(t) \in Nat /\ Len(u) = Len(t) + 1 /\ u[Len(t) + 1] = a
      /\ \A k \in 1..Len(t) : u[k] = t[k]
  BY Appended
<1> HIDE DEF u
<1>2. ASSUME NEW j \in 0..E - 1, c[j].valid PROVE LastUse(u, c[j].counter, BlockOf(i, c[j].tag))
  <2>1. c[j].tag \in Nat
    BY DEF SetGood, Line
  <2>2. BlockOf(i, c[j].tag) # Block(a)
    BY <2>1, BlockOfUnique, BlockFacts
  <2> QED BY <1>2, <2>2, UseMoves DEF SetGood, LinesRight, u
<1>3. LeftBehind(c, u, i)
  <2>1. \A k \in 1..Len(u) : SetIndex(u[k]) = i => k \in 1..Len(t) /\ u[k] = t[k]
    BY <1>1
  <2> QED BY <2>1 DEF SetGood, LeftBehind
<1> QED BY <1>2, <1>3 DEF SetGood, LinesRight, u

\* The set when line j has got the block of a, in access n.
Used(c, j, a, n) == [c EXCEPT ![j] = [valid |-> TRUE, tag |-> Tag(a), counter |-> n]]

\* The line that access_data takes.
Chosen(c, j, a) ==
    \/ j \in Hits(c, a)
    \/ Hits(c, a) = {} /\ j \in Invalid(c)
    \/ Hits(c, a) = {} /\ Invalid(c) = {} /\ \A k \in 0..E - 1 : c[j].counter <= c[k].counter

\* Taking that line keeps the set as it should be.
LEMMA OwnSet ==
    ASSUME Sized, NEW t \in Seq(Nat), NEW a \in Nat, NEW c, SetGood(c, t, SetIndex(a)),
           NEW j \in 0..E - 1, Chosen(c, j, a)
    PROVE  SetGood(Used(c, j, a, Len(t) + 1), Append(t, a), SetIndex(a))
<1> DEFINE u == Append(t, a)
           i == SetIndex(a)
           d == Used(c, j, a, Len(t) + 1)
<1>1. /\ Len(t) \in Nat /\ Len(u) = Len(t) + 1 /\ u[Len(t) + 1] = a
      /\ \A k \in 1..Len(t) : u[k] = t[k]
  BY Appended
<1>2. i \in Sets /\ Tag(a) \in Nat /\ Block(a) = BlockOf(i, Tag(a))
  BY BlockFacts
<1>3. /\ c \in [0..E - 1 -> Line] /\ LinesRight(c, t, i) /\ TagsApart(c) /\ LeftBehind(c, t, i)
      /\ \A l \in 0..E - 1 : c[l].tag \in Nat /\ c[l].counter \in Nat /\ c[l].valid \in BOOLEAN
  BY DEF SetGood, Line
<1>4. /\ d \in [0..E - 1 -> Line] /\ \A l \in 0..E - 1 : l # j => d[l] = c[l]
      /\ d[j].valid /\ d[j].tag = Tag(a) /\ d[j].counter = Len(t) + 1
  BY <1>1, <1>2, <1>3 DEF Used, Line
<1> HIDE DEF u, i, d
<1>5. ASSUME NEW l \in 0..E - 1, l # j, c[l].valid PROVE c[l].tag # Tag(a)
  BY <1>3, <1>5 DEF Chosen, Hits, TagsApart
<1>6. LinesRight(d, u, i)
  <2> SUFFICES ASSUME NEW l \in 0..E - 1, d[l].valid PROVE LastUse(u, d[l].counter, BlockOf(i, d[l].tag))
    BY DEF LinesRight
  <2>1. CASE l = j
    BY <1>2, <1>4, <2>1, UseMoves DEF u
  <2>2. CASE l # j
    <3>1. d[l] = c[l] /\ c[l].valid /\ c[l].tag # Tag(a)
      BY <1>4, <1>5, <2>2
    <3>2. BlockOf(i, c[l].tag) # Block(a)
      <4>1. c[l].tag \in Nat /\ c[l].tag # Tag(a)
        BY <1>3, <3>1
      <4>2. BlockOf(i, c[l].tag) # BlockOf(i, Tag(a))
        BY <1>2, <4>1, BlockOfUnique
      <4> QED BY <1>2, <4>2
    <3>3. LastUse(t, c[l].counter, BlockOf(i, c[l].tag))
      BY <1>3, <3>1 DEF LinesRight
    <3> QED BY <3>1, <3>2, <3>3, UseMoves DEF u
  <2> QED BY <2>1, <2>2
<1>7. TagsApart(d)
  <2> SUFFICES ASSUME NEW l \in 0..E - 1, NEW m \in 0..E - 1, d[l].valid, d[m].valid, d[l].tag = d[m].tag, l # m
               PROVE  FALSE
    BY DEF TagsApart
  <2>1. CASE l = j
    BY <1>4, <1>5, <2>1
  <2>2. CASE m = j
    BY <1>4, <1>5, <2>2
  <2>3. CASE l # j /\ m # j
    BY <1>3, <1>4, <2>3 DEF TagsApart
  <2> QED BY <2>1, <2>2, <2>3
<1>8. LeftBehind(d, u, i)
  <2> SUFFICES ASSUME NEW k \in 1..Len(u), SetIndex(u[k]) = i
               PROVE  \/ \E l \in 0..E - 1 : d[l].valid /\ Block(u[k]) = BlockOf(i, d[l].tag)
                      \/ \A l \in 0..E - 1 : d[l].valid /\ k < d[l].counter
    BY DEF LeftBehind
  <2>1. CASE k = Len(t) + 1
    BY <1>1, <1>2, <1>4, <2>1
  <2>2. CASE k \in 1..Len(t)
    <3>0. u[k] = t[k] /\ k < Len(t) + 1
      BY <1>1, <2>2
    <3>1. CASE \A l \in 0..E - 1 : c[l].valid /\ k < c[l].counter
      BY <1>4, <3>0, <3>1
    <3>2. CASE \E l \in 0..E - 1 : c[l].valid /\ Block(t[k]) = BlockOf(i, c[l].tag)
      <4>1. PICK l \in 0..E - 1 : c[l].valid /\ Block(t[k]) = BlockOf(i, c[l].tag)
        BY <3>2
      <4>2. CASE l # j
        BY <1>4, <3>0, <4>1, <4>2
      <4>3. CASE l = j /\ j \in Hits(c, a)
        BY <1>4, <3>0, <4>1, <4>3 DEF Hits
      <4>4. CASE l = j /\ j \notin Hits(c, a)
        <5>1. j \notin Invalid(c)
          BY <4>1, <4>4 DEF Invalid
        <5>2. Invalid(c) = {} /\ \A m \in 0..E - 1 : c[j].counter <= c[m].counter
          BY <4>4, <5>1 DEF Chosen
        <5>3. \A m \in 0..E - 1 : c[m].valid
          BY <1>3, <5>2 DEF Invalid
        <5>4. LastUse(t, c[j].counter, BlockOf(i, c[j].tag))
          BY <1>3, <5>3 DEF LinesRight
        <5>5. k <= c[j].counter
          BY <1>3, <2>2, <4>1, <4>4, <5>4 DEF LastUse
        <5>6. ASSUME NEW m \in 0..E - 1 PROVE d[m].valid /\ k < d[m].counter
          <6>1. CASE m = j
            BY <1>4, <3>0, <6>1
          <6>2. CASE m # j
            <7>1. LastUse(t, c[m].counter, BlockOf(i, c[m].tag))
              BY <1>3, <5>3 DEF LinesRight
            <7>2. c[m].tag # c[j].tag
              BY <1>3, <5>3, <6>2 DEF TagsApart
            <7>3. BlockOf(i, c[m].tag) # BlockOf(i, c[j].tag)
              BY <1>2, <1>3, <7>2, BlockOfUnique
            <7>4. c[m].counter # c[j].counter
              BY <5>4, <7>1, <7>3 DEF LastUse
            <7>5. k < c[m].counter
              BY <1>3, <2>2, <5>2, <5>5, <7>4
            <7> QED BY <1>4, <5>3, <6>2, <7>5
          <6> QED BY <6>1, <6>2
        <5> QED BY <5>6
      <4> QED BY <4>2, <4>3, <4>4
    <3> QED BY <1>3, <2>2, <3>0, <3>1, <3>2 DEF LeftBehind
  <2> QED BY <1>1, <2>1, <2>2
<1> QED BY <1>4, <1>6, <1>7, <1>8 DEF SetGood, u, i, d
-----------------------------------------------------------------------------
(* The verdict of access_data is that of the stack distance *)

\* The blocks of the lines of a set.
Held(c, i) == [j \in 0..E - 1 |-> BlockOf(i, c[j].tag)]

\* Peers of the access that ends a trace.
LEMMA LastPeers ==
    ASSUME Sized, NEW t \in Seq(Nat), NEW a \in Nat, NEW m \in Nat \ {0}
    PROVE  /\ \A x : x \in Peers(Append(t, a), Len(t) + 1, m) <=>
                 \E k \in 1..Len(t) : m <= k /\ SetIndex(t[k]) = SetIndex(a) /\ x = Block(t[k])
           /\ IsFiniteSet(Peers(Append(t, a), Len(t) + 1, m))
           /\ Before(Append(t, a), Len(t) + 1) = {k \in 1..Len(t) : Block(t[k]) = Block(a)}
<1> DEFINE u == Append(t, a)
           n == Len(t)
           S == Peers(u, n + 1, m)
<1>1. /\ n \in Nat /\ u[n + 1] = a /\ \A k \in 1..n : u[k] = t[k]
  BY Appended
<1> HIDE DEF u, n
<1>2. (n + 1) - 1 = n /\ \A k \in m..n : k \in 1..n /\ m <= k
  BY <1>1
<1>2a. \A k \in 1..n : m <= k => k \in m..n
  BY <1>1
<1>3. S = {Block(u[k]) : k \in {k \in m..n : SetIndex(u[k]) = SetIndex(a)}}
  BY <1>1, <1>2 DEF Peers
<1> HIDE DEF S
<1>4. \A x : x \in S <=> \E k \in 1..n : m <= k /\ SetIndex(t[k]) = SetIndex(a) /\ x = Block(t[k])
  BY <1>1, <1>2, <1>2a, <1>3
<1>5. IsFiniteSet(S)
  <2> DEFINE f == [k \in 1..n |-> Block(t[k])]
  <2>1. \A x \in S : \E k \in 1..n : f[k] = x
    BY <1>4
  <2>2. IsFiniteSet(1..n)
    BY <1>1, FS_Interval
  <2> HIDE DEF f
  <2> QED BY <2>1, <2>2, FewImages
<1>6. Before(u, n + 1) = {k \in 1..n : Block(t[k]) = Block(a)}
  BY <1>1, <1>2 DEF Before
<1> QED BY <1>4, <1>5, <1>6 DEF u, n, S

\* The E lines.
LEMMA LineCount ==
    ASSUME Sized
    PROVE  /\ IsFiniteSet(0..E - 1) /\ Cardinality(0..E - 1) = E
           /\ \A j \in 0..E - 1 : IsFiniteSet((0..E - 1) \ {j}) /\ Cardinality((0..E - 1) \ {j}) = E - 1
<1>1. E \in Nat \ {0} /\ 0 \in Int /\ E - 1 \in Int
  BY DEF Sized
<1>2. IsFiniteSet(0..E - 1) /\ Cardinality(0..E - 1) = E
  BY <1>1, FS_Interval
<1> QED BY <1>1, <1>2, FS_RemoveElement

\* A hit has fewer than E peers since the last use of its block.
LEMMA HitRight ==
    ASSUME Sized, NEW t \in Seq(Nat), NEW a \in Nat, NEW c, SetGood(c, t, SetIndex(a)),
           NEW j \in Hits(c, a)
    PROVE  IsHit(Append(t, a), Len(t) + 1)
<1> DEFINE u == Append(t, a)
           n == Len(t)
           i == SetIndex(a)
           B == Before(u, n + 1)
           m == c[j].counter
           S == Peers(u, n + 1, m + 1)
<1>1. i \in Sets /\ Tag(a) \in Nat /\ Block(a) = BlockOf(i, Tag(a)) /\ n \in Nat
  BY BlockFacts
<1>2. /\ c \in [0..E - 1 -> Line] /\ LinesRight(c, t, i) /\ TagsApart(c) /\ LeftBehind(c, t, i)
      /\ \A l \in 0..E - 1 : c[l].tag \in Nat /\ c[l].counter \in Nat /\ c[l].valid \in BOOLEAN
  BY DEF SetGood, Line
<1>3. j \in 0..E - 1 /\ c[j].valid /\ c[j].tag = Tag(a)
  BY <1>2 DEF Hits
<1>4. LastUse(t, m, Block(a))
  BY <1>1, <1>2, <1>3 DEF LinesRight
<1>5. B = {k \in 1..n : Block(t[k]) = Block(a)}
  <2>1. 1 \in Nat \ {0}
    OBVIOUS
  <2> QED BY <2>1, LastPeers
<1>6. m \in Nat \ {0} /\ m \in 1..n /\ m + 1 \in Nat \ {0}
  <2>1. m \in 1..n
    BY <1>4, Zenon DEF LastUse
  <2> HIDE DEF m, n
  <2> QED BY <1>1, <2>1
<1>7. \A x : x \in S <=> \E k \in 1..n : m + 1 <= k /\ SetIndex(t[k]) = i /\ x = Block(t[k])
  BY <1>6, LastPeers
<1> HIDE DEF u, n, i, B, m, S
<1>8. m \in B /\ \A k \in B : k <= m
  BY <1>4, <1>5, <1>6 DEF LastUse, n
<1>9. Max(B) = m
  <2>1. B \in SUBSET (1..n)
    BY <1>5
  <2>2. Max(B) \in B /\ \A k \in B : k <= Max(B)
    BY <1>1, <1>8, <2>1, MaxGreatest
  <2>3. Max(B) \in 1..n /\ Max(B) <= m /\ m <= Max(B)
    BY <1>8, <2>1, <2>2, Zenon
  <2> QED BY <1>1, <1>6, <2>3
<1>10. Cardinality(S) < E
  <2> DEFINE L == (0..E - 1) \ {j}
             f == Held(c, i)
  <2>1. ASSUME NEW x \in S PROVE \E l \in L : f[l] = x
    <3>1. PICK k \in 1..n : m + 1 <= k /\ SetIndex(t[k]) = i /\ x = Block(t[k])
      BY <1>7
    <3>2. ~(k < c[j].counter)
      BY <1>6, <3>1 DEF m
    <3>3. PICK l \in 0..E - 1 : c[l].valid /\ Block(t[k]) = BlockOf(i, c[l].tag)
      BY <1>2, <1>3, <3>1, <3>2 DEF LeftBehind, n
    <3>4. Block(t[k]) # Block(a)
      BY <1>4, <1>6, <3>1 DEF LastUse, n
    <3>5. l # j
      BY <1>1, <1>3, <3>3, <3>4
    <3>6. l \in L /\ f[l] = x
      BY <3>1, <3>3, <3>5 DEF Held
    <3> QED BY <3>6
  <2>2. IsFiniteSet(L) /\ Cardinality(L) = E - 1 /\ E \in Nat
    BY <1>3, LineCount DEF Sized
  <2> HIDE DEF L, f
  <2>3. IsFiniteSet(S) /\ Cardinality(S) <= Cardinality(L)
    BY <2>1, <2>2, FewImages
  <2> QED BY <2>2, <2>3, FS_CardinalityType
<1>11. Cardinality(Peers(u, n + 1, Max(Before(u, n + 1)) + 1)) < E
  BY <1>9, <1>10 DEF S, B
<1> QED BY <1>8, <1>11 DEF IsHit, B, u, n

\* Every line of a full set holds a block of its own, and when these were used.
LEMMA FullSet ==
    ASSUME Sized, NEW t \in Seq(Nat), NEW i \in Sets, NEW c, SetGood(c, t, i),
           \A j \in 0..E - 1 : c[j].valid
    PROVE  /\ \A j \in 0..E - 1 : /\ c[j].counter \in 1..Len(t) /\ SetIndex(t[c[j].counter]) = i
                                 /\ Held(c, i)[j] = Block(t[c[j].counter])
           /\ \A j, k \in 0..E - 1 : Held(c, i)[j] = Held(c, i)[k] => j = k
<1>1. /\ LinesRight(c, t, i) /\ TagsApart(c)
      /\ \A l \in 0..E - 1 : c[l].tag \in Nat /\ c[l].counter \in Nat
  BY DEF SetGood, Line
<1>2. ASSUME NEW j \in 0..E - 1
      PROVE  /\ c[j].counter \in 1..Len(t) /\ SetIndex(t[c[j].counter]) = i
             /\ Held(c, i)[j] = Block(t[c[j].counter])
  <2>1. LastUse(t, c[j].counter, BlockOf(i, c[j].tag))
    BY <1>1 DEF LinesRight
  <2>2. c[j].counter \in 1..Len(t) /\ Block(t[c[j].counter]) = BlockOf(i, c[j].tag)
    BY <2>1 DEF LastUse
  <2>3. t[c[j].counter] \in Nat
    BY <2>2
  <2>4. SetIndex(t[c[j].counter]) = SetOf(BlockOf(i, c[j].tag))
    BY <2>2, <2>3, BlockFacts
  <2>5. SetOf(BlockOf(i, c[j].tag)) = i
    BY <1>1, BlockOfUnique
  <2> QED BY <2>2, <2>4, <2>5 DEF Held
<1>3. ASSUME NEW j \in 0..E - 1, NEW k \in 0..E - 1, Held(c, i)[j] = Held(c, i)[k] PROVE j = k
  <2>1. BlockOf(i, c[j].tag) = BlockOf(i, c[k].tag)
    BY <1>3 DEF Held
  <2>2. c[j].tag = c[k].tag
    BY <1>1, <2>1, BlockOfUnique
  <2> QED BY <1>1, <2>2 DEF TagsApart
<1> QED BY <1>2, <1>3
\* A miss has at least E peers since the last use of its block, if there was one.
LEMMA MissRight ==
    ASSUME Sized, NEW t \in Seq(Nat), NEW a \in Nat, NEW c, SetGood(c, t, SetIndex(a)),
           Hits(c, a) = {}
    PROVE  ~IsHit(Append(t, a), Len(t) + 1)
<1> DEFINE u == Append(t, a)
           n == Len(t)
           i == SetIndex(a)
           B == Before(u, n + 1)
           m == Max(B)
           S == Peers(u, n + 1, m + 1)
<1> SUFFICES ASSUME B # {} PROVE ~(Cardinality(S) < E)
  BY DEF IsHit
<1>1. i \in Sets /\ Tag(a) \in Nat /\ Block(a) = BlockOf(i, Tag(a)) /\ n \in Nat
  BY BlockFacts
<1>2. /\ c \in [0..E - 1 -> Line] /\ LeftBehind(c, t, i)
      /\ \A l \in 0..E - 1 : c[l].tag \in Nat /\ c[l].counter \in Nat /\ c[l].valid \in BOOLEAN
  BY DEF SetGood, Line
<1>3. B = {k \in 1..n : Block(t[k]) = Block(a)}
  <2>1. 1 \in Nat \ {0}
    OBVIOUS
  <2> QED BY <2>1, LastPeers
<1>4. m \in B
  <2>1. B \in SUBSET (1..n)
    BY <1>3
  <2> HIDE DEF B
  <2> QED BY <1>1, <2>1, MaxGreatest
<1>5. m \in 1..n /\ Block(t[m]) = Block(a) /\ m + 1 \in Nat \ {0} /\ t[m] \in Nat
  <2> HIDE DEF B, m
  <2> QED BY <1>1, <1>3, <1>4
<1>6. /\ \A x : x \in S <=> \E k \in 1..n : m + 1 <= k /\ SetIndex(t[k]) = i /\ x = Block(t[k])
      /\ IsFiniteSet(S)
  <2> HIDE DEF B, m
  <2> QED BY <1>5, LastPeers
<1> HIDE DEF u, n, B, m, S
<1>7. SetIndex(t[m]) = i
  BY <1>5, BlockFacts
<1>8. ASSUME NEW j \in 0..E - 1, c[j].valid PROVE Block(t[m]) # BlockOf(i, c[j].tag)
  <2>1. c[j].tag # Tag(a) /\ c[j].tag \in Nat
    BY <1>2, <1>8 DEF Hits
  <2>2. BlockOf(i, c[j].tag) # BlockOf(i, Tag(a))
    BY <1>1, <2>1, BlockOfUnique
  <2> QED BY <1>1, <1>5, <2>2
<1>9. \A j \in 0..E - 1 : c[j].valid /\ m < c[j].counter
  BY <1>2, <1>5, <1>7, <1>8 DEF LeftBehind, n
<1> DEFINE f == Held(c, i)
           L == 0..E - 1
<1>10. ASSUME NEW j \in L PROVE f[j] \in S
  <2>1. c[j].counter \in 1..n /\ SetIndex(t[c[j].counter]) = i /\ f[j] = Block(t[c[j].counter])
    BY <1>1, <1>9, FullSet DEF n
  <2>2. m + 1 <= c[j].counter
    BY <1>2, <1>5, <1>9
  <2> HIDE DEF f, i
  <2> QED BY <1>6, <2>1, <2>2
<1>11. \A j, k \in L : f[j] = f[k] => j = k
  BY <1>1, <1>9, FullSet
<1>12. Cardinality(L) = E
  BY LineCount
<1> HIDE DEF f, L
<1>13. Cardinality(L) <= Cardinality(S)
  BY <1>6, <1>10, <1>11, ManyImages
<1> QED BY <1>6, <1>12, <1>13, FS_CardinalityType DEF Sized

\* It evicts exactly when E blocks of the set have been used.
LEMMA EvictRight ==
    ASSUME Sized, NEW t \in Seq(Nat), NEW a \in Nat, NEW c, SetGood(c, t, SetIndex(a))
    PROVE  Cardinality(Peers(Append(t, a), Len(t) + 1, 1)) >= E <=> Invalid(c) = {}
<1> DEFINE n == Len(t)
           i == SetIndex(a)
           S == Peers(Append(t, a), n + 1, 1)
           f == Held(c, i)
           L == 0..E - 1
<1>1. i \in Sets /\ n \in Nat /\ 1 \in Nat \ {0}
  BY BlockFacts
<1>2. /\ c \in [0..E - 1 -> Line] /\ LeftBehind(c, t, i)
      /\ \A l \in 0..E - 1 : c[l].valid \in BOOLEAN
  BY DEF SetGood, Line
<1>3. /\ \A x : x \in S <=> \E k \in 1..n : 1 <= k /\ SetIndex(t[k]) = i /\ x = Block(t[k])
      /\ IsFiniteSet(S)
  BY <1>1, LastPeers
<1>4. Cardinality(S) \in Nat /\ E \in Nat
  BY <1>3, FS_CardinalityType DEF Sized
<1> HIDE DEF S
<1>5. CASE Invalid(c) = {}
  <2>0. \A j \in L : c[j].valid
    BY <1>2, <1>5 DEF Invalid
  <2>1. ASSUME NEW j \in L PROVE f[j] \in S
    <3>1. c[j].counter \in 1..n /\ SetIndex(t[c[j].counter]) = i /\ f[j] = Block(t[c[j].counter])
      BY <1>1, <2>0, FullSet
    <3>2. 1 <= c[j].counter
      BY <1>1, <3>1
    <3> HIDE DEF f, i, n
    <3> QED BY <1>3, <3>1, <3>2
  <2>2. \A j, k \in L : f[j] = f[k] => j = k
    BY <1>1, <2>0, FullSet
  <2>3. Cardinality(L) = E
    BY LineCount
  <2> HIDE DEF f, L
  <2>4. Cardinality(L) <= Cardinality(S)
    BY <1>3, <2>1, <2>2, ManyImages
  <2> QED BY <1>4, <1>5, <2>3, <2>4 DEF S
<1>6. CASE Invalid(c) # {}
  <2>1. PICK j \in 0..E - 1 : ~c[j].valid
    BY <1>2, <1>6 DEF Invalid
  <2> DEFINE M == (0..E - 1) \ {j}
  <2>2. ASSUME NEW x \in S PROVE \E l \in M : f[l] = x
    <3>1. PICK k \in 1..n : SetIndex(t[k]) = i /\ x = Block(t[k])
      BY <1>3
    <3>2. PICK l \in 0..E - 1 : c[l].valid /\ Block(t[k]) = BlockOf(i, c[l].tag)
      BY <1>2, <2>1, <3>1 DEF LeftBehind
    <3>3. l \in M /\ f[l] = x
      BY <2>1, <3>1, <3>2 DEF Held
    <3> QED BY <3>3
  <2>3. IsFiniteSet(M) /\ Cardinality(M) = E - 1
    BY LineCount
  <2> HIDE DEF f, M
  <2>4. Cardinality(S) <= Cardinality(M)
    BY <2>2, <2>3, FewImages
  <2>5. ~(Cardinality(S) >= E)
    BY <1>4, <2>3, <2>4
  <2> QED BY <1>6, <2>5 DEF S
<1> QED BY <1>5, <1>6

-----------------------------------------------------------------------------
(* The counts *)

\* A later access does not change the verdict on an earlier one.
LEMMA PrefixSame ==
    ASSUME NEW t \in Seq(Nat), NEW a \in Nat, NEW k \in 1..Len(t)
    PROVE  /\ IsHit(Append(t, a), k) <=> IsHit(t, k)
           /\ Evicts(Append(t, a), k) <=> Evicts(t, k)
<1> DEFINE u == Append(t, a)
<1>1. Len(t) \in Nat /\ \A l \in 1..Len(t) : u[l] = t[l]
  BY Appended
<1> HIDE DEF u
<1>2. \A l \in 1..k - 1 : l \in 1..Len(t)
  BY <1>1
<1>3. Before(u, k) = Before(t, k)
  BY <1>1, <1>2 DEF Before
<1>4. ASSUME NEW m \in Nat \ {0} PROVE Peers(u, k, m) = Peers(t, k, m)
  <2>1. \A l \in m..k - 1 : l \in 1..Len(t)
    BY <1>1
  <2>2. u[k] = t[k]
    BY <1>1
  <2>3. {l \in m..k - 1 : SetIndex(u[l]) = SetIndex(u[k])} = {l \in m..k - 1 : SetIndex(t[l]) = SetIndex(t[k])}
    BY <1>1, <2>1, <2>2
  <2> QED BY <1>1, <2>1, <2>3 DEF Peers
<1>5. Before(t, k) # {} => Max(Before(t, k)) + 1 \in Nat \ {0}
  <2> SUFFICES ASSUME Before(t, k) # {} PROVE Max(Before(t, k)) + 1 \in Nat \ {0}
    OBVIOUS
  <2>1. Before(t, k) \in SUBSET (1..Len(t))
    BY <1>2 DEF Before
  <2>2. Max(Before(t, k)) \in Before(t, k)
    BY <1>1, <2>1, MaxGreatest
  <2> QED BY <2>1, <2>2
<1>6. 1 \in Nat \ {0}
  OBVIOUS
<1>7. IsHit(u, k) <=> IsHit(t, k)
  BY <1>3, <1>4, <1>5 DEF IsHit
<1>8. Peers(u, k, 1) = Peers(t, k, 1)
  BY <1>4, <1>6
<1> QED BY <1>7, <1>8 DEF Evicts, u

\* The accesses of a kind, one more or as many after another access.
LEMMA OneMore ==
    ASSUME NEW n \in Nat, NEW S \in SUBSET (1..n), NEW T \in SUBSET (1..n + 1),
           \A k \in 1..n : k \in T <=> k \in S
    PROVE  Cardinality(T) = Cardinality(S) + (IF n + 1 \in T THEN 1 ELSE 0)
<1>1. IsFiniteSet(S)
  <2>1. IsFiniteSet(1..n)
    BY FS_Interval
  <2> QED BY <2>1, FS_Subset
<1>4. \A k \in 1..n + 1 : k = n + 1 \/ k \in 1..n
  OBVIOUS
<1>6. \A k \in 1..n : k \in 1..n + 1
  OBVIOUS
<1>5. n + 1 \notin S
  <2>1. n + 1 \notin 1..n
    OBVIOUS
  <2> QED BY <2>1
<1>2. CASE n + 1 \in T
  <2>1. T = S \cup {n + 1} /\ n + 1 \notin S
    BY <1>2, <1>4, <1>5, Zenon
  <2> QED BY <1>1, <1>2, <2>1, FS_AddElement
<1>3. CASE n + 1 \notin T
  <2>1. T = S
    BY <1>3, <1>4, <1>6, Zenon
  <2>2. Cardinality(S) \in Nat
    BY <1>1, FS_CardinalityType
  <2> QED BY <1>3, <2>1, <2>2
<1> QED BY <1>2, <1>3

\* What an access adds to the counts of the reference.
LEMMA CountsStep ==
    ASSUME NEW t \in Seq(Nat), NEW a \in Nat
    PROVE  LET u == Append(t, a)
               n == Len(t) + 1 IN
           Counts(u) = [hit   |-> Counts(t).hit + (IF IsHit(u, n) THEN 1 ELSE 0),
                        miss  |-> Counts(t).miss + (IF ~IsHit(u, n) THEN 1 ELSE 0),
                        evict |-> Counts(t).evict + (IF Evicts(u, n) THEN 1 ELSE 0)]
<1> DEFINE u == Append(t, a)
           n == Len(t)
<1>1. n \in Nat /\ DOMAIN t = 1..n /\ DOMAIN u = 1..n + 1 /\ n + 1 \in 1..n + 1 /\ \A k \in 1..n : k \in 1..n + 1
  BY Appended
<1>2. \A k \in 1..n : (IsHit(u, k) <=> IsHit(t, k)) /\ (Evicts(u, k) <=> Evicts(t, k))
  BY PrefixSame
<1> HIDE DEF u, n
<1>3. Cardinality({k \in 1..n + 1 : IsHit(u, k)}) = Cardinality({k \in 1..n : IsHit(t, k)}) + (IF IsHit(u, n + 1) THEN 1 ELSE 0)
  <2> DEFINE S == {k \in 1..n : IsHit(t, k)}
             T == {k \in 1..n + 1 : IsHit(u, k)}
  <2>1. \A k \in 1..n : k \in T <=> k \in S
    BY <1>1, <1>2
  <2>2. n + 1 \in T <=> IsHit(u, n + 1)
    BY <1>1
  <2>3. S \in SUBSET (1..n) /\ T \in SUBSET (1..n + 1)
    OBVIOUS
  <2> HIDE DEF S, T
  <2>4. Cardinality(T) = Cardinality(S) + (IF n + 1 \in T THEN 1 ELSE 0)
    BY <1>1, <2>1, <2>3, OneMore
  <2> QED BY <2>2, <2>4 DEF S, T
<1>4. Cardinality({k \in 1..n + 1 : ~IsHit(u, k)}) = Cardinality({k \in 1..n : ~IsHit(t, k)}) + (IF ~IsHit(u, n + 1) THEN 1 ELSE 0)
  <2> DEFINE S == {k \in 1..n : ~IsHit(t, k)}
             T == {k \in 1..n + 1 : ~IsHit(u, k)}
  <2>1. \A k \in 1..n : k \in T <=> k \in S
    BY <1>1, <1>2
  <2>2. n + 1 \in T <=> ~IsHit(u, n + 1)
    BY <1>1
  <2>3. S \in SUBSET (1..n) /\ T \in SUBSET (1..n + 1)
    OBVIOUS
  <2> HIDE DEF S, T
  <2>4. Cardinality(T) = Cardinality(S) + (IF n + 1 \in T THEN 1 ELSE 0)
    BY <1>1, <2>1, <2>3, OneMore
  <2> QED BY <2>2, <2>4 DEF S, T
<1>5. Cardinality({k \in 1..n + 1 : Evicts(u, k)}) = Cardinality({k \in 1..n : Evicts(t, k)}) + (IF Evicts(u, n + 1) THEN 1 ELSE 0)
  <2> DEFINE S == {k \in 1..n : Evicts(t, k)}
             T == {k \in 1..n + 1 : Evicts(u, k)}
  <2>1. \A k \in 1..n : k \in T <=> k \in S
    BY <1>1, <1>2
  <2>2. n + 1 \in T <=> Evicts(u, n + 1)
    BY <1>1
  <2>3. S \in SUBSET (1..n) /\ T \in SUBSET (1..n + 1)
    OBVIOUS
  <2> HIDE DEF S, T
  <2>4. Cardinality(T) = Cardinality(S) + (IF n + 1 \in T THEN 1 ELSE 0)
    BY <1>1, <2>1, <2>3, OneMore
  <2> QED BY <2>2, <2>4 DEF S, T
<1>6. /\ Counts(u).hit = Cardinality({k \in 1..n + 1 : IsHit(u, k)}) /\ Counts(t).hit = Cardinality({k \in 1..n : IsHit(t, k)})
      /\ Counts(u).miss = Cardinality({k \in 1..n + 1 : ~IsHit(u, k)}) /\ Counts(t).miss = Cardinality({k \in 1..n : ~IsHit(t, k)})
      /\ Counts(u).evict = Cardinality({k \in 1..n + 1 : Evicts(u, k)}) /\ Counts(t).evict = Cardinality({k \in 1..n : Evicts(t, k)})
  BY <1>1 DEF Counts
<1>7. Counts(u) = [hit |-> Counts(u).hit, miss |-> Counts(u).miss, evict |-> Counts(u).evict]
  BY DEF Counts
<1>8. Counts(u) = [hit   |-> Counts(t).hit + (IF IsHit(u, n + 1) THEN 1 ELSE 0),
                   miss  |-> Counts(t).miss + (IF ~IsHit(u, n + 1) THEN 1 ELSE 0),
                   evict |-> Counts(t).evict + (IF Evicts(u, n + 1) THEN 1 ELSE 0)]
  BY <1>3, <1>4, <1>5, <1>6, <1>7
<1> QED BY <1>8 DEF u, n
-----------------------------------------------------------------------------
(* The simulator *)

\* Cache c, clock n, counts k and trace t belong together.
Good(c, n, k, t) ==
    /\ t \in Seq(Nat) /\ n = Len(t)
    /\ c \in [Sets -> [0..E - 1 -> Line]]
    /\ \A i \in Sets : SetGood(c[i], t, i)
    /\ k = Counts(t)

\* A record of the four.
State(c, n, k, t) == [cache |-> c, clock |-> n, count |-> k, trace |-> t]

\* What access_data does to it: the next access and its number, a hit, a miss,
\* a miss that evicts.
Noted(x, m, a) == [x EXCEPT !.clock = m, !.trace = Append(@, a)]
OneHit(x) == [x EXCEPT !.count.hit = @ + 1]
OneMiss(x) == [x EXCEPT !.count.miss = @ + 1]
OneEvict(x) == [x EXCEPT !.count.miss = @ + 1, !.count.evict = @ + 1]

\* The next access is noted.
LEMMA StateAccess ==
    ASSUME NEW c, NEW n, NEW k, NEW t, NEW a, NEW m
    PROVE  Noted(State(c, n, k, t), m, a) = State(c, m, k, Append(t, a))
<1>1. [State(c, n, k, t) EXCEPT !.clock = m] = State(c, m, k, t)
  BY DEF State
<1>2. [State(c, m, k, t) EXCEPT !.trace = Append(@, a)] = State(c, m, k, Append(t, a))
  BY DEF State
<1>3. [State(c, n, k, t) EXCEPT !.clock = m, !.trace = Append(@, a)] =
        [[State(c, n, k, t) EXCEPT !.clock = m] EXCEPT !.trace = Append(@, a)]
  OBVIOUS
<1> QED BY <1>1, <1>2, <1>3 DEF Noted

Tally(h, m, e) == [hit |-> h, miss |-> m, evict |-> e]

\* A hit, a miss, and a miss that evicts are counted.
LEMMA StateCounts ==
    ASSUME NEW c, NEW n, NEW t, NEW h, NEW m, NEW e
    PROVE  /\ OneHit(State(c, n, Tally(h, m, e), t)) = State(c, n, Tally(h + 1, m, e), t)
           /\ OneMiss(State(c, n, Tally(h, m, e), t)) = State(c, n, Tally(h, m + 1, e), t)
           /\ OneEvict(State(c, n, Tally(h, m, e), t)) = State(c, n, Tally(h, m + 1, e + 1), t)
<1>1. \A k : /\ [State(c, n, k, t) EXCEPT !.count.hit = @ + 1] = State(c, n, [k EXCEPT !.hit = @ + 1], t)
             /\ [State(c, n, k, t) EXCEPT !.count.miss = @ + 1] = State(c, n, [k EXCEPT !.miss = @ + 1], t)
             /\ [State(c, n, k, t) EXCEPT !.count.evict = @ + 1] = State(c, n, [k EXCEPT !.evict = @ + 1], t)
  BY DEF State
<1>2. \A y : /\ [Tally(h, m, e) EXCEPT !.hit = @ + 1] = Tally(h + 1, m, e)
             /\ [Tally(h, m, e) EXCEPT !.miss = @ + 1] = Tally(h, m + 1, e)
             /\ [Tally(h, y, e) EXCEPT !.evict = @ + 1] = Tally(h, y, e + 1)
  BY DEF Tally
<1>3. [State(c, n, Tally(h, m, e), t) EXCEPT !.count.miss = @ + 1, !.count.evict = @ + 1] =
        [[State(c, n, Tally(h, m, e), t) EXCEPT !.count.miss = @ + 1] EXCEPT !.count.evict = @ + 1]
  OBVIOUS
<1>4. /\ [State(c, n, Tally(h, m, e), t) EXCEPT !.count.hit = @ + 1] = State(c, n, Tally(h + 1, m, e), t)
      /\ [State(c, n, Tally(h, m, e), t) EXCEPT !.count.miss = @ + 1] = State(c, n, Tally(h, m + 1, e), t)
      /\ [State(c, n, Tally(h, m + 1, e), t) EXCEPT !.count.evict = @ + 1] = State(c, n, Tally(h, m + 1, e + 1), t)
  <2>1. [State(c, n, Tally(h, m, e), t) EXCEPT !.count.hit = @ + 1] = State(c, n, Tally(h + 1, m, e), t)
    BY <1>1, <1>2
  <2>2. [State(c, n, Tally(h, m, e), t) EXCEPT !.count.miss = @ + 1] = State(c, n, Tally(h, m + 1, e), t)
    BY <1>1, <1>2
  <2>3. ASSUME NEW y
        PROVE  [State(c, n, Tally(h, y, e), t) EXCEPT !.count.evict = @ + 1] = State(c, n, Tally(h, y, e + 1), t)
    <3> DEFINE k == Tally(h, y, e)
    <3>1. [k EXCEPT !.evict = @ + 1] = Tally(h, y, e + 1)
      BY <1>2
    <3> HIDE DEF k
    <3>2. [State(c, n, k, t) EXCEPT !.count.evict = @ + 1] = State(c, n, [k EXCEPT !.evict = @ + 1], t)
      BY <1>1
    <3> QED BY <3>1, <3>2 DEF k
  <2> QED BY <2>1, <2>2, <2>3
<1>5. [State(c, n, Tally(h, m, e), t) EXCEPT !.count.miss = @ + 1, !.count.evict = @ + 1] = State(c, n, Tally(h, m + 1, e + 1), t)
  BY <1>3, <1>4
<1> QED BY <1>4, <1>5 DEF OneHit, OneMiss, OneEvict

\* A line is taken.
LEMMA StateStored ==
    ASSUME NEW c, NEW n, NEW k, NEW t, NEW j, NEW a, NEW m
    PROVE  Stored(State(c, n, k, t), j, a, m) =
             State([c EXCEPT ![SetIndex(a)] = Used(c[SetIndex(a)], j, a, m)], n, k, t)
<1> DEFINE v == [valid |-> TRUE, tag |-> Tag(a), counter |-> m]
           i == SetIndex(a)
<1>1. \A w, x : [State(c, n, k, t) EXCEPT !.cache[x][j] = w] = State([c EXCEPT ![x] = [c[x] EXCEPT ![j] = w]], n, k, t)
  BY DEF State
<1> HIDE DEF v, i
<1>2. [State(c, n, k, t) EXCEPT !.cache[i][j] = v] = State([c EXCEPT ![i] = [c[i] EXCEPT ![j] = v]], n, k, t)
  BY <1>1
<1> QED BY <1>2 DEF Stored, Used, v, i

\* A valid line with another counter.
LEMMA LineTouched ==
    ASSUME NEW l \in Line, l.valid, NEW m
    PROVE  [l EXCEPT !.counter = m] = [valid |-> TRUE, tag |-> l.tag, counter |-> m]
<1>1. l.valid = TRUE /\ l = [valid |-> l.valid, tag |-> l.tag, counter |-> l.counter]
  BY DEF Line
<1>2. \A x, y, z : [[valid |-> x, tag |-> y, counter |-> z] EXCEPT !.counter = m] = [valid |-> x, tag |-> y, counter |-> m]
  OBVIOUS
<1>3. [l EXCEPT !.counter = m] = [[valid |-> l.valid, tag |-> l.tag, counter |-> l.counter] EXCEPT !.counter = m]
  BY <1>1
<1>4. [l EXCEPT !.counter = m] = [valid |-> l.valid, tag |-> l.tag, counter |-> m]
  BY <1>2, <1>3
<1> QED BY <1>1, <1>4

\* A line is used again.
LEMMA StateTouched ==
    ASSUME NEW c, NEW n, NEW k, NEW t, NEW j, NEW a, NEW m
    PROVE  Touched(State(c, n, k, t), j, a, m) =
             State([c EXCEPT ![SetIndex(a)] = [c[SetIndex(a)] EXCEPT ![j] =
                      [c[SetIndex(a)][j] EXCEPT !.counter = m]]], n, k, t)
BY DEF State, Touched

\* access_data takes line j for the block of a, and counts.
Takes(c, k, t, a, j) ==
    /\ Chosen(c[SetIndex(a)], j, a)
    /\ access_data(State(c, Len(t), k, t), a) =
         State([c EXCEPT ![SetIndex(a)] = Used(c[SetIndex(a)], j, a, Len(t) + 1)], Len(t) + 1,
               Tally(k.hit + (IF Hits(c[SetIndex(a)], a) # {} THEN 1 ELSE 0),
                     k.miss + (IF Hits(c[SetIndex(a)], a) # {} THEN 0 ELSE 1),
                     k.evict + (IF Hits(c[SetIndex(a)], a) = {} /\ Invalid(c[SetIndex(a)]) = {} THEN 1 ELSE 0)),
               Append(t, a))

\* It takes one of the E lines.
LEMMA AccessTakes ==
    ASSUME Sized, NEW c, NEW t, NEW k, NEW a \in Nat, Good(c, Len(t), k, t)
    PROVE  \E j \in 0..E - 1 : Takes(c, k, t, a, j)
<1> DEFINE x == State(c, Len(t), k, t)
           i == SetIndex(a)
           l == c[i]
           n == Len(t) + 1
           y == Noted(x, n, a)
<1>1. x.cache = c /\ x.clock = Len(t) /\ x.count = k /\ x.trace = t
  BY DEF State
<1>2. /\ t \in Seq(Nat) /\ c \in [Sets -> [0..E - 1 -> Line]] /\ k = Counts(t) /\ Len(t) \in Nat
      /\ \A m \in Sets : SetGood(c[m], t, m)
  BY DEF Good
<1>3. i \in Sets /\ Tag(a) \in Nat
  BY BlockFacts
<1>4. l \in [0..E - 1 -> Line] /\ DOMAIN l = 0..E - 1
  BY <1>2, <1>3
<1> DEFINE h == k.hit
           m == k.miss
           e == k.evict
<1>5. k = Tally(h, m, e) /\ h + 0 = h /\ m + 0 = m /\ e + 0 = e
  <2>1. \A P \in SUBSET DOMAIN t : IsFiniteSet(P) /\ Cardinality(P) \in Nat
    <3>1. IsFiniteSet(DOMAIN t)
      BY <1>2, FS_Interval
    <3> QED BY <3>1, FS_Subset, FS_CardinalityType
  <2>2. h \in Nat /\ m \in Nat /\ e \in Nat /\ k = Tally(h, m, e)
    BY <1>2, <2>1 DEF Counts, Tally
  <2> QED BY <2>2
<1>9. y = State(c, n, Tally(h, m, e), Append(t, a))
  <2>1. y = State(c, n, k, Append(t, a))
    BY StateAccess
  <2> QED BY <1>5, <2>1
<1>10. /\ OneHit(State(c, n, Tally(h, m, e), Append(t, a))) = State(c, n, Tally(h + 1, m, e), Append(t, a))
       /\ OneMiss(State(c, n, Tally(h, m, e), Append(t, a))) = State(c, n, Tally(h, m + 1, e), Append(t, a))
       /\ OneEvict(State(c, n, Tally(h, m, e), Append(t, a))) = State(c, n, Tally(h, m + 1, e + 1), Append(t, a))
  BY StateCounts
<1>6. CASE Hits(l, a) # {}
  <2> DEFINE j == Min(Hits(l, a))
  <2>1. j \in Hits(l, a)
    <3>1. Hits(l, a) \in SUBSET Nat
      BY <1>4 DEF Hits
    <3> QED BY <1>6, <3>1, MinLeast
  <2>2. j \in 0..E - 1 /\ l[j].valid /\ l[j].tag = Tag(a) /\ l[j] \in Line
    BY <1>4, <2>1 DEF Hits
  <2> HIDE DEF j
  <2>3. [l[j] EXCEPT !.counter = n] = [valid |-> TRUE, tag |-> Tag(a), counter |-> n]
    BY <2>2, LineTouched
  <2>4. access_data(x, a) = Touched(OneHit(y), j, a, n)
    BY <1>1, <1>6 DEF access_data, j, OneHit, Noted
  <2>5. OneHit(y) = State(c, n, Tally(h + 1, m, e), Append(t, a))
    BY <1>9, <1>10
  <2>6. Touched(State(c, n, Tally(h + 1, m, e), Append(t, a)), j, a, n) =
          State([c EXCEPT ![i] = Used(l, j, a, n)], n, Tally(h + 1, m, e), Append(t, a))
    <3>1. [l EXCEPT ![j] = [l[j] EXCEPT !.counter = n]] = Used(l, j, a, n)
      BY <2>3 DEF Used
    <3> QED BY <3>1, StateTouched
  <2>7. access_data(x, a) = State([c EXCEPT ![i] = Used(l, j, a, n)], n, Tally(h + 1, m + 0, e + 0), Append(t, a))
    BY <1>5, <2>4, <2>5, <2>6
  <2>8. Chosen(l, j, a)
    BY <2>1 DEF Chosen
  <2> QED BY <1>6, <2>2, <2>7, <2>8 DEF Takes
<1>7. CASE Hits(l, a) = {} /\ Invalid(l) # {}
  <2> DEFINE j == Min(Invalid(l))
  <2>1. j \in Invalid(l)
    <3>1. Invalid(l) \in SUBSET Nat
      BY <1>4 DEF Invalid
    <3> QED BY <1>7, <3>1, MinLeast
  <2>2. j \in 0..E - 1
    BY <1>4, <2>1 DEF Invalid
  <2> HIDE DEF j
  <2>4. access_data(x, a) = Stored(OneMiss(y), j, a, n)
    BY <1>1, <1>7 DEF access_data, j, OneMiss, Noted
  <2>5. OneMiss(y) = State(c, n, Tally(h, m + 1, e), Append(t, a))
    BY <1>9, <1>10
  <2>6. Stored(State(c, n, Tally(h, m + 1, e), Append(t, a)), j, a, n) =
          State([c EXCEPT ![i] = Used(l, j, a, n)], n, Tally(h, m + 1, e), Append(t, a))
    BY StateStored
  <2>7. access_data(x, a) = State([c EXCEPT ![i] = Used(l, j, a, n)], n, Tally(h + 0, m + 1, e + 0), Append(t, a))
    BY <1>5, <2>4, <2>5, <2>6
  <2>8. Chosen(l, j, a)
    BY <1>7, <2>1 DEF Chosen
  <2> QED BY <1>7, <2>2, <2>7, <2>8 DEF Takes
<1>8. CASE Hits(l, a) = {} /\ Invalid(l) = {}
  <2> DEFINE j == lru_index(l)
             Old == {g \in DOMAIN l : \A p \in DOMAIN l : l[g].counter <= l[p].counter}
  <2>1. j \in Old
    <3> DEFINE C == {l[g].counter : g \in 0..E - 1}
    <3>1. C \in SUBSET Nat /\ C # {}
      <4>1. \A g \in 0..E - 1 : l[g].counter \in Nat
        BY <1>4 DEF Line
      <4>2. 0 \in 0..E - 1
        BY DEF Sized
      <4> QED BY <4>1, <4>2
    <3>2. PICK g \in 0..E - 1 : \A p \in 0..E - 1 : l[g].counter <= l[p].counter
      <4>1. PICK d \in C : \A f \in C : d <= f
        BY <3>1, LeastNumber
      <4> QED BY <4>1
    <3>3. Old \in SUBSET Nat /\ Old # {}
      BY <1>4, <3>2
    <3> HIDE DEF Old
    <3>4. Min(Old) \in Old
      BY <3>3, MinLeast
    <3> QED BY <3>4 DEF lru_index, Old
  <2>2. j \in 0..E - 1 /\ \A p \in 0..E - 1 : l[j].counter <= l[p].counter
    BY <1>4, <2>1
  <2> HIDE DEF j
  <2>4. access_data(x, a) = Stored(OneEvict(y), j, a, n)
    BY <1>1, <1>8 DEF access_data, j, OneEvict, Noted
  <2>5. OneEvict(y) = State(c, n, Tally(h, m + 1, e + 1), Append(t, a))
    BY <1>9, <1>10
  <2>6. Stored(State(c, n, Tally(h, m + 1, e + 1), Append(t, a)), j, a, n) =
          State([c EXCEPT ![i] = Used(l, j, a, n)], n, Tally(h, m + 1, e + 1), Append(t, a))
    BY StateStored
  <2>7. access_data(x, a) = State([c EXCEPT ![i] = Used(l, j, a, n)], n, Tally(h + 0, m + 1, e + 1), Append(t, a))
    BY <1>5, <2>4, <2>5, <2>6
  <2>8. Chosen(l, j, a)
    BY <1>8, <2>2 DEF Chosen
  <2> QED BY <1>8, <2>2, <2>7, <2>8 DEF Takes
<1> QED BY <1>6, <1>7, <1>8
\* An access keeps all this.
LEMMA AccessGood ==
    ASSUME Sized, NEW c, NEW t, NEW k, NEW a \in Nat, Good(c, Len(t), k, t)
    PROVE  \E d, q : /\ access_data(State(c, Len(t), k, t), a) = State(d, Len(Append(t, a)), q, Append(t, a))
                     /\ Good(d, Len(Append(t, a)), q, Append(t, a))
<1> DEFINE i == SetIndex(a)
           l == c[i]
           u == Append(t, a)
           hit == Hits(l, a) # {}
           full == Invalid(l) = {}
           q == Tally(k.hit + (IF hit THEN 1 ELSE 0), k.miss + (IF hit THEN 0 ELSE 1),
                      k.evict + (IF Hits(l, a) = {} /\ full THEN 1 ELSE 0))
<1>1. /\ t \in Seq(Nat) /\ c \in [Sets -> [0..E - 1 -> Line]] /\ k = Counts(t) /\ Len(t) \in Nat
      /\ \A m \in Sets : SetGood(c[m], t, m)
  BY DEF Good
<1>2. i \in Sets
  BY BlockFacts
<1>3. u \in Seq(Nat) /\ Len(u) = Len(t) + 1
  BY <1>1, Appended
<1>4. PICK j \in 0..E - 1 :
        /\ Chosen(l, j, a)
        /\ access_data(State(c, Len(t), k, t), a) = State([c EXCEPT ![i] = Used(l, j, a, Len(t) + 1)], Len(t) + 1, q, u)
  <2>1. PICK j \in 0..E - 1 : Takes(c, k, t, a, j)
    BY AccessTakes
  <2> QED BY <2>1 DEF Takes
<1> DEFINE w == Used(l, j, a, Len(t) + 1)
           d == [c EXCEPT ![i] = w]
<1>5. SetGood(w, u, i)
  BY <1>1, <1>2, <1>4, OwnSet
<1>6. w \in [0..E - 1 -> Line]
  BY <1>5 DEF SetGood
<1>7. d \in [Sets -> [0..E - 1 -> Line]] /\ d[i] = w /\ \A m \in Sets : m # i => d[m] = c[m]
  <2> HIDE DEF w, i
  <2> QED BY <1>1, <1>2, <1>6
<1>8. ASSUME NEW m \in Sets PROVE SetGood(d[m], u, m)
  <2>1. CASE m = i
    BY <1>5, <1>7, <2>1
  <2>2. CASE m # i
    <3>1. SetGood(c[m], u, m)
      BY <1>1, <2>2, OtherSet
    <3> QED BY <1>7, <2>2, <3>1
  <2> QED BY <2>1, <2>2
<1>9. IsHit(u, Len(t) + 1) <=> hit
  <2>1. CASE hit
    <3>1. PICK h \in Hits(l, a) : TRUE
      BY <2>1
    <3> QED BY <1>1, <1>2, <2>1, <3>1, HitRight
  <2>2. CASE ~hit
    BY <1>1, <1>2, <2>2, MissRight
  <2> QED BY <2>1, <2>2
<1>10. Evicts(u, Len(t) + 1) <=> ~hit /\ full
  <2>1. Cardinality(Peers(u, Len(t) + 1, 1)) >= E <=> full
    BY <1>1, <1>2, EvictRight
  <2> QED BY <1>9, <2>1 DEF Evicts
<1>11. q = Counts(u)
  <2>1. Counts(u) = [hit   |-> Counts(t).hit + (IF IsHit(u, Len(t) + 1) THEN 1 ELSE 0),
                     miss  |-> Counts(t).miss + (IF ~IsHit(u, Len(t) + 1) THEN 1 ELSE 0),
                     evict |-> Counts(t).evict + (IF Evicts(u, Len(t) + 1) THEN 1 ELSE 0)]
    BY <1>1, CountsStep
  <2>2. /\ (IF hit THEN 1 ELSE 0) = (IF IsHit(u, Len(t) + 1) THEN 1 ELSE 0)
        /\ (IF hit THEN 0 ELSE 1) = (IF ~IsHit(u, Len(t) + 1) THEN 1 ELSE 0)
        /\ (IF Hits(l, a) = {} /\ full THEN 1 ELSE 0) = (IF Evicts(u, Len(t) + 1) THEN 1 ELSE 0)
    BY <1>9, <1>10
  <2> HIDE DEF hit, full, u, l
  <2> QED BY <1>1, <2>1, <2>2 DEF Tally
<1>12. Good(d, Len(u), q, u)
  <2> HIDE DEF d, q, u
  <2> QED BY <1>3, <1>7, <1>8, <1>11 DEF Good
<1>13. access_data(State(c, Len(t), k, t), a) = State(d, Len(u), q, u)
  BY <1>3, <1>4
<1> HIDE DEF d, q
<1> QED BY <1>12, <1>13
-----------------------------------------------------------------------------
(* The specification *)

\* The arguments are numbers; while the trace is replayed cache, clock, counts
\* and trace belong together, and the counts stay as they are afterwards.
Inv ==
    /\ pc \in {"args", "replay", "exited"} /\ s \in Nat /\ E \in Nat /\ b \in Nat /\ addr \in Nat
    /\ pc = "args" => global_counter = 0 /\ trace = <<>>
    /\ pc = "replay" => E # 0 /\ Good(cache, global_counter, count, trace)
    /\ count = Counts(trace)

\* A trace of no accesses.
LEMMA NoCounts == Counts(<<>>) = [hit |-> 0, miss |-> 0, evict |-> 0]
<1>1. DOMAIN <<>> = {}
  OBVIOUS
<1>2. Cardinality({}) = 0
  BY FS_EmptySet
<1>3. /\ {k \in {} : IsHit(<<>>, k)} = {} /\ {k \in {} : ~IsHit(<<>>, k)} = {}
      /\ {k \in {} : Evicts(<<>>, k)} = {}
  OBVIOUS
<1> QED BY <1>1, <1>2, <1>3 DEF Counts

\* The invariant holds at the start.
LEMMA InitInv == CsimAssumption /\ Init => Inv
BY NoCounts DEF CsimAssumption, Init, Inv

\* init_cache makes an empty cache.
LEMMA MainInv == Inv /\ main => Inv'
<1> SUFFICES ASSUME Inv, main PROVE Inv'
  OBVIOUS
<1>1. UNCHANGED <<s, E, b, global_counter, count, addr, trace>> /\ trace = <<>> /\ global_counter = 0
  BY DEF Inv, main
<1>2. Counts(trace)' = Counts(trace)
  BY <1>1 DEF Counts, IsHit, Evicts, Before, Peers, Block, SetIndex
<1>3. CASE pc' = "exited"
  BY <1>1, <1>2, <1>3 DEF Inv
<1>4. CASE pc' = "replay"
  <2>1. Sized /\ cache' = init_cache
    BY <1>4 DEF main, Inv, Sized
  <2>2. E # 0
    BY <2>1 DEF Sized
  <2>3. EmptySet \in [0..E - 1 -> Line] /\ \A j \in 0..E - 1 : ~EmptySet[j].valid
    BY DEF EmptySet, Line
  <2>4. cache' \in [Sets -> [0..E - 1 -> Line]] /\ \A i \in Sets : cache'[i] = EmptySet
    BY <2>1, <2>3 DEF init_cache, Sets
  <2>5. \A i \in Sets : SetGood(EmptySet, <<>>, i)
    BY <2>3 DEF SetGood, LinesRight, TagsApart, LeftBehind
  <2>6. Good(cache', 0, count, <<>>)
    BY <1>1, <2>4, <2>5 DEF Good, Inv
  <2>7. Good(cache, global_counter, count, trace)'
    BY <1>1, <1>2, <2>6 DEF Good, SetGood, LinesRight, TagsApart, LeftBehind, LastUse, Line, Sets, BlockOf, Block, SetIndex
  <2> QED BY <1>1, <1>2, <1>4, <2>2, <2>7 DEF Inv
<1> QED BY <1>3, <1>4 DEF main
\* The counts belong to the trace as long as the arguments stay.
LEMMA GoodLater ==
    ASSUME UNCHANGED <<s, E, b>>, Good(cache', global_counter', count', trace')
    PROVE  Good(cache, global_counter, count, trace)' /\ count' = Counts(trace)'
<1>1. count' = Counts(trace')
  BY DEF Good
<1>2. Counts(trace)' = Counts(trace')
  BY DEF Counts, IsHit, Evicts, Before, Peers, Block, SetIndex
<1>3. Good(cache, global_counter, count, trace)'
  <2>1. Sets' = Sets /\ E' = E
    BY DEF Sets
  <2>2. ASSUME NEW i \in Sets PROVE SetGood(cache[i], trace, i)'
    <3>1. SetGood(cache'[i], trace', i)
      BY DEF Good
    <3>2. LinesRight(cache[i], trace, i)'
      BY <3>1 DEF SetGood, LinesRight, LastUse, BlockOf, Block
    <3>3. TagsApart(cache[i])'
      BY <3>1 DEF SetGood, TagsApart
    <3>4. LeftBehind(cache[i], trace, i)'
      BY <3>1 DEF SetGood, LeftBehind, BlockOf, Block, SetIndex
    <3> QED BY <3>1, <3>2, <3>3, <3>4 DEF SetGood
  <2> QED BY <1>1, <1>2, <2>1, <2>2 DEF Good
<1> QED BY <1>1, <1>2, <1>3

\* A line of the trace keeps the invariant, a modify by two accesses.
LEMMA ReplayInv ==
    ASSUME CsimAssumption, Inv, NEW op \in {"L", "S", "M", "I"}, NEW a \in Addrs, NEW has \in BOOLEAN,
           replay_trace(op, a, has)
    PROVE  Inv'
<1> DEFINE at == IF has THEN a ELSE addr
           x == State(cache, global_counter, count, trace)
           once == access_data(x, at)
           y == CASE op \in {"L", "S"} -> once
                  [] op = "M" -> access_data(once, at)
                  [] op = "I" -> x
<1>1. /\ pc = "replay" /\ UNCHANGED <<s, E, b, pc>> /\ addr' = (IF op = "I" THEN addr ELSE at)
      /\ cache' = y.cache /\ global_counter' = y.clock /\ count' = y.count /\ trace' = y.trace
  BY DEF replay_trace, State
<1>2. at \in Nat /\ addr' \in Nat
  BY <1>1 DEF CsimAssumption, Inv
<1>3. Sized /\ Good(cache, global_counter, count, trace) /\ global_counter = Len(trace)
  BY <1>1 DEF Inv, Sized, Good
<1> HIDE DEF at
<1>4. PICK d, q : /\ once = State(d, Len(Append(trace, at)), q, Append(trace, at))
                  /\ Good(d, Len(Append(trace, at)), q, Append(trace, at))
  BY <1>2, <1>3, AccessGood
<1> DEFINE t == Append(trace, at)
<1>5. PICK d2, q2 : /\ access_data(State(d, Len(t), q, t), at) = State(d2, Len(Append(t, at)), q2, Append(t, at))
                    /\ Good(d2, Len(Append(t, at)), q2, Append(t, at))
  <2> HIDE DEF t
  <2> QED BY <1>2, <1>3, <1>4, AccessGood DEF t
<1>6. \E c, n, k, u : y = State(c, n, k, u) /\ Good(c, n, k, u)
  <2> HIDE DEF once, x
  <2>1. CASE op \in {"L", "S"}
    BY <1>4, <2>1
  <2>2. CASE op = "M"
    <3>1. y = access_data(once, at)
      BY <2>2
    <3> QED BY <1>4, <1>5, <3>1
  <2>3. CASE op = "I"
    BY <1>3, <2>3 DEF x
  <2> QED BY <2>1, <2>2, <2>3
<1> HIDE DEF y
<1>7. PICK c, n, k, u : y = State(c, n, k, u) /\ Good(c, n, k, u)
  BY <1>6
<1>8. cache' = c /\ global_counter' = n /\ count' = k /\ trace' = u
  BY <1>1, <1>7 DEF State
<1>9. Good(cache, global_counter, count, trace)' /\ count' = Counts(trace)'
  BY <1>1, <1>7, <1>8, GoodLater
<1> QED BY <1>1, <1>2, <1>9 DEF Inv

\* So does the end of the trace.
LEMMA FreeInv == Inv /\ free_cache => Inv'
<1> SUFFICES ASSUME Inv, free_cache PROVE Inv'
  OBVIOUS
<1>1. UNCHANGED <<s, E, b, count, trace, addr>> /\ pc' = "exited"
  BY DEF free_cache
<1>2. Counts(trace)' = Counts(trace)
  BY <1>1 DEF Counts, IsHit, Evicts, Before, Peers, Block, SetIndex
<1> QED BY <1>1, <1>2 DEF Inv

\* A step that changes nothing.
LEMMA StutterInv == Inv /\ UNCHANGED vars => Inv'
<1> SUFFICES ASSUME Inv, UNCHANGED vars PROVE Inv'
  OBVIOUS
<1>1. /\ UNCHANGED <<s, E, b, pc, addr>> /\ cache' = cache /\ global_counter' = global_counter
      /\ count' = count /\ trace' = trace
  BY DEF vars
<1>2. Counts(trace)' = Counts(trace)
  BY <1>1 DEF Counts, IsHit, Evicts, Before, Peers, Block, SetIndex
<1>3. pc = "replay" => Good(cache, global_counter, count, trace)'
  BY <1>1, GoodLater DEF Inv
<1> QED BY <1>1, <1>2, <1>3 DEF Inv

\* The invariant, for every shape of the cache and every trace.
THEOREM ReplaySound ==
    ASSUME CsimAssumption
    PROVE  Spec => []Inv
<1>1. Init => Inv
  BY InitInv
<1>2. Inv /\ [Next]_vars => Inv'
  BY MainInv, ReplayInv, FreeInv, StutterInv DEF Next
<1> QED BY <1>1, <1>2, PTL DEF Spec

\* CountsLRU: for any number of sets, lines and bytes in a block and any trace,
\* access_data counts a hit exactly when fewer than E other blocks of the set
\* came since the last access to the block, a miss otherwise, and an eviction
\* exactly when the set was full.
THEOREM CountsAreLRU ==
    ASSUME CsimAssumption
    PROVE  Spec => []CountsLRU
<1>1. Inv => CountsLRU
  BY DEF Inv, CountsLRU
<1> QED BY <1>1, ReplaySound, PTL
=============================================================================
