----------------------------- MODULE WmapProofs -----------------------------
(* Theorems about Wmap, for any number of processes, frames, files and       *)
(* regions and any sizes.  Four inductive invariants, each resting on the    *)
(* ones before it: the types; ListInv, how a list is placed and sorted;      *)
(* FileInv, the references to files; and OrderInv, who owns which frame and  *)
(* where the last value stored in a file's page is, for families that follow *)
(* the rules of Orderly.                                                     *)
EXTENDS Wmap, FiniteSetTheorems, WellFoundedInduction, TLAPS

-----------------------------------------------------------------------------
(* Numbers and pages *)

\* A set of numbers that is not empty has a least one.
LEMMA LeastNumber ==
    ASSUME NEW S \in SUBSET Nat, S # {}
    PROVE  \E n \in S : \A m \in S : n <= m
<1> DEFINE R == OpToRel(<, Nat)
<1>1. IsWellFoundedOn(R, Nat)
  BY NatLessThanWellFounded, Zenon
<1>2. \A n, m \in Nat : <<n, m>> \in R <=> n < m
  BY DEF OpToRel
<1> HIDE DEF R
<1>3. PICK n \in S : \A m \in S : ~(<<m, n>> \in R)
  BY <1>1, WFMin
<1>4. \A m \in S : ~(m < n)
  BY <1>2, <1>3
<1> QED BY <1>4

\* FirstIdx is that number.
LEMMA FirstIdxLeast ==
    ASSUME NEW S \in SUBSET Nat, S # {}
    PROVE  FirstIdx(S) \in S /\ \A j \in S : FirstIdx(S) <= j
<1>1. \E n \in S : \A m \in S : n <= m
  BY LeastNumber
<1> QED BY <1>1, Zenon DEF FirstIdx

\* It is the only one.
LEMMA FirstIdxIs ==
    ASSUME NEW S \in SUBSET Nat, NEW n \in S, \A j \in S : n <= j
    PROVE  FirstIdx(S) = n
<1>1. FirstIdx(S) \in S /\ \A j \in S : FirstIdx(S) <= j
  BY FirstIdxLeast
<1>2. FirstIdx(S) <= n /\ n <= FirstIdx(S) /\ FirstIdx(S) \in Nat /\ n \in Nat
  BY <1>1
<1> QED BY <1>2

\* The constants are numbers of the right kind.
LEMMA Sizes ==
    /\ PGSIZE \in Nat \ {0} /\ MMAPBASE \in Nat /\ KERNBASE \in Nat /\ MMAPBASE < KERNBASE
    /\ MAX_NMMAP \in Nat \ {0} /\ FilePages \in Nat /\ WORD \in Nat \ {0} /\ KERNBASE < WORD
    /\ MMAPBASE % PGSIZE = 0 /\ KERNBASE % PGSIZE = 0
    /\ First \in Procs /\ NULL \notin Procs /\ NULL \notin Frames /\ NULL \notin Files
BY WmapAssumption DEF WORD

\* Division with a remainder.
LEMMA ModBy ==
    ASSUME NEW x \in Int, NEW m \in Nat \ {0}
    PROVE  /\ x % m \in 0..(m - 1) /\ x \div m \in Int
           /\ x = m * (x \div m) + (x % m)
OBVIOUS

\* A multiple has no remainder.
LEMMA Multiple ==
    ASSUME NEW m \in Nat \ {0}, NEW q \in Int
    PROVE  (m * q) % m = 0
<1> DEFINE x == m * q
           a == x % m
           b == x \div m
<1>1. x \in Int
  OBVIOUS
<1>2. a \in 0..(m - 1) /\ b \in Int /\ x = m * b + a
  BY <1>1, ModBy
<1>3. m * (q - b) = a
  <2> HIDE DEF a, b
  <2> QED BY <1>2 DEF x
<1> HIDE DEF x, a, b
<1>4. CASE q - b >= 1
  <2>1. m * (q - b) >= m
    BY <1>2, <1>4
  <2> QED BY <1>2, <1>3, <2>1
<1>5. CASE q - b <= 0
  <2>1. m * (q - b) <= 0
    BY <1>2, <1>5
  <2>2. a = 0
    BY <1>2, <1>3, <2>1
  <2> QED BY <2>2 DEF a, x
<1> QED BY <1>2, <1>4, <1>5

Aligned(x) == x % PGSIZE = 0

\* An aligned address is a multiple of PGSIZE.
LEMMA AlignedIs ==
    ASSUME NEW x \in Int, Aligned(x)
    PROVE  \E k \in Int : x = PGSIZE * k
<1>1. x = PGSIZE * (x \div PGSIZE) + 0 /\ x \div PGSIZE \in Int
  BY Sizes, ModBy DEF Aligned
<1> HIDE DEF Aligned
<1> DEFINE k == x \div PGSIZE
<1>2. k \in Int /\ x = PGSIZE * k + 0
  BY <1>1
<1> HIDE DEF k
<1>3. x = PGSIZE * k
  BY <1>2, Sizes
<1> QED BY <1>2, <1>3

\* PGROUNDUP gives the first aligned address from x on.
LEMMA RoundUp ==
    ASSUME NEW x \in Int
    PROVE  /\ PGROUNDUP(x) \in Int /\ Aligned(PGROUNDUP(x)) /\ PGROUNDUP(x) >= x
           /\ \A y \in Int : Aligned(y) /\ y >= x => y >= PGROUNDUP(x)
<1> DEFINE P == PGSIZE
           z == x + P - 1
           q == z \div P
           r == z % P
<1>1. P \in Nat \ {0}
  BY Sizes
<1>2. z \in Int
  BY <1>1
<1>3. q \in Int /\ r \in 0..(P - 1) /\ z = P * q + r
  BY <1>1, <1>2, ModBy
<1>4. PGROUNDUP(x) = q * P
  BY DEF PGROUNDUP
<1> HIDE DEF q, r
<1>5. x + P - 1 = P * q + r
  BY <1>3
<1> HIDE DEF z
<1>6. q * P = P * q /\ P * q \in Int
  BY <1>1, <1>3
<1>7. Aligned(PGROUNDUP(x))
  <2>1. (P * q) % P = 0
    BY <1>1, <1>3, Multiple
  <2> QED BY <1>4, <1>6, <2>1 DEF Aligned
<1> DEFINE u == P * q
<1>8. u >= x
  <2>1. u \in Int /\ x + P - 1 = u + r
    BY <1>5, <1>6
  <2> HIDE DEF u, P
  <2> QED BY <1>1, <1>3, <2>1
<1>9. ASSUME NEW y \in Int, Aligned(y), y >= x PROVE y >= u
  <2>1. PICK k \in Int : y = P * k
    BY <1>9, AlignedIs
  <2> SUFFICES ASSUME k < q PROVE FALSE
    <3>1. k >= q => P * k >= P * q
      BY <1>1, <1>3
    <3> QED BY <1>3, <2>1, <3>1
  <2>2. P * (k + 1) <= P * q
    BY <1>1, <1>3
  <2>3. P * (k + 1) = P * k + P
    BY <1>1
  <2>4. y + P <= u /\ u \in Int /\ x + P - 1 = u + r
    BY <2>1, <2>2, <2>3, <1>5, <1>6
  <2> HIDE DEF u, P
  <2> QED BY <1>1, <1>3, <1>9, <2>4
<1>10. PGROUNDUP(x) = u
  BY <1>4, <1>6
<1> QED BY <1>6, <1>7, <1>8, <1>9, <1>10

\* Two pages of a region are not at the same offset of its file.
LEMMA OffsetInjective ==
    ASSUME NEW a \in Int, NEW v \in Int, NEW w \in Int, Aligned(v), Aligned(w),
           (v - a) \div PGSIZE = (w - a) \div PGSIZE
    PROVE  v = w
<1> DEFINE P == PGSIZE
           x == v - a
           y == w - a
           q == x \div P
           r == x % P
           s == y % P
<1>1. P \in Nat \ {0} /\ x \in Int /\ y \in Int
  BY Sizes
<1>2. q \in Int /\ r \in 0..(P - 1) /\ x = P * q + r
  BY <1>1, ModBy
<1>3. s \in 0..(P - 1) /\ y = P * q + s
  BY <1>1, ModBy
<1>4. PICK k \in Int : v = P * k
  BY AlignedIs
<1>5. PICK l \in Int : w = P * l
  BY AlignedIs
<1> HIDE DEF q, r, s
<1>6. P * (k - l) = r - s
  <2>1. P * q \in Int
    BY <1>1, <1>2
  <2>2. v - w = r - s
    BY <1>2, <1>3, <2>1
  <2>3. P * (k - l) = P * k - P * l
    BY <1>1
  <2> QED BY <1>4, <1>5, <2>2, <2>3
<1> HIDE DEF x, y, P
<1>7. CASE k - l >= 1
  <2>1. P * (k - l) >= P
    BY <1>1, <1>7
  <2> QED BY <1>1, <1>2, <1>3, <1>6, <2>1
<1>8. CASE k - l <= -1
  <2>1. P * (k - l) <= -P
    BY <1>1, <1>8
  <2> QED BY <1>1, <1>2, <1>3, <1>6, <2>1
<1>9. CASE k = l
  BY <1>4, <1>5, <1>9
<1> QED BY <1>7, <1>8, <1>9

\* An address of a page of the range of wmap.
LEMMA PageFacts ==
    /\ IsFiniteSet(PageAddrs)
    /\ \A va \in PageAddrs : va \in Int /\ Aligned(va) /\ MMAPBASE <= va /\ va < KERNBASE
    /\ \A va \in Int : Aligned(va) /\ MMAPBASE <= va /\ va < KERNBASE => va \in PageAddrs
<1>1. MMAPBASE \in Int /\ KERNBASE - 1 \in Int
  BY Sizes
<1>2. IsFiniteSet(MMAPBASE..(KERNBASE - 1))
  BY <1>1, FS_Interval
<1>3. PageAddrs \in SUBSET (MMAPBASE..(KERNBASE - 1))
  BY DEF PageAddrs
<1>4. IsFiniteSet(PageAddrs)
  BY <1>2, <1>3, FS_Subset
<1> QED BY <1>4, Sizes DEF PageAddrs, Aligned

-----------------------------------------------------------------------------
(* Lists *)

\* The list m with its elements from i to k - 1 replaced by those of l.
Splice(m, i, l, k) == SubSeq(m, 1, i - 1) \o l \o SubSeq(m, k, Len(m))

\* The elements of a concatenation c of a and b.
Concat(S, a, b, c) ==
    /\ c \in Seq(S) /\ Len(c) = Len(a) + Len(b) /\ (\A j \in 1..Len(a) : c[j] = a[j])
    /\ \A j \in 1..Len(b) : c[Len(a) + j] = b[j]

\* That is what \o gives.
LEMMA ConcatAt ==
    ASSUME NEW S, NEW a \in Seq(S), NEW b \in Seq(S)
    PROVE  Concat(S, a, b, a \o b)
<1> DEFINE c == a \o b
<1>1. c \in Seq(S) /\ Len(c) = Len(a) + Len(b)
  OBVIOUS
<1>2. \A j \in 1..Len(a) : c[j] = a[j]
  OBVIOUS
<1>3. \A j \in 1..Len(b) : c[Len(a) + j] = b[j]
  OBVIOUS
<1> QED BY <1>1, <1>2, <1>3 DEF Concat

\* The elements of s, that list, by their place.
Spliced(S, m, i, l, k, s) ==
    /\ s \in Seq(S) /\ Len(s) = (i - 1) + Len(l) + (Len(m) - k + 1)
    /\ \A j \in 1..(i - 1) : s[j] = m[j]
    /\ \A j \in 1..Len(l) : s[i - 1 + j] = l[j]
    /\ \A j \in k..Len(m) : s[i - 1 + Len(l) + (j - k + 1)] = m[j]

\* They are where Spliced says.
LEMMA SpliceAt ==
    ASSUME NEW S, NEW m \in Seq(S), NEW l \in Seq(S), NEW i \in 1..(Len(m) + 1), NEW k \in i..(Len(m) + 1),
           NEW s, s = Splice(m, i, l, k)
    PROVE  Spliced(S, m, i, l, k, s)
<1> DEFINE a == SubSeq(m, 1, i - 1)
           b == SubSeq(m, k, Len(m))
<1>1. Len(m) \in Nat /\ Len(l) \in Nat
  OBVIOUS
<1>2. a \in Seq(S) /\ Len(a) = i - 1 /\ \A j \in 1..(i - 1) : a[j] = m[j]
  OBVIOUS
<1>3. b \in Seq(S) /\ Len(b) = Len(m) - k + 1 /\ \A j \in 1..(Len(m) - k + 1) : b[j] = m[k + j - 1]
  OBVIOUS
<1>4. Splice(m, i, l, k) = (a \o l) \o b
  BY DEF Splice
<1> HIDE DEF a, b
<1> DEFINE c == a \o l
<1> HIDE DEF c
<1>5. /\ c \in Seq(S) /\ Len(c) = i - 1 + Len(l)
      /\ \A j \in 1..(i - 1) : c[j] = m[j]
      /\ \A j \in 1..Len(l) : c[i - 1 + j] = l[j]
  <2>1. c \in Seq(S) /\ Len(c) = Len(a) + Len(l) /\ (\A j \in 1..Len(a) : c[j] = a[j])
        /\ \A j \in 1..Len(l) : c[Len(a) + j] = l[j]
    <3>1. a \in Seq(S) /\ l \in Seq(S) /\ c = a \o l
      BY <1>2 DEF c
    <3>2. Concat(S, a, l, c)
      BY <3>1, ConcatAt
    <3> QED BY <3>2 DEF Concat
  <2> QED BY <1>1, <1>2, <2>1
<1>6. /\ s \in Seq(S) /\ Len(s) = Len(c) + Len(b) /\ (\A j \in 1..Len(c) : s[j] = c[j])
      /\ \A j \in 1..Len(b) : s[Len(c) + j] = b[j]
  <2>1. s = c \o b
    BY <1>4 DEF c
  <2>2. c \in Seq(S) /\ b \in Seq(S)
    BY <1>3, <1>5
  <2>3. Concat(S, c, b, s)
    BY <2>1, <2>2, ConcatAt
  <2> QED BY <2>3 DEF Concat
<1>7. s \in Seq(S) /\ Len(s) = i - 1 + Len(l) + (Len(m) - k + 1)
  BY <1>1, <1>3, <1>5, <1>6
<1>8. Len(c) = i - 1 + Len(l) /\ Len(b) = Len(m) - k + 1
  BY <1>3, <1>5
<1>9. \A j \in 1..(i - 1) : s[j] = m[j]
  BY <1>1, <1>5, <1>6, <1>8
<1>10. ASSUME NEW j \in 1..Len(l) PROVE s[i - 1 + j] = l[j]
  <2>1. i - 1 + j \in 1..Len(c)
    BY <1>1, <1>8
  <2> QED BY <1>5, <1>6, <2>1
<1>11. ASSUME NEW j \in k..Len(m) PROVE s[i - 1 + Len(l) + (j - k + 1)] = m[j]
  <2>1. j - k + 1 \in 1..(Len(m) - k + 1) /\ k + (j - k + 1) - 1 = j
    BY <1>1
  <2> DEFINE n == j - k + 1
  <2> HIDE DEF n
  <2>2. n \in 1..(Len(m) - k + 1) /\ k + n - 1 = j
    BY <2>1 DEF n
  <2>3. s[Len(c) + n] = b[n] /\ b[n] = m[k + n - 1]
    BY <1>3, <1>6, <1>8, <2>2
  <2> QED BY <1>8, <2>2, <2>3 DEF n
<1> QED BY <1>7, <1>9, <1>10, <1>11 DEF Spliced

\* Where element x of s = Splice(m, i, l, k) comes from.
CameFrom(m, i, l, k, s, x) ==
    \/ x \in 1..(i - 1) /\ x \in DOMAIN m /\ s[x] = m[x]
    \/ \E j \in DOMAIN l : x = i - 1 + j /\ s[x] = l[j]
    \/ \E j \in k..Len(m) : j \in DOMAIN m /\ x = i - 1 + Len(l) + (j - k + 1) /\ s[x] = m[j]

\* Each of its elements comes from one of the three parts.
LEMMA SpliceFrom ==
    ASSUME NEW S, NEW m \in Seq(S), NEW l \in Seq(S), NEW i \in 1..(Len(m) + 1), NEW k \in i..(Len(m) + 1),
           NEW s, s = Splice(m, i, l, k), NEW x \in DOMAIN s
    PROVE  CameFrom(m, i, l, k, s, x)
<1>1. /\ s \in Seq(S) /\ Len(s) = (i - 1) + Len(l) + (Len(m) - k + 1)
      /\ \A j \in 1..(i - 1) : s[j] = m[j]
      /\ \A j \in 1..Len(l) : s[i - 1 + j] = l[j]
      /\ \A j \in k..Len(m) : s[i - 1 + Len(l) + (j - k + 1)] = m[j]
  <2>1. Spliced(S, m, i, l, k, s)
    BY SpliceAt
  <2> QED BY <2>1 DEF Spliced
<1>2. x \in DOMAIN s
  OBVIOUS
<1>3. Len(m) \in Nat /\ Len(l) \in Nat /\ DOMAIN m = 1..Len(m) /\ DOMAIN l = 1..Len(l) /\ DOMAIN s = 1..Len(s)
  BY <1>1
<1>4. x \in Nat /\ x >= 1 /\ x <= (i - 1) + Len(l) + (Len(m) - k + 1)
  BY <1>1, <1>2, <1>3
<1>5. CASE x <= i - 1
  BY <1>1, <1>3, <1>4, <1>5 DEF CameFrom
<1>6. CASE x > i - 1 /\ x <= i - 1 + Len(l)
  <2>1. x - (i - 1) \in 1..Len(l) /\ x = i - 1 + (x - (i - 1))
    BY <1>3, <1>4, <1>6
  <2> QED BY <1>1, <1>3, <2>1 DEF CameFrom
<1>7. CASE x > i - 1 + Len(l)
  <2> DEFINE j == x - (i - 1) - Len(l) + k - 1
  <2>0. i \in Int /\ k \in Int /\ 1 <= i /\ i <= k /\ Len(l) \in Int /\ Len(m) \in Int /\ x \in Int
    BY <1>3, <1>4
  <2>2. j \in Int /\ k <= j /\ j <= Len(m) /\ 1 <= j
    BY <1>4, <1>7, <2>0
  <2>3. x = i - 1 + Len(l) + (j - k + 1)
    BY <2>0
  <2>1. j \in k..Len(m) /\ x = i - 1 + Len(l) + (j - k + 1) /\ j \in 1..Len(m)
    BY <2>0, <2>2, <2>3
  <2> HIDE DEF j
  <2> QED BY <1>1, <1>3, <2>1 DEF CameFrom
<1> QED BY <1>3, <1>4, <1>5, <1>6, <1>7

\* Insert is a splice: it puts r before the first element that is not before it.
LEMMA InsertIs ==
    ASSUME NEW S, NEW m \in Seq(S), NEW r \in S, \A j \in DOMAIN m : m[j].addr \in Int, r.addr \in Int
    PROVE  \E k \in 1..(Len(m) + 1) :
              /\ Insert(m, r) = Splice(m, k, <<r>>, k)
              /\ \A j \in 1..(k - 1) : j = 1 \/ m[j].addr < r.addr
              /\ k > 1 => m[1].addr <= r.addr
              /\ k <= Len(m) => m[k].addr >= r.addr
<1>1. Len(m) \in Nat /\ DOMAIN m = 1..Len(m)
  OBVIOUS
<1>2. CASE m = <<>> \/ m[1].addr > r.addr
  <2>1. Insert(m, r) = <<r>> \o m
    BY <1>2 DEF Insert
  <2>2. SubSeq(m, 1, 0) = <<>> /\ SubSeq(m, 1, Len(m)) = m /\ <<r>> \in Seq(S)
    OBVIOUS
  <2>3. <<>> \o <<r>> = <<r>>
    BY <2>2
  <2>4. Splice(m, 1, <<r>>, 1) = <<r>> \o m
    BY <2>2, <2>3 DEF Splice
  <2>5. 1 <= Len(m) => m[1].addr >= r.addr
    BY <1>1, <1>2
  <2>6. 1 \in 1..(Len(m) + 1) /\ ~(1 > 1) /\ 1..(1 - 1) = {}
    BY <1>1
  <2> QED BY <2>1, <2>4, <2>5, <2>6
<1>3. CASE ~(m = <<>> \/ m[1].addr > r.addr)
  <2> DEFINE I == {i \in DOMAIN m : i = Len(m) \/ m[i + 1].addr >= r.addr}
             n == FirstIdx(I)
  <2>1. Len(m) >= 1
    BY <1>1, <1>3
  <2>2. I \in SUBSET Nat /\ Len(m) \in I
    BY <1>1, <2>1
  <2>3. n \in I /\ \A j \in I : n <= j
    BY <2>2, FirstIdxLeast
  <2>4. Insert(m, r) = InsertAt(m, 1 + n, r)
    BY <1>3 DEF Insert
  <2> HIDE DEF n, I
  <2>5. n \in 1..Len(m) /\ (n = Len(m) \/ m[n + 1].addr >= r.addr)
    BY <1>1, <2>3 DEF I
  <2>6. Splice(m, 1 + n, <<r>>, 1 + n) = InsertAt(m, 1 + n, r)
    BY DEF Splice, InsertAt
  <2>7. ASSUME NEW j \in 1..n, j # 1 PROVE m[j].addr < r.addr
    <3>1. j - 1 \in 1..Len(m) /\ j - 1 < n /\ j \in 1..Len(m)
      BY <1>1, <2>5, <2>7
    <3>2. j - 1 \notin I
      BY <2>3, <2>5, <3>1
    <3>3. ~(m[(j - 1) + 1].addr >= r.addr) /\ (j - 1) + 1 = j
      BY <1>1, <3>1, <3>2 DEF I
    <3> QED BY <1>1, <3>1, <3>3
  <2>8. m[1].addr <= r.addr
    BY <1>1, <1>3, <2>1
  <2>9. 1 + n \in 1..(Len(m) + 1) /\ (1 + n) - 1 = n /\ 1 + n = n + 1
    <3>1. n \in 1..Len(m) /\ Len(m) \in Nat
      BY <1>1, <2>5
    <3> QED BY <3>1
  <2>10. 1 + n <= Len(m) => m[1 + n].addr >= r.addr
    <3>1. 1 + n <= Len(m) => n # Len(m)
      BY <1>1
    <3> QED BY <2>5, <2>9, <3>1
  <2> QED BY <2>4, <2>6, <2>7, <2>8, <2>9, <2>10
<1> QED BY <1>2, <1>3

\* So is RemoveAt.
LEMMA RemoveIs ==
    ASSUME NEW S, NEW m \in Seq(S), NEW i \in DOMAIN m
    PROVE  RemoveAt(m, i) = Splice(m, i, <<>>, i + 1)
<1>1. SubSeq(m, 1, i - 1) \o <<>> = SubSeq(m, 1, i - 1)
  OBVIOUS
<1> QED BY <1>1 DEF Splice, RemoveAt

-----------------------------------------------------------------------------
(* find_addr_place_mmap *)

Regions == Seq(Region)

\* The elements of a list of regions are regions.
LEMMA ListFacts ==
    ASSUME NEW m \in Regions
    PROVE  /\ m \in Seq(Region) /\ Len(m) \in Nat /\ DOMAIN m = 1..Len(m)
           /\ \A i \in DOMAIN m : m[i] \in Region
BY DEF Regions

\* The fields of a region have their types.
LEMMA RegionFacts ==
    ASSUME NEW r \in Region
    PROVE  /\ r.addr \in Int /\ r.length \in Int /\ EndOf(r) \in Int /\ EndOf(r) = r.addr + r.length
           /\ r.flags \in SUBSET MapFlags /\ r.file \in Files \cup {NULL} /\ r.refcnt \in {0, 1}
           /\ r.n_loaded_pages \in Int
BY DEF Region, EndOf

\* The start after region r, when it was s before.
StartAfter(r, s) == PGROUNDUP(IF EndOf(r) > s THEN EndOf(r) ELSE s)

\* f is the function start of GapAfter for list m up to n.
Starts(f, m, n) == f = [i \in 0..n |-> IF i = 0 THEN MMAPBASE ELSE StartAfter(m[i], f[i - 1])]

\* The starts of find_addr_place_mmap exist as a function.
LEMMA StartsExist ==
    ASSUME NEW m, NEW n \in Nat
    PROVE  \E f : Starts(f, m, n)
<1> DEFINE Bad == {i \in Nat : ~\E f : Starts(f, m, i)}
<1> SUFFICES ASSUME Bad # {} PROVE FALSE
  OBVIOUS
<1>1. PICK k \in Bad : \A i \in Bad : k <= i
  BY LeastNumber
<1>2. CASE k = 0
  <2>1. Starts([i \in 0..0 |-> MMAPBASE], m, 0)
    BY DEF Starts
  <2> QED BY <1>2, <2>1
<1>3. CASE k # 0
  <2>1. k - 1 \in Nat /\ k - 1 \notin Bad /\ k \in Nat
    BY <1>1, <1>3
  <2>2. PICK f : Starts(f, m, k - 1)
    BY <2>1
  <2> DEFINE g == [i \in 0..k |-> IF i = k THEN StartAfter(m[k], f[k - 1]) ELSE f[i]]
  <2>3. ASSUME NEW i \in 0..k PROVE g[i] = IF i = 0 THEN MMAPBASE ELSE StartAfter(m[i], g[i - 1])
    <3>1. CASE i = 0
      BY <1>3, <2>1, <2>2, <3>1 DEF Starts
    <3>2. CASE i = k
      <4>1. g[i] = StartAfter(m[k], f[k - 1]) /\ g[k - 1] = f[k - 1]
        BY <1>3, <2>1, <3>2
      <4> QED BY <1>3, <3>2, <4>1
    <3>3. CASE i # 0 /\ i # k
      <4>1. g[i] = f[i] /\ g[i - 1] = f[i - 1] /\ i \in 0..(k - 1)
        BY <2>1, <3>3
      <4>2. f[i] = StartAfter(m[i], f[i - 1])
        BY <2>2, <3>3, <4>1 DEF Starts
      <4> QED BY <3>3, <4>1, <4>2
    <3> QED BY <3>1, <3>2, <3>3
  <2>4. Starts(g, m, k)
    BY <2>3 DEF Starts
  <2> QED BY <1>1, <2>4
<1> QED BY <1>2, <1>3

\* The regions that leave room for len before the next one, or are the last.
Stops(f, m, len) == {i \in 0..Len(m) : i = Len(m) \/ m[i + 1].addr >= f[i] + len}

\* FindAddr takes the first of them.
LEMMA FindAddrIs ==
    ASSUME NEW m \in Regions, NEW len \in Int
    PROVE  \E f : Starts(f, m, Len(m)) /\ FindAddr(m, len) = f[FirstIdx(Stops(f, m, len))]
                  /\ \A i \in 0..Len(m) : f[i] \in Int
<1>1. Len(m) \in Nat
  BY ListFacts
<1>2. \E f : Starts(f, m, Len(m))
  BY <1>1, StartsExist
<1> DEFINE F == CHOOSE f : Starts(f, m, Len(m))
<1>3. Starts(F, m, Len(m))
  BY <1>2
<1>4. FindAddr(m, len) = F[FirstIdx({i \in 0..Len(m) : i = Len(m) \/ m[i + 1].addr >= F[i] + len + 0})]
  BY Zenon DEF FindAddr, GapAfter, Starts, StartAfter
<1> HIDE DEF F
<1> DEFINE Bad == {i \in 0..Len(m) : ~(F[i] \in Int)}
<1>5. Bad = {}
  <2> SUFFICES ASSUME Bad # {} PROVE FALSE
    OBVIOUS
  <2>0. Bad \in SUBSET Nat
    BY <1>1
  <2>1. PICK n \in Bad : \A i \in Bad : n <= i
    BY <2>0, LeastNumber
  <2>2. CASE n = 0
    BY <1>1, <1>3, <2>1, <2>2, Sizes DEF Starts
  <2>3. CASE n # 0
    <3>1. n - 1 \in 0..Len(m) /\ n - 1 \notin Bad /\ n \in DOMAIN m
      BY <1>1, <2>1, <2>3, ListFacts
    <3>2. F[n - 1] \in Int /\ EndOf(m[n]) \in Int
      BY <3>1, ListFacts, RegionFacts
    <3>3. F[n] = StartAfter(m[n], F[n - 1])
      BY <1>3, <2>3 DEF Starts
    <3>4. (IF EndOf(m[n]) > F[n - 1] THEN EndOf(m[n]) ELSE F[n - 1]) \in Int
      BY <3>2
    <3>5. F[n] \in Int
      BY <3>3, <3>4, RoundUp DEF StartAfter
    <3> QED BY <2>1, <3>5
  <2> QED BY <2>2, <2>3
<1>6. {i \in 0..Len(m) : i = Len(m) \/ m[i + 1].addr >= F[i] + len + 0} = Stops(F, m, len)
  <2>1. \A i \in 0..Len(m) : F[i] + len + 0 = F[i] + len
    BY <1>5
  <2> QED BY <2>1 DEF Stops
<1> QED BY <1>3, <1>4, <1>5, <1>6

\* What the starts are: aligned, growing, behind the regions passed, and no
\* further than any place that is behind them.
LEMMA StartFacts ==
    ASSUME NEW m \in Regions, NEW f, Starts(f, m, Len(m)), NEW i \in 1..Len(m), f[i - 1] \in Int
    PROVE  /\ f[i] \in Int /\ Aligned(f[i]) /\ f[i] >= f[i - 1] /\ f[i] >= EndOf(m[i])
           /\ \A a \in Int : Aligned(a) /\ a >= f[i - 1] /\ a >= EndOf(m[i]) => a >= f[i]
<1>1. Len(m) \in Nat /\ i \in DOMAIN m /\ EndOf(m[i]) \in Int
  BY ListFacts, RegionFacts
<1>2. f[i] = StartAfter(m[i], f[i - 1])
  BY <1>1 DEF Starts
<1> DEFINE x == IF EndOf(m[i]) > f[i - 1] THEN EndOf(m[i]) ELSE f[i - 1]
<1>3. x \in Int /\ x >= EndOf(m[i]) /\ x >= f[i - 1] /\ (x = EndOf(m[i]) \/ x = f[i - 1])
  BY <1>1
<1>4. f[i] = PGROUNDUP(x)
  BY <1>2 DEF StartAfter
<1> HIDE DEF x
<1>5. /\ f[i] \in Int /\ Aligned(f[i]) /\ f[i] >= x
      /\ \A y \in Int : Aligned(y) /\ y >= x => y >= f[i]
  BY <1>3, <1>4, RoundUp
<1>6. f[i] >= f[i - 1] /\ f[i] >= EndOf(m[i])
  BY <1>1, <1>3, <1>5
<1> QED BY <1>1, <1>3, <1>5, <1>6

\* The address found is that of a page from MMAPBASE on.
LEMMA FindAddrAligned ==
    ASSUME NEW m \in Regions, NEW len \in Int
    PROVE  FindAddr(m, len) \in Int /\ Aligned(FindAddr(m, len)) /\ FindAddr(m, len) >= MMAPBASE
<1>1. Len(m) \in Nat
  BY ListFacts
<1>2. PICK f : /\ Starts(f, m, Len(m)) /\ FindAddr(m, len) = f[FirstIdx(Stops(f, m, len))]
               /\ \A i \in 0..Len(m) : f[i] \in Int
  BY FindAddrIs
<1>3. Stops(f, m, len) \in SUBSET Nat /\ Len(m) \in Stops(f, m, len)
  BY <1>1 DEF Stops
<1>4. FirstIdx(Stops(f, m, len)) \in 0..Len(m)
  BY <1>3, FirstIdxLeast DEF Stops
<1> DEFINE Bad == {i \in 0..Len(m) : ~(Aligned(f[i]) /\ f[i] >= MMAPBASE)}
<1>5. Bad = {}
  <2> SUFFICES ASSUME Bad # {} PROVE FALSE
    OBVIOUS
  <2>0. Bad \in SUBSET Nat
    BY <1>1
  <2>1. PICK n \in Bad : \A i \in Bad : n <= i
    BY <2>0, LeastNumber
  <2>2. CASE n = 0
    BY <1>1, <1>2, <2>1, <2>2, Sizes DEF Starts, Aligned
  <2>3. CASE n # 0
    <3>1. n - 1 \in 0..Len(m) /\ n - 1 \notin Bad /\ n \in 1..Len(m)
      BY <1>1, <2>1, <2>3
    <3>2. f[n - 1] \in Int /\ f[n - 1] >= MMAPBASE
      BY <1>2, <3>1
    <3>3. f[n] \in Int /\ Aligned(f[n]) /\ f[n] >= f[n - 1]
      BY <1>2, <3>1, <3>2, StartFacts
    <3> QED BY <2>1, <3>2, <3>3, Sizes
  <2> QED BY <2>2, <2>3
<1> QED BY <1>2, <1>4, <1>5

\* Two regions have no address in common.
Apart(r, s) == EndOf(r) <= s.addr \/ EndOf(s) <= r.addr

\* The regions of m lie apart in wmap's range.
InRange(r) == Aligned(r.addr) /\ MMAPBASE <= r.addr /\ r.length >= 0 /\ EndOf(r) <= KERNBASE
RangeOK(m) == /\ \A i \in DOMAIN m : InRange(m[i])
              /\ \A i, j \in DOMAIN m : i # j => Apart(m[i], m[j])

\* They are sorted by their addresses, none is empty.
Ordered(m) == /\ \A i \in DOMAIN m : m[i].length > 0
              /\ \A i, j \in DOMAIN m : i < j => m[i].addr < m[j].addr

\* In such a list a region ends before the next begins.
LEMMA OrderedApart ==
    ASSUME NEW m \in Regions, RangeOK(m), Ordered(m), NEW i \in DOMAIN m, NEW j \in DOMAIN m, i < j
    PROVE  EndOf(m[i]) <= m[j].addr
<1>1. m[i] \in Region /\ m[j] \in Region /\ i # j
  BY ListFacts
<1>2. /\ m[i].addr \in Int /\ m[i].length \in Int /\ EndOf(m[i]) = m[i].addr + m[i].length
      /\ m[j].addr \in Int /\ m[j].length \in Int /\ EndOf(m[j]) = m[j].addr + m[j].length
  BY <1>1, RegionFacts
<1>3. m[i].addr < m[j].addr /\ m[j].length > 0 /\ Apart(m[i], m[j])
  BY <1>1 DEF RangeOK, Ordered
<1> QED BY <1>2, <1>3 DEF Apart

\* a is where a region of length len fits.
Fits(m, len, a) == a + len <= KERNBASE /\ \A i \in DOMAIN m : EndOf(m[i]) <= a \/ a + len <= m[i].addr

\* FindAddr fits unless it is too close to KERNBASE, and nothing before it does.
LEMMA FindAddrLowest ==
    ASSUME NEW m \in Regions, NEW len \in Int, len > 0, RangeOK(m), Ordered(m)
    PROVE  /\ FindAddr(m, len) + len <= KERNBASE => Fits(m, len, FindAddr(m, len))
           /\ \A a \in PageAddrs : Fits(m, len, a) => FindAddr(m, len) <= a
<1>1. Len(m) \in Nat /\ DOMAIN m = 1..Len(m)
  BY ListFacts
<1>2. PICK f : /\ Starts(f, m, Len(m)) /\ FindAddr(m, len) = f[FirstIdx(Stops(f, m, len))]
               /\ \A i \in 0..Len(m) : f[i] \in Int
  BY FindAddrIs
<1> DEFINE S == Stops(f, m, len)
           n == FirstIdx(S)
<1>3. S \in SUBSET Nat /\ Len(m) \in S
  BY <1>1 DEF Stops
<1>4. n \in S /\ \A j \in S : n <= j
  BY <1>3, FirstIdxLeast
<1>5. FindAddr(m, len) = f[n]
  BY <1>2
<1> HIDE DEF n, S
<1>6. n \in 0..Len(m) /\ f[n] \in Int /\ (n = Len(m) \/ m[n + 1].addr >= f[n] + len)
  BY <1>2, <1>4 DEF S, Stops
<1>n. n \in Nat /\ n <= Len(m) /\ Len(m) \in Nat
  <2>1. n \in 0..Len(m)
    BY <1>6
  <2>2. Len(m) \in Nat
    BY <1>1
  <2> QED BY <2>1, <2>2
<1>7. \A i \in 0..Len(m) : i < n => i # Len(m) /\ ~(m[i + 1].addr >= f[i] + len)
  <2>1. \A i \in 0..Len(m) : i < n => i \notin S
    BY <1>4, <1>n
  <2> QED BY <2>1 DEF S, Stops
<1>8. ASSUME NEW j \in DOMAIN m, j <= n PROVE EndOf(m[j]) <= f[n]
  <2> DEFINE Bad == {i \in j..n : ~(EndOf(m[j]) <= f[i])}
  <2> SUFFICES ASSUME Bad # {} PROVE FALSE
    BY <1>1, <1>6, <1>8
  <2>1. Bad \in SUBSET Nat
    BY <1>1
  <2>2. PICK k \in Bad : \A i \in Bad : k <= i
    BY <2>1, LeastNumber
  <2>3. k \in 1..Len(m) /\ k - 1 \in 0..Len(m) /\ k \in j..n
    BY <1>1, <1>n, <2>2
  <2>4. f[k] \in Int /\ f[k - 1] \in Int /\ f[k] >= f[k - 1] /\ f[k] >= EndOf(m[k])
    BY <1>2, <2>3, StartFacts
  <2>5. k # j
    BY <2>2, <2>4, <1>8, ListFacts, RegionFacts
  <2>6. k - 1 \in j..n /\ k - 1 \notin Bad
    <3>1. j \in Nat /\ k \in Nat /\ k > j /\ k <= n
      BY <1>1, <1>n, <2>3, <2>5
    <3>2. ~(k <= k - 1) /\ k - 1 \in j..n
      BY <1>n, <3>1
    <3> QED BY <2>2, <3>2
  <2>7. EndOf(m[j]) \in Int
    BY ListFacts, RegionFacts
  <2> QED BY <2>2, <2>4, <2>6, <2>7
<1>9. ASSUME f[n] + len <= KERNBASE PROVE Fits(m, len, f[n])
  <2>1. ASSUME NEW j \in DOMAIN m, ~(j <= n) PROVE f[n] + len <= m[j].addr
    <3>1. n + 1 \in DOMAIN m /\ n + 1 <= j /\ m[n + 1].addr >= f[n] + len
      <4>1. n + 1 \in DOMAIN m /\ n + 1 <= j /\ n # Len(m)
        <5>1. j \in Nat /\ j <= Len(m) /\ ~(j <= n)
          BY <1>1, <2>1
        <5>2. n + 1 \in 1..Len(m) /\ n + 1 <= j /\ n # Len(m)
          BY <1>n, <5>1
        <5> QED BY <1>1, <5>2
      <4> QED BY <1>6, <4>1
    <3>2. n + 1 = j \/ m[n + 1].addr < m[j].addr
      BY <1>1, <3>1 DEF Ordered
    <3>3. m[n + 1].addr \in Int /\ m[j].addr \in Int
      BY <3>1, ListFacts, RegionFacts
    <3> QED BY <1>6, <3>1, <3>2, <3>3
  <2> QED BY <1>8, <1>9, <2>1 DEF Fits
<1>10. ASSUME NEW a \in PageAddrs, Fits(m, len, a) PROVE f[n] <= a
  <2> DEFINE Bad == {i \in 0..n : ~(f[i] <= a)}
  <2> SUFFICES ASSUME Bad # {} PROVE FALSE
    BY <1>1, <1>6, <1>10
  <2>1. Bad \in SUBSET Nat
    BY <1>1
  <2>2. PICK k \in Bad : \A i \in Bad : k <= i
    BY <2>1, LeastNumber
  <2>3. a \in Int /\ Aligned(a) /\ MMAPBASE <= a
    BY PageFacts
  <2>4. k # 0
    BY <1>1, <1>2, <2>2, <2>3 DEF Starts
  <2>5. k \in 1..Len(m) /\ k - 1 \in 0..Len(m) /\ k - 1 < n /\ k \in DOMAIN m
    BY <1>1, <1>6, <2>2, <2>4
  <2>6. f[k - 1] <= a
    <3>1. ~(k <= k - 1) /\ k - 1 \in 0..n
      BY <1>n, <2>5
    <3> QED BY <2>2, <3>1
  <2>7. ~(m[(k - 1) + 1].addr >= f[k - 1] + len) /\ (k - 1) + 1 = k
    BY <1>7, <2>5
  <2>8. m[k].addr \in Int /\ f[k - 1] \in Int /\ EndOf(m[k]) \in Int
    BY <1>2, <2>5, ListFacts, RegionFacts
  <2>9. EndOf(m[k]) <= a \/ a + len <= m[k].addr
    BY <1>10, <2>5 DEF Fits
  <2>10. EndOf(m[k]) <= a
    BY <2>3, <2>6, <2>7, <2>8, <2>9
  <2>11. a >= f[k]
    BY <1>2, <2>3, <2>5, <2>6, <2>8, <2>10, StartFacts
  <2>12. f[k] \in Int
    BY <1>2, <2>5
  <2> QED BY <2>2, <2>3, <2>11, <2>12
<1> QED BY <1>5, <1>9, <1>10

-----------------------------------------------------------------------------
(* Types *)

\* The arguments of a call are numbers and flags.
LEMMA ArgFacts ==
    ASSUME client \in Clients
    PROVE  /\ \A a \in client.addrs : a \in Nat /\ a < WORD
           /\ \A len \in client.lengths : len \in Int
           /\ \A flags \in client.flags : flags \in SUBSET MapFlags
BY WmapAssumption, Sizes

\* The loaded pages of a process are finitely many, and have frames.
LEMMA PresentFacts ==
    ASSUME TypeOK, NEW p \in Procs, NEW S \in SUBSET PageAddrs
    PROVE  /\ Present(p, S) \in SUBSET S /\ IsFiniteSet(Present(p, S))
           /\ Cardinality(Present(p, S)) \in Nat
           /\ FramesOf(p, S) \in SUBSET Frames
<1>1. Present(p, S) \in SUBSET PageAddrs /\ Present(p, S) \in SUBSET S
  BY DEF Present
<1>2. IsFiniteSet(Present(p, S)) /\ Cardinality(Present(p, S)) \in Nat
  BY <1>1, PageFacts, FS_Subset, FS_CardinalityType
<1>3. FramesOf(p, S) \in SUBSET Frames
  BY Sizes DEF TypeOK, FramesOf, Present
<1> QED BY <1>1, <1>2, <1>3

\* The pages of regions are pages of wmap's range.
LEMMA PagesIn ==
    /\ \A r : Pages(r) \in SUBSET PageAddrs
    /\ \A p : /\ PagesWhere(p, Private) \in SUBSET PageAddrs
              /\ PagesWhere(p, Shared) \in SUBSET PageAddrs
              /\ PagesWhere(p, Unshared) \in SUBSET PageAddrs
              /\ PagesWhere(p, LAMBDA r : TRUE) \in SUBSET PageAddrs
<1>1. \A r : Pages(r) \in SUBSET PageAddrs
  BY DEF Pages
<1> QED BY <1>1 DEF PagesWhere

\* kfree keeps the types of the free list and of memory.
LEMMA KFreeType ==
    ASSUME TypeOK, NEW S \in SUBSET Frames, KFree(S)
    PROVE  free' \subseteq Frames /\ mem' \in [Frames -> Vals \cup {Junk}]
BY DEF TypeOK, KFree

\* Clearing entries keeps the type of the page tables.
LEMMA UnmappedType ==
    ASSUME TypeOK, NEW p \in Procs, NEW S
    PROVE  Unmapped(p, S) \in [Procs -> [PageAddrs -> Frames \cup {NULL}]]
BY DEF TypeOK, Unmapped

Disks == [Files -> Contents]

\* Writing pages back keeps the type of the disk.
LEMMA WriteBackType ==
    ASSUME TypeOK, NEW p \in Procs, NEW r \in Region, NEW S \in SUBSET PageAddrs, NEW d \in Disks
    PROVE  WriteBack(d, p, r, S) \in Disks
<1>1. CASE ~(FileBacked(r) /\ Shared(r))
  BY <1>1 DEF WriteBack
<1>2. CASE FileBacked(r) /\ Shared(r)
  <2>1. r.file \in Files
    BY <1>2, RegionFacts DEF FileBacked
  <2> DEFINE Src(o) == {va \in Present(p, S) : Offset(r, va) = o}
             W(o) == IF Src(o) = {} THEN d[r.file][o] ELSE mem[pt[p][CHOOSE va \in Src(o) : TRUE]]
  <2>2. WriteBack(d, p, r, S) = [d EXCEPT ![r.file] = [o \in DOMAIN d[r.file] |-> W(o)]]
    BY <1>2, <2>1 DEF WriteBack
  <2>3. d[r.file] \in Contents /\ DOMAIN d[r.file] = 0..(FilePages - 1)
    BY <2>1 DEF Disks, Contents
  <2>4. ASSUME NEW o \in 0..(FilePages - 1) PROVE W(o) \in Vals \cup {Junk}
    <3>1. CASE Src(o) = {}
      BY <2>3, <3>1 DEF Contents
    <3>2. CASE Src(o) # {}
      <4>1. (CHOOSE va \in Src(o) : TRUE) \in Present(p, S)
        BY <3>2
      <4>2. pt[p][CHOOSE va \in Src(o) : TRUE] \in Frames
        BY <4>1, Sizes DEF Present, TypeOK
      <4> QED BY <3>2, <4>2 DEF TypeOK
    <3> QED BY <3>1, <3>2
  <2> HIDE DEF W
  <2>5. [o \in DOMAIN d[r.file] |-> W(o)] \in Contents
    BY <2>3, <2>4 DEF Contents
  <2> QED BY <2>1, <2>2, <2>5 DEF Disks
<1> QED BY <1>1, <1>2

\* f is the function written of ExitWrites for process p up to n.
Written(r, d, p) == IF Unshared(r) THEN WriteBack(d, p, r, Pages(r)) ELSE d
Writes(f, p, n) == f = [i \in 0..n |-> IF i = 0 THEN disk ELSE Written(maps[p][i], f[i - 1], p)]

\* The disks that exit makes on its way exist as a function.
LEMMA WritesExist ==
    ASSUME NEW p, NEW n \in Nat
    PROVE  \E f : Writes(f, p, n)
<1> DEFINE Bad == {i \in Nat : ~\E f : Writes(f, p, i)}
<1> SUFFICES ASSUME Bad # {} PROVE FALSE
  OBVIOUS
<1>1. PICK k \in Bad : \A i \in Bad : k <= i
  BY LeastNumber
<1>2. CASE k = 0
  <2>1. Writes([i \in 0..0 |-> disk], p, 0)
    BY DEF Writes
  <2> QED BY <1>2, <2>1
<1>3. CASE k # 0
  <2>1. k - 1 \in Nat /\ k - 1 \notin Bad /\ k \in Nat
    BY <1>1, <1>3
  <2>2. PICK f : Writes(f, p, k - 1)
    BY <2>1
  <2> DEFINE g == [i \in 0..k |-> IF i = k THEN Written(maps[p][k], f[k - 1], p) ELSE f[i]]
  <2>3. ASSUME NEW i \in 0..k PROVE g[i] = IF i = 0 THEN disk ELSE Written(maps[p][i], g[i - 1], p)
    <3>1. CASE i = 0
      BY <1>3, <2>1, <2>2, <3>1 DEF Writes
    <3>2. CASE i = k
      <4>1. g[i] = Written(maps[p][k], f[k - 1], p) /\ g[k - 1] = f[k - 1]
        BY <1>3, <2>1, <3>2
      <4> QED BY <1>3, <3>2, <4>1
    <3>3. CASE i # 0 /\ i # k
      <4>1. g[i] = f[i] /\ g[i - 1] = f[i - 1] /\ i \in 0..(k - 1)
        BY <2>1, <3>3
      <4>2. f[i] = Written(maps[p][i], f[i - 1], p)
        BY <2>2, <3>3, <4>1 DEF Writes
      <4> QED BY <3>3, <4>1, <4>2
    <3> QED BY <3>1, <3>2, <3>3
  <2>4. Writes(g, p, k)
    BY <2>3 DEF Writes
  <2> QED BY <1>1, <2>4
<1> QED BY <1>2, <1>3

\* Exit writes the regions one after the other.
LEMMA ExitWritesIs ==
    ASSUME TypeOK, NEW p \in Procs
    PROVE  \E f : Writes(f, p, Len(maps[p])) /\ ExitWrites(p) = f[Len(maps[p])]
                  /\ \A i \in 0..Len(maps[p]) : f[i] \in Disks
<1>1. maps[p] \in Regions /\ Len(maps[p]) \in Nat /\ disk \in Disks
  <2>1. maps[p] \in Regions /\ disk \in Disks
    BY DEF TypeOK, Disks, Regions
  <2> QED BY <2>1, ListFacts
<1>2. \E f : Writes(f, p, Len(maps[p]))
  BY <1>1, WritesExist
<1> DEFINE F == CHOOSE f : Writes(f, p, Len(maps[p]))
<1>3. Writes(F, p, Len(maps[p]))
  BY <1>2
<1>4. ExitWrites(p) = F[Len(maps[p])]
  BY Zenon DEF ExitWrites, Writes, Written
<1> HIDE DEF F
<1> DEFINE Bad == {i \in 0..Len(maps[p]) : ~(F[i] \in Disks)}
<1>5. Bad = {}
  <2> SUFFICES ASSUME Bad # {} PROVE FALSE
    OBVIOUS
  <2>0. Bad \in SUBSET Nat
    BY <1>1
  <2>1. PICK n \in Bad : \A i \in Bad : n <= i
    BY <2>0, LeastNumber
  <2>2. CASE n = 0
    BY <1>1, <1>3, <2>1, <2>2 DEF Writes
  <2>3. CASE n # 0
    <3>1. n - 1 \in 0..Len(maps[p]) /\ n - 1 \notin Bad /\ n \in DOMAIN maps[p]
      BY <1>1, <2>1, <2>3, ListFacts
    <3>2. F[n - 1] \in Disks /\ maps[p][n] \in Region /\ Pages(maps[p][n]) \in SUBSET PageAddrs
      BY <1>1, <3>1, ListFacts, PagesIn
    <3>3. F[n] = Written(maps[p][n], F[n - 1], p)
      BY <1>3, <2>3 DEF Writes
    <3>4. Written(maps[p][n], F[n - 1], p) \in Disks
      BY <3>2, WriteBackType DEF Written
    <3> QED BY <2>1, <3>3, <3>4
  <2> QED BY <2>2, <2>3
<1> QED BY <1>3, <1>4, <1>5

\* The fields of a region that has been cut.
LEMMA CutType ==
    ASSUME NEW r \in Region, NEW x \in Int, NEW y \in Int, NEW n \in Int
    PROVE  /\ Cut(r, x, y, n) \in Region
           /\ Cut(r, x, y, n).addr = x /\ Cut(r, x, y, n).length = y - x
           /\ Cut(r, x, y, n).flags = r.flags /\ Cut(r, x, y, n).file = r.file
           /\ Cut(r, x, y, n).refcnt = r.refcnt /\ Cut(r, x, y, n).n_loaded_pages = n
           /\ EndOf(Cut(r, x, y, n)) = y
<1> DEFINE z == y - x
           c == [r EXCEPT !.addr = x, !.length = z, !.n_loaded_pages = n]
<1>0. z \in Int /\ Cut(r, x, y, n) = c
  BY DEF Cut
<1> HIDE DEF z
<1>a. c \in Region
  BY <1>0 DEF Region
<1>b. c.addr = x /\ c.length = z /\ c.n_loaded_pages = n
  BY <1>0 DEF Region
<1>c. c.flags = r.flags /\ c.file = r.file /\ c.refcnt = r.refcnt
  BY <1>0 DEF Region
<1> HIDE DEF c
<1>1. /\ Cut(r, x, y, n) \in Region
      /\ Cut(r, x, y, n).addr = x /\ Cut(r, x, y, n).length = y - x
      /\ Cut(r, x, y, n).flags = r.flags /\ Cut(r, x, y, n).file = r.file
      /\ Cut(r, x, y, n).refcnt = r.refcnt /\ Cut(r, x, y, n).n_loaded_pages = n
  BY <1>0, <1>a, <1>b, <1>c DEF z
<1>2. EndOf(Cut(r, x, y, n)) = x + (y - x)
  BY <1>1 DEF EndOf
<1> QED BY <1>1, <1>2

\* What a cut leaves are one or two regions of the same file.
LEMMA RemainderType ==
    ASSUME TypeOK, NEW p \in Procs, NEW m \in Regions, NEW r \in Region,
           NEW a \in Int, NEW e \in Int, NEW n \in Int,
           NEW l, l = Remainder(p, m, r, a, e, n)
    PROVE  /\ l \in Seq(Region) /\ (Len(l) = 1 \/ (Len(l) = 2 /\ Len(m) < MAX_NMMAP))
           /\ \A j \in DOMAIN l : l[j].file = r.file /\ l[j].refcnt = r.refcnt /\ l[j].flags = r.flags
<1>1. EndOf(r) \in Int /\ r.addr \in Int
  BY RegionFacts
<1>2. \A x, y : {va \in PageAddrs : x <= va /\ va < y} \in SUBSET PageAddrs
  OBVIOUS
<1>3. \A x, y : Loaded(p, x, y) \in Int
  BY <1>2, PresentFacts DEF Loaded
<1>4. CASE a = r.addr
  <2>1. l = <<Cut(r, e, EndOf(r), n)>>
    BY <1>4 DEF Remainder
  <2> QED BY <1>1, <2>1, CutType
<1>5. CASE a # r.addr /\ e = EndOf(r)
  <2>1. l = <<Cut(r, r.addr, a, n)>>
    BY <1>5 DEF Remainder
  <2> QED BY <1>1, <2>1, CutType
<1>6. CASE a # r.addr /\ e # EndOf(r) /\ Len(m) < MAX_NMMAP
  <2> DEFINE u == Cut(r, r.addr, a, Loaded(p, r.addr, a))
             v == Cut(r, e, EndOf(r), Loaded(p, e, EndOf(r)))
  <2>1. l = <<u, v>>
    BY <1>6 DEF Remainder, Split
  <2>2. u \in Region /\ u.file = r.file /\ u.refcnt = r.refcnt /\ u.flags = r.flags
    BY <1>1, <1>3, CutType
  <2>3. v \in Region /\ v.file = r.file /\ v.refcnt = r.refcnt /\ v.flags = r.flags
    BY <1>1, <1>3, CutType
  <2> HIDE DEF u, v
  <2> QED BY <1>6, <2>1, <2>2, <2>3
<1>7. CASE a # r.addr /\ e # EndOf(r) /\ ~(Len(m) < MAX_NMMAP)
  <2>1. l = <<[r EXCEPT !.n_loaded_pages = n]>>
    BY <1>7 DEF Remainder
  <2>2. [r EXCEPT !.n_loaded_pages = n] \in Region
    BY DEF Region
  <2> QED BY <2>1, <2>2 DEF Region
<1> QED BY <1>4, <1>5, <1>6, <1>7

-----------------------------------------------------------------------------
(* What the calls on mappings do, without the searches *)

\* sys_wmap puts region r at place k of the list of p.
MapStep(p, r, k) ==
    LET m == maps[p] IN
    /\ p \in Running /\ r \in Region /\ k \in 1..(Len(m) + 1) /\ Len(m) < MAX_NMMAP
    /\ maps' = [maps EXCEPT ![p] = Splice(m, k, <<r>>, k)]
    /\ total' = [total EXCEPT ![p] = Len(m) + 1]
    /\ ref' = [g \in Files |-> IF g = r.file THEN ref[g] + 1 ELSE ref[g]]
    /\ UNCHANGED <<st, parent, pt, ofile, disk, free, mem, last>>
    /\ InRange(r) /\ r.length > 0 /\ r.refcnt = 0 /\ r.n_loaded_pages = 0
    /\ Shared(r) # ("PRIVATE" \in r.flags)
    /\ \A i \in DOMAIN m : Apart(m[i], r)
    /\ \A j \in 1..(k - 1) : j = 1 \/ m[j].addr < r.addr
    /\ k > 1 => m[1].addr <= r.addr
    /\ k <= Len(m) => m[k].addr >= r.addr
    /\ "one_map" \in client.rules /\ "ANONYMOUS" \notin r.flags =>
          \A q \in Running : \A i \in DOMAIN maps[q] : maps[q][i].file # r.file

\* sys_wmap has the effect of MapStep.
LEMMA WmapIs ==
    ASSUME TypeOK, NEW p \in Procs, NEW a \in client.addrs, NEW len \in client.lengths,
           NEW flags \in client.flags, NEW fd \in Fds \cup {NULL}, Wmap(p, a, len, flags, fd)
    PROVE  \E r, k : MapStep(p, r, k)
<1> DEFINE m == maps[p]
           f == IF fd = NULL THEN NULL ELSE ofile[p][fd]
           at == IF "FIXED" \in flags THEN a ELSE FindAddr(m, len)
           r == [addr |-> at, length |-> len, flags |-> flags, file |-> f,
                 refcnt |-> 0, n_loaded_pages |-> 0]
<1>1. client \in Clients /\ m \in Regions /\ total[p] = Len(m)
  BY DEF TypeOK, Regions
<1>2. a \in Nat /\ len \in Int /\ flags \in SUBSET MapFlags
  BY <1>1, ArgFacts
<1>3. /\ p \in Running /\ FileLengthOK(len, flags, f) /\ validate_input(a, len, flags, f)
      /\ Len(m) < MAX_NMMAP
      /\ "FIXED" \in flags \/ at + len <= KERNBASE
      /\ ~Overlaps(m, at, len)
      /\ maps' = [maps EXCEPT ![p] = Insert(m, r)]
      /\ total' = [total EXCEPT ![p] = total[p] + 1]
      /\ ref' = [g \in Files |-> IF g = f THEN ref[g] + 1 ELSE ref[g]]
      /\ UNCHANGED <<st, parent, pt, ofile, disk, free, mem, last>>
  BY DEF Wmap, Makes, TypeOK
<1>4. f \in Files \cup {NULL}
  BY DEF TypeOK
<1> HIDE DEF f, m
<1>5. /\ len > 0 /\ ("SHARED" \in flags) # ("PRIVATE" \in flags)
      /\ "FIXED" \in flags => Aligned(a) /\ a >= MMAPBASE /\ a + len <= KERNBASE
  BY <1>3 DEF validate_input, Aligned
<1>6. at \in Int /\ Aligned(at) /\ at >= MMAPBASE /\ at + len <= KERNBASE
  <2>1. FindAddr(m, len) \in Int /\ Aligned(FindAddr(m, len)) /\ FindAddr(m, len) >= MMAPBASE
    BY <1>1, <1>2, FindAddrAligned
  <2> QED BY <1>2, <1>3, <1>5, <2>1
<1> HIDE DEF at
<1>7. r \in Region /\ r.addr = at /\ r.length = len /\ r.flags = flags /\ r.file = f /\ r.refcnt = 0 /\ r.n_loaded_pages = 0
  BY <1>2, <1>4, <1>6 DEF Region
<1> HIDE DEF r
<1>8. EndOf(r) = at + len
  BY <1>7 DEF EndOf
<1>9. InRange(r) /\ r.length > 0 /\ Shared(r) # ("PRIVATE" \in r.flags)
  BY <1>2, <1>5, <1>6, <1>7, <1>8 DEF InRange, Shared
<1>10. ASSUME NEW i \in DOMAIN m PROVE Apart(m[i], r)
  <2>1. EndOf(m[i]) \in Int /\ m[i].addr \in Int
    BY <1>1, ListFacts, RegionFacts
  <2>2. ~(at < EndOf(m[i]) /\ at + len > m[i].addr)
    BY <1>3 DEF Overlaps
  <2> QED BY <1>2, <1>6, <1>7, <1>8, <2>1, <2>2 DEF Apart
<1>11. PICK k \in 1..(Len(m) + 1) :
              /\ Insert(m, r) = Splice(m, k, <<r>>, k)
              /\ \A j \in 1..(k - 1) : j = 1 \/ m[j].addr < r.addr
              /\ k > 1 => m[1].addr <= r.addr
              /\ k <= Len(m) => m[k].addr >= r.addr
  <2>1. m \in Seq(Region) /\ (\A j \in DOMAIN m : m[j].addr \in Int) /\ r.addr \in Int
    BY <1>1, <1>6, <1>7, ListFacts, RegionFacts
  <2> QED BY <1>7, <2>1, InsertIs
<1>12. "one_map" \in client.rules /\ "ANONYMOUS" \notin r.flags =>
          \A q \in Running : \A i \in DOMAIN maps[q] : maps[q][i].file # r.file
  BY <1>3, <1>7 DEF FileLengthOK
<1>13. total' = [total EXCEPT ![p] = Len(m) + 1]
  BY <1>1, <1>3
<1>14. ref' = [g \in Files |-> IF g = r.file THEN ref[g] + 1 ELSE ref[g]]
  BY <1>3, <1>7
<1>15. maps' = [maps EXCEPT ![p] = Splice(m, k, <<r>>, k)]
  BY <1>3, <1>11
<1>16. MapStep(p, r, k)
  BY <1>3, <1>7, <1>9, <1>10, <1>11, <1>12, <1>13, <1>14, <1>15 DEF MapStep, m
<1> QED BY <1>16

\* remove_map takes region i of p out.
UnmapStep(p, i) ==
    LET r == maps[p][i] IN
    /\ p \in Running /\ i \in DOMAIN maps[p] /\ MayUnmap(p, r)
    /\ disk' = WriteBack(disk, p, r, Pages(r))
    /\ KFree(IF r.refcnt = 0 THEN FramesOf(p, Pages(r)) ELSE {})
    /\ pt' = Unmapped(p, Pages(r))
    /\ ref' = [f \in Files |-> IF f = r.file /\ r.refcnt = 0 THEN ref[f] - 1 ELSE ref[f]]
    /\ maps' = [maps EXCEPT ![p] = Splice(maps[p], i, <<>>, i + 1)]
    /\ total' = [total EXCEPT ![p] = Len(maps[p]) - 1]
    /\ UNCHANGED <<st, parent, ofile, last>>

\* sys_wunmap has the effect of UnmapStep.
LEMMA WunmapIs ==
    ASSUME TypeOK, NEW p \in Procs, NEW a \in client.addrs, sys_wunmap(p, a)
    PROVE  \E i : UnmapStep(p, i)
<1> DEFINE m == maps[p]
           i == FirstIdx(AtAddr(m, a))
           r == m[i]
<1>1. m \in Regions /\ total[p] = Len(m)
  BY DEF TypeOK, Regions
<1>2. AtAddr(m, a) \in SUBSET Nat /\ AtAddr(m, a) # {}
  <2>1. DOMAIN m \in SUBSET Nat
    BY <1>1, ListFacts
  <2> QED BY <2>1 DEF AtAddr, sys_wunmap, remove_map
<1>3. i \in DOMAIN m
  BY <1>2, FirstIdxLeast DEF AtAddr
<1>4. /\ p \in Running /\ MayUnmap(p, r)
      /\ disk' = WriteBack(disk, p, r, Pages(r))
      /\ KFree(IF r.refcnt = 0 THEN FramesOf(p, Pages(r)) ELSE {})
      /\ pt' = Unmapped(p, Pages(r))
      /\ ref' = [f \in Files |-> IF f = r.file /\ r.refcnt = 0 THEN ref[f] - 1 ELSE ref[f]]
      /\ maps' = [maps EXCEPT ![p] = RemoveAt(m, i)]
      /\ total' = [total EXCEPT ![p] = total[p] - 1]
      /\ UNCHANGED <<st, parent, ofile, last>>
  BY DEF sys_wunmap, remove_map, Makes, TypeOK
<1> HIDE DEF i
<1>5. RemoveAt(m, i) = Splice(m, i, <<>>, i + 1)
  BY <1>1, <1>3, ListFacts, RemoveIs
<1>6. UnmapStep(p, i)
  BY <1>1, <1>3, <1>4, <1>5 DEF UnmapStep
<1> QED BY <1>6

\* sys_wpunmap takes [a, e) from region i of p and leaves l.
Between(a, e) == {va \in PageAddrs : a <= va /\ va < e}
CutStep(p, i, a, len, e, l) ==
    LET r == maps[p][i] IN
    /\ p \in Running /\ i \in DOMAIN maps[p]
    /\ a \in Nat /\ len \in Int /\ len > 0 /\ e = UEnd(a, len) /\ e \in Nat /\ Aligned(a) /\ Aligned(e)
    /\ r.addr <= a /\ EndOf(r) >= e /\ MayCut(r, a, len)
    /\ l = Remainder(p, maps[p], r, a, e, r.n_loaded_pages - Cardinality(Present(p, Between(a, e))))
    /\ disk' = WriteBack(disk, p, r, Between(a, e))
    /\ KFree(FramesOf(p, Between(a, e)))
    /\ pt' = Unmapped(p, Between(a, e))
    /\ maps' = [maps EXCEPT ![p] = Splice(maps[p], i, l, i + 1)]
    /\ total' = [total EXCEPT ![p] = Len(maps[p]) + Len(l) - 1]
    /\ ref' = [f \in Files |-> IF f = r.file THEN ref[f] + Len(l) - 1 ELSE ref[f]]
    /\ UNCHANGED <<st, parent, ofile, last>>

\* sys_wpunmap has the effect of CutStep.
LEMMA WpunmapIs ==
    ASSUME TypeOK, NEW p \in Procs, NEW a \in client.addrs, NEW len \in client.lengths, Wpunmap(p, a, len)
    PROVE  \E i, e, l : CutStep(p, i, a, len, e, l)
<1> DEFINE m == maps[p]
           e == UEnd(a, len)
           i == FirstIdx(Containing(m, a, len))
           r == m[i]
           l == Remainder(p, m, r, a, e, r.n_loaded_pages - Cardinality(Present(p, Between(a, e))))
<1>1. m \in Regions /\ total[p] = Len(m) /\ client \in Clients
  BY DEF TypeOK, Regions
<1>2. a \in Nat /\ len \in Int
  BY <1>1, ArgFacts
<1>3. e \in Nat
  <2>1. a + len \in Int
    BY <1>2
  <2>2. (a + len) % WORD \in 0..(WORD - 1)
    BY <2>1, Sizes, ModBy
  <2> QED BY <2>2, Sizes DEF UEnd
<1>4. Containing(m, a, len) \in SUBSET Nat /\ Containing(m, a, len) # {}
  <2>1. DOMAIN m \in SUBSET Nat
    BY <1>1, ListFacts
  <2> QED BY <2>1 DEF Containing, Wpunmap
<1>5. i \in DOMAIN m /\ m[i].addr <= a /\ EndOf(m[i]) >= e
  <2>1. i \in Containing(m, a, len)
    BY <1>4, FirstIdxLeast
  <2> QED BY <2>1 DEF Containing
<1>6. /\ p \in Running /\ Aligned(e) /\ len > 0 /\ Aligned(a) /\ MayCut(r, a, len)
      /\ disk' = WriteBack(disk, p, r, Between(a, e))
      /\ KFree(FramesOf(p, Between(a, e)))
      /\ pt' = Unmapped(p, Between(a, e))
      /\ maps' = [maps EXCEPT ![p] = SubSeq(m, 1, i - 1) \o l \o SubSeq(m, i + 1, Len(m))]
      /\ total' = [total EXCEPT ![p] = total[p] + Len(l) - 1]
      /\ ref' = [f \in Files |-> IF f = r.file THEN ref[f] + Len(l) - 1 ELSE ref[f]]
      /\ UNCHANGED <<st, parent, ofile, last>>
  BY DEF Wpunmap, Makes, TypeOK, Between, Aligned
<1> HIDE DEF i
<1>7. CutStep(p, i, a, len, e, l)
  BY <1>1, <1>2, <1>3, <1>5, <1>6 DEF CutStep, Splice
<1> QED BY <1>7

\* handle_page_fault gives p the frame f at va, in region i.
Filled(r, va) == IF FileBacked(r) /\ Offset(r, va) \in DOMAIN disk[r.file] THEN disk[r.file][Offset(r, va)] ELSE 0
FaultStep(p, va, i, f) ==
    LET r == maps[p][i] IN
    /\ p \in Running /\ i \in DOMAIN maps[p] /\ va \in Pages(r) /\ pt[p][va] = NULL
    /\ f \in free /\ free' = free \ {f}
    /\ pt' = [pt EXCEPT ![p] = [pt[p] EXCEPT ![va] = f]]
    /\ mem' = [mem EXCEPT ![f] = Filled(r, va)]
    /\ maps' = [maps EXCEPT ![p] = [maps[p] EXCEPT ![i] =
                  [r EXCEPT !.n_loaded_pages = r.n_loaded_pages + 1]]]
    /\ UNCHANGED <<st, parent, total, ofile, ref, disk, last>>

\* handle_page_fault has the effect of FaultStep.
LEMMA FaultIs ==
    ASSUME TypeOK, NEW p \in Procs, NEW va \in PageAddrs, handle_page_fault(p, va)
    PROVE  \E i, f : FaultStep(p, va, i, f)
<1> DEFINE m == maps[p]
           in == {j \in DOMAIN m : va \in Pages(m[j])}
           i == FirstIdx(in)
           r == m[i]
<1>1. m \in Regions
  BY DEF TypeOK, Regions
<1>2. in \in SUBSET Nat /\ in # {}
  <2>1. DOMAIN m \in SUBSET Nat
    BY <1>1, ListFacts
  <2> QED BY <2>1 DEF handle_page_fault
<1>3. i \in DOMAIN m /\ va \in Pages(r)
  BY <1>2, FirstIdxLeast
<1>4. PICK f \in free :
        /\ free' = free \ {f} /\ pt' = [pt EXCEPT ![p] = [pt[p] EXCEPT ![va] = f]]
        /\ mem' = [mem EXCEPT ![f] = Filled(r, va)]
  BY DEF handle_page_fault, Filled, TypeOK
<1>5. /\ p \in Running /\ pt[p][va] = NULL
      /\ maps' = [maps EXCEPT ![p] = [m EXCEPT ![i] = [r EXCEPT !.n_loaded_pages = r.n_loaded_pages + 1]]]
      /\ UNCHANGED <<st, parent, total, ofile, ref, disk, last>>
  <2>1. maps' = [maps EXCEPT ![p][i].n_loaded_pages = @ + 1]
    BY DEF handle_page_fault
  <2>2. p \in DOMAIN maps
    BY DEF TypeOK
  <2> HIDE DEF i
  <2>3. maps' = [maps EXCEPT ![p] = [m EXCEPT ![i] = [r EXCEPT !.n_loaded_pages = r.n_loaded_pages + 1]]]
    BY <1>3, <2>1, <2>2
  <2> QED BY <2>3 DEF handle_page_fault
<1> HIDE DEF i
<1>6. FaultStep(p, va, i, f)
  BY <1>3, <1>4, <1>5 DEF FaultStep
<1> QED BY <1>6

\* The steps of the system.
Steps == \E p \in Procs :
    \/ \E r, k : MapStep(p, r, k)
    \/ \E a \in client.addrs, len \in client.lengths, flags \in client.flags, fd \in Fds :
          WmapInvalid(p, a, len, flags, fd)
    \/ \E i : UnmapStep(p, i)
    \/ \E i, a, len, e, l : CutStep(p, i, a, len, e, l)
    \/ \E va \in PageAddrs : \E i, f : FaultStep(p, va, i, f)
    \/ \E va \in PageAddrs, v \in Vals : Store(p, va, v)
    \/ \E q \in Procs : Fork(p, q)
    \/ \E q \in Procs, n \in DOMAIN maps[p], va \in PageAddrs : ForkFails(p, q, n, va)
    \/ Exit(p) \/ Wait(p) \/ Exec(p)
    \/ \E fd \in Fds : Close(p, fd)
    \/ \E fd \in Fds, f \in Files : Open(p, fd, f)

\* A step of the specification is one of Steps.
LEMMA NextIs ==
    ASSUME TypeOK, Next
    PROVE  client' = client /\ Steps
<1>1. client' = client
  BY DEF Next
<1>2. PICK p \in Procs :
        \/ Maps(p) \/ Unmaps(p)
        \/ \E va \in PageAddrs : handle_page_fault(p, va)
        \/ \E va \in PageAddrs, v \in Vals : Store(p, va, v)
        \/ \E q \in Procs : Fork(p, q)
        \/ \E q \in Procs, n \in DOMAIN maps[p], va \in PageAddrs : ForkFails(p, q, n, va)
        \/ Exit(p) \/ Wait(p) \/ Exec(p)
        \/ \E fd \in Fds : Close(p, fd) \/ \E f \in Files : Open(p, fd, f)
  BY DEF Next
<1>3. CASE Maps(p)
  <2>1. PICK a \in client.addrs, len \in client.lengths, flags \in client.flags :
              \/ \E fd \in Fds \cup {NULL} : Wmap(p, a, len, flags, fd)
              \/ \E fd \in Fds : WmapInvalid(p, a, len, flags, fd)
    BY <1>3 DEF Maps
  <2>2. CASE \E fd \in Fds \cup {NULL} : Wmap(p, a, len, flags, fd)
    <3>1. \E r, k : MapStep(p, r, k)
      BY <2>2, WmapIs
    <3> QED BY <1>1, <3>1 DEF Steps
  <2>3. CASE \E fd \in Fds : WmapInvalid(p, a, len, flags, fd)
    BY <1>1, <2>3 DEF Steps
  <2> QED BY <2>1, <2>2, <2>3
<1>4. CASE Unmaps(p)
  <2>1. CASE \E a \in client.addrs : sys_wunmap(p, a)
    <3>1. \E i : UnmapStep(p, i)
      BY <2>1, WunmapIs
    <3> QED BY <1>1, <3>1 DEF Steps
  <2>2. CASE \E a \in client.addrs, len \in client.lengths : Wpunmap(p, a, len)
    <3>1. \E i, a, len, e, l : CutStep(p, i, a, len, e, l)
      BY <2>2, WpunmapIs
    <3> QED BY <1>1, <3>1 DEF Steps
  <2> QED BY <1>4, <2>1, <2>2 DEF Unmaps
<1>5. CASE \E va \in PageAddrs : handle_page_fault(p, va)
  <2>1. \E va \in PageAddrs : \E i, f : FaultStep(p, va, i, f)
    BY <1>5, FaultIs
  <2> QED BY <1>1, <2>1 DEF Steps
<1>6. CASE \/ \E va \in PageAddrs, v \in Vals : Store(p, va, v)
           \/ \E q \in Procs : Fork(p, q)
           \/ \E q \in Procs, n \in DOMAIN maps[p], va \in PageAddrs : ForkFails(p, q, n, va)
           \/ Exit(p) \/ Wait(p) \/ Exec(p)
           \/ \E fd \in Fds : Close(p, fd) \/ \E f \in Files : Open(p, fd, f)
  <2>1. \/ \E va \in PageAddrs, v \in Vals : Store(p, va, v)
        \/ \E q \in Procs : Fork(p, q)
        \/ \E q \in Procs, n \in DOMAIN maps[p], va \in PageAddrs : ForkFails(p, q, n, va)
        \/ Exit(p) \/ Wait(p) \/ Exec(p)
        \/ \E fd \in Fds : Close(p, fd)
        \/ \E fd \in Fds, f \in Files : Open(p, fd, f)
    BY <1>6
  <2> QED BY <1>1, <2>1, Zenon DEF Steps
<1> QED BY <1>2, <1>3, <1>4, <1>5, <1>6

\* A step that gives p the list s keeps the types of the lists.
LEMMA ListChanged ==
    ASSUME TypeOK, NEW p \in Procs, p \in Running, NEW s, s \in Seq(Region), Len(s) <= MAX_NMMAP,
           maps' = [maps EXCEPT ![p] = s], total' = [total EXCEPT ![p] = Len(s)], st' = st
    PROVE  /\ maps' \in [Procs -> Seq(Region)] /\ total' \in [Procs -> 0..MAX_NMMAP]
           /\ \A q \in Procs : total'[q] = Len(maps'[q]) /\ (q \notin Running' => maps'[q] = <<>>)
<1>1. Len(s) \in 0..MAX_NMMAP
  BY Sizes
<1>2. maps' \in [Procs -> Seq(Region)] /\ total' \in [Procs -> 0..MAX_NMMAP]
  BY <1>1 DEF TypeOK
<1>3. ASSUME NEW q \in Procs PROVE total'[q] = Len(maps'[q]) /\ (q \notin Running' => maps'[q] = <<>>)
  <2>1. CASE q = p
    BY <2>1 DEF TypeOK, Running
  <2>2. CASE q # p
    BY <2>2 DEF TypeOK, Running
  <2> QED BY <2>1, <2>2
<1> QED BY <1>2, <1>3

\* wmap keeps the types.
LEMMA MapStepType ==
    ASSUME TypeOK, client' = client, NEW p \in Procs, NEW r, NEW k, MapStep(p, r, k)
    PROVE  TypeOK'
<1> DEFINE s == Splice(maps[p], k, <<r>>, k)
<1>1. maps[p] \in Seq(Region) /\ r \in Region /\ k \in 1..(Len(maps[p]) + 1) /\ Len(maps[p]) < MAX_NMMAP
  BY DEF TypeOK, MapStep
<1>2. s \in Seq(Region) /\ Len(s) = Len(maps[p]) + 1
  <2>1. <<r>> \in Seq(Region) /\ Len(<<r>>) = 1 /\ k \in k..(Len(maps[p]) + 1) /\ Len(maps[p]) \in Nat
    BY <1>1
  <2>2. Spliced(Region, maps[p], k, <<r>>, k, s)
    BY <1>1, <2>1, SpliceAt
  <2>3. s \in Seq(Region) /\ Len(s) = (k - 1) + Len(<<r>>) + (Len(maps[p]) - k + 1)
    BY <2>2 DEF Spliced
  <2> HIDE DEF s
  <2> DEFINE L == Len(maps[p])
             S == Len(s)
  <2>4. k \in Int /\ L \in Int
    BY <1>1, <2>1
  <2>a. Len(<<r>>) = 1
    BY <2>1
  <2>b. S = (k - 1) + 1 + (L - k + 1)
    BY <2>3, <2>a, Zenon
  <2> HIDE DEF L, S
  <2>5. S = L + 1
    BY <2>4, <2>b
  <2> QED BY <2>3, <2>5 DEF L, S
<1>3. /\ p \in Running /\ maps' = [maps EXCEPT ![p] = s] /\ total' = [total EXCEPT ![p] = Len(maps[p]) + 1]
      /\ ref' = [g \in Files |-> IF g = r.file THEN ref[g] + 1 ELSE ref[g]]
      /\ UNCHANGED <<st, parent, pt, ofile, disk, free, mem, last>>
  BY DEF MapStep
<1> HIDE DEF s
<1>4. total' = [total EXCEPT ![p] = Len(s)] /\ Len(s) <= MAX_NMMAP
  BY <1>1, <1>2, <1>3, Sizes
<1>5. /\ maps' \in [Procs -> Seq(Region)] /\ total' \in [Procs -> 0..MAX_NMMAP]
      /\ \A q \in Procs : total'[q] = Len(maps'[q]) /\ (q \notin Running' => maps'[q] = <<>>)
  BY <1>2, <1>3, <1>4, ListChanged
<1>6. ref' \in [Files -> Int]
  BY <1>3 DEF TypeOK
<1> QED BY <1>3, <1>5, <1>6 DEF TypeOK

\* wunmap keeps the types.
LEMMA UnmapStepType ==
    ASSUME TypeOK, client' = client, NEW p \in Procs, NEW i, UnmapStep(p, i)
    PROVE  TypeOK'
<1> DEFINE s == Splice(maps[p], i, <<>>, i + 1)
           r == maps[p][i]
           S == IF r.refcnt = 0 THEN FramesOf(p, Pages(r)) ELSE {}
<1>1. maps[p] \in Seq(Region) /\ i \in DOMAIN maps[p] /\ r \in Region
  BY DEF TypeOK, UnmapStep
<1>2. Len(maps[p]) \in Nat /\ Len(maps[p]) <= MAX_NMMAP /\ i \in 1..Len(maps[p])
  BY <1>1, Sizes DEF TypeOK
<1>3. s \in Seq(Region) /\ Len(s) = Len(maps[p]) - 1
  <2>1. <<>> \in Seq(Region) /\ Len(<<>>) = 0 /\ i \in 1..(Len(maps[p]) + 1) /\ i + 1 \in i..(Len(maps[p]) + 1)
    BY <1>2
  <2>2. Spliced(Region, maps[p], i, <<>>, i + 1, s)
    BY <1>1, <2>1, SpliceAt
  <2>3. s \in Seq(Region) /\ Len(s) = (i - 1) + Len(<<>>) + (Len(maps[p]) - (i + 1) + 1)
    BY <2>2 DEF Spliced
  <2> HIDE DEF s
  <2> QED BY <1>2, <2>1, <2>3
<1>4. /\ p \in Running /\ maps' = [maps EXCEPT ![p] = s] /\ total' = [total EXCEPT ![p] = Len(maps[p]) - 1]
      /\ disk' = WriteBack(disk, p, r, Pages(r)) /\ KFree(S) /\ pt' = Unmapped(p, Pages(r))
      /\ ref' = [f \in Files |-> IF f = r.file /\ r.refcnt = 0 THEN ref[f] - 1 ELSE ref[f]]
      /\ UNCHANGED <<st, parent, ofile, last>>
  BY DEF UnmapStep
<1> HIDE DEF s
<1>5. total' = [total EXCEPT ![p] = Len(s)] /\ Len(s) <= MAX_NMMAP
  BY <1>2, <1>3, <1>4, Sizes
<1>6. /\ maps' \in [Procs -> Seq(Region)] /\ total' \in [Procs -> 0..MAX_NMMAP]
      /\ \A q \in Procs : total'[q] = Len(maps'[q]) /\ (q \notin Running' => maps'[q] = <<>>)
  BY <1>3, <1>4, <1>5, ListChanged
<1>7. Pages(r) \in SUBSET PageAddrs /\ disk \in Disks
  BY PagesIn DEF TypeOK, Disks
<1>8. S \in SUBSET Frames
  BY <1>7, PresentFacts
<1> HIDE DEF S, r
<1>9. free' \subseteq Frames /\ mem' \in [Frames -> Vals \cup {Junk}]
  BY <1>4, <1>8, KFreeType
<1>10. pt' \in [Procs -> [PageAddrs -> Frames \cup {NULL}]] /\ disk' \in [Files -> Contents]
  BY <1>1, <1>4, <1>7, UnmappedType, WriteBackType DEF Disks
<1>11. ref' \in [Files -> Int]
  BY <1>4 DEF TypeOK
<1> QED BY <1>4, <1>6, <1>9, <1>10, <1>11 DEF TypeOK

\* What a cut leaves, as UnmapStep and MapStep.
LEMMA CutStepFacts ==
    ASSUME TypeOK, NEW p \in Procs, NEW i, NEW a, NEW len, NEW e, NEW l, CutStep(p, i, a, len, e, l)
    PROVE  /\ l \in Seq(Region) /\ (Len(l) = 1 \/ (Len(l) = 2 /\ Len(maps[p]) < MAX_NMMAP))
           /\ \A j \in DOMAIN l : /\ l[j].file = maps[p][i].file /\ l[j].refcnt = maps[p][i].refcnt
                                  /\ l[j].flags = maps[p][i].flags
           /\ Between(a, e) \in SUBSET PageAddrs
<1>1. maps[p] \in Regions /\ i \in DOMAIN maps[p]
  BY DEF TypeOK, CutStep, Regions
<1>2. maps[p][i] \in Region
  BY <1>1, ListFacts
<1>3. Between(a, e) \in SUBSET PageAddrs
  BY DEF Between
<1> DEFINE n == maps[p][i].n_loaded_pages - Cardinality(Present(p, Between(a, e)))
<1>4. n \in Int
  BY <1>2, <1>3, RegionFacts, PresentFacts
<1>5. a \in Int /\ e \in Int /\ l = Remainder(p, maps[p], maps[p][i], a, e, n)
  BY DEF CutStep
<1> HIDE DEF n
<1> QED BY <1>1, <1>2, <1>3, <1>4, <1>5, RemainderType

\* wpunmap keeps the types.
LEMMA CutStepType ==
    ASSUME TypeOK, client' = client, NEW p \in Procs, NEW i, NEW a, NEW len, NEW e, NEW l,
           CutStep(p, i, a, len, e, l)
    PROVE  TypeOK'
<1> DEFINE s == Splice(maps[p], i, l, i + 1)
           r == maps[p][i]
           S == Between(a, e)
<1>1. maps[p] \in Seq(Region) /\ i \in DOMAIN maps[p] /\ r \in Region
  BY DEF TypeOK, CutStep
<1>2. Len(maps[p]) \in Nat /\ Len(maps[p]) <= MAX_NMMAP /\ i \in 1..Len(maps[p])
  BY <1>1, Sizes DEF TypeOK
<1>l. /\ l \in Seq(Region) /\ (Len(l) = 1 \/ (Len(l) = 2 /\ Len(maps[p]) < MAX_NMMAP))
      /\ S \in SUBSET PageAddrs
  BY CutStepFacts
<1>3. s \in Seq(Region) /\ Len(s) = Len(maps[p]) + Len(l) - 1
  <2>1. Len(l) \in Nat /\ i \in 1..(Len(maps[p]) + 1) /\ i + 1 \in i..(Len(maps[p]) + 1)
    BY <1>2, <1>l
  <2>2. Spliced(Region, maps[p], i, l, i + 1, s)
    BY <1>1, <1>l, <2>1, SpliceAt
  <2>3. s \in Seq(Region) /\ Len(s) = (i - 1) + Len(l) + (Len(maps[p]) - (i + 1) + 1)
    BY <2>2 DEF Spliced
  <2> HIDE DEF s
  <2> DEFINE L == Len(maps[p])
             N == Len(l)
             T == Len(s)
  <2>4. i \in Int /\ L \in Int /\ N \in Int /\ T = (i - 1) + N + (L - (i + 1) + 1)
    BY <1>2, <2>1, <2>3
  <2> HIDE DEF L, N, T
  <2>5. T = L + N - 1
    BY <2>4
  <2> QED BY <2>3, <2>5 DEF L, N, T
<1>4. /\ p \in Running /\ maps' = [maps EXCEPT ![p] = s] /\ total' = [total EXCEPT ![p] = Len(maps[p]) + Len(l) - 1]
      /\ disk' = WriteBack(disk, p, r, S) /\ KFree(FramesOf(p, S)) /\ pt' = Unmapped(p, S)
      /\ ref' = [f \in Files |-> IF f = r.file THEN ref[f] + Len(l) - 1 ELSE ref[f]]
      /\ UNCHANGED <<st, parent, ofile, last>>
  BY DEF CutStep
<1> HIDE DEF s
<1>5. total' = [total EXCEPT ![p] = Len(s)] /\ Len(s) <= MAX_NMMAP
  <2>1. total' = [total EXCEPT ![p] = Len(s)]
    BY <1>3, <1>4
  <2> DEFINE L == Len(maps[p])
             N == Len(l)
             T == Len(s)
  <2>2. T = L + N - 1 /\ L \in Nat /\ L <= MAX_NMMAP
    BY <1>2, <1>3
  <2>3. (N = 1 \/ (N = 2 /\ L < MAX_NMMAP)) /\ MAX_NMMAP \in Nat
    BY <1>l, Sizes
  <2> HIDE DEF L, N, T
  <2>4. T <= MAX_NMMAP
    BY <2>2, <2>3
  <2> QED BY <2>1, <2>4 DEF T
<1>6. /\ maps' \in [Procs -> Seq(Region)] /\ total' \in [Procs -> 0..MAX_NMMAP]
      /\ \A q \in Procs : total'[q] = Len(maps'[q]) /\ (q \notin Running' => maps'[q] = <<>>)
  BY <1>3, <1>4, <1>5, ListChanged
<1>7. disk \in Disks /\ FramesOf(p, S) \in SUBSET Frames
  BY <1>l, PresentFacts DEF TypeOK, Disks
<1> HIDE DEF S, r
<1>9. free' \subseteq Frames /\ mem' \in [Frames -> Vals \cup {Junk}]
  BY <1>4, <1>7, KFreeType
<1>10. pt' \in [Procs -> [PageAddrs -> Frames \cup {NULL}]] /\ disk' \in [Files -> Contents]
  BY <1>1, <1>4, <1>7, <1>l, UnmappedType, WriteBackType DEF Disks
<1>11. ref' \in [Files -> Int]
  <2>1. Len(l) \in Int
    BY <1>l
  <2> QED BY <1>4, <2>1 DEF TypeOK
<1> QED BY <1>4, <1>6, <1>9, <1>10, <1>11 DEF TypeOK

\* A page fault keeps the types.
LEMMA FaultStepType ==
    ASSUME TypeOK, client' = client, NEW p \in Procs, NEW va \in PageAddrs, NEW i, NEW f, FaultStep(p, va, i, f)
    PROVE  TypeOK'
<1> DEFINE r == maps[p][i]
           t == [r EXCEPT !.n_loaded_pages = r.n_loaded_pages + 1]
           s == [maps[p] EXCEPT ![i] = t]
<1>1. maps[p] \in Seq(Region) /\ i \in DOMAIN maps[p] /\ r \in Region /\ total[p] = Len(maps[p])
  BY DEF TypeOK, FaultStep
<1>2. r.n_loaded_pages + 1 \in Int
  BY <1>1, RegionFacts
<1>3. t \in Region
  BY <1>1, <1>2 DEF Region
<1>4. /\ p \in Running /\ f \in free /\ free' = free \ {f}
      /\ pt' = [pt EXCEPT ![p] = [pt[p] EXCEPT ![va] = f]]
      /\ mem' = [mem EXCEPT ![f] = Filled(r, va)]
      /\ maps' = [maps EXCEPT ![p] = s]
      /\ UNCHANGED <<st, parent, total, ofile, ref, disk, last>>
  BY DEF FaultStep
<1> HIDE DEF t
<1>5. s \in Seq(Region) /\ Len(s) = Len(maps[p])
  BY <1>1, <1>3
<1> HIDE DEF s
<1>6. Len(maps[p]) <= MAX_NMMAP /\ total' = [total EXCEPT ![p] = Len(s)]
  BY <1>1, <1>4, <1>5, Sizes DEF TypeOK
<1>7. /\ maps' \in [Procs -> Seq(Region)] /\ total' \in [Procs -> 0..MAX_NMMAP]
      /\ \A q \in Procs : total'[q] = Len(maps'[q]) /\ (q \notin Running' => maps'[q] = <<>>)
  BY <1>4, <1>5, <1>6, ListChanged
<1>8. Filled(r, va) \in Vals \cup {Junk}
  <2>1. CASE FileBacked(r) /\ Offset(r, va) \in DOMAIN disk[r.file]
    <3>1. r.file \in Files
      BY <1>1, <2>1, RegionFacts DEF FileBacked
    <3>2. disk[r.file] \in Contents
      BY <3>1 DEF TypeOK
    <3> QED BY <2>1, <3>2 DEF Filled, Contents
  <2>2. CASE ~(FileBacked(r) /\ Offset(r, va) \in DOMAIN disk[r.file])
    BY <2>2, WmapAssumption DEF Filled
  <2> QED BY <2>1, <2>2
<1>9. /\ pt' \in [Procs -> [PageAddrs -> Frames \cup {NULL}]]
      /\ free' \subseteq Frames /\ mem' \in [Frames -> Vals \cup {Junk}]
  BY <1>4, <1>8 DEF TypeOK
<1> QED BY <1>4, <1>7, <1>9 DEF TypeOK

\* A store keeps the types.
LEMMA StoreType ==
    ASSUME TypeOK, client' = client, NEW p \in Procs, NEW va \in PageAddrs, NEW v \in Vals, Store(p, va, v)
    PROVE  TypeOK'
<1>1. /\ pt[p][va] # NULL /\ mem' = [mem EXCEPT ![pt[p][va]] = v]
      /\ UNCHANGED <<st, parent, maps, total, pt, ofile, ref, disk, free>>
  BY DEF Store
<1>2. mem' \in [Frames -> Vals \cup {Junk}]
  BY <1>1 DEF TypeOK
<1> DEFINE Hit(f, o) == \E i \in DOMAIN maps[p] : LET r == maps[p][i] IN
                va \in Pages(r) /\ Shared(r) /\ FileBacked(r) /\ r.file = f /\ Offset(r, va) = o
<1>3. last' = [f \in Files |-> [o \in DOMAIN last[f] |-> IF Hit(f, o) THEN v ELSE last[f][o]]]
  BY DEF Store
<1> HIDE DEF Hit
<1>4. last' \in [Files -> Contents]
  BY <1>3 DEF TypeOK, Contents
<1> QED BY <1>1, <1>2, <1>4 DEF TypeOK, Running

\* The references a fork takes are a number.
LEMMA DupsType ==
    ASSUME TypeOK, NEW p \in Procs, NEW n \in Nat, NEW f
    PROVE  /\ Dups(p, n, f) \in Nat
           /\ Cardinality({fd \in Fds : ofile[p][fd] = f}) \in Nat
           /\ Cardinality({i \in 1..n : maps[p][i].file = f}) \in Nat
<1>1. IsFiniteSet(Fds) /\ IsFiniteSet(1..n)
  BY WmapAssumption, FS_Interval
<1>2. IsFiniteSet({fd \in Fds : ofile[p][fd] = f}) /\ IsFiniteSet({i \in 1..n : maps[p][i].file = f})
  BY <1>1, FS_Subset
<1>3. /\ Cardinality({fd \in Fds : ofile[p][fd] = f}) \in Nat
      /\ Cardinality({i \in 1..n : maps[p][i].file = f}) \in Nat
  BY <1>2, FS_CardinalityType
<1> QED BY <1>3 DEF Dups

\* The first part of fork takes an unused slot and keeps the types.
LEMMA ForksType ==
    ASSUME TypeOK, NEW p \in Procs, NEW q \in Procs, NEW n \in Nat, Forks(p, q, n)
    PROVE  /\ p \in Running /\ p # q /\ st[q] = "UNUSED" /\ maps[q] = <<>>
           /\ parent' \in [Procs -> Procs \cup {NULL}]
           /\ ofile' \in [Procs -> [Fds -> Files \cup {NULL}]]
           /\ ref' \in [Files -> Int]
<1>1. /\ p \in Running /\ st[q] = "UNUSED"
      /\ parent' = [parent EXCEPT ![q] = p]
      /\ ofile' = [ofile EXCEPT ![q] = [fd \in Fds |-> IF ofile[p][fd] # NULL THEN ofile[p][fd] ELSE ofile[q][fd]]]
      /\ ref' = [f \in Files |-> ref[f] + Dups(p, n, f)]
  BY DEF Forks, Makes, TypeOK
<1>2. p # q /\ maps[q] = <<>>
  BY <1>1 DEF Running, TypeOK
<1>3. \A f \in Files : Dups(p, n, f) \in Nat
  BY DupsType
<1>4. ref' \in [Files -> Int]
  BY <1>1, <1>3 DEF TypeOK
<1>5. parent' \in [Procs -> Procs \cup {NULL}] /\ ofile' \in [Procs -> [Fds -> Files \cup {NULL}]]
  BY <1>1 DEF TypeOK
<1> QED BY <1>1, <1>2, <1>4, <1>5

\* A child's regions.
Inherited(p, i) ==
    [maps[p][i] EXCEPT !.refcnt = IF Shared(maps[p][i]) THEN 1 ELSE 0,
                       !.n_loaded_pages = Cardinality(Present(p, Pages(maps[p][i])))]
Child(p) == [i \in DOMAIN maps[p] |-> Inherited(p, i)]

\* A child's list has its parent's regions, with refcnt and count of its own.
LEMMA ChildType ==
    ASSUME TypeOK, NEW p \in Procs
    PROVE  /\ Child(p) \in Seq(Region) /\ Len(Child(p)) = Len(maps[p]) /\ DOMAIN Child(p) = DOMAIN maps[p]
           /\ \A i \in DOMAIN maps[p] : LET r == maps[p][i]
                                            c == Child(p)[i] IN
                 /\ r \in Region /\ c \in Region
                 /\ c.addr = r.addr /\ c.length = r.length /\ c.flags = r.flags /\ c.file = r.file
                 /\ c.refcnt = (IF Shared(r) THEN 1 ELSE 0)
                 /\ c.n_loaded_pages = Cardinality(Present(p, Pages(r)))
<1>1. maps[p] \in Regions /\ maps[p] \in Seq(Region)
  BY DEF TypeOK, Regions
<1>2. Len(maps[p]) \in Nat /\ DOMAIN maps[p] = 1..Len(maps[p])
  BY <1>1
<1>3. ASSUME NEW i \in DOMAIN maps[p]
      PROVE  LET r == maps[p][i]
                 c == Inherited(p, i) IN
                 /\ r \in Region /\ c \in Region
                 /\ c.addr = r.addr /\ c.length = r.length /\ c.flags = r.flags /\ c.file = r.file
                 /\ c.refcnt = (IF Shared(r) THEN 1 ELSE 0)
                 /\ c.n_loaded_pages = Cardinality(Present(p, Pages(r)))
  <2> DEFINE r == maps[p][i]
             a == IF Shared(r) THEN 1 ELSE 0
             n == Cardinality(Present(p, Pages(r)))
  <2>1. r \in Region
    BY <1>1, ListFacts
  <2>2. a \in {0, 1} /\ n \in Int
    BY PagesIn, PresentFacts
  <2>3. Inherited(p, i) = [r EXCEPT !.refcnt = a, !.n_loaded_pages = n]
    BY DEF Inherited
  <2> HIDE DEF r, a, n
  <2>4. [r EXCEPT !.refcnt = a, !.n_loaded_pages = n] \in Region
    BY <2>1, <2>2 DEF Region
  <2>5. LET c == [r EXCEPT !.refcnt = a, !.n_loaded_pages = n] IN
            /\ c.addr = r.addr /\ c.length = r.length /\ c.flags = r.flags /\ c.file = r.file
            /\ c.refcnt = a /\ c.n_loaded_pages = n
    BY <2>1, <2>2 DEF Region
  <2> QED BY <2>1, <2>3, <2>4, <2>5 DEF r, a, n
<1>4. DOMAIN Child(p) = DOMAIN maps[p] /\ \A i \in DOMAIN maps[p] : Child(p)[i] = Inherited(p, i)
  BY DEF Child
<1>5. Child(p) \in Seq(Region) /\ Len(Child(p)) = Len(maps[p])
  <2>1. Child(p) = [i \in 1..Len(maps[p]) |-> Inherited(p, i)]
    BY <1>2 DEF Child
  <2>2. \A i \in 1..Len(maps[p]) : Inherited(p, i) \in Region
    BY <1>2, <1>3
  <2> QED BY <1>2, <2>1, <2>2
<1> QED BY <1>3, <1>4, <1>5

\* fork keeps the types.
LEMMA ForkType ==
    ASSUME TypeOK, client' = client, NEW p \in Procs, NEW q \in Procs, Fork(p, q)
    PROVE  TypeOK'
<1> DEFINE n == Len(maps[p])
           copied == Present(p, PagesWhere(p, Private))
<1>1. n \in Nat /\ total[p] = n
  BY DEF TypeOK
<1>2. /\ Forks(p, q, n) /\ CopyPages(p, q) /\ maps' = [maps EXCEPT ![q] = Child(p)]
      /\ total' = [total EXCEPT ![q] = n] /\ st' = [st EXCEPT ![q] = "RUNNING"]
      /\ UNCHANGED <<disk, last>>
  BY DEF Fork, Child, Inherited
<1>3. /\ p \in Running /\ p # q /\ st[q] = "UNUSED" /\ maps[q] = <<>>
      /\ parent' \in [Procs -> Procs \cup {NULL}]
      /\ ofile' \in [Procs -> [Fds -> Files \cup {NULL}]]
      /\ ref' \in [Files -> Int]
  BY <1>1, <1>2, ForksType
<1>4. PICK g \in [copied -> free] :
        /\ free' = free \ {g[v] : v \in copied}
        /\ mem' = [f \in Frames |-> IF \E v \in copied : g[v] = f
                      THEN mem[pt[p][CHOOSE v \in copied : g[v] = f]] ELSE mem[f]]
        /\ pt' = [pt EXCEPT ![q] = [va \in PageAddrs |->
              IF va \in copied THEN g[va]
              ELSE IF va \in PagesWhere(p, Shared) THEN pt[p][va] ELSE NULL]]
  BY <1>2 DEF CopyPages, Inherits
<1>5. copied \in SUBSET PageAddrs /\ \A v \in copied : pt[p][v] \in Frames
  BY PagesIn, Sizes DEF TypeOK, Present
<1> HIDE DEF copied
<1>6. mem' \in [Frames -> Vals \cup {Junk}]
  <2>1. ASSUME NEW f \in Frames, \E v \in copied : g[v] = f
        PROVE  pt[p][CHOOSE v \in copied : g[v] = f] \in Frames
    <3>1. (CHOOSE v \in copied : g[v] = f) \in copied
      BY <2>1
    <3> QED BY <1>5, <3>1
  <2>2. \A f \in Frames : mem[f] \in Vals \cup {Junk}
    BY DEF TypeOK
  <2>3. ASSUME NEW f \in Frames
        PROVE  (IF \E v \in copied : g[v] = f
                  THEN mem[pt[p][CHOOSE v \in copied : g[v] = f]] ELSE mem[f]) \in Vals \cup {Junk}
    BY <2>1, <2>2
  <2> QED BY <1>4, <2>3
<1>7. pt' \in [Procs -> [PageAddrs -> Frames \cup {NULL}]] /\ free' \subseteq Frames
  BY <1>4, <1>5 DEF TypeOK
<1>8. /\ maps' \in [Procs -> Seq(Region)] /\ total' \in [Procs -> 0..MAX_NMMAP]
      /\ st' \in [Procs -> {"UNUSED", "RUNNING", "ZOMBIE"}]
  BY <1>1, <1>2, ChildType DEF TypeOK
<1>9. ASSUME NEW x \in Procs PROVE total'[x] = Len(maps'[x]) /\ (x \notin Running' => maps'[x] = <<>>)
  <2>1. CASE x = q
    BY <1>2, <2>1, ChildType DEF TypeOK, Running
  <2>2. CASE x # q
    BY <1>2, <2>2 DEF TypeOK, Running
  <2> QED BY <2>1, <2>2
<1> QED BY <1>2, <1>3, <1>6, <1>7, <1>8, <1>9 DEF TypeOK

\* A fork that fails keeps the types.
LEMMA ForkFailsType ==
    ASSUME TypeOK, client' = client, NEW p \in Procs, NEW q \in Procs, NEW n \in DOMAIN maps[p],
           NEW va \in PageAddrs, ForkFails(p, q, n, va)
    PROVE  TypeOK'
<1>1. n \in Nat
  BY DEF TypeOK
<1> DEFINE A == UNION {Pages(maps[p][i]) : i \in {j \in 1..(n - 1) : Shared(maps[p][j])}}
           B == {v \in Pages(maps[p][n]) : Shared(maps[p][n]) /\ v < va}
           S == FramesOf(p, A \cup B)
<1>2. Forks(p, q, n) /\ KFree(S) /\ UNCHANGED <<st, maps, total, pt, disk, last>>
  BY DEF ForkFails
<1>3. S \in SUBSET Frames
  <2>1. A \cup B \in SUBSET PageAddrs
    <3>1. \A i : Pages(maps[p][i]) \in SUBSET PageAddrs
      BY DEF Pages
    <3>2. A \in SUBSET PageAddrs
      BY <3>1
    <3>3. B \in SUBSET PageAddrs
      BY <3>1
    <3> HIDE DEF A, B
    <3> QED BY <3>2, <3>3
  <2> HIDE DEF A, B
  <2> QED BY <2>1, PresentFacts
<1> HIDE DEF S
<1>4. free' \subseteq Frames /\ mem' \in [Frames -> Vals \cup {Junk}]
  BY <1>2, <1>3, KFreeType
<1>5. /\ parent' \in [Procs -> Procs \cup {NULL}]
      /\ ofile' \in [Procs -> [Fds -> Files \cup {NULL}]]
      /\ ref' \in [Files -> Int]
  BY <1>1, <1>2, ForksType
<1> QED BY <1>2, <1>4, <1>5 DEF TypeOK, Running

\* What delete_mmaps does to the list of the parent is to its refcnt's only.
LEMMA ReleasedType ==
    ASSUME TypeOK, NEW p \in Procs, NEW q \in Procs
    PROVE  /\ Released(p, maps[q]) \in Seq(Region) /\ Len(Released(p, maps[q])) = Len(maps[q])
           /\ DOMAIN Released(p, maps[q]) = DOMAIN maps[q]
           /\ \A j \in DOMAIN maps[q] : LET r == maps[q][j]
                                            c == Released(p, maps[q])[j] IN
                 /\ r \in Region /\ c \in Region /\ c.refcnt \in {0, r.refcnt}
                 /\ c.addr = r.addr /\ c.length = r.length /\ c.flags = r.flags /\ c.file = r.file
                 /\ c.n_loaded_pages = r.n_loaded_pages
<1> DEFINE m == maps[q]
           By(j) == {i \in DOMAIN maps[p] : /\ Shared(maps[p][i]) /\ maps[p][i].refcnt = 1
                                           /\ m[j].addr = maps[p][i].addr
                                           /\ j = FirstIdx(AtAddr(m, m[j].addr))}
           R(j) == [m[j] EXCEPT !.refcnt = IF m[j].refcnt > Cardinality(By(j)) THEN m[j].refcnt - Cardinality(By(j)) ELSE 0]
<1>1. maps[p] \in Regions /\ m \in Regions
  BY DEF TypeOK, Regions
<1>2. Len(m) \in Nat /\ DOMAIN m = 1..Len(m) /\ \A j \in DOMAIN m : m[j] \in Region
  BY <1>1, ListFacts
<1>3. Released(p, m) = [j \in DOMAIN m |-> R(j)]
  BY DEF Released
<1>4. ASSUME NEW j \in DOMAIN m
      PROVE  /\ R(j) \in Region /\ R(j).refcnt \in {0, m[j].refcnt}
             /\ R(j).addr = m[j].addr /\ R(j).length = m[j].length /\ R(j).flags = m[j].flags
             /\ R(j).file = m[j].file /\ R(j).n_loaded_pages = m[j].n_loaded_pages
  <2> DEFINE c == Cardinality(By(j))
             x == IF m[j].refcnt > c THEN m[j].refcnt - c ELSE 0
  <2>1. c \in Nat
    <3>1. DOMAIN maps[p] = 1..Len(maps[p]) /\ Len(maps[p]) \in Nat
      BY <1>1, ListFacts
    <3>2. IsFiniteSet(DOMAIN maps[p])
      BY <3>1, FS_Interval
    <3>3. IsFiniteSet(By(j))
      BY <3>2, FS_Subset
    <3> QED BY <3>3, FS_CardinalityType
  <2>2. m[j] \in Region /\ m[j].refcnt \in {0, 1}
    BY <1>2, RegionFacts
  <2>3. x \in {0, m[j].refcnt} /\ x \in {0, 1}
    <3> HIDE DEF c
    <3> QED BY <2>1, <2>2
  <2>4. R(j) = [m[j] EXCEPT !.refcnt = x]
    OBVIOUS
  <2> HIDE DEF x, R, m
  <2> QED BY <2>2, <2>3, <2>4 DEF Region
<1> HIDE DEF R
<1>5. Released(p, m) \in Seq(Region) /\ Len(Released(p, m)) = Len(m)
  <2>1. Released(p, m) = [j \in 1..Len(m) |-> R(j)] /\ \A j \in 1..Len(m) : R(j) \in Region
    BY <1>2, <1>3, <1>4
  <2> QED BY <1>2, <2>1
<1> QED BY <1>2, <1>3, <1>4, <1>5

\* exit keeps the types.
LEMMA ExitType ==
    ASSUME TypeOK, client' = client, NEW p \in Procs, Exit(p)
    PROVE  TypeOK'
<1>1. /\ p \in Running /\ disk' = ExitWrites(p) /\ KFree(ExitFrees(p))
      /\ pt' = Unmapped(p, PagesWhere(p, LAMBDA r : TRUE))
      /\ ref' = [f \in Files |-> ref[f] - Cardinality({fd \in Fds : ofile[p][fd] = f})
                 - Cardinality({i \in DOMAIN maps[p] : maps[p][i].file = f /\ Unshared(maps[p][i])})]
      /\ ofile' = [ofile EXCEPT ![p] = [fd \in Fds |-> NULL]]
      /\ maps' = [q \in Procs |-> IF q = p THEN <<>>
                               ELSE IF q = parent[p] THEN Released(p, maps[q]) ELSE maps[q]]
      /\ total' = [total EXCEPT ![p] = 0]
      /\ parent' = [q \in Procs |-> IF parent[q] = p THEN NULL ELSE parent[q]]
      /\ st' = [st EXCEPT ![p] = "ZOMBIE"]
      /\ UNCHANGED last
  BY DEF Exit
<1>2. ExitFrees(p) \in SUBSET Frames
  BY PagesIn, PresentFacts DEF ExitFrees
<1>3. free' \subseteq Frames /\ mem' \in [Frames -> Vals \cup {Junk}]
  BY <1>1, <1>2, KFreeType
<1>4. disk' \in [Files -> Contents]
  <2>1. PICK f : /\ Writes(f, p, Len(maps[p])) /\ ExitWrites(p) = f[Len(maps[p])]
                 /\ \A i \in 0..Len(maps[p]) : f[i] \in Disks
    BY ExitWritesIs
  <2>2. Len(maps[p]) \in 0..Len(maps[p])
    BY DEF TypeOK
  <2> QED BY <1>1, <2>1, <2>2 DEF Disks
<1>5. pt' \in [Procs -> [PageAddrs -> Frames \cup {NULL}]]
  BY <1>1, UnmappedType
<1>6. ref' \in [Files -> Int]
  <2>1. ASSUME NEW f \in Files
        PROVE  /\ Cardinality({fd \in Fds : ofile[p][fd] = f}) \in Nat
               /\ Cardinality({i \in DOMAIN maps[p] : maps[p][i].file = f /\ Unshared(maps[p][i])}) \in Nat
    <3>1. DOMAIN maps[p] = 1..Len(maps[p]) /\ Len(maps[p]) \in Nat
      BY DEF TypeOK
    <3>2. IsFiniteSet(DOMAIN maps[p]) /\ IsFiniteSet(Fds)
      BY <3>1, FS_Interval, WmapAssumption
    <3> QED BY <3>2, FS_Subset, FS_CardinalityType
  <2> DEFINE A(f) == Cardinality({fd \in Fds : ofile[p][fd] = f})
             B(f) == Cardinality({i \in DOMAIN maps[p] : maps[p][i].file = f /\ Unshared(maps[p][i])})
  <2>2. ref' = [f \in Files |-> ref[f] - A(f) - B(f)] /\ \A f \in Files : A(f) \in Nat /\ B(f) \in Nat
    BY <1>1, <2>1
  <2>3. ref \in [Files -> Int]
    BY DEF TypeOK
  <2> HIDE DEF A, B
  <2> QED BY <2>2, <2>3
<1>7. ofile' \in [Procs -> [Fds -> Files \cup {NULL}]] /\ parent' \in [Procs -> Procs \cup {NULL}]
  BY <1>1 DEF TypeOK
<1>8. st' \in [Procs -> {"UNUSED", "RUNNING", "ZOMBIE"}]
  BY <1>1 DEF TypeOK
<1>9. ASSUME NEW q \in Procs
      PROVE  /\ maps'[q] \in Seq(Region) /\ total'[q] \in 0..MAX_NMMAP
             /\ total'[q] = Len(maps'[q]) /\ (q \notin Running' => maps'[q] = <<>>)
  <2>1. CASE q = p
    BY <1>1, <2>1, Sizes DEF TypeOK
  <2>2. CASE q # p
    <3>1. maps'[q] \in Seq(Region) /\ Len(maps'[q]) = Len(maps[q])
      BY <1>1, <2>2, ReleasedType DEF TypeOK
    <3>2. total'[q] = total[q] /\ st'[q] = st[q]
      BY <1>1, <2>2 DEF TypeOK
    <3>3. q \notin Running' => Len(maps'[q]) = 0
      BY <3>1, <3>2 DEF TypeOK, Running
    <3>4. q \notin Running' => maps'[q] = <<>>
      BY <3>1, <3>3
    <3> QED BY <3>1, <3>2, <3>4 DEF TypeOK
  <2> QED BY <2>1, <2>2
<1>10. maps' \in [Procs -> Seq(Region)] /\ total' \in [Procs -> 0..MAX_NMMAP]
  <2>1. DOMAIN maps' = Procs /\ maps' = [q \in Procs |-> maps'[q]] /\ total' = [q \in Procs |-> total'[q]]
    BY <1>1 DEF TypeOK
  <2> QED BY <1>9, <2>1
<1> QED BY <1>1, <1>3, <1>4, <1>5, <1>6, <1>7, <1>8, <1>9, <1>10 DEF TypeOK

\* wait keeps the types.
LEMMA WaitType ==
    ASSUME TypeOK, client' = client, NEW q \in Procs, Wait(q)
    PROVE  TypeOK'
<1>1. /\ st[q] = "ZOMBIE" /\ KFree(FramesOf(q, PageAddrs)) /\ pt' = Unmapped(q, PageAddrs)
      /\ st' = [st EXCEPT ![q] = "UNUSED"] /\ parent' = [parent EXCEPT ![q] = NULL]
      /\ UNCHANGED <<maps, total, ofile, ref, disk, last>>
  BY DEF Wait
<1>2. free' \subseteq Frames /\ mem' \in [Frames -> Vals \cup {Junk}]
  BY <1>1, PresentFacts, KFreeType
<1>3. pt' \in [Procs -> [PageAddrs -> Frames \cup {NULL}]]
  BY <1>1, UnmappedType
<1>4. \A p \in Procs : p \notin Running' => p \notin Running
  BY <1>1 DEF TypeOK, Running
<1> QED BY <1>1, <1>2, <1>3, <1>4 DEF TypeOK

\* exec keeps the types.
LEMMA ExecType ==
    ASSUME TypeOK, client' = client, NEW p \in Procs, Exec(p)
    PROVE  TypeOK'
<1>1. /\ KFree(FramesOf(p, PageAddrs)) /\ pt' = Unmapped(p, PageAddrs)
      /\ UNCHANGED <<st, parent, maps, total, ofile, ref, disk, last>>
  BY DEF Exec
<1>2. free' \subseteq Frames /\ mem' \in [Frames -> Vals \cup {Junk}]
  BY <1>1, PresentFacts, KFreeType
<1>3. pt' \in [Procs -> [PageAddrs -> Frames \cup {NULL}]]
  BY <1>1, UnmappedType
<1> QED BY <1>1, <1>2, <1>3 DEF TypeOK, Running

\* open and close keep the types.
LEMMA FilesType ==
    ASSUME TypeOK, client' = client, NEW p \in Procs, NEW fd \in Fds,
           \/ Close(p, fd)
           \/ \E f \in Files : Open(p, fd, f)
           \/ \E a, len, flags : WmapInvalid(p, a, len, flags, fd)
    PROVE  TypeOK'
<1>1. CASE Close(p, fd)
  BY <1>1 DEF TypeOK, Close, Running
<1>2. CASE \E f \in Files : Open(p, fd, f)
  BY <1>2 DEF TypeOK, Open, Running
<1>3. CASE \E a, len, flags : WmapInvalid(p, a, len, flags, fd)
  BY <1>3 DEF TypeOK, WmapInvalid, Running
<1> QED BY <1>1, <1>2, <1>3

\* The types hold at the start.
LEMMA InitType == Init => TypeOK
<1> SUFFICES ASSUME Init PROVE TypeOK
  OBVIOUS
<1>1. maps \in [Procs -> Seq(Region)] /\ total \in [Procs -> 0..MAX_NMMAP]
  BY Sizes DEF Init
<1>2. disk \in [Files -> Contents] /\ last \in [Files -> Contents]
  BY WmapAssumption DEF Init, Contents
<1>3. \A p \in Procs : total[p] = Len(maps[p]) /\ (p \notin Running => maps[p] = <<>>)
  BY DEF Init
<1>4. /\ client \in Clients /\ st \in [Procs -> {"UNUSED", "RUNNING", "ZOMBIE"}]
      /\ parent \in [Procs -> Procs \cup {NULL}]
  BY DEF Init
<1>5. /\ pt \in [Procs -> [PageAddrs -> Frames \cup {NULL}]]
      /\ ofile \in [Procs -> [Fds -> Files \cup {NULL}]] /\ ref \in [Files -> Int]
      /\ free \subseteq Frames /\ mem \in [Frames -> Vals \cup {Junk}]
  BY DEF Init
<1> QED BY <1>1, <1>2, <1>3, <1>4, <1>5 DEF TypeOK

\* The type invariant is inductive.
LEMMA TypeInductive == TypeOK /\ [Next]_vars => TypeOK'
<1>1. ASSUME TypeOK, Next PROVE TypeOK'
  <2>1. client' = client /\ Steps
    BY <1>1, NextIs
  <2>2. PICK p \in Procs :
    \/ \E r, k : MapStep(p, r, k)
    \/ \E a \in client.addrs, len \in client.lengths, flags \in client.flags, fd \in Fds :
          WmapInvalid(p, a, len, flags, fd)
    \/ \E i : UnmapStep(p, i)
    \/ \E i, a, len, e, l : CutStep(p, i, a, len, e, l)
    \/ \E va \in PageAddrs : \E i, f : FaultStep(p, va, i, f)
    \/ \E va \in PageAddrs, v \in Vals : Store(p, va, v)
    \/ \E q \in Procs : Fork(p, q)
    \/ \E q \in Procs, n \in DOMAIN maps[p], va \in PageAddrs : ForkFails(p, q, n, va)
    \/ Exit(p) \/ Wait(p) \/ Exec(p)
    \/ \E fd \in Fds : Close(p, fd)
    \/ \E fd \in Fds, f \in Files : Open(p, fd, f)
    BY <2>1, Zenon DEF Steps
  <2> QED BY <1>1, <2>1, <2>2, MapStepType, UnmapStepType, CutStepType, FaultStepType, StoreType, ForkType,
          ForkFailsType, ExitType, WaitType, ExecType, FilesType, Zenon
<1>2. ASSUME TypeOK, UNCHANGED vars PROVE TypeOK'
  BY <1>2 DEF TypeOK, vars, Running
<1> QED BY <1>1, <1>2

\* The type invariant: refcnt stays in {0, 1}, total_mmaps counts the list and
\* does not pass MAX_NMMAP, and only a running process has mappings, whatever
\* the programs do.
THEOREM TypeCorrect == Spec => []TypeOK
<1>1. TypeOK /\ [Next]_vars => TypeOK'
  BY TypeInductive
<1> QED BY <1>1, InitType, PTL DEF Spec

-----------------------------------------------------------------------------
(* Lists stay sorted and their regions apart *)

ListInv == /\ "in_range" \in client.rules => \A p \in Procs : RangeOK(maps[p])
           /\ Proper => \A p \in Procs : Ordered(maps[p])

\* Only addresses and lengths count.
SameShape(m, s) == /\ DOMAIN s = DOMAIN m
                   /\ \A i \in DOMAIN m : s[i].addr = m[i].addr /\ s[i].length = m[i].length

\* A list of the same addresses and lengths is as well placed and sorted.
LEMMA ShapeKept ==
    ASSUME NEW m, NEW s, SameShape(m, s)
    PROVE  (RangeOK(m) => RangeOK(s)) /\ (Ordered(m) => Ordered(s))
BY DEF SameShape, RangeOK, Ordered, InRange, Apart, EndOf

\* A list stays within the range when what is put in is apart from the rest.
LEMMA SpliceRange ==
    ASSUME NEW m \in Regions, NEW l \in Regions, NEW i \in 1..(Len(m) + 1), NEW k \in i..(Len(m) + 1),
           RangeOK(m), RangeOK(l),
           \A j \in DOMAIN m : j < i \/ j >= k => \A x \in DOMAIN l : Apart(m[j], l[x])
    PROVE  RangeOK(Splice(m, i, l, k))
<1> DEFINE s == Splice(m, i, l, k)
<1>1. m \in Seq(Region) /\ l \in Seq(Region)
  BY DEF Regions
<1>2. ASSUME NEW x \in DOMAIN s
      PROVE  \/ x \in 1..(i - 1) /\ x \in DOMAIN m /\ s[x] = m[x]
             \/ \E j \in DOMAIN l : x = i - 1 + j /\ s[x] = l[j]
             \/ \E j \in k..Len(m) : j \in DOMAIN m /\ x = i - 1 + Len(l) + (j - k + 1) /\ s[x] = m[j]
  <2>1. CameFrom(m, i, l, k, s, x)
    BY <1>1, SpliceFrom
  <2> QED BY <2>1 DEF CameFrom
<1> HIDE DEF s
<1>3. ASSUME NEW x \in DOMAIN s
      PROVE  \/ \E j \in DOMAIN m : x = j /\ j < i /\ s[x] = m[j]
             \/ \E j \in DOMAIN l : x = i - 1 + j /\ s[x] = l[j]
             \/ \E j \in DOMAIN m : x = i - 1 + Len(l) + (j - k + 1) /\ j >= k /\ s[x] = m[j]
  <2>1. CASE x \in 1..(i - 1) /\ x \in DOMAIN m /\ s[x] = m[x]
    <3>1. x < i
      BY <2>1
    <3> QED BY <2>1, <3>1
  <2>2. CASE \E j \in DOMAIN l : x = i - 1 + j /\ s[x] = l[j]
    BY <2>2
  <2>3. CASE \E j \in k..Len(m) : j \in DOMAIN m /\ x = i - 1 + Len(l) + (j - k + 1) /\ s[x] = m[j]
    BY <2>3
  <2> QED BY <1>2, <2>1, <2>2, <2>3
<1>4. ASSUME NEW x \in DOMAIN s PROVE InRange(s[x])
  BY <1>3 DEF RangeOK
<1>5. \A r, t : Apart(r, t) => Apart(t, r)
  BY DEF Apart
<1>6. ASSUME NEW x \in DOMAIN s, NEW y \in DOMAIN s, x # y PROVE Apart(s[x], s[y])
  <2>1. CASE \E j \in DOMAIN l : x = i - 1 + j /\ s[x] = l[j]
    <3>1. CASE \E j \in DOMAIN l : y = i - 1 + j /\ s[y] = l[j]
      <4>1. PICK j \in DOMAIN l : x = i - 1 + j /\ s[x] = l[j]
        BY <2>1
      <4>2. PICK n \in DOMAIN l : y = i - 1 + n /\ s[y] = l[n]
        BY <3>1
      <4>3. j # n
        BY <1>6, <4>1, <4>2
      <4> QED BY <4>1, <4>2, <4>3 DEF RangeOK
    <3>2. CASE \E n \in DOMAIN m : (n < i \/ n >= k) /\ s[y] = m[n]
      BY <1>5, <2>1, <3>2
    <3> QED BY <1>3, <3>1, <3>2
  <2>2. CASE \E j \in DOMAIN m : x = j /\ j < i /\ s[x] = m[j]
    <3>1. CASE \E j \in DOMAIN l : y = i - 1 + j /\ s[y] = l[j]
      BY <2>2, <3>1
    <3>2. CASE \E j \in DOMAIN m : y = j /\ j < i /\ s[y] = m[j]
      BY <1>6, <2>2, <3>2 DEF RangeOK
    <3>3. CASE \E j \in DOMAIN m : y = i - 1 + Len(l) + (j - k + 1) /\ j >= k /\ s[y] = m[j]
      <4>1. PICK j \in DOMAIN m : j < i /\ s[x] = m[j]
        BY <2>2
      <4>2. PICK n \in DOMAIN m : n >= k /\ s[y] = m[n]
        BY <3>3
      <4>3. j # n
        BY <4>1, <4>2, ListFacts
      <4> QED BY <4>1, <4>2, <4>3 DEF RangeOK
    <3> QED BY <1>3, <3>1, <3>2, <3>3
  <2>3. CASE \E j \in DOMAIN m : x = i - 1 + Len(l) + (j - k + 1) /\ j >= k /\ s[x] = m[j]
    <3>1. CASE \E j \in DOMAIN l : y = i - 1 + j /\ s[y] = l[j]
      BY <2>3, <3>1
    <3>2. CASE \E j \in DOMAIN m : y = j /\ j < i /\ s[y] = m[j]
      <4>1. PICK j \in DOMAIN m : j < i /\ s[y] = m[j]
        BY <3>2
      <4>2. PICK n \in DOMAIN m : n >= k /\ s[x] = m[n]
        BY <2>3
      <4>3. j # n
        BY <4>1, <4>2, ListFacts
      <4> QED BY <4>1, <4>2, <4>3 DEF RangeOK
    <3>3. CASE \E j \in DOMAIN m : y = i - 1 + Len(l) + (j - k + 1) /\ j >= k /\ s[y] = m[j]
      <4>1. PICK j \in DOMAIN m : x = i - 1 + Len(l) + (j - k + 1) /\ s[x] = m[j]
        BY <2>3
      <4>2. PICK n \in DOMAIN m : y = i - 1 + Len(l) + (n - k + 1) /\ s[y] = m[n]
        BY <3>3
      <4>3. j # n
        BY <1>6, <4>1, <4>2
      <4> QED BY <4>1, <4>2, <4>3 DEF RangeOK
    <3> QED BY <1>3, <3>1, <3>2, <3>3
  <2> QED BY <1>3, <2>1, <2>2, <2>3
<1>7. RangeOK(s)
  BY <1>4, <1>6 DEF RangeOK
<1> QED BY <1>7 DEF s

\* A list stays sorted when what is put in lies between its neighbours.
LEMMA SpliceOrdered ==
    ASSUME NEW m \in Regions, NEW l \in Regions, NEW i \in 1..(Len(m) + 1), NEW k \in i..(Len(m) + 1),
           Ordered(m), Ordered(l),
           \A j \in DOMAIN m : j < i => \A x \in DOMAIN l : m[j].addr < l[x].addr,
           \A j \in DOMAIN m : j >= k => \A x \in DOMAIN l : l[x].addr < m[j].addr
    PROVE  Ordered(Splice(m, i, l, k))
<1> DEFINE s == Splice(m, i, l, k)
           n == Len(l)
<1>1. m \in Seq(Region) /\ l \in Seq(Region)
  BY DEF Regions
<1>2. ASSUME NEW x \in DOMAIN s
      PROVE  \/ x \in 1..(i - 1) /\ x \in DOMAIN m /\ s[x] = m[x]
             \/ \E j \in DOMAIN l : x = i - 1 + j /\ s[x] = l[j]
             \/ \E j \in k..Len(m) : j \in DOMAIN m /\ x = i - 1 + Len(l) + (j - k + 1) /\ s[x] = m[j]
  <2>1. CameFrom(m, i, l, k, s, x)
    BY <1>1, SpliceFrom
  <2> QED BY <2>1 DEF CameFrom
<1> HIDE DEF s
<1>a. DOMAIN m = 1..Len(m) /\ DOMAIN l = 1..n /\ n \in Nat /\ Len(m) \in Nat
  BY ListFacts
<1> DEFINE One(x, j) == j \in DOMAIN m /\ x = j /\ j < i /\ s[x] = m[j]
           Two(x, j) == j \in DOMAIN l /\ x = i - 1 + j /\ s[x] = l[j]
           Three(x, j) == j \in DOMAIN m /\ x = i - 1 + n + (j - k + 1) /\ j >= k /\ s[x] = m[j]
<1>3. ASSUME NEW x \in DOMAIN s
      PROVE  \E j : One(x, j) \/ Two(x, j) \/ Three(x, j)
  <2>1. CASE x \in 1..(i - 1) /\ x \in DOMAIN m /\ s[x] = m[x]
    <3>1. x < i
      BY <2>1
    <3>2. One(x, x)
      BY <2>1, <3>1
    <3> QED BY <3>2
  <2>2. CASE \E j \in DOMAIN l : x = i - 1 + j /\ s[x] = l[j]
    BY <2>2
  <2>3. CASE \E j \in k..Len(m) : j \in DOMAIN m /\ x = i - 1 + Len(l) + (j - k + 1) /\ s[x] = m[j]
    BY <2>3
  <2> QED BY <1>2, <2>1, <2>2, <2>3
<1> HIDE DEF n
<1>4. ASSUME NEW x \in DOMAIN s PROVE s[x].length > 0
  BY <1>3 DEF Ordered
<1>5. ASSUME NEW x \in DOMAIN s, NEW y \in DOMAIN s, x < y PROVE s[x].addr < s[y].addr
  <2>1. PICK j : One(x, j) \/ Two(x, j) \/ Three(x, j)
    BY <1>3
  <2>2. PICK h : One(y, h) \/ Two(y, h) \/ Three(y, h)
    BY <1>3
  <2>3. j \in Int /\ h \in Int /\ k >= i /\ k \in Int /\ i \in Int
    BY <1>a, <2>1, <2>2
  <2>a. \A u, v \in DOMAIN m : m[u].addr < m[v].addr \/ ~(u < v)
    BY DEF Ordered
  <2>b. \A u, v \in DOMAIN l : l[u].addr < l[v].addr \/ ~(u < v)
    BY DEF Ordered
  <2>c. ASSUME NEW u \in DOMAIN m, NEW v \in DOMAIN m, u < i, v >= k PROVE u < v
    BY <1>a, <2>3, <2>c
  <2>4. CASE One(x, j)
    <3>1. CASE One(y, h)
      BY <1>5, <2>4, <3>1 DEF Ordered
    <3>2. CASE Two(y, h)
      BY <2>4, <3>2
    <3>3. CASE Three(y, h)
      BY <2>4, <2>a, <2>c, <3>3
    <3> QED BY <2>2, <3>1, <3>2, <3>3
  <2>5. CASE Two(x, j)
    <3>1. CASE One(y, h)
      <4>1. x = i - 1 + j /\ j >= 1 /\ y = h /\ h < i
        BY <1>a, <2>5, <3>1
      <4> QED BY <1>5, <2>3, <4>1
    <3>2. CASE Two(y, h)
      <4>1. j < h
        BY <1>5, <2>3, <2>5, <3>2
      <4> QED BY <2>5, <2>b, <3>2, <4>1
    <3>3. CASE Three(y, h)
      BY <2>5, <3>3
    <3> QED BY <2>2, <3>1, <3>2, <3>3
  <2>6. CASE Three(x, j)
    <3>1. CASE One(y, h)
      <4>1. x = i - 1 + n + (j - k + 1) /\ j >= k /\ y = h /\ h < i
        BY <2>6, <3>1
      <4> QED BY <1>5, <1>a, <2>3, <4>1
    <3>2. CASE Two(y, h)
      <4>1. x = i - 1 + n + (j - k + 1) /\ j >= k /\ y = i - 1 + h /\ h <= n
        BY <1>a, <2>6, <3>2
      <4> QED BY <1>5, <1>a, <2>3, <4>1
    <3>3. CASE Three(y, h)
      <4>1. x = i - 1 + n + (j - k + 1) /\ y = i - 1 + n + (h - k + 1)
        BY <2>6, <3>3
      <4>2. j < h
        BY <1>5, <1>a, <2>3, <4>1
      <4> QED BY <2>6, <2>a, <3>3, <4>2
    <3> QED BY <2>2, <3>1, <3>2, <3>3
  <2> QED BY <2>1, <2>4, <2>5, <2>6
<1>6. Ordered(s)
  BY <1>4, <1>5 DEF Ordered
<1> QED BY <1>6 DEF s

\* It is enough to look at the list that changes.
LEMMA OneList ==
    ASSUME TypeOK, ListInv, client' = client, NEW p \in Procs, NEW s, maps' = [maps EXCEPT ![p] = s],
           "in_range" \in client.rules => RangeOK(s), Proper => Ordered(s)
    PROVE  ListInv'
<1>1. \A q \in Procs : maps'[q] = IF q = p THEN s ELSE maps[q]
  BY DEF TypeOK
<1>2. Proper' = Proper
  BY DEF Proper
<1>3. "in_range" \in client'.rules => \A q \in Procs : RangeOK(maps'[q])
  BY <1>1 DEF ListInv
<1>4. Proper' => \A q \in Procs : Ordered(maps'[q])
  BY <1>1, <1>2 DEF ListInv
<1> QED BY <1>3, <1>4 DEF ListInv

\* A client that keeps ranges proper keeps them from wrapping around.
LEMMA ProperIn == Proper => "in_range" \in client.rules
BY DEF Proper

\* wmap keeps the lists sorted and disjoint.
LEMMA MapStepList ==
    ASSUME TypeOK, ListInv, client' = client, NEW p \in Procs, NEW r, NEW k, MapStep(p, r, k)
    PROVE  ListInv'
<1> DEFINE m == maps[p]
           l == <<r>>
           s == Splice(m, k, l, k)
<1>1. m \in Regions /\ r \in Region /\ k \in 1..(Len(m) + 1) /\ maps' = [maps EXCEPT ![p] = s]
  BY DEF TypeOK, Regions, MapStep
<1>2. l \in Regions /\ DOMAIN l = {1} /\ l[1] = r /\ k \in k..(Len(m) + 1)
  BY <1>1 DEF Regions
<1>3. /\ InRange(r) /\ r.length > 0
      /\ \A i \in DOMAIN m : Apart(m[i], r)
      /\ \A j \in 1..(k - 1) : j = 1 \/ m[j].addr < r.addr
      /\ k > 1 => m[1].addr <= r.addr
      /\ k <= Len(m) => m[k].addr >= r.addr
  BY DEF MapStep
<1> HIDE DEF l
<1>4. RangeOK(l) /\ Ordered(l)
  BY <1>2, <1>3 DEF RangeOK, Ordered
<1>5. "in_range" \in client.rules => RangeOK(s)
  <2> SUFFICES ASSUME "in_range" \in client.rules PROVE RangeOK(s)
    OBVIOUS
  <2>1. RangeOK(m)
    BY DEF ListInv
  <2>2. \A j \in DOMAIN m : j < k \/ j >= k => \A x \in DOMAIN l : Apart(m[j], l[x])
    BY <1>2, <1>3
  <2> HIDE DEF m
  <2> QED BY <1>1, <1>2, <1>4, <2>1, <2>2, SpliceRange
<1>6. Proper => Ordered(s)
  <2> SUFFICES ASSUME Proper PROVE Ordered(s)
    OBVIOUS
  <2>1. RangeOK(m) /\ Ordered(m)
    BY ProperIn DEF ListInv
  <2> HIDE DEF m
  <2>2. Len(m) \in Nat /\ DOMAIN m = 1..Len(m) /\ r.addr \in Int /\ r.length \in Int /\ EndOf(r) = r.addr + r.length
    BY <1>1, ListFacts, RegionFacts
  <2>3. ASSUME NEW j \in DOMAIN m PROVE m[j].addr # r.addr /\ m[j].addr \in Int
    <3>1. m[j].addr \in Int /\ m[j].length \in Int /\ EndOf(m[j]) = m[j].addr + m[j].length
      BY <1>1, ListFacts, RegionFacts
    <3>2. m[j].length > 0 /\ Apart(m[j], r)
      BY <1>3, <2>1 DEF Ordered
    <3> QED BY <1>3, <2>2, <3>1, <3>2 DEF Apart
  <2>4. ASSUME NEW j \in DOMAIN m, j < k PROVE m[j].addr < r.addr
    <3>1. CASE j = 1
      BY <1>1, <1>3, <2>2, <2>3, <2>4, <3>1
    <3>2. CASE j # 1
      <4>1. j \in 1..(k - 1)
        BY <1>1, <2>2, <2>4
      <4> QED BY <1>3, <3>2, <4>1
    <3> QED BY <3>1, <3>2
  <2>5. ASSUME NEW j \in DOMAIN m, j >= k PROVE r.addr < m[j].addr
    <3>1. k \in DOMAIN m /\ k <= Len(m)
      BY <1>1, <2>2, <2>5
    <3>2. r.addr < m[k].addr
      BY <1>3, <2>2, <2>3, <3>1
    <3>3. j = k \/ m[k].addr < m[j].addr
      BY <1>1, <2>1, <2>2, <2>5, <3>1 DEF Ordered
    <3> QED BY <2>2, <2>3, <3>1, <3>2, <3>3
  <2>6. \A j \in DOMAIN m : j < k => \A x \in DOMAIN l : m[j].addr < l[x].addr
    BY <1>2, <2>4
  <2>7. \A j \in DOMAIN m : j >= k => \A x \in DOMAIN l : l[x].addr < m[j].addr
    BY <1>2, <2>5
  <2> QED BY <1>1, <1>2, <1>4, <2>1, <2>6, <2>7, SpliceOrdered
<1> QED BY <1>1, <1>5, <1>6, OneList

\* wunmap does.
LEMMA UnmapStepList ==
    ASSUME TypeOK, ListInv, client' = client, NEW p \in Procs, NEW i, UnmapStep(p, i)
    PROVE  ListInv'
<1> DEFINE m == maps[p]
           l == <<>>
           s == Splice(m, i, l, i + 1)
<1>1. m \in Regions /\ i \in DOMAIN m /\ maps' = [maps EXCEPT ![p] = s]
  BY DEF TypeOK, Regions, UnmapStep
<1>2. l \in Regions /\ DOMAIN l = {}
  BY DEF Regions
<1> HIDE DEF l, m
<1>3. i \in 1..(Len(m) + 1) /\ i + 1 \in i..(Len(m) + 1)
  BY <1>1, ListFacts
<1>4. RangeOK(l) /\ Ordered(l)
  BY <1>2 DEF RangeOK, Ordered
<1>5. "in_range" \in client.rules => RangeOK(s)
  <2>1. "in_range" \in client.rules => RangeOK(m)
    BY DEF ListInv, m
  <2> QED BY <1>1, <1>2, <1>3, <1>4, <2>1, SpliceRange
<1>6. Proper => Ordered(s)
  <2>1. Proper => Ordered(m)
    BY DEF ListInv, m
  <2> QED BY <1>1, <1>2, <1>3, <1>4, <2>1, SpliceOrdered
<1> QED BY <1>1, <1>5, <1>6, OneList

\* A number below the modulus is its own remainder.
LEMMA ModSmall ==
    ASSUME NEW m \in Nat \ {0}, NEW x \in Nat, x < m
    PROVE  x % m = x
<1> DEFINE a == x % m
           b == x \div m
<1>1. a \in 0..(m - 1) /\ b \in Int /\ x = m * b + a
  BY ModBy
<1> HIDE DEF a, b
<1>2. b < 1
  <2> SUFFICES ASSUME b >= 1 PROVE FALSE
    BY <1>1
  <2>1. m * b >= m
    BY <1>1
  <2> QED BY <1>1, <2>1
<1>3. b > -1
  <2> SUFFICES ASSUME b <= -1 PROVE FALSE
    BY <1>1
  <2>1. m * b <= -m
    BY <1>1
  <2> QED BY <1>1, <2>1
<1>4. b = 0
  BY <1>1, <1>2, <1>3
<1>5. x = a
  BY <1>1, <1>4
<1> QED BY <1>5 DEF a

\* What a cut that does not wrap around leaves of region r.
CutShape(r, a, e, l) ==
    /\ r.addr <= a /\ a < e /\ e <= EndOf(r) /\ r \in Region /\ l \in Regions
    /\ \A x \in DOMAIN l : /\ r.addr <= l[x].addr /\ EndOf(l[x]) <= EndOf(r) /\ Aligned(l[x].addr)
                           /\ l[x].length >= 0
    /\ \A x, y \in DOMAIN l : x < y => EndOf(l[x]) <= l[y].addr /\ l[x].addr < l[y].addr

\* What wpunmap leaves lies inside the region, in order, page aligned.
LEMMA CutStepShape ==
    ASSUME TypeOK, NEW p \in Procs, NEW i, NEW a, NEW len, NEW e, NEW l, CutStep(p, i, a, len, e, l),
           "in_range" \in client.rules, Aligned(maps[p][i].addr)
    PROVE  /\ CutShape(maps[p][i], a, e, l)
           /\ "proper" \in client.rules /\ maps[p][i].length > 0 => \A x \in DOMAIN l : l[x].length > 0
<1> DEFINE r == maps[p][i]
           S == Between(a, e)
           n == r.n_loaded_pages - Cardinality(Present(p, S))
<1>1. /\ i \in DOMAIN maps[p] /\ a \in Nat /\ len \in Int /\ len > 0 /\ e = UEnd(a, len) /\ e \in Nat
      /\ Aligned(a) /\ Aligned(e) /\ r.addr <= a /\ EndOf(r) >= e /\ MayCut(r, a, len)
      /\ l = Remainder(p, maps[p], r, a, e, n)
  BY DEF CutStep
<1>2. r \in Region
  BY <1>1 DEF TypeOK
<1>3. l \in Regions /\ S \in SUBSET PageAddrs
  BY CutStepFacts DEF Regions
<1>4. n \in Int
  BY <1>2, <1>3, RegionFacts, PresentFacts
<1> HIDE DEF n
<1>5. a + len < WORD /\ ("proper" \in client.rules => len < r.length)
  BY <1>1 DEF MayCut
<1>6. e = a + len
  <2>1. a + len \in Nat
    BY <1>1
  <2> QED BY <1>1, <1>5, <2>1, ModSmall, Sizes DEF UEnd
<1>7. Aligned(r.addr)
  OBVIOUS
<1> HIDE DEF r
<1>8. r.addr \in Int /\ r.length \in Int /\ EndOf(r) \in Int /\ EndOf(r) = r.addr + r.length
  BY <1>2, RegionFacts
<1>9. a < e
  BY <1>1, <1>6
<1>10. \A x, y : {va \in PageAddrs : x <= va /\ va < y} \in SUBSET PageAddrs
  OBVIOUS
<1>11. \A x, y : Loaded(p, x, y) \in Int
  BY <1>10, PresentFacts DEF Loaded
<1>12. CASE a = r.addr
  <2> DEFINE c == Cut(r, e, EndOf(r), n)
  <2>1. l = <<c>>
    BY <1>1, <1>12 DEF Remainder
  <2>2. c.addr = e /\ c.length = EndOf(r) - e /\ EndOf(c) = EndOf(r)
    BY <1>1, <1>2, <1>4, <1>8, CutType
  <2> HIDE DEF c
  <2>3. DOMAIN l = {1} /\ l[1] = c
    BY <2>1
  <2>4. r.addr <= e /\ EndOf(r) - e >= 0 /\ ("proper" \in client.rules => EndOf(r) - e > 0)
    BY <1>1, <1>5, <1>6, <1>8, <1>9, <1>12
  <2> QED BY <1>1, <1>2, <1>3, <1>8, <1>9, <2>2, <2>3, <2>4 DEF CutShape, r
<1>13. CASE a # r.addr /\ e = EndOf(r)
  <2> DEFINE c == Cut(r, r.addr, a, n)
  <2>1. l = <<c>>
    BY <1>1, <1>13 DEF Remainder
  <2>2. c.addr = r.addr /\ c.length = a - r.addr /\ EndOf(c) = a
    BY <1>1, <1>2, <1>4, <1>8, CutType
  <2> HIDE DEF c
  <2>3. DOMAIN l = {1} /\ l[1] = c
    BY <2>1
  <2>4. a <= EndOf(r) /\ a - r.addr > 0
    BY <1>1, <1>8, <1>9, <1>13
  <2> QED BY <1>1, <1>2, <1>3, <1>7, <1>8, <1>9, <2>2, <2>3, <2>4 DEF CutShape, r
<1>14. CASE a # r.addr /\ e # EndOf(r) /\ Len(maps[p]) < MAX_NMMAP
  <2> DEFINE u == Cut(r, r.addr, a, Loaded(p, r.addr, a))
             v == Cut(r, e, EndOf(r), Loaded(p, e, EndOf(r)))
  <2>1. l = <<u, v>>
    BY <1>1, <1>14 DEF Remainder, Split
  <2>2. u.addr = r.addr /\ u.length = a - r.addr /\ EndOf(u) = a
    BY <1>1, <1>2, <1>8, <1>11, CutType
  <2>3. v.addr = e /\ v.length = EndOf(r) - e /\ EndOf(v) = EndOf(r)
    BY <1>1, <1>2, <1>8, <1>11, CutType
  <2> HIDE DEF u, v
  <2>4. DOMAIN l = {1, 2} /\ l[1] = u /\ l[2] = v
    BY <2>1
  <2>5. a <= EndOf(r) /\ a - r.addr > 0 /\ r.addr <= e /\ EndOf(r) - e > 0 /\ a <= e /\ r.addr < e
    BY <1>1, <1>8, <1>9, <1>14
  <2>6. ASSUME NEW x \in DOMAIN l
        PROVE  r.addr <= l[x].addr /\ EndOf(l[x]) <= EndOf(r) /\ Aligned(l[x].addr) /\ l[x].length > 0
    BY <1>1, <1>7, <1>8, <2>2, <2>3, <2>4, <2>5
  <2>7. ASSUME NEW x \in DOMAIN l, NEW y \in DOMAIN l, x < y
        PROVE  EndOf(l[x]) <= l[y].addr /\ l[x].addr < l[y].addr
    <3>1. x = 1 /\ y = 2
      BY <2>4, <2>7
    <3> QED BY <2>2, <2>3, <2>4, <2>5, <3>1
  <2>8. \A x \in DOMAIN l : l[x].length \in Int
    BY <1>3, ListFacts, RegionFacts
  <2> QED BY <1>1, <1>2, <1>3, <1>9, <2>6, <2>7, <2>8 DEF CutShape, r
<1>15. CASE a # r.addr /\ e # EndOf(r) /\ ~(Len(maps[p]) < MAX_NMMAP)
  <2> DEFINE c == [r EXCEPT !.n_loaded_pages = n]
  <2>1. l = <<c>>
    BY <1>1, <1>15 DEF Remainder
  <2>2. c.addr = r.addr /\ c.length = r.length
    BY <1>2 DEF Region
  <2> HIDE DEF c
  <2>3. DOMAIN l = {1} /\ l[1] = c /\ EndOf(c) = EndOf(r)
    BY <2>1, <2>2 DEF EndOf
  <2>4. r.length >= 0
    BY <1>1, <1>8, <1>9
  <2> QED BY <1>1, <1>2, <1>3, <1>7, <1>8, <1>9, <2>2, <2>3, <2>4 DEF CutShape, r
<1> QED BY <1>12, <1>13, <1>14, <1>15

\* wpunmap keeps the lists sorted and disjoint.
LEMMA CutStepList ==
    ASSUME TypeOK, ListInv, client' = client, NEW p \in Procs, NEW i, NEW a, NEW len, NEW e, NEW l,
           CutStep(p, i, a, len, e, l)
    PROVE  ListInv'
<1> DEFINE m == maps[p]
           s == Splice(m, i, l, i + 1)
<1>1. m \in Regions /\ i \in DOMAIN m /\ maps' = [maps EXCEPT ![p] = s]
  BY DEF TypeOK, Regions, CutStep
<1>2. i \in 1..(Len(m) + 1) /\ i + 1 \in i..(Len(m) + 1) /\ l \in Regions
  <2>1. l \in Regions
    BY CutStepFacts DEF Regions
  <2> HIDE DEF m
  <2> QED BY <1>1, <2>1, ListFacts
<1>3. ASSUME "in_range" \in client.rules
      PROVE  RangeOK(m) /\ CutShape(m[i], a, e, l)
             /\ ("proper" \in client.rules /\ m[i].length > 0 => \A x \in DOMAIN l : l[x].length > 0)
  <2>1. RangeOK(m)
    BY <1>3 DEF ListInv
  <2>2. Aligned(m[i].addr)
    BY <1>1, <2>1 DEF RangeOK, InRange
  <2> QED BY <1>3, <2>1, <2>2, CutStepShape
<1> HIDE DEF m
<1>4. m[i] \in Region /\ m[i].addr \in Int /\ EndOf(m[i]) \in Int
  BY <1>1, ListFacts, RegionFacts
<1>5. \A x \in DOMAIN l : l[x].addr \in Int /\ EndOf(l[x]) \in Int /\ l[x].length \in Int
  BY <1>2, ListFacts, RegionFacts
<1>6. DOMAIN l \in SUBSET Int /\ DOMAIN m \in SUBSET Int
  BY <1>1, <1>2, ListFacts
<1>7. ASSUME "in_range" \in client.rules PROVE RangeOK(s)
  <2>1. RangeOK(m) /\ CutShape(m[i], a, e, l)
    BY <1>3, <1>7
  <2>2. InRange(m[i])
    BY <1>1, <2>1 DEF RangeOK
  <2>3. RangeOK(l)
    <3>1. ASSUME NEW x \in DOMAIN l PROVE InRange(l[x])
      <4>1. /\ m[i].addr <= l[x].addr /\ EndOf(l[x]) <= EndOf(m[i]) /\ Aligned(l[x].addr) /\ l[x].length >= 0
        BY <2>1 DEF CutShape
      <4> QED BY <1>4, <1>5, <2>2, <4>1, Sizes DEF InRange
    <3>2. ASSUME NEW x \in DOMAIN l, NEW y \in DOMAIN l, x # y PROVE Apart(l[x], l[y])
      <4>1. x < y \/ y < x
        BY <1>6, <3>2
      <4> QED BY <2>1, <4>1 DEF CutShape, Apart
    <3> QED BY <3>1, <3>2 DEF RangeOK
  <2>4. ASSUME NEW j \in DOMAIN m, j < i \/ j >= i + 1, NEW x \in DOMAIN l PROVE Apart(m[j], l[x])
    <3>1. j # i
      BY <1>1, <1>6, <2>4
    <3>2. Apart(m[j], m[i])
      BY <1>1, <2>1, <3>1 DEF RangeOK
    <3>3. m[j].addr \in Int /\ EndOf(m[j]) \in Int
      BY <1>1, ListFacts, RegionFacts
    <3>4. m[i].addr <= l[x].addr /\ EndOf(l[x]) <= EndOf(m[i])
      BY <2>1 DEF CutShape
    <3> QED BY <1>4, <1>5, <3>2, <3>3, <3>4 DEF Apart
  <2> QED BY <1>1, <1>2, <2>1, <2>3, <2>4, SpliceRange
<1>8. ASSUME Proper PROVE Ordered(s)
  <2>1. "in_range" \in client.rules /\ "proper" \in client.rules /\ Ordered(m)
    BY <1>8 DEF Proper, ListInv, m
  <2>2. CutShape(m[i], a, e, l) /\ RangeOK(m) /\ \A x \in DOMAIN l : l[x].length > 0
    BY <1>1, <1>3, <2>1 DEF Ordered
  <2>3. Ordered(l)
    BY <2>2 DEF CutShape, Ordered
  <2>4. ASSUME NEW j \in DOMAIN m, j < i, NEW x \in DOMAIN l PROVE m[j].addr < l[x].addr
    <3>1. m[j].addr < m[i].addr /\ m[j].addr \in Int
      BY <1>1, <2>1, <2>4, ListFacts, RegionFacts DEF Ordered
    <3>2. m[i].addr <= l[x].addr
      BY <2>2 DEF CutShape
    <3> QED BY <1>4, <1>5, <3>1, <3>2
  <2>5. ASSUME NEW j \in DOMAIN m, j >= i + 1, NEW x \in DOMAIN l PROVE l[x].addr < m[j].addr
    <3>1. EndOf(m[i]) <= m[j].addr /\ m[j].addr \in Int
      <4>1. i < j
        BY <1>1, <1>6, <2>5
      <4> QED BY <1>1, <2>1, <2>2, <4>1, OrderedApart, ListFacts, RegionFacts
    <3>2. EndOf(l[x]) <= EndOf(m[i]) /\ l[x].length > 0
      BY <2>2 DEF CutShape
    <3>3. EndOf(l[x]) = l[x].addr + l[x].length
      BY DEF EndOf
    <3> QED BY <1>4, <1>5, <3>1, <3>2, <3>3
  <2> QED BY <1>1, <1>2, <2>1, <2>3, <2>4, <2>5, SpliceOrdered
<1> QED BY <1>1, <1>7, <1>8, OneList

\* Actions that change no address and no length do.
LEMMA ListInvSame ==
    ASSUME ListInv, client' = client, \A q \in Procs : SameShape(maps[q], maps'[q]) \/ maps'[q] = <<>>
    PROVE  ListInv'
<1>1. Proper' = Proper
  BY DEF Proper
<1>2. RangeOK(<<>>) /\ Ordered(<<>>)
  BY DEF RangeOK, Ordered
<1>3. "in_range" \in client'.rules => \A q \in Procs : RangeOK(maps'[q])
  BY <1>2, ShapeKept DEF ListInv
<1>4. Proper' => \A q \in Procs : Ordered(maps'[q])
  BY <1>1, <1>2, ShapeKept DEF ListInv
<1> QED BY <1>3, <1>4 DEF ListInv

\* A page fault does.
LEMMA FaultStepList ==
    ASSUME TypeOK, ListInv, client' = client, NEW p \in Procs, NEW va, NEW i, NEW f, FaultStep(p, va, i, f)
    PROVE  ListInv'
<1> DEFINE r == maps[p][i]
           t == [r EXCEPT !.n_loaded_pages = r.n_loaded_pages + 1]
<1>1. i \in DOMAIN maps[p] /\ maps' = [maps EXCEPT ![p] = [maps[p] EXCEPT ![i] = t]]
  BY DEF FaultStep
<1>2. r \in Region
  BY <1>1 DEF TypeOK
<1>3. t.addr = r.addr /\ t.length = r.length
  BY <1>2 DEF Region
<1> HIDE DEF t
<1>4. ASSUME NEW q \in Procs PROVE SameShape(maps[q], maps'[q])
  BY <1>1, <1>3 DEF TypeOK, SameShape
<1> QED BY <1>4, ListInvSame

\* fork does: the child's list has the shape of its parent's.
LEMMA ForkList ==
    ASSUME TypeOK, ListInv, client' = client, NEW p \in Procs, NEW q \in Procs, Fork(p, q)
    PROVE  ListInv'
<1>1. maps' = [maps EXCEPT ![q] = Child(p)]
  BY DEF Fork, Child, Inherited
<1>2. SameShape(maps[p], Child(p))
  BY ChildType DEF SameShape
<1>3. "in_range" \in client.rules => RangeOK(Child(p))
  BY <1>2, ShapeKept DEF ListInv
<1>4. Proper => Ordered(Child(p))
  BY <1>2, ShapeKept DEF ListInv
<1> QED BY <1>1, <1>3, <1>4, OneList

\* exit does: it changes refcnt's of the parent only.
LEMMA ExitList ==
    ASSUME TypeOK, ListInv, client' = client, NEW p \in Procs, Exit(p)
    PROVE  ListInv'
<1>1. maps' = [q \in Procs |-> IF q = p THEN <<>>
                               ELSE IF q = parent[p] THEN Released(p, maps[q]) ELSE maps[q]]
  BY DEF Exit
<1>2. \A q \in Procs : SameShape(maps[q], Released(p, maps[q])) /\ SameShape(maps[q], maps[q])
  BY ReleasedType DEF SameShape
<1>3. \A q \in Procs : SameShape(maps[q], maps'[q]) \/ maps'[q] = <<>>
  BY <1>1, <1>2
<1> QED BY <1>3, ListInvSame

\* So do actions that leave the lists alone.
LEMMA ListsLeft ==
    ASSUME TypeOK, ListInv, client' = client, UNCHANGED maps
    PROVE  ListInv'
BY DEF ListInv, Proper

\* The actions that leave the lists alone.
LEMMA MapsSame ==
    ASSUME NEW p,
           \/ \E a, len, flags, fd : WmapInvalid(p, a, len, flags, fd)
           \/ \E va, v : Store(p, va, v)
           \/ \E q, n, va : ForkFails(p, q, n, va)
           \/ Wait(p) \/ Exec(p)
           \/ \E fd : Close(p, fd)
           \/ \E fd, f : Open(p, fd, f)
    PROVE  UNCHANGED maps
BY DEF WmapInvalid, Store, ForkFails, Wait, Exec, Close, Open

\* Every step keeps the lists sorted and disjoint.
LEMMA ListInductive == TypeOK /\ ListInv /\ [Next]_vars => ListInv'
<1>1. ASSUME TypeOK, ListInv, Next PROVE ListInv'
  <2>1. client' = client /\ Steps
    BY <1>1, NextIs
  <2>2. PICK p \in Procs :
    \/ \E r, k : MapStep(p, r, k)
    \/ \E a \in client.addrs, len \in client.lengths, flags \in client.flags, fd \in Fds :
          WmapInvalid(p, a, len, flags, fd)
    \/ \E i : UnmapStep(p, i)
    \/ \E i, a, len, e, l : CutStep(p, i, a, len, e, l)
    \/ \E va \in PageAddrs : \E i, f : FaultStep(p, va, i, f)
    \/ \E va \in PageAddrs, v \in Vals : Store(p, va, v)
    \/ \E q \in Procs : Fork(p, q)
    \/ \E q \in Procs, n \in DOMAIN maps[p], va \in PageAddrs : ForkFails(p, q, n, va)
    \/ Exit(p) \/ Wait(p) \/ Exec(p)
    \/ \E fd \in Fds : Close(p, fd)
    \/ \E fd \in Fds, f \in Files : Open(p, fd, f)
    BY <2>1, Zenon DEF Steps
  <2>3. \/ \E r, k : MapStep(p, r, k)
        \/ \E i : UnmapStep(p, i)
        \/ \E i, a, len, e, l : CutStep(p, i, a, len, e, l)
        \/ \E va \in PageAddrs : \E i, f : FaultStep(p, va, i, f)
        \/ \E q \in Procs : Fork(p, q)
        \/ Exit(p)
        \/ UNCHANGED maps
    BY <2>2, MapsSame, Zenon
  <2> QED BY <1>1, <2>1, <2>3, MapStepList, UnmapStepList, CutStepList, FaultStepList, ForkList, ExitList,
          ListsLeft, Zenon
<1>2. ASSUME TypeOK, ListInv, UNCHANGED vars PROVE ListInv'
  BY <1>2, ListsLeft DEF vars
<1> QED BY <1>1, <1>2

\* The empty lists are.
LEMMA ListInit == Init => ListInv
BY DEF Init, ListInv, RangeOK, Ordered

\* The lists are so in every state.
LEMMA ListAlways == Spec => [](TypeOK /\ ListInv)
<1>1. TypeOK /\ ListInv /\ [Next]_vars => (TypeOK /\ ListInv)'
  BY TypeInductive, ListInductive
<1>2. Init => TypeOK /\ ListInv
  BY InitType, ListInit
<1> QED BY <1>1, <1>2, PTL DEF Spec

\* The invariant implies the property.
LEMMA ListsFollow == TypeOK /\ ListInv => ListsOK
<1> SUFFICES ASSUME TypeOK, ListInv, Proper, NEW p \in Procs
    PROVE  /\ total[p] = Len(maps[p]) /\ total[p] <= MAX_NMMAP
           /\ \A i \in DOMAIN maps[p] : LET r == maps[p][i] IN
                 r.addr % PGSIZE = 0 /\ MMAPBASE <= r.addr /\ EndOf(r) <= KERNBASE
           /\ \A i, j \in DOMAIN maps[p] : i < j =>
                 /\ EndOf(maps[p][i]) <= maps[p][j].addr
                 /\ maps[p][i].addr # maps[p][j].addr
  BY DEF ListsOK, ListOK
<1>1. maps[p] \in Regions /\ RangeOK(maps[p]) /\ Ordered(maps[p])
  BY ProperIn DEF ListInv, TypeOK, Regions
<1>2. total[p] = Len(maps[p]) /\ total[p] <= MAX_NMMAP
  BY Sizes DEF TypeOK
<1>3. \A i \in DOMAIN maps[p] : LET r == maps[p][i] IN
          r.addr % PGSIZE = 0 /\ MMAPBASE <= r.addr /\ EndOf(r) <= KERNBASE
  BY <1>1 DEF RangeOK, InRange, Aligned
<1>4. ASSUME NEW i \in DOMAIN maps[p], NEW j \in DOMAIN maps[p], i < j
      PROVE  EndOf(maps[p][i]) <= maps[p][j].addr /\ maps[p][i].addr # maps[p][j].addr
  <2>1. EndOf(maps[p][i]) <= maps[p][j].addr
    BY <1>1, <1>4, OrderedApart
  <2>2. maps[p][i].addr < maps[p][j].addr /\ maps[p][i].addr \in Int
    BY <1>1, <1>4, ListFacts, RegionFacts DEF Ordered
  <2> QED BY <2>1, <2>2
<1> QED BY <1>2, <1>3, <1>4

\* ListsOK: wmap, wunmap, wpunmap, fork, exit and exec of any number of
\* processes keep every list sorted, its regions disjoint, aligned and in
\* range, and total_mmaps right, for programs that neither cut a region to
\* nothing nor wrap around.
THEOREM ListsSorted == Spec => []ListsOK
BY ListAlways, ListsFollow, PTL

\* In such lists the gap that is found is the lowest that fits.
LEMMA GapFollows == TypeOK /\ ListInv => LowestGapFound
<1> SUFFICES ASSUME TypeOK, ListInv, Proper, NEW p \in Running, NEW len \in client.lengths
    PROVE  LET fits == {a \in PageAddrs : /\ len > 0 /\ a + len <= KERNBASE
                                  /\ \A i \in DOMAIN maps[p] : LET r == maps[p][i] IN
                                        EndOf(r) <= a \/ a + len <= r.addr}
           IN  IF fits = {} THEN len > 0 => FindAddr(maps[p], len) + len > KERNBASE
               ELSE FindAddr(maps[p], len) = FirstIdx(fits)
  BY DEF LowestGapFound, LowestGap
<1> DEFINE m == maps[p]
           fits == {a \in PageAddrs : /\ len > 0 /\ a + len <= KERNBASE
                                  /\ \A i \in DOMAIN m : LET r == m[i] IN EndOf(r) <= a \/ a + len <= r.addr}
           x == FindAddr(m, len)
<1>1. p \in Procs /\ client \in Clients
  BY DEF Running, TypeOK
<1>2. m \in Regions /\ RangeOK(m) /\ Ordered(m)
  BY <1>1, ProperIn DEF ListInv, TypeOK, Regions
<1>3. len \in Int
  BY <1>1, ArgFacts
<1>4. fits = {a \in PageAddrs : len > 0 /\ Fits(m, len, a)}
  BY DEF Fits
<1> HIDE DEF fits, m
<1>5. x \in Int /\ Aligned(x) /\ x >= MMAPBASE
  BY <1>2, <1>3, FindAddrAligned
<1>6. len > 0 => /\ x + len <= KERNBASE => Fits(m, len, x)
                 /\ \A a \in PageAddrs : Fits(m, len, a) => x <= a
  BY <1>2, <1>3, FindAddrLowest
<1> HIDE DEF x
<1>7. len > 0 /\ x + len <= KERNBASE => x \in fits
  <2>1. len > 0 /\ x + len <= KERNBASE => x \in PageAddrs
    BY <1>3, <1>5, PageFacts, Sizes
  <2> QED BY <1>4, <1>6, <2>1
<1>8. CASE fits = {}
  <2>1. len > 0 => x + len > KERNBASE
    BY <1>3, <1>5, <1>7, <1>8, Sizes
  <2> QED BY <1>8, <2>1 DEF fits, x, m
<1>9. CASE fits # {}
  <2>1. PICK a \in fits : TRUE
    BY <1>9
  <2>2. a \in PageAddrs /\ len > 0 /\ Fits(m, len, a) /\ a + len <= KERNBASE /\ a \in Int
    BY <1>4, <2>1, PageFacts DEF Fits
  <2>3. x <= a /\ x + len <= KERNBASE
    BY <1>3, <1>5, <1>6, <2>2, Sizes
  <2>4. x \in fits /\ \A b \in fits : x <= b
    BY <1>4, <1>6, <1>7, <2>2, <2>3
  <2>5. fits \in SUBSET Nat
    BY <1>4, PageFacts, Sizes
  <2>6. FirstIdx(fits) = x
    BY <2>4, <2>5, FirstIdxIs
  <2> QED BY <1>9, <2>6 DEF fits, x, m
<1> QED BY <1>8, <1>9

\* LowestGapFound: find_addr_place_mmap places a region at the lowest address
\* where it fits, an exact fit included, and finds a place whenever there is
\* one, in every list that such programs can make.
THEOREM GapLowest == Spec => []LowestGapFound
BY ListAlways, GapFollows, PTL

-----------------------------------------------------------------------------
(* References to files *)

\* The size of a union of two sets without common elements.
LEMMA DisjointCount ==
    ASSUME NEW S, NEW T, IsFiniteSet(S), IsFiniteSet(T), \A x \in S : x \notin T
    PROVE  IsFiniteSet(S \cup T) /\ Cardinality(S \cup T) = Cardinality(S) + Cardinality(T)
           /\ Cardinality(S) \in Nat /\ Cardinality(T) \in Nat
<1>1. S \cap T = {}
  OBVIOUS
<1>2. Cardinality(S \cap T) = 0
  BY <1>1, FS_EmptySet
<1>3. IsFiniteSet(S \cup T) /\ Cardinality(S \cup T) = Cardinality(S) + Cardinality(T) - Cardinality(S \cap T)
  BY FS_Union
<1>4. Cardinality(S) \in Nat /\ Cardinality(T) \in Nat
  BY FS_CardinalityType
<1> QED BY <1>2, <1>3, <1>4

\* The entries of p in a table.
Row(A, I, p) == {i \in I : <<p, i>> \in A}

\* A row of a table has as many places as the table has pairs for it.
LEMMA RowCount ==
    ASSUME NEW P, NEW I, IsFiniteSet(I), NEW A \in SUBSET (P \X I), NEW p \in P
    PROVE  /\ IsFiniteSet(Row(A, I, p)) /\ IsFiniteSet({x \in A : x[1] = p})
           /\ Cardinality({x \in A : x[1] = p}) = Cardinality(Row(A, I, p))
<1> DEFINE R == Row(A, I, p)
           T == {x \in A : x[1] = p}
           f == [i \in R |-> <<p, i>>]
<1>1. IsFiniteSet(R)
  BY FS_Subset DEF Row
<1>2. f \in Bijection(R, T)
  <2>1. f \in [R -> T]
    BY DEF Row
  <2>2. \A i, j \in R : f[i] = f[j] => i = j
    OBVIOUS
  <2>3. \A x \in T : \E i \in R : f[i] = x
    <3>1. TAKE x \in T
    <3>2. x[2] \in R /\ x = <<p, x[2]>>
      BY DEF Row
    <3>3. f[x[2]] = x
      BY <3>2
    <3> QED BY <3>2, <3>3
  <2> QED BY <2>1, <2>2, <2>3 DEF Bijection, Injection, Surjection, IsInjective
<1>3. ExistsBijection(R, T)
  BY <1>2 DEF ExistsBijection
<1> QED BY <1>1, <1>3, FS_Bijection

\* Two tables that differ in the entries of p only.
OthersSame(A, B, P, I, p) == \A q \in P : \A i \in I : q # p => (<<q, i>> \in A <=> <<q, i>> \in B)
Recounted(A, B, I, p) ==
    /\ Cardinality(B) = Cardinality(A) - Cardinality(Row(A, I, p)) + Cardinality(Row(B, I, p))
    /\ Cardinality(A) \in Nat /\ Cardinality(Row(A, I, p)) \in Nat /\ Cardinality(Row(B, I, p)) \in Nat

\* When one row changes the number of entries changes as that of the row.
LEMMA Recount ==
    ASSUME NEW P, NEW I, IsFiniteSet(P), IsFiniteSet(I), NEW A \in SUBSET (P \X I), NEW B \in SUBSET (P \X I),
           NEW p \in P, OthersSame(A, B, P, I, p)
    PROVE  Recounted(A, B, I, p)
<1> DEFINE C == {x \in A : x[1] # p}
           RA == {x \in A : x[1] = p}
           RB == {x \in B : x[1] = p}
<1>1. IsFiniteSet(P \X I)
  BY FS_Product
<1>2. IsFiniteSet(A) /\ IsFiniteSet(B)
  BY <1>1, FS_Subset
<1>3. IsFiniteSet(C)
  BY <1>2, FS_Subset
<1>4. A = C \cup RA /\ B = C \cup RB
  <2>1. {x \in B : x[1] # p} = C
    BY DEF OthersSame
  <2> QED BY <2>1
<1>5. (\A x \in C : x \notin RA) /\ (\A x \in C : x \notin RB)
  OBVIOUS
<1>6. /\ IsFiniteSet(RA) /\ Cardinality(RA) = Cardinality(Row(A, I, p))
      /\ IsFiniteSet(RB) /\ Cardinality(RB) = Cardinality(Row(B, I, p))
  BY RowCount
<1> HIDE DEF C, RA, RB
<1>7. /\ Cardinality(A) = Cardinality(C) + Cardinality(RA) /\ Cardinality(B) = Cardinality(C) + Cardinality(RB)
      /\ Cardinality(C) \in Nat /\ Cardinality(RA) \in Nat /\ Cardinality(RB) \in Nat
  BY <1>3, <1>4, <1>5, <1>6, DisjointCount
<1> QED BY <1>6, <1>7 DEF Recounted

\* Shifting places does not change their number.
LEMMA ShiftCount ==
    ASSUME NEW S, S \in SUBSET Int, IsFiniteSet(S), NEW d \in Int
    PROVE  IsFiniteSet({j + d : j \in S}) /\ Cardinality({j + d : j \in S}) = Cardinality(S)
<1> DEFINE T == {j + d : j \in S}
           f == [j \in S |-> j + d]
<1>1. f \in Bijection(S, T)
  <2>1. f \in [S -> T]
    OBVIOUS
  <2>2. \A i, j \in S : f[i] = f[j] => i = j
    OBVIOUS
  <2>3. \A x \in T : \E i \in S : f[i] = x
    OBVIOUS
  <2> QED BY <2>1, <2>2, <2>3 DEF Bijection, Injection, Surjection, IsInjective
<1>2. ExistsBijection(S, T)
  BY <1>1 DEF ExistsBijection
<1> QED BY <1>2, FS_Bijection

\* The regions of list m that map file f.
FileIdx(m, f) == {i \in DOMAIN m : m[i].file = f}

\* The places of a list that hold a file are finitely many.
LEMMA FileIdxFacts ==
    ASSUME NEW m \in Regions, NEW f
    PROVE  /\ IsFiniteSet(FileIdx(m, f)) /\ FileIdx(m, f) \in SUBSET Int
           /\ Cardinality(FileIdx(m, f)) \in Nat
<1>1. DOMAIN m = 1..Len(m) /\ Len(m) \in Nat
  BY ListFacts
<1>2. IsFiniteSet(DOMAIN m)
  BY <1>1, FS_Interval
<1>3. FileIdx(m, f) \in SUBSET DOMAIN m
  BY DEF FileIdx
<1>4. IsFiniteSet(FileIdx(m, f))
  BY <1>2, <1>3, FS_Subset
<1> QED BY <1>1, <1>3, <1>4, FS_CardinalityType

\* How many places of a list hold a file after a splice.
LEMMA SpliceCount ==
    ASSUME NEW m \in Regions, NEW l \in Regions, NEW i \in 1..(Len(m) + 1), NEW k \in i..(Len(m) + 1), NEW f
    PROVE  Cardinality(FileIdx(Splice(m, i, l, k), f)) =
              Cardinality(FileIdx(m, f)) - Cardinality({j \in FileIdx(m, f) : i <= j /\ j < k})
              + Cardinality(FileIdx(l, f))
<1> DEFINE s == Splice(m, i, l, k)
           n == Len(l)
           d == i - 1 + n - k + 1
           c == i - 1
           A == {j \in FileIdx(m, f) : j < i}
           M == {j \in FileIdx(m, f) : i <= j /\ j < k}
           Z == {j \in FileIdx(m, f) : j >= k}
           L == FileIdx(l, f)
           LS == {j + c : j \in L}
           ZS == {j + d : j \in Z}
<1>0. m \in Seq(Region) /\ l \in Seq(Region)
  BY DEF Regions
<1>1. m \in Seq(Region) /\ l \in Seq(Region) /\ DOMAIN m = 1..Len(m) /\ Len(m) \in Nat /\ DOMAIN l = 1..n /\ n \in Nat
  BY ListFacts
<1>2. Spliced(Region, m, i, l, k, s)
  BY <1>1, SpliceAt
<1>3. /\ s \in Seq(Region) /\ Len(s) = (i - 1) + n + (Len(m) - k + 1)
      /\ \A j \in 1..(i - 1) : s[j] = m[j]
      /\ \A j \in 1..n : s[i - 1 + j] = l[j]
      /\ \A j \in k..Len(m) : s[i - 1 + n + (j - k + 1)] = m[j]
  BY <1>2 DEF Spliced
<1>4. ASSUME NEW x \in DOMAIN s
      PROVE  \/ x \in 1..(i - 1) /\ x \in DOMAIN m /\ s[x] = m[x]
             \/ \E j \in DOMAIN l : x = i - 1 + j /\ s[x] = l[j]
             \/ \E j \in k..Len(m) : j \in DOMAIN m /\ x = i - 1 + Len(l) + (j - k + 1) /\ s[x] = m[j]
  <2>1. CameFrom(m, i, l, k, s, x)
    BY <1>0, SpliceFrom
  <2> QED BY <2>1 DEF CameFrom
<1> HIDE DEF s
<1>a. DOMAIN s = 1..Len(s)
  BY <1>3
<1>b. d \in Int /\ c \in Int /\ i \in Nat /\ k \in Nat /\ i >= 1 /\ i <= k /\ k <= Len(m) + 1
  BY <1>1
<1>5. FileIdx(s, f) \subseteq A \cup (LS \cup ZS)
  <2> SUFFICES ASSUME NEW x \in DOMAIN s, s[x].file = f PROVE x \in A \cup (LS \cup ZS)
    BY DEF FileIdx
  <2>1. CASE x \in 1..(i - 1) /\ x \in DOMAIN m /\ s[x] = m[x]
    <3>1. x < i
      BY <2>1
    <3> QED BY <2>1, <3>1 DEF FileIdx
  <2>2. CASE \E j \in DOMAIN l : x = i - 1 + j /\ s[x] = l[j]
    <3>1. PICK j \in DOMAIN l : x = i - 1 + j /\ s[x] = l[j]
      BY <2>2
    <3>2. j \in L /\ x = j + c
      BY <1>1, <3>1 DEF FileIdx
    <3> QED BY <3>2
  <2>3. CASE \E j \in k..Len(m) : j \in DOMAIN m /\ x = i - 1 + Len(l) + (j - k + 1) /\ s[x] = m[j]
    <3>1. PICK j \in k..Len(m) : j \in DOMAIN m /\ x = i - 1 + n + (j - k + 1) /\ s[x] = m[j]
      BY <2>3
    <3>2. j \in Z
      BY <3>1 DEF FileIdx
    <3>3. x = j + d
      BY <1>1, <1>b, <3>1
    <3> QED BY <3>2, <3>3
  <2> QED BY <1>4, <2>1, <2>2, <2>3
<1>6. A \subseteq FileIdx(s, f)
  <2> SUFFICES ASSUME NEW x \in DOMAIN m, m[x].file = f, x < i PROVE x \in DOMAIN s /\ s[x].file = f
    BY DEF FileIdx
  <2>1. x \in 1..(i - 1) /\ x \in 1..Len(s)
    BY <1>1, <1>3, <1>b
  <2> QED BY <1>3, <1>a, <2>1
<1>7. LS \subseteq FileIdx(s, f)
  <2> SUFFICES ASSUME NEW j \in DOMAIN l, l[j].file = f PROVE j + c \in DOMAIN s /\ s[j + c].file = f
    BY DEF FileIdx
  <2>1. j \in 1..n /\ j + c = i - 1 + j /\ j + c \in 1..Len(s)
    BY <1>1, <1>3, <1>b
  <2> QED BY <1>3, <1>a, <2>1
<1>8. ZS \subseteq FileIdx(s, f)
  <2> SUFFICES ASSUME NEW j \in DOMAIN m, m[j].file = f, j >= k PROVE j + d \in DOMAIN s /\ s[j + d].file = f
    BY DEF FileIdx
  <2>1. j \in k..Len(m) /\ j + d = i - 1 + n + (j - k + 1) /\ j + d \in 1..Len(s)
    <3> DEFINE N == Len(s)
               T == Len(m)
    <3>1. j \in Nat /\ j <= T /\ k \in Nat /\ i \in Nat /\ i >= 1 /\ n \in Nat /\ T \in Nat /\ j >= k
      BY <1>1, <1>b
    <3>2. N = (i - 1) + n + (T - k + 1)
      BY <1>3
    <3> HIDE DEF n, N, T
    <3>3. j \in k..T /\ j + d = i - 1 + n + (j - k + 1) /\ j + d \in 1..N
      BY <3>1, <3>2
    <3> QED BY <3>3 DEF N, T, n
  <2> QED BY <1>3, <1>a, <2>1
<1>9. FileIdx(s, f) = A \cup (LS \cup ZS)
  BY <1>5, <1>6, <1>7, <1>8
<1>10. FileIdx(m, f) = A \cup (M \cup Z)
  BY <1>1, <1>b DEF FileIdx
<1>11. /\ IsFiniteSet(FileIdx(m, f)) /\ IsFiniteSet(L) /\ L \in SUBSET Int /\ FileIdx(m, f) \in SUBSET Int
       /\ Cardinality(L) \in Nat
  BY FileIdxFacts
<1>12. IsFiniteSet(A) /\ IsFiniteSet(M) /\ IsFiniteSet(Z) /\ Z \in SUBSET Int
  BY <1>11, FS_Subset
<1>13. /\ \A x \in A : x \notin LS \cup ZS
       /\ \A x \in LS : x \notin ZS
       /\ \A x \in A : x \notin M \cup Z
       /\ \A x \in M : x \notin Z
  <2>1. ASSUME NEW x \in A, NEW j \in L PROVE x # j + c
    <3>1. j >= 1 /\ j \in Int /\ x \in Int /\ x < i
      BY <1>1, <1>11 DEF FileIdx
    <3> QED BY <1>b, <3>1
  <2>2. ASSUME NEW x \in A, NEW j \in Z PROVE x # j + d
    <3>1. j >= k /\ j \in Int /\ x \in Int /\ x < i
      BY <1>11
    <3> QED BY <1>1, <1>b, <3>1
  <2>3. ASSUME NEW h \in L, NEW j \in Z PROVE h + c # j + d
    <3>1. j >= k /\ j \in Int /\ h \in Int /\ h <= n
      BY <1>1, <1>11 DEF FileIdx
    <3> QED BY <1>1, <1>b, <3>1
  <2>4. \A x \in A : x \in Int /\ x < i
    BY <1>11
  <2>5. \A x \in M : x \in Int /\ x >= i /\ x < k
    BY <1>11
  <2>6. \A x \in Z : x \in Int /\ x >= k
    BY <1>11
  <2> HIDE DEF A, M, Z, L
  <2>7. \A x \in A : x \notin M \cup Z
    BY <1>b, <2>4, <2>5, <2>6
  <2>8. \A x \in M : x \notin Z
    BY <1>b, <2>5, <2>6
  <2> QED BY <2>1, <2>2, <2>3, <2>7, <2>8
<1>14. /\ IsFiniteSet(LS) /\ Cardinality(LS) = Cardinality(L)
       /\ IsFiniteSet(ZS) /\ Cardinality(ZS) = Cardinality(Z)
  <2> HIDE DEF L, Z, c, d
  <2> QED BY <1>b, <1>11, <1>12, ShiftCount
<1> HIDE DEF A, M, Z, L, LS, ZS
<1>15. /\ IsFiniteSet(LS \cup ZS) /\ Cardinality(LS \cup ZS) = Cardinality(LS) + Cardinality(ZS)
       /\ IsFiniteSet(M \cup Z) /\ Cardinality(M \cup Z) = Cardinality(M) + Cardinality(Z)
       /\ Cardinality(Z) \in Nat /\ Cardinality(M) \in Nat
  BY <1>12, <1>13, <1>14, DisjointCount
<1>16. /\ Cardinality(FileIdx(s, f)) = Cardinality(A) + Cardinality(LS \cup ZS)
       /\ Cardinality(FileIdx(m, f)) = Cardinality(A) + Cardinality(M \cup Z)
       /\ Cardinality(A) \in Nat
  BY <1>9, <1>10, <1>12, <1>13, <1>15, DisjointCount
<1>17. Cardinality(FileIdx(s, f)) = Cardinality(FileIdx(m, f)) - Cardinality(M) + Cardinality(L)
  BY <1>11, <1>14, <1>15, <1>16
<1> QED BY <1>17 DEF s, M, L

\* The descriptors and the mappings of file f, of all slots of ptable: a slot
\* that a failed fork has left may hold descriptors.
HeldFds(f) == {x \in Procs \X Fds : ofile[x[1]][x[2]] = f}
HeldMaps(f) == {x \in Procs \X (1..MAX_NMMAP) : x[2] \in DOMAIN maps[x[1]] /\ maps[x[1]][x[2]].file = f}
FdsOf(p, f) == {fd \in Fds : ofile[p][fd] = f}

FileInv == \A f \in Files : ref[f] >= Cardinality(HeldFds(f)) + Cardinality(HeldMaps(f))

\* The descriptors and the mappings of one process are rows of the tables.
LEMMA HeldRows ==
    ASSUME TypeOK, NEW p \in Procs, NEW f
    PROVE  /\ Row(HeldFds(f), Fds, p) = FdsOf(p, f)
           /\ Row(HeldMaps(f), 1..MAX_NMMAP, p) = FileIdx(maps[p], f)
<1>1. Row(HeldFds(f), Fds, p) = FdsOf(p, f)
  BY DEF Row, HeldFds, FdsOf
<1>2. maps[p] \in Regions
  BY DEF TypeOK, Regions
<1>3. DOMAIN maps[p] \in SUBSET (1..MAX_NMMAP)
  <2>1. DOMAIN maps[p] = 1..Len(maps[p]) /\ Len(maps[p]) \in Nat
    BY <1>2, ListFacts
  <2>2. Len(maps[p]) <= MAX_NMMAP /\ MAX_NMMAP \in Nat
    BY Sizes DEF TypeOK
  <2> QED BY <2>1, <2>2
<1>4. Row(HeldMaps(f), 1..MAX_NMMAP, p) = FileIdx(maps[p], f)
  BY <1>3 DEF Row, HeldMaps, FileIdx
<1> QED BY <1>1, <1>4

\* The tables are finite.
LEMMA HeldFinite ==
    /\ IsFiniteSet(Procs) /\ IsFiniteSet(Fds) /\ IsFiniteSet(1..MAX_NMMAP)
    /\ \A f : HeldFds(f) \in SUBSET (Procs \X Fds) /\ HeldMaps(f) \in SUBSET (Procs \X (1..MAX_NMMAP))
<1>1. IsFiniteSet(1..MAX_NMMAP)
  BY Sizes, FS_Interval
<1> QED BY <1>1, WmapAssumption DEF HeldFds, HeldMaps

\* The same after a step.
LEMMA HeldFinitePrime ==
    \A f : HeldFds(f)' \in SUBSET (Procs \X Fds) /\ HeldMaps(f)' \in SUBSET (Procs \X (1..MAX_NMMAP))
BY DEF HeldFds, HeldMaps

\* The same after a step.
LEMMA HeldRowsPrime ==
    ASSUME TypeOK', NEW p \in Procs, NEW f
    PROVE  /\ Row(HeldFds(f)', Fds, p) = FdsOf(p, f)'
           /\ Row(HeldMaps(f)', 1..MAX_NMMAP, p) = FileIdx(maps'[p], f)
<1>1. Row(HeldFds(f)', Fds, p) = FdsOf(p, f)'
  BY DEF Row, HeldFds, FdsOf
<1>2. maps'[p] \in Regions
  BY DEF TypeOK, Regions
<1>3. DOMAIN maps'[p] \in SUBSET (1..MAX_NMMAP)
  <2>1. DOMAIN maps'[p] = 1..Len(maps'[p]) /\ Len(maps'[p]) \in Nat
    BY <1>2, ListFacts
  <2>2. Len(maps'[p]) <= MAX_NMMAP /\ MAX_NMMAP \in Nat
    BY Sizes DEF TypeOK
  <2> QED BY <2>1, <2>2
<1>4. Row(HeldMaps(f)', 1..MAX_NMMAP, p) = FileIdx(maps'[p], f)
  BY <1>3 DEF Row, HeldMaps, FileIdx
<1> QED BY <1>1, <1>4

\* A step that changes the descriptors and the mappings of p only keeps the
\* count if ref[f] grows by as many as there are more.
LEMMA RefCounted ==
    ASSUME TypeOK, TypeOK', FileInv, NEW p \in Procs, NEW f \in Files,
           \A q \in Procs : q # p => FdsOf(q, f)' = FdsOf(q, f) /\ FileIdx(maps'[q], f) = FileIdx(maps[q], f),
           ref'[f] - ref[f] >=
              (Cardinality(FdsOf(p, f)') - Cardinality(FdsOf(p, f)))
              + (Cardinality(FileIdx(maps'[p], f)) - Cardinality(FileIdx(maps[p], f)))
    PROVE  ref'[f] >= Cardinality(HeldFds(f)') + Cardinality(HeldMaps(f)')
<1> DEFINE A == HeldFds(f)
           B == HeldFds(f)'
           C == HeldMaps(f)
           D == HeldMaps(f)'
           M == 1..MAX_NMMAP
<1>1. /\ A \in SUBSET (Procs \X Fds) /\ B \in SUBSET (Procs \X Fds)
      /\ C \in SUBSET (Procs \X M) /\ D \in SUBSET (Procs \X M)
      /\ IsFiniteSet(Procs) /\ IsFiniteSet(Fds) /\ IsFiniteSet(M)
  BY HeldFinite, HeldFinitePrime
<1>2. \A q \in Procs : /\ Row(A, Fds, q) = FdsOf(q, f) /\ Row(C, M, q) = FileIdx(maps[q], f)
                       /\ Row(B, Fds, q) = FdsOf(q, f)' /\ Row(D, M, q) = FileIdx(maps'[q], f)
  BY HeldRows, HeldRowsPrime
<1>3. ref[f] \in Int /\ ref'[f] \in Int /\ ref[f] >= Cardinality(A) + Cardinality(C)
  BY DEF TypeOK, FileInv
<1> HIDE DEF A, B, C, D, M
<1>4. OthersSame(A, B, Procs, Fds, p)
  <2>1. \A q \in Procs : q # p => Row(A, Fds, q) = Row(B, Fds, q)
    BY <1>2
  <2> QED BY <2>1 DEF Row, OthersSame
<1>5. OthersSame(C, D, Procs, M, p)
  <2>1. \A q \in Procs : q # p => Row(C, M, q) = Row(D, M, q)
    BY <1>2
  <2> QED BY <2>1 DEF Row, OthersSame
<1>6. /\ Cardinality(B) = Cardinality(A) - Cardinality(Row(A, Fds, p)) + Cardinality(Row(B, Fds, p))
      /\ Cardinality(A) \in Nat /\ Cardinality(Row(A, Fds, p)) \in Nat /\ Cardinality(Row(B, Fds, p)) \in Nat
  <2>1. Recounted(A, B, Fds, p)
    BY <1>1, <1>4, Recount
  <2> QED BY <2>1 DEF Recounted
<1>7. /\ Cardinality(D) = Cardinality(C) - Cardinality(Row(C, M, p)) + Cardinality(Row(D, M, p))
      /\ Cardinality(C) \in Nat /\ Cardinality(Row(C, M, p)) \in Nat /\ Cardinality(Row(D, M, p)) \in Nat
  <2>1. Recounted(C, D, M, p)
    BY <1>1, <1>5, Recount
  <2> QED BY <2>1 DEF Recounted
<1>8. ref'[f] - ref[f] >=
              (Cardinality(Row(B, Fds, p)) - Cardinality(Row(A, Fds, p)))
              + (Cardinality(Row(D, M, p)) - Cardinality(Row(C, M, p)))
  BY <1>2
<1>9. ref'[f] >= Cardinality(B) + Cardinality(D)
  BY <1>3, <1>6, <1>7, <1>8
<1> QED BY <1>9 DEF B, D

\* The same for a step that leaves the descriptors alone.
LEMMA ListCounted ==
    ASSUME TypeOK, TypeOK', FileInv, NEW p \in Procs, NEW f \in Files, NEW s, UNCHANGED ofile,
           maps' = [maps EXCEPT ![p] = s],
           ref'[f] >= ref[f] + Cardinality(FileIdx(s, f)) - Cardinality(FileIdx(maps[p], f))
    PROVE  ref'[f] >= Cardinality(HeldFds(f)') + Cardinality(HeldMaps(f)')
<1>1. maps'[p] = s /\ \A q \in Procs : q # p => maps'[q] = maps[q]
  BY DEF TypeOK
<1>2. \A q \in Procs : FdsOf(q, f)' = FdsOf(q, f)
  BY DEF FdsOf
<1>3. \A q \in Procs : q # p => FdsOf(q, f)' = FdsOf(q, f) /\ FileIdx(maps'[q], f) = FileIdx(maps[q], f)
  BY <1>1, <1>2
<1>4. maps[p] \in Regions /\ s \in Regions
  BY <1>1 DEF TypeOK, Regions
<1>5. Cardinality(FileIdx(s, f)) \in Nat /\ Cardinality(FileIdx(maps[p], f)) \in Nat
  BY <1>4, FileIdxFacts
<1>6. ref[f] \in Int /\ ref'[f] \in Int
  BY DEF TypeOK
<1>7. IsFiniteSet(FdsOf(p, f))
  BY HeldFinite, FS_Subset DEF FdsOf
<1>8. Cardinality(FdsOf(p, f)) \in Nat
  BY <1>7, FS_CardinalityType
<1>9. ref'[f] - ref[f] >=
              (Cardinality(FdsOf(p, f)') - Cardinality(FdsOf(p, f)))
              + (Cardinality(FileIdx(maps'[p], f)) - Cardinality(FileIdx(maps[p], f)))
  <2>1. Cardinality(FdsOf(p, f)') = Cardinality(FdsOf(p, f)) /\ Cardinality(FileIdx(maps'[p], f)) = Cardinality(FileIdx(s, f))
    BY <1>1, <1>2
  <2> QED BY <1>5, <1>6, <1>8, <2>1
<1> QED BY <1>3, <1>9, RefCounted

\* wmap keeps every count as large as its holders: it dups the file.
LEMMA MapStepFile ==
    ASSUME TypeOK, TypeOK', FileInv, NEW p \in Procs, NEW r, NEW k, MapStep(p, r, k)
    PROVE  FileInv'
<1> SUFFICES ASSUME NEW f \in Files
             PROVE  ref'[f] >= Cardinality(HeldFds(f)') + Cardinality(HeldMaps(f)')
  BY DEF FileInv
<1> DEFINE m == maps[p]
           l == <<r>>
           s == Splice(m, k, l, k)
           M == {j \in FileIdx(m, f) : k <= j /\ j < k}
<1>1. /\ m \in Regions /\ r \in Region /\ k \in 1..(Len(m) + 1) /\ maps' = [maps EXCEPT ![p] = s]
      /\ ref' = [g \in Files |-> IF g = r.file THEN ref[g] + 1 ELSE ref[g]] /\ UNCHANGED ofile
  BY DEF TypeOK, Regions, MapStep
<1>2. l \in Regions /\ DOMAIN l = {1} /\ l[1] = r /\ k \in k..(Len(m) + 1)
  BY <1>1 DEF Regions
<1>3. Cardinality(FileIdx(s, f)) = Cardinality(FileIdx(m, f)) - Cardinality(M) + Cardinality(FileIdx(l, f))
  <2> HIDE DEF m, l
  <2> QED BY <1>1, <1>2, SpliceCount
<1>4. Cardinality(M) = 0
  <2>1. k \in Int /\ FileIdx(m, f) \in SUBSET Int
    BY <1>1, FileIdxFacts
  <2>2. M = {}
    BY <2>1
  <2> QED BY <2>2, FS_EmptySet
<1> HIDE DEF l, M, s
<1>5. Cardinality(FileIdx(l, f)) = IF r.file = f THEN 1 ELSE 0
  <2>1. FileIdx(l, f) = IF r.file = f THEN {1} ELSE {}
    BY <1>2 DEF FileIdx
  <2> QED BY <2>1, FS_Singleton, FS_EmptySet
<1>6. Cardinality(FileIdx(m, f)) \in Nat /\ ref[f] \in Int
  BY <1>1, FileIdxFacts DEF TypeOK
<1>7. ref'[f] >= ref[f] + Cardinality(FileIdx(s, f)) - Cardinality(FileIdx(m, f))
  BY <1>1, <1>3, <1>4, <1>5, <1>6
<1> QED BY <1>1, <1>7, ListCounted

\* wunmap does: it closes the file of the region that goes, or none.
LEMMA UnmapStepFile ==
    ASSUME TypeOK, TypeOK', FileInv, NEW p \in Procs, NEW i, UnmapStep(p, i)
    PROVE  FileInv'
<1> SUFFICES ASSUME NEW f \in Files
             PROVE  ref'[f] >= Cardinality(HeldFds(f)') + Cardinality(HeldMaps(f)')
  BY DEF FileInv
<1> DEFINE m == maps[p]
           l == <<>>
           s == Splice(m, i, l, i + 1)
           M == {j \in FileIdx(m, f) : i <= j /\ j < i + 1}
<1>1. /\ m \in Regions /\ i \in DOMAIN m /\ maps' = [maps EXCEPT ![p] = s] /\ UNCHANGED ofile
      /\ ref' = [g \in Files |-> IF g = m[i].file /\ m[i].refcnt = 0 THEN ref[g] - 1 ELSE ref[g]]
  BY DEF TypeOK, Regions, UnmapStep
<1>2. l \in Regions /\ DOMAIN l = {}
  BY DEF Regions
<1>a. i \in 1..(Len(m) + 1) /\ i + 1 \in i..(Len(m) + 1)
  BY <1>1, ListFacts
<1>3. Cardinality(FileIdx(s, f)) = Cardinality(FileIdx(m, f)) - Cardinality(M) + Cardinality(FileIdx(l, f))
  <2> HIDE DEF m, l
  <2> QED BY <1>1, <1>2, <1>a, SpliceCount
<1>4. Cardinality(M) = IF m[i].file = f THEN 1 ELSE 0
  <2>1. i \in Int /\ FileIdx(m, f) \in SUBSET Int
    BY <1>a, <1>1, FileIdxFacts
  <2>2. M = IF m[i].file = f THEN {i} ELSE {}
    BY <1>1, <2>1 DEF FileIdx
  <2> QED BY <2>2, FS_EmptySet, FS_Singleton
<1> HIDE DEF l, M, s
<1>5. Cardinality(FileIdx(l, f)) = 0
  <2>1. FileIdx(l, f) = {}
    BY <1>2 DEF FileIdx
  <2> QED BY <2>1, FS_EmptySet
<1>6. Cardinality(FileIdx(m, f)) \in Nat /\ ref[f] \in Int
  BY <1>1, FileIdxFacts DEF TypeOK
<1>7. ref'[f] >= ref[f] + Cardinality(FileIdx(s, f)) - Cardinality(FileIdx(m, f))
  BY <1>1, <1>3, <1>4, <1>5, <1>6
<1> QED BY <1>1, <1>7, ListCounted

\* wpunmap does: a split dups the file.
LEMMA CutStepFile ==
    ASSUME TypeOK, TypeOK', FileInv, NEW p \in Procs, NEW i, NEW a, NEW len, NEW e, NEW l,
           CutStep(p, i, a, len, e, l)
    PROVE  FileInv'
<1> SUFFICES ASSUME NEW f \in Files
             PROVE  ref'[f] >= Cardinality(HeldFds(f)') + Cardinality(HeldMaps(f)')
  BY DEF FileInv
<1> DEFINE m == maps[p]
           s == Splice(m, i, l, i + 1)
           M == {j \in FileIdx(m, f) : i <= j /\ j < i + 1}
<1>1. /\ m \in Regions /\ i \in DOMAIN m /\ maps' = [maps EXCEPT ![p] = s] /\ UNCHANGED ofile
      /\ ref' = [g \in Files |-> IF g = m[i].file THEN ref[g] + Len(l) - 1 ELSE ref[g]]
  BY DEF TypeOK, Regions, CutStep
<1>2. l \in Regions /\ \A j \in DOMAIN l : l[j].file = m[i].file
  BY CutStepFacts DEF Regions
<1>a. i \in 1..(Len(m) + 1) /\ i + 1 \in i..(Len(m) + 1)
  BY <1>1, ListFacts
<1>3. Cardinality(FileIdx(s, f)) = Cardinality(FileIdx(m, f)) - Cardinality(M) + Cardinality(FileIdx(l, f))
  <2> HIDE DEF m
  <2> QED BY <1>1, <1>2, <1>a, SpliceCount
<1>4. Cardinality(M) = IF m[i].file = f THEN 1 ELSE 0
  <2>1. i \in Int /\ FileIdx(m, f) \in SUBSET Int
    BY <1>a, <1>1, FileIdxFacts
  <2>2. M = IF m[i].file = f THEN {i} ELSE {}
    BY <1>1, <2>1 DEF FileIdx
  <2> QED BY <2>2, FS_EmptySet, FS_Singleton
<1> HIDE DEF M, s
<1>b. Len(l) \in Nat /\ DOMAIN l = 1..Len(l)
  BY <1>2, ListFacts
<1>5. Cardinality(FileIdx(l, f)) = IF m[i].file = f THEN Len(l) ELSE 0
  <2>1. FileIdx(l, f) = IF m[i].file = f THEN 1..Len(l) ELSE {}
    BY <1>2, <1>b DEF FileIdx
  <2>2. Cardinality(1..Len(l)) = Len(l)
    <3>1. Cardinality(1..Len(l)) = IF 1 > Len(l) THEN 0 ELSE Len(l) - 1 + 1
      BY <1>b, FS_Interval
    <3> QED BY <1>b, <3>1
  <2> QED BY <2>1, <2>2, FS_EmptySet
<1>6. Cardinality(FileIdx(m, f)) \in Nat /\ ref[f] \in Int
  BY <1>1, FileIdxFacts DEF TypeOK
<1>7. ref'[f] >= ref[f] + Cardinality(FileIdx(s, f)) - Cardinality(FileIdx(m, f))
  BY <1>1, <1>3, <1>4, <1>5, <1>6, <1>b
<1> QED BY <1>1, <1>7, ListCounted

\* The descriptors of a process that hold a file are finitely many.
LEMMA FdsFacts ==
    ASSUME NEW p, NEW f
    PROVE  IsFiniteSet(FdsOf(p, f)) /\ Cardinality(FdsOf(p, f)) \in Nat
<1>1. IsFiniteSet(FdsOf(p, f))
  BY WmapAssumption, FS_Subset DEF FdsOf
<1> QED BY <1>1, FS_CardinalityType

\* The same after a step.
LEMMA FdsFactsPrime ==
    ASSUME NEW p, NEW f
    PROVE  IsFiniteSet(FdsOf(p, f)') /\ Cardinality(FdsOf(p, f)') \in Nat
<1>1. IsFiniteSet(FdsOf(p, f)')
  BY WmapAssumption, FS_Subset DEF FdsOf
<1> QED BY <1>1, FS_CardinalityType

\* A set within two others is no larger than both.
LEMMA CoveredCount ==
    ASSUME NEW S, NEW T, NEW U, IsFiniteSet(S), IsFiniteSet(T), U \in SUBSET (S \cup T)
    PROVE  /\ Cardinality(U) <= Cardinality(S) + Cardinality(T)
           /\ Cardinality(U) \in Nat /\ Cardinality(S) \in Nat /\ Cardinality(T) \in Nat
<1>1. /\ IsFiniteSet(S \cup T)
      /\ Cardinality(S \cup T) = Cardinality(S) + Cardinality(T) - Cardinality(S \cap T)
  BY FS_Union
<1>2. IsFiniteSet(S \cap T) /\ IsFiniteSet(U) /\ Cardinality(U) <= Cardinality(S \cup T)
  <2>1. S \cap T \in SUBSET S
    OBVIOUS
  <2> QED BY <1>1, <2>1, FS_Subset
<1>3. /\ Cardinality(S) \in Nat /\ Cardinality(T) \in Nat /\ Cardinality(S \cap T) \in Nat
      /\ Cardinality(U) \in Nat /\ Cardinality(S \cup T) \in Nat
  BY <1>1, <1>2, FS_CardinalityType
<1> QED BY <1>1, <1>2, <1>3

\* A step that changes neither files of mappings nor descriptors.
LEMMA FileInvSame ==
    ASSUME TypeOK, TypeOK', FileInv, UNCHANGED ofile,
           \A q \in Procs, f \in Files : FileIdx(maps'[q], f) = FileIdx(maps[q], f),
           \A f \in Files : ref'[f] >= ref[f]
    PROVE  FileInv'
<1> SUFFICES ASSUME NEW f \in Files
             PROVE  ref'[f] >= Cardinality(HeldFds(f)') + Cardinality(HeldMaps(f)')
  BY DEF FileInv
<1>1. \A q \in Procs : FdsOf(q, f)' = FdsOf(q, f) /\ FileIdx(maps'[q], f) = FileIdx(maps[q], f)
  BY DEF FdsOf
<1>2. First \in Procs
  BY WmapAssumption
<1>3. maps[First] \in Regions
  BY <1>2 DEF TypeOK, Regions
<1>4. Cardinality(FdsOf(First, f)) \in Nat /\ Cardinality(FileIdx(maps[First], f)) \in Nat
  BY <1>3, FdsFacts, FileIdxFacts
<1>5. ref[f] \in Int /\ ref'[f] \in Int /\ ref'[f] >= ref[f]
  BY DEF TypeOK
<1>6. ref'[f] - ref[f] >=
              (Cardinality(FdsOf(First, f)') - Cardinality(FdsOf(First, f)))
              + (Cardinality(FileIdx(maps'[First], f)) - Cardinality(FileIdx(maps[First], f)))
  <2>1. /\ Cardinality(FdsOf(First, f)') = Cardinality(FdsOf(First, f))
        /\ Cardinality(FileIdx(maps'[First], f)) = Cardinality(FileIdx(maps[First], f))
    BY <1>1, <1>2
  <2> QED BY <1>4, <1>5, <2>1
<1> QED BY <1>1, <1>2, <1>6, RefCounted

\* A page fault does.
LEMMA FaultStepFile ==
    ASSUME TypeOK, TypeOK', FileInv, NEW p \in Procs, NEW va, NEW i, NEW f, FaultStep(p, va, i, f)
    PROVE  FileInv'
<1> DEFINE r == maps[p][i]
           t == [r EXCEPT !.n_loaded_pages = r.n_loaded_pages + 1]
<1>1. i \in DOMAIN maps[p] /\ maps' = [maps EXCEPT ![p] = [maps[p] EXCEPT ![i] = t]] /\ UNCHANGED <<ofile, ref>>
  BY DEF FaultStep
<1>2. r \in Region
  BY <1>1 DEF TypeOK
<1>3. t.file = r.file
  BY <1>2 DEF Region
<1> HIDE DEF t
<1>4. ASSUME NEW q \in Procs, NEW g \in Files PROVE FileIdx(maps'[q], g) = FileIdx(maps[q], g)
  BY <1>1, <1>3 DEF TypeOK, FileIdx
<1>5. \A g \in Files : ref'[g] >= ref[g]
  BY <1>1 DEF TypeOK
<1> QED BY <1>1, <1>4, <1>5, FileInvSame

\* What fork adds to the references covers what the child holds.
LEMMA ForksFile ==
    ASSUME TypeOK, TypeOK', FileInv, NEW p \in Procs, NEW q \in Procs, NEW n \in Nat, Forks(p, q, n),
           \A o \in Procs : o # q => maps'[o] = maps[o],
           \A f \in Files : FileIdx(maps'[q], f) \in SUBSET {i \in 1..n : maps[p][i].file = f}
    PROVE  FileInv'
<1> SUFFICES ASSUME NEW f \in Files
             PROVE  ref'[f] >= Cardinality(HeldFds(f)') + Cardinality(HeldMaps(f)')
  BY DEF FileInv
<1> DEFINE D == {fd \in Fds : ofile[p][fd] = f}
           N == {i \in 1..n : maps[p][i].file = f}
<1>1. /\ ofile' = [ofile EXCEPT ![q] = [fd \in Fds |-> IF ofile[p][fd] # NULL THEN ofile[p][fd] ELSE ofile[q][fd]]]
      /\ ref' = [g \in Files |-> ref[g] + Dups(p, n, g)]
  BY DEF Forks, TypeOK
<1>2. maps[q] = <<>>
  BY ForksType
<1>3. Cardinality(D) \in Nat /\ Cardinality(N) \in Nat /\ Dups(p, n, f) = Cardinality(D) + Cardinality(N)
  <2>1. Dups(p, n, f) = Cardinality(D) + Cardinality(N)
    BY DEF Dups
  <2> QED BY <2>1, DupsType
<1>4. \A o \in Procs : o # q => FdsOf(o, f)' = FdsOf(o, f) /\ FileIdx(maps'[o], f) = FileIdx(maps[o], f)
  BY <1>1 DEF TypeOK, FdsOf
<1>5. FdsOf(q, f)' \in SUBSET (D \cup FdsOf(q, f))
  BY <1>1 DEF TypeOK, FdsOf
<1>6. IsFiniteSet(D) /\ IsFiniteSet(N)
  <2>1. IsFiniteSet(Fds) /\ IsFiniteSet(1..n)
    BY WmapAssumption, FS_Interval
  <2> QED BY <2>1, FS_Subset
<1>7. /\ Cardinality(FdsOf(q, f)') <= Cardinality(D) + Cardinality(FdsOf(q, f))
      /\ Cardinality(FdsOf(q, f)') \in Nat /\ Cardinality(FdsOf(q, f)) \in Nat
  <2> HIDE DEF D
  <2>1. IsFiniteSet(FdsOf(q, f))
    BY FdsFacts
  <2> QED BY <1>5, <1>6, <2>1, CoveredCount
<1>8. FileIdx(maps'[q], f) \in SUBSET N
  OBVIOUS
<1>9. Cardinality(FileIdx(maps'[q], f)) <= Cardinality(N) /\ Cardinality(FileIdx(maps'[q], f)) \in Nat
  <2> HIDE DEF N
  <2>1. IsFiniteSet(FileIdx(maps'[q], f)) /\ Cardinality(FileIdx(maps'[q], f)) <= Cardinality(N)
    BY <1>6, <1>8, FS_Subset
  <2> QED BY <2>1, FS_CardinalityType
<1>10. Cardinality(FileIdx(maps[q], f)) = 0
  <2>1. FileIdx(maps[q], f) = {}
    BY <1>2 DEF FileIdx
  <2> QED BY <2>1, FS_EmptySet
<1>11. ref[f] \in Int /\ ref'[f] = ref[f] + Dups(p, n, f)
  BY <1>1 DEF TypeOK
<1> HIDE DEF D, N
<1>12. ref'[f] - ref[f] >=
              (Cardinality(FdsOf(q, f)') - Cardinality(FdsOf(q, f)))
              + (Cardinality(FileIdx(maps'[q], f)) - Cardinality(FileIdx(maps[q], f)))
  BY <1>3, <1>7, <1>9, <1>10, <1>11
<1> QED BY <1>4, <1>12, RefCounted

\* fork does.
LEMMA ForkFile ==
    ASSUME TypeOK, TypeOK', FileInv, NEW p \in Procs, NEW q \in Procs, Fork(p, q)
    PROVE  FileInv'
<1>1. maps' = [maps EXCEPT ![q] = Child(p)] /\ Forks(p, q, Len(maps[p]))
  BY DEF Fork, Child, Inherited
<1>2. Len(maps[p]) \in Nat /\ DOMAIN maps[p] = 1..Len(maps[p])
  BY DEF TypeOK
<1>3. \A o \in Procs : o # q => maps'[o] = maps[o]
  BY <1>1 DEF TypeOK
<1>4. maps'[q] = Child(p)
  BY <1>1 DEF TypeOK
<1>5. \A f \in Files : FileIdx(maps'[q], f) \in SUBSET {i \in 1..Len(maps[p]) : maps[p][i].file = f}
  BY <1>2, <1>4, ChildType DEF FileIdx
<1> QED BY <1>1, <1>2, <1>3, <1>5, ForksFile

\* A fork that fails does: what it has dup'ed stays counted.
LEMMA ForkFailsFile ==
    ASSUME TypeOK, TypeOK', FileInv, NEW p \in Procs, NEW q \in Procs, NEW n \in DOMAIN maps[p], NEW va,
           ForkFails(p, q, n, va)
    PROVE  FileInv'
<1>1. maps' = maps /\ Forks(p, q, n)
  BY DEF ForkFails
<1>2. n \in Nat
  BY DEF TypeOK
<1>3. maps'[q] = <<>>
  BY <1>1, <1>2, ForksType
<1>4. \A f \in Files : FileIdx(maps'[q], f) \in SUBSET {i \in 1..n : maps[p][i].file = f}
  BY <1>3 DEF FileIdx
<1> QED BY <1>1, <1>2, <1>4, ForksFile

\* exit does.
LEMMA ExitFile ==
    ASSUME TypeOK, TypeOK', FileInv, NEW p \in Procs, Exit(p)
    PROVE  FileInv'
<1> SUFFICES ASSUME NEW f \in Files
             PROVE  ref'[f] >= Cardinality(HeldFds(f)') + Cardinality(HeldMaps(f)')
  BY DEF FileInv
<1> DEFINE U == {i \in DOMAIN maps[p] : maps[p][i].file = f /\ Unshared(maps[p][i])}
<1>1. /\ maps' = [q \in Procs |-> IF q = p THEN <<>>
                                  ELSE IF q = parent[p] THEN Released(p, maps[q]) ELSE maps[q]]
      /\ ofile' = [ofile EXCEPT ![p] = [fd \in Fds |-> NULL]]
      /\ ref'[f] = ref[f] - Cardinality(FdsOf(p, f)) - Cardinality(U)
  BY DEF Exit, FdsOf
<1>2. \A q \in Procs : FileIdx(Released(p, maps[q]), f) = FileIdx(maps[q], f)
  BY ReleasedType DEF FileIdx
<1>3. \A q \in Procs : q # p => FdsOf(q, f)' = FdsOf(q, f)
  BY <1>1 DEF TypeOK, FdsOf
<1>4. \A q \in Procs : q # p => FileIdx(maps'[q], f) = FileIdx(maps[q], f)
  BY <1>1, <1>2
<1>5. FdsOf(p, f)' = {} /\ FileIdx(maps'[p], f) = {}
  BY <1>1, WmapAssumption DEF TypeOK, FdsOf, FileIdx
<1>6. maps[p] \in Regions
  BY DEF TypeOK, Regions
<1>7. /\ IsFiniteSet(FileIdx(maps[p], f)) /\ Cardinality(FileIdx(maps[p], f)) \in Nat
      /\ Cardinality(FdsOf(p, f)) \in Nat
  BY <1>6, FileIdxFacts, FdsFacts
<1>8. Cardinality(U) <= Cardinality(FileIdx(maps[p], f)) /\ Cardinality(U) \in Nat
  <2>1. U \in SUBSET FileIdx(maps[p], f)
    BY DEF FileIdx
  <2> HIDE DEF U
  <2>2. IsFiniteSet(U) /\ Cardinality(U) <= Cardinality(FileIdx(maps[p], f))
    BY <1>7, <2>1, FS_Subset
  <2> QED BY <2>2, FS_CardinalityType
<1>9. ref[f] \in Int
  BY DEF TypeOK
<1>10. Cardinality(FdsOf(p, f)') = 0 /\ Cardinality(FileIdx(maps'[p], f)) = 0
  BY <1>5, FS_EmptySet
<1> HIDE DEF U
<1>11. ref'[f] - ref[f] >=
              (Cardinality(FdsOf(p, f)') - Cardinality(FdsOf(p, f)))
              + (Cardinality(FileIdx(maps'[p], f)) - Cardinality(FileIdx(maps[p], f)))
  BY <1>1, <1>7, <1>8, <1>9, <1>10
<1> QED BY <1>3, <1>4, <1>11, RefCounted

\* Descriptors come and go one at a time.
LEMMA OpenCloseFile ==
    ASSUME TypeOK, TypeOK', FileInv, NEW p \in Procs, NEW fd \in Fds,
           Close(p, fd) \/ \E f \in Files : Open(p, fd, f)
    PROVE  FileInv'
<1> SUFFICES ASSUME NEW f \in Files
             PROVE  ref'[f] >= Cardinality(HeldFds(f)') + Cardinality(HeldMaps(f)')
  BY DEF FileInv
<1> DEFINE D == FdsOf(p, f)
           E == FdsOf(p, f)'
<1>1. maps' = maps /\ \A q \in Procs : q # p => FdsOf(q, f)' = FdsOf(q, f)
  BY DEF Close, Open, TypeOK, FdsOf
<1>2. \A q \in Procs : q # p => FdsOf(q, f)' = FdsOf(q, f) /\ FileIdx(maps'[q], f) = FileIdx(maps[q], f)
  BY <1>1
<1>3. IsFiniteSet(D) /\ IsFiniteSet(E) /\ Cardinality(D) \in Nat /\ Cardinality(E) \in Nat
  BY FdsFacts, FdsFactsPrime
<1>4. ref[f] \in Int
  BY DEF TypeOK
<1>5. Cardinality(E) - Cardinality(D) <= ref'[f] - ref[f]
  <2>1. CASE Close(p, fd) /\ ofile[p][fd] = f
    <3>1. ref'[f] = ref[f] - 1 /\ E = D \ {fd} /\ fd \in D
      BY <2>1, WmapAssumption DEF Close, TypeOK, FdsOf
    <3> HIDE DEF D, E
    <3>2. Cardinality(E) = Cardinality(D) - 1
      BY <1>3, <3>1, FS_RemoveElement
    <3> QED BY <1>3, <1>4, <3>1, <3>2
  <2>2. CASE Close(p, fd) /\ ofile[p][fd] # f
    <3>1. ref'[f] = ref[f] /\ E = D
      BY <2>2, WmapAssumption DEF Close, TypeOK, FdsOf
    <3> QED BY <1>3, <1>4, <3>1
  <2>3. CASE Open(p, fd, f)
    <3>1. ref'[f] = ref[f] + 1 /\ E = D \cup {fd} /\ fd \notin D
      BY <2>3, WmapAssumption DEF Open, TypeOK, FdsOf
    <3> HIDE DEF D, E
    <3>2. Cardinality(E) = Cardinality(D) + 1
      BY <1>3, <3>1, FS_AddElement
    <3> QED BY <1>3, <1>4, <3>1, <3>2
  <2>4. CASE \E g \in Files \ {f} : Open(p, fd, g)
    <3>1. ref'[f] = ref[f] /\ E = D
      BY <2>4, WmapAssumption DEF Open, TypeOK, FdsOf
    <3> QED BY <1>3, <1>4, <3>1
  <2> QED BY <2>1, <2>2, <2>3, <2>4
<1>6. maps[p] \in Regions
  BY DEF TypeOK, Regions
<1>7. Cardinality(FileIdx(maps[p], f)) \in Nat /\ ref'[f] \in Int
  BY <1>6, FileIdxFacts DEF TypeOK
<1> HIDE DEF D, E
<1>8. ref'[f] - ref[f] >=
              (Cardinality(E) - Cardinality(D))
              + (Cardinality(FileIdx(maps'[p], f)) - Cardinality(FileIdx(maps[p], f)))
  BY <1>1, <1>3, <1>4, <1>5, <1>7
<1> QED BY <1>2, <1>8, RefCounted DEF D, E

\* So do actions that leave files and lists alone.
LEMMA OtherFile ==
    ASSUME TypeOK, TypeOK', FileInv, NEW p \in Procs,
           \/ \E a \in client.addrs, len \in client.lengths, flags \in client.flags, fd \in Fds :
                 WmapInvalid(p, a, len, flags, fd)
           \/ \E va \in PageAddrs, v \in Vals : Store(p, va, v)
           \/ Wait(p) \/ Exec(p)
           \/ UNCHANGED vars
    PROVE  FileInv'
<1>1. UNCHANGED <<maps, ofile>> /\ \A f \in Files : ref'[f] >= ref[f]
  <2>1. CASE \E a \in client.addrs, len \in client.lengths, flags \in client.flags, fd \in Fds :
                 WmapInvalid(p, a, len, flags, fd)
    <3>1. PICK a, len, flags, fd : WmapInvalid(p, a, len, flags, fd)
      BY <2>1
    <3>2. UNCHANGED <<maps, ofile>> /\ ref' = [ref EXCEPT ![ofile[p][fd]] = @ + 1]
      BY <3>1 DEF WmapInvalid
    <3> QED BY <3>2 DEF TypeOK
  <2>2. CASE ~\E a \in client.addrs, len \in client.lengths, flags \in client.flags, fd \in Fds :
                 WmapInvalid(p, a, len, flags, fd)
    <3>1. UNCHANGED <<maps, ofile, ref>>
      BY <2>2 DEF Store, Wait, Exec, vars
    <3> QED BY <3>1 DEF TypeOK
  <2> QED BY <2>1, <2>2
<1>2. \A q \in Procs, f \in Files : FileIdx(maps'[q], f) = FileIdx(maps[q], f)
  BY <1>1
<1> QED BY <1>1, <1>2, FileInvSame

\* Every step does.
LEMMA FileInductive == TypeOK /\ FileInv /\ [Next]_vars => FileInv'
<1>1. ASSUME TypeOK, FileInv, Next PROVE FileInv'
  <2>0. TypeOK'
    BY <1>1, TypeInductive
  <2>1. client' = client /\ Steps
    BY <1>1, NextIs
  <2>2. PICK p \in Procs :
    \/ \E r, k : MapStep(p, r, k)
    \/ \E a \in client.addrs, len \in client.lengths, flags \in client.flags, fd \in Fds :
          WmapInvalid(p, a, len, flags, fd)
    \/ \E i : UnmapStep(p, i)
    \/ \E i, a, len, e, l : CutStep(p, i, a, len, e, l)
    \/ \E va \in PageAddrs : \E i, f : FaultStep(p, va, i, f)
    \/ \E va \in PageAddrs, v \in Vals : Store(p, va, v)
    \/ \E q \in Procs : Fork(p, q)
    \/ \E q \in Procs, n \in DOMAIN maps[p], va \in PageAddrs : ForkFails(p, q, n, va)
    \/ Exit(p) \/ Wait(p) \/ Exec(p)
    \/ \E fd \in Fds : Close(p, fd)
    \/ \E fd \in Fds, f \in Files : Open(p, fd, f)
    BY <2>1, Zenon DEF Steps
  <2> QED BY <1>1, <2>0, <2>2, MapStepFile, UnmapStepFile, CutStepFile, FaultStepFile, ForkFile, ForkFailsFile,
          ExitFile, OpenCloseFile, OtherFile, Zenon
<1>2. ASSUME TypeOK, FileInv, UNCHANGED vars PROVE FileInv'
  <2>1. TypeOK' /\ First \in Procs
    BY <1>2, TypeInductive, WmapAssumption
  <2> QED BY <1>2, <2>1, OtherFile
<1> QED BY <1>1, <1>2

\* Nobody holds a file at the start.
LEMMA FileInit == Init => FileInv
<1> SUFFICES ASSUME Init, NEW f \in Files
             PROVE  ref[f] >= Cardinality(HeldFds(f)) + Cardinality(HeldMaps(f))
  BY DEF FileInv
<1>1. HeldFds(f) = {} /\ HeldMaps(f) = {} /\ ref[f] = 0
  BY WmapAssumption DEF Init, HeldFds, HeldMaps
<1> QED BY <1>1, FS_EmptySet

\* The invariant implies the property.
LEMMA FilesFollow == FileInv /\ TypeOK => FilesKept
<1> SUFFICES ASSUME FileInv, TypeOK, NEW f \in Files PROVE ref[f] >= Holders(f)
  BY DEF FilesKept
<1> DEFINE A == {pd \in Running \X Fds : ofile[pd[1]][pd[2]] = f}
           B == {pi \in Running \X (1..MAX_NMMAP) :
                     pi[2] \in DOMAIN maps[pi[1]] /\ maps[pi[1]][pi[2]].file = f}
<1>1. A \in SUBSET HeldFds(f) /\ B \in SUBSET HeldMaps(f)
  BY DEF HeldFds, HeldMaps, Running
<1>2. IsFiniteSet(HeldFds(f)) /\ IsFiniteSet(HeldMaps(f))
  <2>1. IsFiniteSet(Procs \X Fds) /\ IsFiniteSet(Procs \X (1..MAX_NMMAP))
    BY HeldFinite, FS_Product
  <2> QED BY <2>1, HeldFinite, FS_Subset
<1>3. Holders(f) = Cardinality(A) + Cardinality(B)
  BY DEF Holders
<1> HIDE DEF A, B
<1>4. /\ Cardinality(A) <= Cardinality(HeldFds(f)) /\ Cardinality(B) <= Cardinality(HeldMaps(f))
      /\ IsFiniteSet(A) /\ IsFiniteSet(B)
  BY <1>1, <1>2, FS_Subset
<1>5. /\ Cardinality(HeldFds(f)) \in Nat /\ Cardinality(HeldMaps(f)) \in Nat
      /\ Cardinality(A) \in Nat /\ Cardinality(B) \in Nat
  BY <1>2, <1>4, FS_CardinalityType
<1>6. ref[f] >= Cardinality(HeldFds(f)) + Cardinality(HeldMaps(f)) /\ ref[f] \in Int
  BY DEF FileInv, TypeOK
<1> QED BY <1>3, <1>4, <1>5, <1>6

\* FilesKept: whatever the programs do, a failed fork and a refused wmap
\* included, a file's reference count is at least the number of descriptors
\* and mappings that use it, so fileclose never releases one in use.
THEOREM FilesStay == Spec => []FilesKept
<1>1. TypeOK /\ FileInv /\ [Next]_vars => (TypeOK /\ FileInv)'
  BY TypeInductive, FileInductive
<1>2. Init => TypeOK /\ FileInv
  BY InitType, FileInit
<1> QED BY <1>1, <1>2, FilesFollow, PTL DEF Spec

-----------------------------------------------------------------------------
(* Families that follow the rules.                                           *)
(*                                                                           *)
(* The invariant speaks of the sets M[p] of the regions of each process p    *)
(* and of the page tables T; what an action does to these two is stated once *)
(* (Grown, Shrunk, PagedIn...), and each part of the invariant is shown to be*)
(* kept by each kind of change.                                              *)

Elems(m) == {m[i] : i \in DOMAIN m}
Regs == [p \in Procs |-> Elems(maps[p])]
RegionSets == [Procs -> SUBSET Region]
PageTables == [Procs -> [PageAddrs -> Frames \cup {NULL}]]

\* A page lies in one region of a process at most.
Layout(M, T) == /\ M \in RegionSets /\ T \in PageTables
                /\ \A p \in Procs : \A r, s \in M[p] : \A va \in PageAddrs :
                      va \in Pages(r) /\ va \in Pages(s) => r = s

\* Only First forks, and it runs as long as a child of it does.
Star == /\ parent[First] = NULL
        /\ \A q \in Running : q # First => parent[q] = First /\ First \in Running

\* A region is either shared or private; refcnt is 1 in the regions a child
\* has inherited as shared ones, and only there.
Marked(M) == \A p \in Procs : \A r \in M[p] :
    /\ Shared(r) # ("PRIVATE" \in r.flags)
    /\ r.refcnt = 1 => Shared(r) /\ p # First

\* Such a region is one of First's, with all its pages loaded and First's frames.
Alike(r, s) == s.addr = r.addr /\ s.length = r.length /\ s.flags = r.flags /\ s.file = r.file
Handed(M, T) == \A p \in Procs : \A r \in M[p] : r.refcnt = 1 =>
    /\ \E s \in M[First] : Alike(r, s)
    /\ \A va \in Pages(r) : T[p][va] # NULL /\ T[p][va] = T[First][va]

\* n_loaded_pages is right, a loaded page lies in a region.
Loads(T, p, r) == {va \in Pages(r) : T[p][va] # NULL}
Counted(M, T) == \A p \in Procs :
    /\ \A r \in M[p] : r.n_loaded_pages = Cardinality(Loads(T, p, r))
    /\ \A va \in PageAddrs : T[p][va] # NULL => \E r \in M[p] : va \in Pages(r)

\* Process p owns the frame of a page it has loaded in a region of its own:
\* every frame that is not free has one owner.
Owned(M, T, p, va) == T[p][va] # NULL /\ \E r \in M[p] : r.refcnt = 0 /\ va \in Pages(r)
Exclusive(M, T, F) ==
    /\ \A p, q \in Procs : \A v, w \in PageAddrs :
          Owned(M, T, p, v) /\ Owned(M, T, q, w) /\ T[p][v] = T[q][w] => p = q /\ v = w
    /\ \A p \in Procs : \A v \in PageAddrs : Owned(M, T, p, v) => T[p][v] \notin F
    /\ \A f \in Frames \ F : \E p \in Procs : \E v \in PageAddrs : Owned(M, T, p, v) /\ T[p][v] = f

\* Page va of p is page o of file f, in a shared mapping of its own: there is
\* one such page at most, and when it is loaded it holds what was stored last,
\* otherwise the file does.
Offsets == 0..(FilePages - 1)
Backs(M, p, va, f, o) == \E r \in M[p] :
    /\ r.refcnt = 0 /\ Shared(r) /\ FileBacked(r) /\ r.file = f
    /\ va \in Pages(r) /\ Offset(r, va) = o
OneBack(M) == \A p, q \in Procs : \A v, w \in PageAddrs : \A f \in Files : \A o \in Offsets :
    Backs(M, p, v, f, o) /\ Backs(M, q, w, f, o) => p = q /\ v = w
Stored(M, T, mm, d, h) ==
    /\ \A p \in Procs : \A v \in PageAddrs : \A f \in Files : \A o \in Offsets :
          Backs(M, p, v, f, o) /\ T[p][v] # NULL => mm[T[p][v]] = h[f][o]
    /\ \A f \in Files : \A o \in Offsets :
          (\A p \in Procs : \A v \in PageAddrs : Backs(M, p, v, f, o) => T[p][v] = NULL) => d[f][o] = h[f][o]

OrderInv == Orderly =>
    /\ Star /\ Marked(Regs) /\ Handed(Regs, pt) /\ Counted(Regs, pt) /\ Exclusive(Regs, pt, free)
    /\ OneBack(Regs) /\ Stored(Regs, pt, mem, disk, last)

\* Regions of well placed lists have no page in common.
LEMMA LayoutOf ==
    ASSUME NEW m \in [Procs -> Seq(Region)], NEW T \in PageTables, \A p \in Procs : RangeOK(m[p])
    PROVE  Layout([p \in Procs |-> Elems(m[p])], T)
<1> DEFINE M == [p \in Procs |-> Elems(m[p])]
<1>1. \A p \in Procs : M[p] = {m[p][i] : i \in DOMAIN m[p]}
  BY DEF Elems
<1>2. M \in RegionSets
  <2>1. \A p \in Procs : \A i \in DOMAIN m[p] : m[p][i] \in Region
    OBVIOUS
  <2> QED BY <2>1 DEF RegionSets, Elems
<1> HIDE DEF M
<1>3. ASSUME NEW p \in Procs, NEW r \in M[p], NEW s \in M[p], NEW va \in PageAddrs, va \in Pages(r), va \in Pages(s)
      PROVE  r = s
  <2>1. PICK i \in DOMAIN m[p], j \in DOMAIN m[p] : r = m[p][i] /\ s = m[p][j]
    BY <1>1
  <2>2. i # j => Apart(r, s)
    BY <2>1 DEF RangeOK
  <2>3. r \in Region /\ s \in Region
    BY <1>2 DEF RegionSets
  <2>4. r.addr \in Int /\ s.addr \in Int /\ EndOf(r) \in Int /\ EndOf(s) \in Int /\ va \in Int
    BY <2>3, RegionFacts, PageFacts
  <2>5. r.addr <= va /\ va < EndOf(r) /\ s.addr <= va /\ va < EndOf(s)
    BY <1>3 DEF Pages
  <2>6. ~Apart(r, s)
    BY <2>4, <2>5 DEF Apart
  <2> QED BY <2>1, <2>2, <2>6
<1>4. Layout(M, T)
  BY <1>2, <1>3 DEF Layout
<1> QED BY <1>4 DEF M

\* This is so in every state.
LEMMA LayoutNow ==
    ASSUME TypeOK, ListInv, "in_range" \in client.rules
    PROVE  Layout(Regs, pt)
BY LayoutOf DEF TypeOK, ListInv, Regs, PageTables

\* The same after a step.
LEMMA LayoutNext ==
    ASSUME TypeOK', ListInv', ("in_range" \in client.rules)'
    PROVE  Layout(Regs', pt')
BY LayoutOf DEF TypeOK, ListInv, Regs, PageTables

\* What the layout says of one region.
LEMMA LayoutFacts ==
    ASSUME NEW M, NEW T, Layout(M, T), NEW p \in Procs, NEW r \in M[p]
    PROVE  /\ r \in Region /\ Pages(r) \in SUBSET PageAddrs
           /\ \A va \in Pages(r) : T[p][va] \in Frames \cup {NULL}
           /\ \A s \in M[p] : \A va \in Pages(r) : va \in Pages(s) => r = s
<1>1. Pages(r) \in SUBSET PageAddrs
  BY PagesIn
<1> QED BY <1>1 DEF Layout, RegionSets, PageTables

-----------------------------------------------------------------------------
(* Frames change hands *)

\* Freeing the frames that p owns in the pages S keeps one owner per frame.
LEMMA FramesFreed ==
    ASSUME NEW M, NEW T, NEW F, NEW M2, NEW T2, NEW F2, Exclusive(M, T, F), NEW p \in Procs,
           NEW S \in SUBSET PageAddrs,
           \A q \in Procs : \A v \in PageAddrs :
              Owned(M2, T2, q, v) <=> Owned(M, T, q, v) /\ ~(q = p /\ v \in S),
           \A q \in Procs : \A v \in PageAddrs : Owned(M2, T2, q, v) => T2[q][v] = T[q][v],
           \A v \in S : T[p][v] # NULL => Owned(M, T, p, v),
           F2 = F \cup {T[p][v] : v \in {w \in S : T[p][w] # NULL}}
    PROVE  Exclusive(M2, T2, F2)
<1>1. \A a, b \in Procs : \A v, w \in PageAddrs :
          Owned(M2, T2, a, v) /\ Owned(M2, T2, b, w) /\ T2[a][v] = T2[b][w] => a = b /\ v = w
  BY DEF Exclusive
<1>2. \A q \in Procs : \A v \in PageAddrs : Owned(M2, T2, q, v) => T2[q][v] \notin F2
  BY DEF Exclusive
<1>3. \A f \in Frames \ F2 : \E q \in Procs : \E v \in PageAddrs : Owned(M2, T2, q, v) /\ T2[q][v] = f
  <2>1. TAKE f \in Frames \ F2
  <2>2. PICK q \in Procs, v \in PageAddrs : Owned(M, T, q, v) /\ T[q][v] = f
    BY DEF Exclusive
  <2>3. T[q][v] # NULL
    BY <2>2 DEF Owned
  <2>4. ~(q = p /\ v \in S)
    BY <2>1, <2>2, <2>3
  <2> QED BY <2>2, <2>4
<1> QED BY <1>1, <1>2, <1>3 DEF Exclusive

\* So does giving p free frames for the pages S.
LEMMA FramesTaken ==
    ASSUME NEW M, NEW T, NEW F, NEW M2, NEW T2, NEW F2, Exclusive(M, T, F), NEW p \in Procs,
           NEW S \in SUBSET PageAddrs,
           \A q \in Procs : \A v \in PageAddrs :
              Owned(M2, T2, q, v) <=> Owned(M, T, q, v) \/ (q = p /\ v \in S),
           \A q \in Procs : \A v \in PageAddrs : Owned(M, T, q, v) => T2[q][v] = T[q][v],
           \A v \in S : T2[p][v] \in F,
           \A v, w \in S : T2[p][v] = T2[p][w] => v = w,
           F2 = F \ {T2[p][v] : v \in S}
    PROVE  Exclusive(M2, T2, F2)
<1>1. \A a, b \in Procs : \A v, w \in PageAddrs :
          Owned(M2, T2, a, v) /\ Owned(M2, T2, b, w) /\ T2[a][v] = T2[b][w] => a = b /\ v = w
  BY DEF Exclusive
<1>2. \A q \in Procs : \A v \in PageAddrs : Owned(M2, T2, q, v) => T2[q][v] \notin F2
  BY DEF Exclusive
<1>3. \A f \in Frames \ F2 : \E q \in Procs : \E v \in PageAddrs : Owned(M2, T2, q, v) /\ T2[q][v] = f
  BY DEF Exclusive
<1> QED BY <1>1, <1>2, <1>3 DEF Exclusive

\* So does what changes no owner.
LEMMA FramesSame ==
    ASSUME NEW M, NEW T, NEW F, NEW M2, Exclusive(M, T, F),
           \A q \in Procs : \A v \in PageAddrs : Owned(M2, T, q, v) <=> Owned(M, T, q, v)
    PROVE  Exclusive(M2, T, F)
BY DEF Exclusive

-----------------------------------------------------------------------------
(* wmap: process p gets a region r of its own, none of its pages loaded *)

Grown(M, T, p, r, M2) ==
    /\ Layout(M, T) /\ p \in Procs /\ r \in Region /\ M2 = [M EXCEPT ![p] = M[p] \cup {r}]
    /\ r.refcnt = 0 /\ r.n_loaded_pages = 0 /\ Shared(r) # ("PRIVATE" \in r.flags)
    /\ \A s \in M[p] : \A va \in Pages(s) : va \notin Pages(r)
    /\ Shared(r) /\ FileBacked(r) => \A q \in Procs : \A s \in M[q] : s.file # r.file

\* What wmap changes.
LEMMA GrownAt ==
    ASSUME NEW M, NEW T, NEW p, NEW r, NEW M2, Grown(M, T, p, r, M2)
    PROVE  M2[p] = M[p] \cup {r} /\ \A q \in Procs : q # p => M2[q] = M[q]
BY DEF Grown, Layout, RegionSets

\* wmap keeps the marks: a new region has refcnt 0.
LEMMA GrownMarked ==
    ASSUME NEW M, NEW T, NEW p, NEW r, NEW M2, Grown(M, T, p, r, M2), Marked(M)
    PROVE  Marked(M2)
<1>1. M2[p] = M[p] \cup {r} /\ \A q \in Procs : q # p => M2[q] = M[q]
  BY GrownAt
<1>2. r.refcnt = 0 /\ Shared(r) # ("PRIVATE" \in r.flags)
  BY DEF Grown
<1> QED BY <1>1, <1>2 DEF Marked

\* wmap keeps what has been handed down.
LEMMA GrownHanded ==
    ASSUME NEW M, NEW T, NEW p, NEW r, NEW M2, Grown(M, T, p, r, M2), Handed(M, T)
    PROVE  Handed(M2, T)
<1>1. M2[p] = M[p] \cup {r} /\ \A q \in Procs : q # p => M2[q] = M[q]
  BY GrownAt
<1>2. r.refcnt = 0 /\ First \in Procs
  BY WmapAssumption DEF Grown
<1>3. M[First] \in SUBSET M2[First]
  BY <1>1, <1>2
<1> QED BY <1>1, <1>2, <1>3 DEF Handed

\* No page of a new region is loaded.
LEMMA GrownEmpty ==
    ASSUME NEW M, NEW T, NEW p, NEW r, NEW M2, Grown(M, T, p, r, M2), Counted(M, T), NEW va \in Pages(r)
    PROVE  T[p][va] = NULL
<1>1. va \in PageAddrs
  BY PagesIn
<1>2. p \in Procs /\ \A s \in M[p] : \A v \in Pages(s) : v \notin Pages(r)
  BY DEF Grown
<1>3. ~\E s \in M[p] : va \in Pages(s)
  BY <1>2
<1> QED BY <1>1, <1>2, <1>3 DEF Counted

\* wmap keeps the counts.
LEMMA GrownCounted ==
    ASSUME NEW M, NEW T, NEW p, NEW r, NEW M2, Grown(M, T, p, r, M2), Counted(M, T)
    PROVE  Counted(M2, T)
<1>1. M2[p] = M[p] \cup {r} /\ \A q \in Procs : q # p => M2[q] = M[q]
  BY GrownAt
<1>2. Loads(T, p, r) = {}
  BY GrownEmpty DEF Loads
<1>3. r.n_loaded_pages = Cardinality(Loads(T, p, r))
  BY <1>2, FS_EmptySet DEF Grown
<1>4. \A q \in Procs : M[q] \in SUBSET M2[q]
  BY <1>1
<1>5. \A q \in Procs : \A s \in M2[q] : s \in M[q] \/ (q = p /\ s = r)
  BY <1>1
<1> QED BY <1>3, <1>4, <1>5 DEF Counted

\* wmap keeps the owners.
LEMMA GrownFrames ==
    ASSUME NEW M, NEW T, NEW p, NEW r, NEW M2, NEW F, Grown(M, T, p, r, M2), Counted(M, T), Exclusive(M, T, F)
    PROVE  Exclusive(M2, T, F)
<1>1. M2[p] = M[p] \cup {r} /\ \A q \in Procs : q # p => M2[q] = M[q]
  BY GrownAt
<1>2. \A va \in Pages(r) : T[p][va] = NULL
  BY GrownEmpty
<1>3. \A q \in Procs : \A v \in PageAddrs : Owned(M2, T, q, v) <=> Owned(M, T, q, v)
  BY <1>1, <1>2 DEF Owned
<1> QED BY <1>3, FramesSame

\* A page of p backs what it did before, or lies in r, and its file is not
\* mapped otherwise.
LEMMA GrownBacks ==
    ASSUME NEW M, NEW T, NEW p, NEW r, NEW M2, Grown(M, T, p, r, M2),
           NEW q \in Procs, NEW v \in PageAddrs, NEW f \in Files, NEW o \in Offsets, Backs(M2, q, v, f, o)
    PROVE  \/ Backs(M, q, v, f, o)
           \/ /\ q = p /\ v \in Pages(r) /\ Offset(r, v) = o
              /\ \A x \in Procs : \A w \in PageAddrs : ~Backs(M, x, w, f, o)
<1>1. M2[p] = M[p] \cup {r} /\ \A x \in Procs : x # p => M2[x] = M[x]
  BY GrownAt
<1>2. Shared(r) /\ FileBacked(r) => \A x \in Procs : \A s \in M[x] : s.file # r.file
  BY DEF Grown
<1> QED BY <1>1, <1>2 DEF Backs

\* Two pages of a region have different offsets.
LEMMA PageOffset ==
    ASSUME NEW r \in Region, NEW v \in Pages(r), NEW w \in Pages(r), Offset(r, v) = Offset(r, w)
    PROVE  v = w
<1>1. r.addr \in Int /\ v \in Int /\ w \in Int /\ Aligned(v) /\ Aligned(w)
  BY RegionFacts, PagesIn, PageFacts
<1> QED BY <1>1, OffsetInjective DEF Offset

\* wmap keeps to one own shared mapping per file, by the rule one_map.
LEMMA GrownOneBack ==
    ASSUME NEW M, NEW T, NEW p, NEW r, NEW M2, Grown(M, T, p, r, M2), OneBack(M)
    PROVE  OneBack(M2)
<1> SUFFICES ASSUME NEW x \in Procs, NEW y \in Procs, NEW v \in PageAddrs, NEW w \in PageAddrs,
                    NEW f \in Files, NEW o \in Offsets, Backs(M2, x, v, f, o), Backs(M2, y, w, f, o)
             PROVE  x = y /\ v = w
  BY DEF OneBack
<1>1. CASE Backs(M, x, v, f, o) /\ Backs(M, y, w, f, o)
  BY <1>1 DEF OneBack
<1>2. CASE ~(Backs(M, x, v, f, o) /\ Backs(M, y, w, f, o))
  <2>1. /\ x = p /\ v \in Pages(r) /\ Offset(r, v) = o
        /\ y = p /\ w \in Pages(r) /\ Offset(r, w) = o
    BY <1>2, GrownBacks
  <2>2. r \in Region
    BY DEF Grown
  <2> QED BY <2>1, <2>2, PageOffset
<1> QED BY <1>1, <1>2

\* A new mapping, without loaded pages, hides nothing that was stored.
LEMMA GrownStored ==
    ASSUME NEW M, NEW T, NEW p, NEW r, NEW M2, NEW mm, NEW d, NEW h,
           Grown(M, T, p, r, M2), Counted(M, T), Stored(M, T, mm, d, h)
    PROVE  Stored(M2, T, mm, d, h)
<1>1. \A va \in Pages(r) : T[p][va] = NULL
  BY GrownEmpty
<1>2. \A q \in Procs : \A v \in PageAddrs : \A f \in Files : \A o \in Offsets :
          Backs(M2, q, v, f, o) /\ T[q][v] # NULL => Backs(M, q, v, f, o)
  BY <1>1, GrownBacks
<1>3. \A q \in Procs : \A v \in PageAddrs : \A f \in Files : \A o \in Offsets :
          Backs(M, q, v, f, o) => Backs(M2, q, v, f, o)
  BY GrownAt DEF Backs
<1>4. \A q \in Procs : \A v \in PageAddrs : \A f \in Files : \A o \in Offsets :
          Backs(M2, q, v, f, o) /\ T[q][v] # NULL => mm[T[q][v]] = h[f][o]
  BY <1>2 DEF Stored
<1>5. \A f \in Files : \A o \in Offsets :
          (\A q \in Procs : \A v \in PageAddrs : Backs(M2, q, v, f, o) => T[q][v] = NULL) => d[f][o] = h[f][o]
  BY <1>3 DEF Stored
<1> QED BY <1>4, <1>5 DEF Stored

-----------------------------------------------------------------------------
(* wunmap and wpunmap: p loses the pages S of a region r of its own, L is    *)
(* what is left of it                                                        *)

WroteBack(T, mm, p, r, S, d, e) == \A f \in Files : \A o \in Offsets :
    IF /\ Shared(r) /\ FileBacked(r) /\ r.file = f
       /\ \E va \in S : T[p][va] # NULL /\ Offset(r, va) = o
    THEN \E va \in S : T[p][va] # NULL /\ Offset(r, va) = o /\ e[f][o] = mm[T[p][va]]
    ELSE e[f][o] = d[f][o]

Cleared(T, p, S, T2) == T2 = [T EXCEPT ![p] = [va \in PageAddrs |-> IF va \in S THEN NULL ELSE T[p][va]]]

Shrunk(M, T, p, r, S, L, M2, T2) ==
    /\ Layout(M, T) /\ p \in Procs /\ r \in M[p] /\ r.refcnt = 0 /\ S \in SUBSET Pages(r)
    /\ M2 \in RegionSets /\ L \in SUBSET M2[p] /\ \A q \in Procs : q # p => M2[q] = M[q]
    /\ \A s \in M[p] : s # r => s \in M2[p]
    /\ \A s \in M2[p] : s \in M[p] \/ s \in L
    /\ r \in M2[p] => r \in L \/ Pages(r) = {}
    /\ Cleared(T, p, S, T2)
    /\ \A l \in L : /\ l.flags = r.flags /\ l.file = r.file /\ l.refcnt = 0
                    /\ Pages(l) \in SUBSET Pages(r)
                    /\ l.n_loaded_pages = Cardinality(Loads(T2, p, l))
    /\ \A va \in Pages(r) : va \in S \/ \E l \in L : va \in Pages(l)
    /\ Shared(r) => /\ L = {} /\ S = Pages(r)
                    /\ p = First => \A q \in Procs : q # p => \A s \in M[q] : s.addr # r.addr

\* The page tables after entries have been cleared.
LEMMA ClearedAt ==
    ASSUME NEW M, NEW T, Layout(M, T), NEW p \in Procs, NEW S \in SUBSET PageAddrs, NEW T2, Cleared(T, p, S, T2)
    PROVE  /\ T2 \in PageTables
           /\ \A q \in Procs : q # p => T2[q] = T[q]
           /\ \A v \in PageAddrs : T2[p][v] = IF v \in S THEN NULL ELSE T[p][v]
BY DEF Layout, PageTables, Cleared

\* What wunmap and wpunmap change.
LEMMA ShrunkFacts ==
    ASSUME NEW M, NEW T, NEW p, NEW r, NEW S, NEW L, NEW M2, NEW T2, Shrunk(M, T, p, r, S, L, M2, T2)
    PROVE  /\ p \in Procs /\ S \in SUBSET PageAddrs /\ r \in M[p] /\ r.refcnt = 0
           /\ \A q \in Procs : q # p => M2[q] = M[q] /\ T2[q] = T[q]
           /\ \A v \in PageAddrs : T2[p][v] = IF v \in S THEN NULL ELSE T[p][v]
           /\ \A s \in M[p] : s # r => s \in M2[p]
           /\ \A s \in M2[p] : s \in L \/ (s \in M[p] /\ (s # r \/ Pages(r) = {}))
           /\ \A l \in L : /\ l \in M2[p] /\ l.flags = r.flags /\ l.file = r.file /\ l.refcnt = 0
                           /\ Pages(l) \in SUBSET Pages(r)
<1>1. S \in SUBSET PageAddrs
  BY PagesIn DEF Shrunk
<1>2. /\ \A q \in Procs : q # p => T2[q] = T[q]
      /\ \A v \in PageAddrs : T2[p][v] = IF v \in S THEN NULL ELSE T[p][v]
  <2>1. Layout(M, T) /\ p \in Procs /\ Cleared(T, p, S, T2)
    BY DEF Shrunk
  <2> QED BY <1>1, <2>1, ClearedAt
<1> QED BY <1>1, <1>2 DEF Shrunk

\* They keep the marks.
LEMMA ShrunkMarked ==
    ASSUME NEW M, NEW T, NEW p, NEW r, NEW S, NEW L, NEW M2, NEW T2, Shrunk(M, T, p, r, S, L, M2, T2), Marked(M)
    PROVE  Marked(M2)
<1>1. /\ p \in Procs /\ r \in M[p]
      /\ \A q \in Procs : q # p => M2[q] = M[q]
      /\ \A s \in M2[p] : s \in L \/ s \in M[p]
      /\ \A l \in L : l.flags = r.flags /\ l.refcnt = 0
  BY ShrunkFacts
<1> QED BY <1>1 DEF Marked, Shared

\* A page of another region of p is not one of r.
LEMMA ShrunkApart ==
    ASSUME NEW M, NEW T, NEW p, NEW r, NEW S, NEW L, NEW M2, NEW T2, Shrunk(M, T, p, r, S, L, M2, T2),
           NEW s \in M[p], s # r, NEW v \in Pages(s)
    PROVE  v \in PageAddrs /\ v \notin Pages(r) /\ v \notin S /\ T2[p][v] = T[p][v]
<1>1. Layout(M, T) /\ p \in Procs /\ r \in M[p] /\ S \in SUBSET Pages(r)
  BY DEF Shrunk
<1>2. v \in PageAddrs
  BY PagesIn
<1>3. v \notin Pages(r)
  BY <1>1, <1>2 DEF Layout
<1> QED BY <1>1, <1>2, <1>3, ShrunkFacts

\* Regions that are alike have the same pages and offsets.
LEMMA AlikePages ==
    ASSUME NEW r, NEW s, Alike(r, s)
    PROVE  Pages(s) = Pages(r) /\ (Shared(s) <=> Shared(r)) /\ (FileBacked(s) <=> FileBacked(r))
           /\ \A va : Offset(s, va) = Offset(r, va)
BY DEF Alike, Pages, EndOf, Shared, FileBacked, Offset

\* They keep what has been handed down, by the rules child_keeps and
\* parent_keeps.
LEMMA ShrunkHanded ==
    ASSUME NEW M, NEW T, NEW p, NEW r, NEW S, NEW L, NEW M2, NEW T2, Shrunk(M, T, p, r, S, L, M2, T2),
           Marked(M), Handed(M, T)
    PROVE  Handed(M2, T2)
<1> SUFFICES ASSUME NEW q \in Procs, NEW s \in M2[q], s.refcnt = 1
             PROVE  /\ \E t \in M2[First] : Alike(s, t)
                    /\ \A va \in Pages(s) : T2[q][va] # NULL /\ T2[q][va] = T2[First][va]
  BY DEF Handed
<1>1. /\ p \in Procs /\ r \in M[p] /\ r.refcnt = 0
      /\ \A x \in Procs : x # p => M2[x] = M[x] /\ T2[x] = T[x]
      /\ \A t \in M2[p] : t \in L \/ t \in M[p]
      /\ \A t \in M[p] : t # r => t \in M2[p]
      /\ \A l \in L : l.refcnt = 0
  BY ShrunkFacts
<1>2. First \in Procs
  BY WmapAssumption
<1>3. s \in M[q]
  BY <1>1
<1>4. Shared(s) /\ q # First
  BY <1>3 DEF Marked
<1>5. PICK t \in M[First] : Alike(s, t)
  BY <1>3 DEF Handed
<1>6. \A va \in Pages(s) : T[q][va] # NULL /\ T[q][va] = T[First][va]
  BY <1>3 DEF Handed
<1>7. Pages(t) = Pages(s) /\ Shared(t) /\ t.addr = s.addr
  BY <1>4, <1>5, AlikePages DEF Alike
<1>8. CASE q = p
  <2>1. M2[First] = M[First] /\ T2[First] = T[First]
    BY <1>1, <1>2, <1>4, <1>8
  <2>2. \A va \in Pages(s) : T2[q][va] = T[q][va]
    BY <1>1, <1>3, <1>8, ShrunkApart
  <2> QED BY <1>5, <1>6, <2>1, <2>2
<1>9. CASE q # p /\ First # p
  BY <1>1, <1>2, <1>5, <1>6, <1>9
<1>10. CASE q # p /\ First = p
  <2>1. t # r
    BY <1>3, <1>7, <1>10 DEF Shrunk
  <2>2. t \in M2[First]
    BY <1>1, <1>10, <2>1
  <2>3. \A va \in Pages(s) : T2[First][va] = T[First][va]
    BY <1>7, <1>10, <2>1, ShrunkApart
  <2> QED BY <1>1, <1>5, <1>6, <1>10, <2>2, <2>3
<1> QED BY <1>8, <1>9, <1>10

\* They keep the counts.
LEMMA ShrunkCounted ==
    ASSUME NEW M, NEW T, NEW p, NEW r, NEW S, NEW L, NEW M2, NEW T2, Shrunk(M, T, p, r, S, L, M2, T2),
           Counted(M, T)
    PROVE  Counted(M2, T2)
<1>1. /\ p \in Procs /\ r \in M[p]
      /\ \A x \in Procs : x # p => M2[x] = M[x] /\ T2[x] = T[x]
      /\ \A t \in M2[p] : t \in L \/ (t \in M[p] /\ (t # r \/ Pages(r) = {}))
      /\ \A t \in M[p] : t # r => t \in M2[p]
      /\ \A v \in PageAddrs : T2[p][v] = IF v \in S THEN NULL ELSE T[p][v]
      /\ \A l \in L : l \in M2[p]
  BY ShrunkFacts
<1>2. ASSUME NEW s \in M2[p] PROVE s.n_loaded_pages = Cardinality(Loads(T2, p, s))
  <2>1. CASE s \in L
    BY <2>1 DEF Shrunk
  <2>2. CASE s \in M[p] /\ s # r
    <3>1. Loads(T2, p, s) = Loads(T, p, s)
      BY <2>2, ShrunkApart DEF Loads
    <3> QED BY <1>1, <2>2, <3>1 DEF Counted
  <2>3. CASE s = r /\ Pages(r) = {}
    <3>1. Loads(T2, p, s) = Loads(T, p, s)
      BY <2>3 DEF Loads
    <3> QED BY <1>1, <2>3, <3>1 DEF Counted
  <2> QED BY <1>1, <2>1, <2>2, <2>3
<1>3. ASSUME NEW va \in PageAddrs, T2[p][va] # NULL PROVE \E s \in M2[p] : va \in Pages(s)
  <2>1. va \notin S /\ T[p][va] # NULL
    BY <1>1, <1>3
  <2>2. PICK s \in M[p] : va \in Pages(s)
    BY <1>1, <2>1 DEF Counted
  <2>3. CASE s # r
    BY <1>1, <2>2, <2>3
  <2>4. CASE s = r
    <3>1. \E l \in L : va \in Pages(l)
      BY <2>1, <2>2, <2>4 DEF Shrunk
    <3> QED BY <1>1, <3>1
  <2> QED BY <2>3, <2>4
<1>4. ASSUME NEW q \in Procs, q # p
      PROVE  /\ \A s \in M2[q] : s.n_loaded_pages = Cardinality(Loads(T2, q, s))
             /\ \A va \in PageAddrs : T2[q][va] # NULL => \E s \in M2[q] : va \in Pages(s)
  <2>1. M2[q] = M[q] /\ T2[q] = T[q]
    BY <1>1, <1>4
  <2>2. \A s \in M[q] : Loads(T2, q, s) = Loads(T, q, s)
    BY <2>1 DEF Loads
  <2> QED BY <2>1, <2>2 DEF Counted
<1> QED BY <1>2, <1>3, <1>4 DEF Counted

\* The pages p owns afterwards are those it owned, without S.
LEMMA ShrunkOwned ==
    ASSUME NEW M, NEW T, NEW p, NEW r, NEW S, NEW L, NEW M2, NEW T2, Shrunk(M, T, p, r, S, L, M2, T2)
    PROVE  \A q \in Procs : \A v \in PageAddrs :
              Owned(M2, T2, q, v) <=> Owned(M, T, q, v) /\ ~(q = p /\ v \in S)
<1>1. /\ p \in Procs /\ r \in M[p] /\ r.refcnt = 0
      /\ \A x \in Procs : x # p => M2[x] = M[x] /\ T2[x] = T[x]
      /\ \A t \in M2[p] : t \in L \/ t \in M[p]
      /\ \A t \in M[p] : t # r => t \in M2[p]
      /\ \A v \in PageAddrs : T2[p][v] = IF v \in S THEN NULL ELSE T[p][v]
      /\ \A l \in L : l \in M2[p] /\ Pages(l) \in SUBSET Pages(r) /\ l.refcnt = 0
  BY ShrunkFacts
<1>2. \A q \in Procs : \A v \in PageAddrs : q # p => (Owned(M2, T2, q, v) <=> Owned(M, T, q, v))
  BY <1>1 DEF Owned
<1>3. ASSUME NEW v \in PageAddrs, Owned(M2, T2, p, v) PROVE Owned(M, T, p, v) /\ v \notin S
  BY <1>1, <1>3 DEF Owned
<1>4. ASSUME NEW v \in PageAddrs, Owned(M, T, p, v), v \notin S PROVE Owned(M2, T2, p, v)
  <2>1. PICK s \in M[p] : s.refcnt = 0 /\ v \in Pages(s)
    BY <1>4 DEF Owned
  <2>2. T2[p][v] # NULL
    BY <1>1, <1>4 DEF Owned
  <2>3. \A va \in Pages(r) : va \in S \/ \E l \in L : va \in Pages(l)
    BY DEF Shrunk
  <2>4. \E l \in M2[p] : l.refcnt = 0 /\ v \in Pages(l)
    BY <1>1, <1>4, <2>1, <2>3
  <2> QED BY <2>2, <2>4 DEF Owned
<1> QED BY <1>2, <1>3, <1>4

\* They keep the owners: what is freed had one.
LEMMA ShrunkFrames ==
    ASSUME NEW M, NEW T, NEW p, NEW r, NEW S, NEW L, NEW M2, NEW T2, Shrunk(M, T, p, r, S, L, M2, T2),
           NEW F, Exclusive(M, T, F), NEW F2, F2 = F \cup {T[p][v] : v \in {w \in S : T[p][w] # NULL}}
    PROVE  Exclusive(M2, T2, F2)
<1>1. /\ p \in Procs /\ r \in M[p] /\ r.refcnt = 0 /\ S \in SUBSET PageAddrs
      /\ \A x \in Procs : x # p => T2[x] = T[x]
      /\ \A v \in PageAddrs : T2[p][v] = IF v \in S THEN NULL ELSE T[p][v]
  BY ShrunkFacts
<1>2. \A q \in Procs : \A v \in PageAddrs : Owned(M2, T2, q, v) => T2[q][v] = T[q][v]
  BY <1>1 DEF Owned
<1>3. \A v \in S : T[p][v] # NULL => Owned(M, T, p, v)
  BY <1>1 DEF Owned, Shrunk
<1> QED BY <1>1, <1>2, <1>3, ShrunkOwned, FramesFreed

\* The pages of files that are mapped afterwards.
LEMMA ShrunkBacks ==
    ASSUME NEW M, NEW T, NEW p, NEW r, NEW S, NEW L, NEW M2, NEW T2, Shrunk(M, T, p, r, S, L, M2, T2)
    PROVE  \A q \in Procs : \A v \in PageAddrs : \A f \in Files : \A o \in Offsets :
              Backs(M2, q, v, f, o) <=> Backs(M, q, v, f, o) /\ ~(q = p /\ v \in S)
<1>1. /\ p \in Procs /\ r \in M[p] /\ r.refcnt = 0
      /\ \A x \in Procs : x # p => M2[x] = M[x]
      /\ \A t \in M2[p] : t \in L \/ (t \in M[p] /\ (t # r \/ Pages(r) = {}))
      /\ \A t \in M[p] : t # r => t \in M2[p]
      /\ \A l \in L : l.flags = r.flags
  BY ShrunkFacts
<1>2. Shared(r) => L = {} /\ S = Pages(r)
  BY DEF Shrunk
<1>3. \A l \in L : ~Shared(l)
  BY <1>1, <1>2 DEF Shared
<1>4. \A q \in Procs : \A v \in PageAddrs : \A f \in Files : \A o \in Offsets :
              q # p => (Backs(M2, q, v, f, o) <=> Backs(M, q, v, f, o))
  BY <1>1 DEF Backs
<1>5. ASSUME NEW v \in PageAddrs, NEW f \in Files, NEW o \in Offsets, Backs(M2, p, v, f, o)
      PROVE  Backs(M, p, v, f, o) /\ v \notin S
  <2>1. PICK s \in M2[p] : /\ s.refcnt = 0 /\ Shared(s) /\ FileBacked(s) /\ s.file = f
                           /\ v \in Pages(s) /\ Offset(s, v) = o
    BY <1>5 DEF Backs
  <2>2. s \in M[p] /\ s # r
    BY <1>1, <1>3, <2>1
  <2>3. v \notin S
    BY <2>1, <2>2, ShrunkApart
  <2> QED BY <2>1, <2>2, <2>3 DEF Backs
<1>6. ASSUME NEW v \in PageAddrs, NEW f \in Files, NEW o \in Offsets, Backs(M, p, v, f, o), v \notin S
      PROVE  Backs(M2, p, v, f, o)
  <2>1. PICK s \in M[p] : /\ s.refcnt = 0 /\ Shared(s) /\ FileBacked(s) /\ s.file = f
                          /\ v \in Pages(s) /\ Offset(s, v) = o
    BY <1>6 DEF Backs
  <2>2. s # r
    BY <1>2, <1>6, <2>1
  <2>3. s \in M2[p]
    BY <1>1, <2>2
  <2> QED BY <2>1, <2>3 DEF Backs
<1> QED BY <1>4, <1>5, <1>6

\* They keep to one own shared mapping per file.
LEMMA ShrunkOneBack ==
    ASSUME NEW M, NEW T, NEW p, NEW r, NEW S, NEW L, NEW M2, NEW T2, Shrunk(M, T, p, r, S, L, M2, T2), OneBack(M)
    PROVE  OneBack(M2)
BY ShrunkBacks DEF OneBack

\* Freeing the frames of pages S of p leaves the others' contents alone.
Scrubbed(T, p, S, mm, m2) == m2 = [f \in Frames |-> IF f \in {T[p][v] : v \in {w \in S : T[p][w] # NULL}}
                                                    THEN Junk ELSE mm[f]]

\* A loaded page of an own shared mapping is owned.
LEMMA BacksOwned ==
    ASSUME NEW M, NEW T, NEW p \in Procs, NEW v \in PageAddrs, NEW f, NEW o, Backs(M, p, v, f, o), T[p][v] # NULL
    PROVE  Owned(M, T, p, v)
BY DEF Backs, Owned

\* kfree leaves the frames of other owners alone.
LEMMA ScrubbedAt ==
    ASSUME NEW M, NEW T, Layout(M, T), NEW F, Exclusive(M, T, F), NEW p \in Procs, NEW S \in SUBSET PageAddrs,
           NEW mm, NEW m2, Scrubbed(T, p, S, mm, m2),
           \A v \in S : T[p][v] # NULL => Owned(M, T, p, v),
           NEW q \in Procs, NEW w \in PageAddrs, Owned(M, T, q, w), ~(q = p /\ w \in S)
    PROVE  m2[T[q][w]] = mm[T[q][w]]
<1>1. T[q][w] \in Frames
  BY DEF Layout, PageTables, Owned
<1>2. \A v \in S : T[p][v] # NULL => T[p][v] # T[q][w]
  BY DEF Exclusive
<1> QED BY <1>1, <1>2 DEF Scrubbed

\* What was stored in the pages that go is written to the file.
LEMMA ShrunkStored ==
    ASSUME NEW M, NEW T, NEW p, NEW r, NEW S, NEW L, NEW M2, NEW T2, Shrunk(M, T, p, r, S, L, M2, T2),
           NEW F, Exclusive(M, T, F), NEW mm, NEW m2, Scrubbed(T, p, S, mm, m2),
           NEW d, NEW e, WroteBack(T, mm, p, r, S, d, e), NEW h, Stored(M, T, mm, d, h)
    PROVE  Stored(M2, T2, m2, e, h)
<1>1. /\ Layout(M, T) /\ p \in Procs /\ r \in M[p] /\ r.refcnt = 0
      /\ S \in SUBSET PageAddrs /\ S \in SUBSET Pages(r)
      /\ \A x \in Procs : x # p => T2[x] = T[x]
      /\ \A v \in PageAddrs : T2[p][v] = IF v \in S THEN NULL ELSE T[p][v]
  <2>1. Layout(M, T) /\ S \in SUBSET Pages(r)
    BY DEF Shrunk
  <2> QED BY <2>1, ShrunkFacts
<1>2. \A v \in S : T[p][v] # NULL => Owned(M, T, p, v)
  BY <1>1 DEF Owned
<1>3. \A q \in Procs : \A v \in PageAddrs : ~(q = p /\ v \in S) => T2[q][v] = T[q][v]
  BY <1>1
<1>4. ASSUME NEW q \in Procs, NEW v \in PageAddrs, NEW f \in Files, NEW o \in Offsets,
             Backs(M2, q, v, f, o), T2[q][v] # NULL
      PROVE  m2[T2[q][v]] = h[f][o]
  <2>1. Backs(M, q, v, f, o) /\ ~(q = p /\ v \in S)
    BY <1>4, ShrunkBacks
  <2>2. T2[q][v] = T[q][v]
    BY <1>3, <2>1
  <2>3. Owned(M, T, q, v) /\ mm[T[q][v]] = h[f][o]
    BY <1>4, <2>1, <2>2, BacksOwned DEF Stored
  <2>4. m2[T[q][v]] = mm[T[q][v]]
    BY <1>1, <1>2, <2>1, <2>3, ScrubbedAt
  <2> QED BY <2>2, <2>3, <2>4
<1>5. ASSUME NEW f \in Files, NEW o \in Offsets,
             \A q \in Procs : \A v \in PageAddrs : Backs(M2, q, v, f, o) => T2[q][v] = NULL
      PROVE  e[f][o] = h[f][o]
  <2>1. \A q \in Procs : \A v \in PageAddrs :
          Backs(M, q, v, f, o) /\ ~(q = p /\ v \in S) => T[q][v] = NULL
    BY <1>3, <1>5, ShrunkBacks
  <2>2. CASE /\ Shared(r) /\ FileBacked(r) /\ r.file = f
             /\ \E va \in S : T[p][va] # NULL /\ Offset(r, va) = o
    <3>1. PICK va \in S : T[p][va] # NULL /\ Offset(r, va) = o /\ e[f][o] = mm[T[p][va]]
      BY <2>2 DEF WroteBack
    <3>2. Backs(M, p, va, f, o) /\ va \in PageAddrs
      BY <1>1, <2>2, <3>1 DEF Backs
    <3> QED BY <1>1, <3>1, <3>2 DEF Stored
  <2>3. CASE ~(/\ Shared(r) /\ FileBacked(r) /\ r.file = f
               /\ \E va \in S : T[p][va] # NULL /\ Offset(r, va) = o)
    <3>1. e[f][o] = d[f][o]
      BY <2>3 DEF WroteBack
    <3>2. ASSUME NEW v \in S, Backs(M, p, v, f, o) PROVE T[p][v] = NULL
      <4>1. PICK s \in M[p] : /\ Shared(s) /\ FileBacked(s) /\ s.file = f
                              /\ v \in Pages(s) /\ Offset(s, v) = o
        BY <3>2 DEF Backs
      <4>2. s = r
        BY <1>1, <4>1, ShrunkApart
      <4> QED BY <2>3, <4>1, <4>2
    <3>3. \A q \in Procs : \A v \in PageAddrs : Backs(M, q, v, f, o) => T[q][v] = NULL
      BY <2>1, <3>2
    <3> QED BY <3>1, <3>3 DEF Stored
  <2> QED BY <2>2, <2>3
<1> QED BY <1>4, <1>5 DEF Stored

-----------------------------------------------------------------------------
(* A page fault: page va of region r of p, which becomes t, gets the frame fr *)

PagedIn(M, T, F, p, r, t, va, fr, M2, T2) ==
    /\ Layout(M, T) /\ p \in Procs /\ r \in M[p] /\ t \in Region /\ va \in Pages(r) /\ T[p][va] = NULL
    /\ Alike(r, t) /\ t.refcnt = r.refcnt /\ t.n_loaded_pages = r.n_loaded_pages + 1
    /\ M2 = [M EXCEPT ![p] = (M[p] \ {r}) \cup {t}]
    /\ F \in SUBSET Frames /\ fr \in F /\ T2 = [T EXCEPT ![p] = [T[p] EXCEPT ![va] = fr]]

\* What a page fault changes.
LEMMA PagedInFacts ==
    ASSUME NEW M, NEW T, NEW F, NEW p, NEW r, NEW t, NEW va, NEW fr, NEW M2, NEW T2,
           PagedIn(M, T, F, p, r, t, va, fr, M2, T2)
    PROVE  /\ p \in Procs /\ r \in M[p] /\ va \in PageAddrs /\ va \in Pages(r) /\ Pages(t) = Pages(r)
           /\ M2[p] = (M[p] \ {r}) \cup {t}
           /\ \A q \in Procs : q # p => M2[q] = M[q] /\ T2[q] = T[q]
           /\ \A v \in PageAddrs : T2[p][v] = IF v = va THEN fr ELSE T[p][v]
           /\ T[p][va] = NULL /\ fr # NULL /\ fr \in F
<1>1. va \in PageAddrs
  BY PagesIn DEF PagedIn
<1>2. Pages(t) = Pages(r)
  BY AlikePages DEF PagedIn
<1>3. fr # NULL /\ fr \in F
  BY WmapAssumption DEF PagedIn
<1> QED BY <1>1, <1>2, <1>3 DEF PagedIn, Layout, RegionSets, PageTables

\* It keeps the marks.
LEMMA PagedInMarked ==
    ASSUME NEW M, NEW T, NEW F, NEW p, NEW r, NEW t, NEW va, NEW fr, NEW M2, NEW T2,
           PagedIn(M, T, F, p, r, t, va, fr, M2, T2), Marked(M)
    PROVE  Marked(M2)
<1>1. /\ p \in Procs /\ r \in M[p] /\ M2[p] = (M[p] \ {r}) \cup {t}
      /\ \A q \in Procs : q # p => M2[q] = M[q]
  BY PagedInFacts
<1>2. t.flags = r.flags /\ t.refcnt = r.refcnt
  BY DEF PagedIn, Alike
<1> QED BY <1>1, <1>2 DEF Marked, Shared

\* It keeps what has been handed down: those pages are loaded.
LEMMA PagedInHanded ==
    ASSUME NEW M, NEW T, NEW F, NEW p, NEW r, NEW t, NEW va, NEW fr, NEW M2, NEW T2,
           PagedIn(M, T, F, p, r, t, va, fr, M2, T2), Marked(M), Handed(M, T)
    PROVE  Handed(M2, T2)
<1> SUFFICES ASSUME NEW q \in Procs, NEW s \in M2[q], s.refcnt = 1
             PROVE  /\ \E u \in M2[First] : Alike(s, u)
                    /\ \A v \in Pages(s) : T2[q][v] # NULL /\ T2[q][v] = T2[First][v]
  BY DEF Handed
<1>1. /\ p \in Procs /\ r \in M[p] /\ va \in Pages(r) /\ T[p][va] = NULL
      /\ M2[p] = (M[p] \ {r}) \cup {t}
      /\ \A x \in Procs : x # p => M2[x] = M[x] /\ T2[x] = T[x]
      /\ \A v \in PageAddrs : T2[p][v] = IF v = va THEN fr ELSE T[p][v]
  BY PagedInFacts
<1>2. Alike(r, t) /\ t.refcnt = r.refcnt /\ First \in Procs
  BY WmapAssumption DEF PagedIn
<1>3. r.refcnt # 1
  BY <1>1 DEF Handed
<1>4. s \in M[q]
  BY <1>1, <1>2, <1>3
<1>5. \A v \in Pages(s) : T[q][v] # NULL /\ T[q][v] = T[First][v] /\ v \in PageAddrs
  BY <1>4, PagesIn DEF Handed
<1>6. \A v \in Pages(s) : T2[q][v] = T[q][v] /\ T2[First][v] = T[First][v]
  BY <1>1, <1>2, <1>5
<1>7. \E u \in M2[First] : Alike(s, u)
  <2>1. PICK u \in M[First] : Alike(s, u)
    BY <1>4 DEF Handed
  <2>2. Alike(s, r) => Alike(s, t)
    BY <1>2 DEF Alike
  <2> QED BY <1>1, <1>2, <2>1, <2>2
<1> QED BY <1>5, <1>6, <1>7

\* It counts the page it loads.
LEMMA PagedInCounted ==
    ASSUME NEW M, NEW T, NEW F, NEW p, NEW r, NEW t, NEW va, NEW fr, NEW M2, NEW T2,
           PagedIn(M, T, F, p, r, t, va, fr, M2, T2), Counted(M, T)
    PROVE  Counted(M2, T2)
<1>1. /\ p \in Procs /\ r \in M[p] /\ va \in PageAddrs /\ va \in Pages(r) /\ Pages(t) = Pages(r)
      /\ T[p][va] = NULL /\ fr # NULL
      /\ M2[p] = (M[p] \ {r}) \cup {t}
      /\ \A x \in Procs : x # p => M2[x] = M[x] /\ T2[x] = T[x]
      /\ \A v \in PageAddrs : T2[p][v] = IF v = va THEN fr ELSE T[p][v]
  BY PagedInFacts
<1>2. Layout(M, T) /\ t.n_loaded_pages = r.n_loaded_pages + 1
  BY DEF PagedIn
<1>3. t.n_loaded_pages = Cardinality(Loads(T2, p, t))
  <2>1. Pages(r) \in SUBSET PageAddrs
    BY PagesIn
  <2>2. Loads(T2, p, t) = Loads(T, p, r) \cup {va} /\ va \notin Loads(T, p, r)
    BY <1>1, <2>1 DEF Loads
  <2>3. IsFiniteSet(Loads(T, p, r))
    BY <2>1, PageFacts, FS_Subset DEF Loads
  <2>4. Cardinality(Loads(T2, p, t)) = Cardinality(Loads(T, p, r)) + 1
    BY <2>2, <2>3, FS_AddElement
  <2> QED BY <1>1, <1>2, <2>4 DEF Counted
<1>4. ASSUME NEW s \in M[p], s # r PROVE s.n_loaded_pages = Cardinality(Loads(T2, p, s))
  <2>1. va \notin Pages(s) /\ Pages(s) \in SUBSET PageAddrs
    BY <1>1, <1>2, <1>4, PagesIn DEF Layout
  <2>2. Loads(T2, p, s) = Loads(T, p, s)
    BY <1>1, <2>1 DEF Loads
  <2> QED BY <1>1, <2>2 DEF Counted
<1>5. ASSUME NEW v \in PageAddrs, T2[p][v] # NULL PROVE \E s \in M2[p] : v \in Pages(s)
  <2>1. CASE v = va
    BY <1>1, <2>1
  <2>2. CASE v # va
    <3>1. PICK s \in M[p] : v \in Pages(s)
      BY <1>1, <1>5, <2>2 DEF Counted
    <3> QED BY <1>1, <3>1
  <2> QED BY <2>1, <2>2
<1>6. ASSUME NEW q \in Procs, q # p
      PROVE  /\ \A s \in M2[q] : s.n_loaded_pages = Cardinality(Loads(T2, q, s))
             /\ \A v \in PageAddrs : T2[q][v] # NULL => \E s \in M2[q] : v \in Pages(s)
  <2>1. M2[q] = M[q] /\ T2[q] = T[q]
    BY <1>1, <1>6
  <2>2. \A s \in M[q] : Loads(T2, q, s) = Loads(T, q, s)
    BY <2>1 DEF Loads
  <2> QED BY <2>1, <2>2 DEF Counted
<1> QED BY <1>1, <1>3, <1>4, <1>5, <1>6 DEF Counted

\* The frame it takes from the free list gets one owner.
LEMMA PagedInFrames ==
    ASSUME NEW M, NEW T, NEW F, NEW p, NEW r, NEW t, NEW va, NEW fr, NEW M2, NEW T2,
           PagedIn(M, T, F, p, r, t, va, fr, M2, T2), Handed(M, T), Exclusive(M, T, F)
    PROVE  Exclusive(M2, T2, F \ {fr})
<1>1. /\ p \in Procs /\ r \in M[p] /\ va \in PageAddrs /\ va \in Pages(r) /\ Pages(t) = Pages(r)
      /\ T[p][va] = NULL /\ fr # NULL /\ fr \in F
      /\ M2[p] = (M[p] \ {r}) \cup {t}
      /\ \A x \in Procs : x # p => M2[x] = M[x] /\ T2[x] = T[x]
      /\ \A v \in PageAddrs : T2[p][v] = IF v = va THEN fr ELSE T[p][v]
  BY PagedInFacts
<1>2. r.refcnt = 0 /\ t.refcnt = 0
  <2>1. r.refcnt # 1
    BY <1>1 DEF Handed
  <2>2. r.refcnt \in {0, 1} /\ t.refcnt = r.refcnt
    BY <1>1, LayoutFacts, RegionFacts DEF PagedIn
  <2> QED BY <2>1, <2>2
<1> DEFINE S == {va}
<1>3. \A q \in Procs : \A v \in PageAddrs : q # p => (Owned(M2, T2, q, v) <=> Owned(M, T, q, v))
  BY <1>1 DEF Owned
<1>4. \A v \in PageAddrs : (\E s \in M2[p] : s.refcnt = 0 /\ v \in Pages(s))
                           <=> (\E s \in M[p] : s.refcnt = 0 /\ v \in Pages(s))
  BY <1>1, <1>2
<1>5. \A v \in PageAddrs : Owned(M2, T2, p, v) <=> Owned(M, T, p, v) \/ v \in S
  BY <1>1, <1>2, <1>4 DEF Owned
<1>6. \A q \in Procs : \A v \in PageAddrs : Owned(M, T, q, v) => T2[q][v] = T[q][v]
  BY <1>1 DEF Owned
<1>7. F \ {fr} = F \ {T2[p][v] : v \in S}
  BY <1>1
<1>8. (\A v \in S : T2[p][v] \in F) /\ (\A v, w \in S : T2[p][v] = T2[p][w] => v = w) /\ S \in SUBSET PageAddrs
  BY <1>1
<1>9. \A q \in Procs : \A v \in PageAddrs : Owned(M2, T2, q, v) <=> Owned(M, T, q, v) \/ (q = p /\ v \in S)
  BY <1>3, <1>5
<1> HIDE DEF S
<1> QED BY <1>1, <1>6, <1>7, <1>8, <1>9, FramesTaken

\* It maps no other page of a file.
LEMMA PagedInBacks ==
    ASSUME NEW M, NEW T, NEW F, NEW p, NEW r, NEW t, NEW va, NEW fr, NEW M2, NEW T2,
           PagedIn(M, T, F, p, r, t, va, fr, M2, T2)
    PROVE  \A q \in Procs : \A v \in PageAddrs : \A f \in Files : \A o \in Offsets :
              Backs(M2, q, v, f, o) <=> Backs(M, q, v, f, o)
<1>1. /\ p \in Procs /\ r \in M[p] /\ Pages(t) = Pages(r)
      /\ M2[p] = (M[p] \ {r}) \cup {t}
      /\ \A x \in Procs : x # p => M2[x] = M[x]
  BY PagedInFacts
<1>2. /\ t.refcnt = r.refcnt /\ (Shared(t) <=> Shared(r)) /\ (FileBacked(t) <=> FileBacked(r))
      /\ t.file = r.file /\ \A v : Offset(t, v) = Offset(r, v)
  BY AlikePages DEF PagedIn, Alike
<1> QED BY <1>1, <1>2 DEF Backs

\* It keeps to one own shared mapping per file.
LEMMA PagedInOneBack ==
    ASSUME NEW M, NEW T, NEW F, NEW p, NEW r, NEW t, NEW va, NEW fr, NEW M2, NEW T2,
           PagedIn(M, T, F, p, r, t, va, fr, M2, T2), OneBack(M)
    PROVE  OneBack(M2)
BY PagedInBacks DEF OneBack

\* x is what page va of r holds in the files d.
Read(r, va, d, x) == FileBacked(r) => \A o \in Offsets : Offset(r, va) = o => x = d[r.file][o]

\* The page it reads holds what was stored last.
LEMMA PagedInStored ==
    ASSUME NEW M, NEW T, NEW F, NEW p, NEW r, NEW t, NEW va, NEW fr, NEW M2, NEW T2,
           PagedIn(M, T, F, p, r, t, va, fr, M2, T2), Exclusive(M, T, F), OneBack(M),
           NEW mm, DOMAIN mm = Frames, NEW x, NEW d, NEW h, Stored(M, T, mm, d, h), Read(r, va, d, x)
    PROVE  Stored(M2, T2, [mm EXCEPT ![fr] = x], d, h)
<1> DEFINE m2 == [mm EXCEPT ![fr] = x]
<1>1. /\ p \in Procs /\ r \in M[p] /\ va \in PageAddrs /\ va \in Pages(r)
      /\ T[p][va] = NULL /\ fr # NULL /\ fr \in F
      /\ \A q \in Procs : q # p => T2[q] = T[q]
      /\ \A v \in PageAddrs : T2[p][v] = IF v = va THEN fr ELSE T[p][v]
  BY PagedInFacts
<1>2. fr \in Frames /\ Layout(M, T)
  BY DEF PagedIn
<1>3. m2[fr] = x /\ \A f \in Frames : f # fr => m2[f] = mm[f]
  BY <1>2
<1> HIDE DEF m2
<1>4. ASSUME NEW q \in Procs, NEW v \in PageAddrs, NEW f \in Files, NEW o \in Offsets,
             Backs(M, q, v, f, o), T2[q][v] # NULL
      PROVE  m2[T2[q][v]] = h[f][o]
  <2>1. CASE q = p /\ v = va
    <3>1. PICK s \in M[p] : /\ FileBacked(s) /\ s.file = f /\ va \in Pages(s) /\ Offset(s, va) = o
      BY <1>4, <2>1 DEF Backs
    <3>2. s = r
      BY <1>1, <1>2, <3>1 DEF Layout
    <3>3. x = d[f][o]
      BY <3>1, <3>2 DEF Read
    <3>4. \A y \in Procs : \A w \in PageAddrs : Backs(M, y, w, f, o) => T[y][w] = NULL
      BY <1>1, <1>4, <2>1 DEF OneBack
    <3>5. d[f][o] = h[f][o]
      BY <3>4 DEF Stored
    <3> QED BY <1>1, <1>3, <2>1, <3>3, <3>5
  <2>2. CASE ~(q = p /\ v = va)
    <3>1. T2[q][v] = T[q][v]
      BY <1>1, <2>2
    <3>2. Owned(M, T, q, v)
      BY <1>4, <3>1, BacksOwned
    <3>3. T[q][v] # fr /\ T[q][v] \in Frames
      BY <1>1, <1>2, <1>4, <3>1, <3>2 DEF Exclusive, Layout, PageTables
    <3>4. mm[T[q][v]] = h[f][o]
      BY <1>4, <3>1 DEF Stored
    <3> QED BY <1>3, <3>1, <3>3, <3>4
  <2> QED BY <2>1, <2>2
<1>5. ASSUME NEW f \in Files, NEW o \in Offsets,
             \A q \in Procs : \A v \in PageAddrs : Backs(M, q, v, f, o) => T2[q][v] = NULL
      PROVE  d[f][o] = h[f][o]
  <2>1. \A q \in Procs : \A v \in PageAddrs : Backs(M, q, v, f, o) => T[q][v] = NULL
    BY <1>1, <1>5
  <2> QED BY <2>1 DEF Stored
<1>6. \A q \in Procs : \A v \in PageAddrs : \A f \in Files : \A o \in Offsets :
              Backs(M2, q, v, f, o) <=> Backs(M, q, v, f, o)
  BY PagedInBacks
<1> QED BY <1>4, <1>5, <1>6 DEF Stored, m2

-----------------------------------------------------------------------------
(* exit: p loses all its regions; First exits last *)

Gone(M, T, p, M2, T2) ==
    /\ Layout(M, T) /\ p \in Procs /\ M2 = [M EXCEPT ![p] = {}] /\ T2 \in PageTables
    /\ \A q \in Procs : q # p => T2[q] = T[q]
    /\ \A v \in PageAddrs : T2[p][v] = NULL
    /\ p = First => \A q \in Procs : q # p => M[q] = {}

\* What exit changes.
LEMMA GoneAt ==
    ASSUME NEW M, NEW T, NEW p, NEW M2, NEW T2, Gone(M, T, p, M2, T2)
    PROVE  /\ p \in Procs /\ M2[p] = {}
           /\ \A q \in Procs : q # p => M2[q] = M[q] /\ T2[q] = T[q]
           /\ \A v \in PageAddrs : T2[p][v] = NULL
BY DEF Gone, Layout, RegionSets

\* It keeps the marks.
LEMMA GoneMarked ==
    ASSUME NEW M, NEW T, NEW p, NEW M2, NEW T2, Gone(M, T, p, M2, T2), Marked(M)
    PROVE  Marked(M2)
BY GoneAt DEF Marked

\* It keeps what has been handed down: First exits last, by the rule
\* parent_last.
LEMMA GoneHanded ==
    ASSUME NEW M, NEW T, NEW p, NEW M2, NEW T2, Gone(M, T, p, M2, T2), Handed(M, T)
    PROVE  Handed(M2, T2)
<1>1. /\ M2[p] = {} /\ \A q \in Procs : q # p => M2[q] = M[q] /\ T2[q] = T[q]
  BY GoneAt
<1>2. First \in Procs /\ (p = First => \A q \in Procs : q # p => M[q] = {})
  BY WmapAssumption DEF Gone
<1> QED BY <1>1, <1>2 DEF Handed

\* It keeps the counts.
LEMMA GoneCounted ==
    ASSUME NEW M, NEW T, NEW p, NEW M2, NEW T2, Gone(M, T, p, M2, T2), Counted(M, T)
    PROVE  Counted(M2, T2)
<1>1. /\ M2[p] = {} /\ \A q \in Procs : q # p => M2[q] = M[q] /\ T2[q] = T[q]
      /\ \A v \in PageAddrs : T2[p][v] = NULL
  BY GoneAt
<1>2. \A q \in Procs : q # p => \A s \in M[q] : Loads(T2, q, s) = Loads(T, q, s)
  BY <1>1 DEF Loads
<1> QED BY <1>1, <1>2 DEF Counted

\* It frees the frames that p owns, and no others.
LEMMA GoneFrames ==
    ASSUME NEW M, NEW T, NEW p, NEW M2, NEW T2, Gone(M, T, p, M2, T2), NEW F, Exclusive(M, T, F),
           NEW S \in SUBSET PageAddrs, \A v \in PageAddrs : v \in S <=> \E r \in M[p] : r.refcnt = 0 /\ v \in Pages(r),
           NEW F2, F2 = F \cup {T[p][v] : v \in {w \in S : T[p][w] # NULL}}
    PROVE  Exclusive(M2, T2, F2)
<1>1. /\ p \in Procs /\ M2[p] = {} /\ \A q \in Procs : q # p => M2[q] = M[q] /\ T2[q] = T[q]
  BY GoneAt
<1>2. \A v \in S : T[p][v] # NULL => Owned(M, T, p, v)
  BY DEF Owned
<1>3. \A q \in Procs : \A v \in PageAddrs :
          Owned(M2, T2, q, v) <=> Owned(M, T, q, v) /\ ~(q = p /\ v \in S)
  BY <1>1 DEF Owned
<1>4. \A q \in Procs : \A v \in PageAddrs : Owned(M2, T2, q, v) => T2[q][v] = T[q][v]
  BY <1>1 DEF Owned
<1> QED BY <1>1, <1>2, <1>3, <1>4, FramesFreed

\* It keeps to one own shared mapping per file.
LEMMA GoneOneBack ==
    ASSUME NEW M, NEW T, NEW p, NEW M2, NEW T2, Gone(M, T, p, M2, T2), OneBack(M)
    PROVE  OneBack(M2)
BY GoneAt DEF OneBack, Backs

\* What was stored in the pages that go is written to the file.
LEMMA GoneStored ==
    ASSUME NEW M, NEW T, NEW p, NEW M2, NEW T2, Gone(M, T, p, M2, T2), NEW F, Exclusive(M, T, F),
           NEW S \in SUBSET PageAddrs, \A v \in PageAddrs : v \in S <=> \E r \in M[p] : r.refcnt = 0 /\ v \in Pages(r),
           NEW mm, NEW m2, Scrubbed(T, p, S, mm, m2), NEW d, NEW e, NEW h, Stored(M, T, mm, d, h),
           \A f \in Files : \A o \in Offsets :
              IF \E v \in PageAddrs : Backs(M, p, v, f, o) /\ T[p][v] # NULL THEN e[f][o] = h[f][o]
              ELSE e[f][o] = d[f][o]
    PROVE  Stored(M2, T2, m2, e, h)
<1>1. /\ p \in Procs /\ M2[p] = {} /\ \A q \in Procs : q # p => M2[q] = M[q] /\ T2[q] = T[q]
  BY GoneAt
<1>2. \A v \in S : T[p][v] # NULL => Owned(M, T, p, v)
  BY DEF Owned
<1>3. Layout(M, T)
  BY DEF Gone
<1>4. \A q \in Procs : \A v \in PageAddrs : \A f \in Files : \A o \in Offsets :
          Backs(M2, q, v, f, o) <=> q # p /\ Backs(M, q, v, f, o)
  BY <1>1 DEF Backs
<1>5. ASSUME NEW q \in Procs, NEW v \in PageAddrs, NEW f \in Files, NEW o \in Offsets,
             Backs(M2, q, v, f, o), T2[q][v] # NULL
      PROVE  m2[T2[q][v]] = h[f][o]
  <2>1. q # p /\ Backs(M, q, v, f, o) /\ T2[q][v] = T[q][v]
    BY <1>1, <1>4, <1>5
  <2>2. Owned(M, T, q, v) /\ mm[T[q][v]] = h[f][o]
    BY <1>5, <2>1, BacksOwned DEF Stored
  <2>3. m2[T[q][v]] = mm[T[q][v]]
    BY <1>1, <1>2, <1>3, <2>1, <2>2, ScrubbedAt
  <2> QED BY <2>1, <2>2, <2>3
<1>6. ASSUME NEW f \in Files, NEW o \in Offsets,
             \A q \in Procs : \A v \in PageAddrs : Backs(M2, q, v, f, o) => T2[q][v] = NULL
      PROVE  e[f][o] = h[f][o]
  <2>1. \A q \in Procs : \A v \in PageAddrs : q # p /\ Backs(M, q, v, f, o) => T[q][v] = NULL
    BY <1>1, <1>4, <1>6
  <2>2. CASE \E v \in PageAddrs : Backs(M, p, v, f, o) /\ T[p][v] # NULL
    BY <2>2
  <2>3. CASE ~\E v \in PageAddrs : Backs(M, p, v, f, o) /\ T[p][v] # NULL
    <3>1. \A q \in Procs : \A v \in PageAddrs : Backs(M, q, v, f, o) => T[q][v] = NULL
      BY <2>1, <2>3
    <3> QED BY <2>3, <3>1 DEF Stored
  <2> QED BY <2>2, <2>3
<1> QED BY <1>5, <1>6 DEF Stored

-----------------------------------------------------------------------------
(* fork: q gets heirs C of all regions of First, whose pages are all loaded, *)
(* with copies of the private pages N                                        *)

Heir(T, r, c) == /\ Alike(c, r) /\ c.refcnt = (IF Shared(r) THEN 1 ELSE 0)
                 /\ c.n_loaded_pages = Cardinality(Loads(T, First, r))

Forked(M, T, F, q, C, N, M2, T2) ==
    /\ Layout(M, T) /\ q \in Procs /\ q # First /\ M[q] = {} /\ F \in SUBSET Frames
    /\ M2 = [M EXCEPT ![q] = C] /\ T2 \in PageTables /\ \A x \in Procs : x # q => T2[x] = T[x]
    /\ \A c \in C : \E r \in M[First] : Heir(T, r, c)
    /\ \A r \in M[First] : \E c \in C : Heir(T, r, c)
    /\ N \in SUBSET PageAddrs
    /\ \A v \in PageAddrs : v \in N <=> \E r \in M[First] : ~Shared(r) /\ v \in Pages(r)
    /\ \A r \in M[First] : \A v \in Pages(r) :
          T[First][v] # NULL /\ (Shared(r) => T2[q][v] = T[First][v])
    /\ \A v \in N : T2[q][v] \in F
    /\ \A v, w \in N : T2[q][v] = T2[q][w] => v = w
    /\ \A v \in PageAddrs : T2[q][v] # NULL => \E r \in M[First] : v \in Pages(r)

\* What fork changes.
LEMMA ForkedAt ==
    ASSUME NEW M, NEW T, NEW F, NEW q, NEW C, NEW N, NEW M2, NEW T2, Forked(M, T, F, q, C, N, M2, T2)
    PROVE  /\ q \in Procs /\ First \in Procs /\ q # First /\ M[q] = {} /\ M2[q] = C
           /\ \A x \in Procs : x # q => M2[x] = M[x] /\ T2[x] = T[x]
BY WmapAssumption DEF Forked, Layout, RegionSets

\* An heir has the pages and the kind of what it is an heir of.
LEMMA HeirFacts ==
    ASSUME NEW T, NEW r, NEW c, Heir(T, r, c)
    PROVE  /\ Alike(c, r) /\ Pages(c) = Pages(r) /\ (Shared(c) <=> Shared(r)) /\ c.flags = r.flags
           /\ c.refcnt = (IF Shared(r) THEN 1 ELSE 0)
<1>1. Alike(c, r) /\ c.refcnt = (IF Shared(r) THEN 1 ELSE 0)
  BY DEF Heir
<1> QED BY <1>1, AlikePages DEF Alike

\* fork keeps the marks: refcnt is 1 in the shared regions of a child.
LEMMA ForkedMarked ==
    ASSUME NEW M, NEW T, NEW F, NEW q, NEW C, NEW N, NEW M2, NEW T2, Forked(M, T, F, q, C, N, M2, T2), Marked(M)
    PROVE  Marked(M2)
<1>1. /\ q \in Procs /\ First \in Procs /\ q # First /\ M2[q] = C /\ \A x \in Procs : x # q => M2[x] = M[x]
  BY ForkedAt
<1>2. ASSUME NEW c \in C PROVE Shared(c) # ("PRIVATE" \in c.flags) /\ (c.refcnt = 1 => Shared(c))
  <2>1. PICK r \in M[First] : Heir(T, r, c)
    BY DEF Forked
  <2>2. (Shared(c) <=> Shared(r)) /\ c.flags = r.flags /\ c.refcnt = (IF Shared(r) THEN 1 ELSE 0)
    BY <2>1, HeirFacts
  <2> QED BY <1>1, <2>1, <2>2 DEF Marked, Shared
<1> QED BY <1>1, <1>2 DEF Marked

\* It hands the shared regions down, loaded, with First's frames.
LEMMA ForkedHanded ==
    ASSUME NEW M, NEW T, NEW F, NEW q, NEW C, NEW N, NEW M2, NEW T2, Forked(M, T, F, q, C, N, M2, T2), Handed(M, T)
    PROVE  Handed(M2, T2)
<1>1. /\ q \in Procs /\ First \in Procs /\ q # First /\ M2[q] = C
      /\ \A x \in Procs : x # q => M2[x] = M[x] /\ T2[x] = T[x]
  BY ForkedAt
<1>2. ASSUME NEW c \in C, c.refcnt = 1
      PROVE  /\ \E s \in M2[First] : Alike(c, s)
             /\ \A va \in Pages(c) : T2[q][va] # NULL /\ T2[q][va] = T2[First][va]
  <2>1. PICK r \in M[First] : Heir(T, r, c)
    BY DEF Forked
  <2>2. Alike(c, r) /\ Pages(c) = Pages(r) /\ c.refcnt = (IF Shared(r) THEN 1 ELSE 0)
    BY <2>1, HeirFacts
  <2>3. Shared(r)
    BY <1>2, <2>2
  <2>4. \A va \in Pages(r) : T[First][va] # NULL /\ T2[q][va] = T[First][va]
    BY <2>1, <2>3 DEF Forked
  <2> QED BY <1>1, <2>1, <2>2, <2>4
<1>3. ASSUME NEW x \in Procs, x # q, NEW s \in M2[x], s.refcnt = 1
      PROVE  /\ \E t \in M2[First] : Alike(s, t)
             /\ \A va \in Pages(s) : T2[x][va] # NULL /\ T2[x][va] = T2[First][va]
  <2>1. M2[x] = M[x] /\ T2[x] = T[x] /\ M2[First] = M[First] /\ T2[First] = T[First]
    BY <1>1, <1>3
  <2> QED BY <1>3, <2>1 DEF Handed
<1> QED BY <1>1, <1>2, <1>3 DEF Handed

\* All pages of a child are loaded, by the rule touched.
LEMMA ForkedPages ==
    ASSUME NEW M, NEW T, NEW F, NEW q, NEW C, NEW N, NEW M2, NEW T2, Forked(M, T, F, q, C, N, M2, T2),
           NEW r \in M[First], NEW v \in Pages(r)
    PROVE  T[First][v] # NULL /\ T2[q][v] # NULL
<1>1. v \in PageAddrs
  BY PagesIn
<1>2. T[First][v] # NULL /\ (Shared(r) => T2[q][v] = T[First][v])
  BY DEF Forked
<1>3. ~Shared(r) => T2[q][v] \in Frames
  BY <1>1 DEF Forked
<1> QED BY <1>2, <1>3, WmapAssumption

\* It sets the counts of the child.
LEMMA ForkedCounted ==
    ASSUME NEW M, NEW T, NEW F, NEW q, NEW C, NEW N, NEW M2, NEW T2, Forked(M, T, F, q, C, N, M2, T2), Counted(M, T)
    PROVE  Counted(M2, T2)
<1>1. /\ q \in Procs /\ First \in Procs /\ q # First /\ M2[q] = C
      /\ \A x \in Procs : x # q => M2[x] = M[x] /\ T2[x] = T[x]
  BY ForkedAt
<1>2. ASSUME NEW c \in C PROVE c.n_loaded_pages = Cardinality(Loads(T2, q, c))
  <2>1. PICK r \in M[First] : Heir(T, r, c)
    BY DEF Forked
  <2>2. Pages(c) = Pages(r)
    BY <2>1, HeirFacts
  <2>3. \A v \in Pages(r) : T[First][v] # NULL /\ T2[q][v] # NULL
    BY <2>1, ForkedPages
  <2>4. Loads(T2, q, c) = Loads(T, First, r)
    BY <2>2, <2>3 DEF Loads
  <2> QED BY <2>1, <2>4 DEF Heir
<1>3. ASSUME NEW v \in PageAddrs, T2[q][v] # NULL PROVE \E c \in C : v \in Pages(c)
  <2>1. PICK r \in M[First] : v \in Pages(r)
    BY <1>3 DEF Forked
  <2>2. PICK c \in C : Heir(T, r, c)
    BY <2>1 DEF Forked
  <2> QED BY <2>1, <2>2, HeirFacts
<1>4. ASSUME NEW x \in Procs, x # q
      PROVE  /\ \A s \in M2[x] : s.n_loaded_pages = Cardinality(Loads(T2, x, s))
             /\ \A v \in PageAddrs : T2[x][v] # NULL => \E s \in M2[x] : v \in Pages(s)
  <2>1. M2[x] = M[x] /\ T2[x] = T[x]
    BY <1>1, <1>4
  <2>2. \A s \in M[x] : Loads(T2, x, s) = Loads(T, x, s)
    BY <2>1 DEF Loads
  <2> QED BY <2>1, <2>2 DEF Counted
<1> QED BY <1>1, <1>2, <1>3, <1>4 DEF Counted

\* The frames of the copies get one owner; the shared ones keep theirs.
LEMMA ForkedFrames ==
    ASSUME NEW M, NEW T, NEW F, NEW q, NEW C, NEW N, NEW M2, NEW T2, Forked(M, T, F, q, C, N, M2, T2),
           Exclusive(M, T, F)
    PROVE  Exclusive(M2, T2, F \ {T2[q][v] : v \in N})
<1>1. /\ q \in Procs /\ First \in Procs /\ q # First /\ M[q] = {} /\ M2[q] = C
      /\ \A x \in Procs : x # q => M2[x] = M[x] /\ T2[x] = T[x]
  BY ForkedAt
<1>2. N \in SUBSET PageAddrs /\ (\A v \in N : T2[q][v] \in F) /\ \A v, w \in N : T2[q][v] = T2[q][w] => v = w
  BY DEF Forked
<1>3. ASSUME NEW v \in PageAddrs PROVE Owned(M2, T2, q, v) <=> v \in N
  <2>1. ASSUME v \in N PROVE Owned(M2, T2, q, v)
    <3>1. PICK r \in M[First] : ~Shared(r) /\ v \in Pages(r)
      BY <2>1 DEF Forked
    <3>2. PICK c \in C : Heir(T, r, c)
      BY <3>1 DEF Forked
    <3>3. c.refcnt = 0 /\ v \in Pages(c) /\ T2[q][v] # NULL
      BY <3>1, <3>2, HeirFacts, ForkedPages
    <3> QED BY <1>1, <3>3 DEF Owned
  <2>2. ASSUME Owned(M2, T2, q, v) PROVE v \in N
    <3>1. PICK c \in C : c.refcnt = 0 /\ v \in Pages(c)
      BY <1>1, <2>2 DEF Owned
    <3>2. PICK r \in M[First] : Heir(T, r, c)
      BY <3>1 DEF Forked
    <3>3. ~Shared(r) /\ v \in Pages(r)
      BY <3>1, <3>2, HeirFacts
    <3> QED BY <3>3 DEF Forked
  <2> QED BY <2>1, <2>2
<1>4. \A x \in Procs : \A v \in PageAddrs : Owned(M2, T2, x, v) <=> Owned(M, T, x, v) \/ (x = q /\ v \in N)
  BY <1>1, <1>3 DEF Owned
<1>5. \A x \in Procs : \A v \in PageAddrs : Owned(M, T, x, v) => T2[x][v] = T[x][v]
  BY <1>1 DEF Owned
<1> QED BY <1>1, <1>2, <1>4, <1>5, FramesTaken

\* It adds no own shared mapping.
LEMMA ForkedBacks ==
    ASSUME NEW M, NEW T, NEW F, NEW q, NEW C, NEW N, NEW M2, NEW T2, Forked(M, T, F, q, C, N, M2, T2)
    PROVE  \A x \in Procs : \A v \in PageAddrs : \A f \in Files : \A o \in Offsets :
              Backs(M2, x, v, f, o) <=> x # q /\ Backs(M, x, v, f, o)
<1>1. /\ M2[q] = C /\ \A x \in Procs : x # q => M2[x] = M[x]
  BY ForkedAt
<1>2. \A c \in C : ~(c.refcnt = 0 /\ Shared(c))
  <2>1. TAKE c \in C
  <2>2. PICK r \in M[First] : Heir(T, r, c)
    BY DEF Forked
  <2> QED BY <2>2, HeirFacts
<1> QED BY <1>1, <1>2 DEF Backs

\* It keeps to one own shared mapping per file.
LEMMA ForkedOneBack ==
    ASSUME NEW M, NEW T, NEW F, NEW q, NEW C, NEW N, NEW M2, NEW T2, Forked(M, T, F, q, C, N, M2, T2), OneBack(M)
    PROVE  OneBack(M2)
BY ForkedBacks DEF OneBack

\* Copying to free frames hides nothing that was stored.
LEMMA ForkedStored ==
    ASSUME NEW M, NEW T, NEW F, NEW q, NEW C, NEW N, NEW M2, NEW T2, Forked(M, T, F, q, C, N, M2, T2),
           Exclusive(M, T, F), NEW mm, NEW m2, \A f \in Frames \ F : m2[f] = mm[f],
           NEW d, NEW h, Stored(M, T, mm, d, h)
    PROVE  Stored(M2, T2, m2, d, h)
<1>1. /\ q \in Procs /\ M[q] = {} /\ \A x \in Procs : x # q => T2[x] = T[x]
  BY ForkedAt
<1>2. Layout(M, T)
  BY DEF Forked
<1>3. ASSUME NEW x \in Procs, NEW v \in PageAddrs, NEW f \in Files, NEW o \in Offsets,
             Backs(M2, x, v, f, o), T2[x][v] # NULL
      PROVE  m2[T2[x][v]] = h[f][o]
  <2>1. x # q /\ Backs(M, x, v, f, o) /\ T2[x][v] = T[x][v]
    BY <1>1, <1>3, ForkedBacks
  <2>2. Owned(M, T, x, v) /\ mm[T[x][v]] = h[f][o]
    BY <1>3, <2>1, BacksOwned DEF Stored
  <2>3. T[x][v] \in Frames \ F
    BY <1>2, <1>3, <2>1, <2>2 DEF Exclusive, Layout, PageTables
  <2> QED BY <2>1, <2>2, <2>3
<1>4. ASSUME NEW f \in Files, NEW o \in Offsets,
             \A x \in Procs : \A v \in PageAddrs : Backs(M2, x, v, f, o) => T2[x][v] = NULL
      PROVE  d[f][o] = h[f][o]
  <2>1. \A v \in PageAddrs : ~Backs(M, q, v, f, o)
    BY <1>1 DEF Backs
  <2>2. \A x \in Procs : \A v \in PageAddrs : Backs(M, x, v, f, o) => T[x][v] = NULL
    BY <1>1, <1>4, <2>1, ForkedBacks
  <2> QED BY <2>2 DEF Stored
<1> QED BY <1>3, <1>4 DEF Stored

-----------------------------------------------------------------------------
(* A store to page va of p *)

\* Every loaded page has an owner, p or First, in a region like p's.
LEMMA HasOwner ==
    ASSUME NEW M, NEW T, Layout(M, T), Marked(M), Handed(M, T), Counted(M, T),
           NEW p \in Procs, NEW va \in PageAddrs, T[p][va] # NULL
    PROVE  \E x \in {p, First} : \E r \in M[p], s \in M[x] :
              /\ va \in Pages(r) /\ va \in Pages(s) /\ Alike(r, s) /\ s.refcnt = 0
              /\ T[x][va] = T[p][va] /\ Owned(M, T, x, va) /\ (x # p => Shared(r))
<1>1. First \in Procs
  BY WmapAssumption
<1>2. PICK r \in M[p] : va \in Pages(r)
  BY DEF Counted
<1>3. r.refcnt \in {0, 1}
  BY LayoutFacts, RegionFacts
<1>4. CASE r.refcnt = 0
  <2>1. Alike(r, r)
    BY DEF Alike
  <2>2. Owned(M, T, p, va)
    BY <1>2, <1>4 DEF Owned
  <2> QED BY <1>2, <1>4, <2>1, <2>2
<1>5. CASE r.refcnt = 1
  <2>1. PICK s \in M[First] : Alike(r, s)
    BY <1>5 DEF Handed
  <2>2. va \in Pages(s) /\ T[First][va] = T[p][va] /\ Shared(r)
    BY <1>2, <1>5, <2>1, AlikePages DEF Handed, Marked
  <2>3. s.refcnt = 0
    <3>1. s.refcnt \in {0, 1}
      BY <1>1, LayoutFacts, RegionFacts
    <3> QED BY <1>1, <3>1 DEF Marked
  <2>4. Owned(M, T, First, va)
    BY <2>2, <2>3 DEF Owned
  <2> QED BY <1>2, <2>1, <2>2, <2>3, <2>4
<1> QED BY <1>3, <1>4, <1>5

\* The value stored last, after a store of v.
Noted(M, p, va, v, h, h2) == \A f \in Files : \A o \in Offsets : h2[f][o] =
    IF \E r \in M[p] : va \in Pages(r) /\ Shared(r) /\ FileBacked(r) /\ r.file = f /\ Offset(r, va) = o
    THEN v ELSE h[f][o]

\* A store is what was stored last, in the one frame of its page.
LEMMA PutStored ==
    ASSUME NEW M, NEW T, Layout(M, T), Marked(M), Handed(M, T), Counted(M, T), NEW F, Exclusive(M, T, F), OneBack(M),
           NEW p \in Procs, NEW va \in PageAddrs, T[p][va] # NULL,
           NEW mm, DOMAIN mm = Frames, NEW v, NEW d, NEW h, NEW h2, Stored(M, T, mm, d, h), Noted(M, p, va, v, h, h2)
    PROVE  Stored(M, T, [mm EXCEPT ![T[p][va]] = v], d, h2)
<1> DEFINE fr == T[p][va]
           m2 == [mm EXCEPT ![fr] = v]
<1>0. PICK x \in {p, First} : \E r \in M[p], s \in M[x] :
              /\ va \in Pages(r) /\ va \in Pages(s) /\ Alike(r, s) /\ s.refcnt = 0
              /\ T[x][va] = fr /\ Owned(M, T, x, va)
  BY HasOwner
<1>1. PICK r \in M[p], s \in M[x] :
              /\ va \in Pages(r) /\ va \in Pages(s) /\ Alike(r, s) /\ s.refcnt = 0
              /\ T[x][va] = fr /\ Owned(M, T, x, va)
  BY <1>0
<1>2. x \in Procs
  BY WmapAssumption
<1>3. fr \in Frames
  BY DEF Layout, PageTables
<1>4. m2[fr] = v /\ \A f \in Frames : f # fr => m2[f] = mm[f]
  BY <1>3
<1>5. ASSUME NEW f \in Files, NEW o \in Offsets
      PROVE  /\ Backs(M, x, va, f, o) => h2[f][o] = v
             /\ ~Backs(M, x, va, f, o) => h2[f][o] = h[f][o]
  <2>1. /\ (Shared(s) <=> Shared(r)) /\ (FileBacked(s) <=> FileBacked(r)) /\ s.file = r.file
        /\ Offset(s, va) = Offset(r, va)
    BY <1>1, AlikePages DEF Alike
  <2>2. \A t \in M[p] : va \in Pages(t) => t = r
    BY <1>1 DEF Layout
  <2>3. \A t \in M[x] : va \in Pages(t) => t = s
    BY <1>1, <1>2 DEF Layout
  <2>4. Backs(M, x, va, f, o) <=> Shared(s) /\ FileBacked(s) /\ s.file = f /\ Offset(s, va) = o
    BY <1>1, <2>3 DEF Backs
  <2>5. (\E t \in M[p] : va \in Pages(t) /\ Shared(t) /\ FileBacked(t) /\ t.file = f /\ Offset(t, va) = o)
        <=> Shared(r) /\ FileBacked(r) /\ r.file = f /\ Offset(r, va) = o
    BY <1>1, <2>2
  <2> QED BY <2>1, <2>4, <2>5 DEF Noted
<1> HIDE DEF m2
<1>6. ASSUME NEW q \in Procs, NEW w \in PageAddrs, NEW f \in Files, NEW o \in Offsets,
             Backs(M, q, w, f, o), T[q][w] # NULL
      PROVE  m2[T[q][w]] = h2[f][o]
  <2>1. Owned(M, T, q, w) /\ mm[T[q][w]] = h[f][o]
    BY <1>6, BacksOwned DEF Stored
  <2>2. CASE T[q][w] = fr
    <3>1. q = x /\ w = va
      BY <1>1, <1>2, <2>1, <2>2 DEF Exclusive
    <3> QED BY <1>4, <1>5, <1>6, <2>2, <3>1
  <2>3. CASE T[q][w] # fr
    <3>1. ~Backs(M, x, va, f, o)
      BY <1>1, <1>2, <1>6, <2>3 DEF OneBack
    <3>2. T[q][w] \in Frames
      BY <1>6 DEF Layout, PageTables
    <3> QED BY <1>4, <1>5, <2>1, <2>3, <3>1, <3>2
  <2> QED BY <2>2, <2>3
<1>7. ASSUME NEW f \in Files, NEW o \in Offsets,
             \A q \in Procs : \A w \in PageAddrs : Backs(M, q, w, f, o) => T[q][w] = NULL
      PROVE  d[f][o] = h2[f][o]
  <2>1. ~Backs(M, x, va, f, o)
    BY <1>1, <1>2, <1>7
  <2> QED BY <1>5, <1>7, <2>1 DEF Stored
<1> QED BY <1>6, <1>7 DEF Stored, m2

-----------------------------------------------------------------------------
(* What the actions do to regions and page tables *)

\* The regions of a list after a splice.
LEMMA SpliceElems ==
    ASSUME NEW m \in Regions, NEW l \in Regions, NEW i \in 1..(Len(m) + 1), NEW k \in i..(Len(m) + 1)
    PROVE  Elems(Splice(m, i, l, k)) = {m[j] : j \in {x \in DOMAIN m : x < i \/ x >= k}} \cup Elems(l)
<1> DEFINE s == Splice(m, i, l, k)
           n == Len(m)
           c == Len(l)
           D == {x \in DOMAIN m : x < i \/ x >= k}
<1>1. m \in Seq(Region) /\ l \in Seq(Region)
  BY DEF Regions
<1>2. n \in Nat /\ c \in Nat /\ DOMAIN m = 1..n /\ DOMAIN l = 1..c /\ i \in Int /\ k \in Int
      /\ 1 <= i /\ i <= k /\ k <= n + 1
  BY ListFacts
<1>3. /\ s \in Seq(Region) /\ Len(s) = (i - 1) + c + (n - k + 1)
      /\ \A j \in 1..(i - 1) : s[j] = m[j]
      /\ \A j \in 1..c : s[i - 1 + j] = l[j]
      /\ \A j \in k..n : s[i - 1 + c + (j - k + 1)] = m[j]
  <2>1. Spliced(Region, m, i, l, k, s)
    BY <1>1, SpliceAt
  <2> QED BY <2>1 DEF Spliced
<1>4. ASSUME NEW x \in DOMAIN s
      PROVE  \/ x \in 1..(i - 1) /\ x \in DOMAIN m /\ s[x] = m[x]
             \/ \E j \in DOMAIN l : x = i - 1 + j /\ s[x] = l[j]
             \/ \E j \in k..Len(m) : j \in DOMAIN m /\ x = i - 1 + Len(l) + (j - k + 1) /\ s[x] = m[j]
  <2>1. CameFrom(m, i, l, k, s, x)
    BY <1>1, SpliceFrom
  <2> QED BY <2>1 DEF CameFrom
<1>5. DOMAIN s = 1..((i - 1) + c + (n - k + 1))
  BY <1>3
<1> HIDE DEF s, n, c
<1>6. \A x \in DOMAIN s : (\E j \in D : s[x] = m[j]) \/ (\E j \in DOMAIN l : s[x] = l[j])
  <2>1. TAKE x \in DOMAIN s
  <2>2. CASE x \in 1..(i - 1) /\ x \in DOMAIN m /\ s[x] = m[x]
    BY <1>2, <2>2
  <2>3. CASE \E j \in DOMAIN l : x = i - 1 + j /\ s[x] = l[j]
    BY <2>3
  <2>4. CASE \E j \in k..n : j \in DOMAIN m /\ x = i - 1 + c + (j - k + 1) /\ s[x] = m[j]
    BY <1>2, <2>4
  <2> QED BY <1>4, <2>2, <2>3, <2>4 DEF n, c
<1>7. \A j \in D : \E x \in DOMAIN s : s[x] = m[j]
  <2>1. TAKE j \in D
  <2>2. CASE j < i
    <3>1. j \in 1..(i - 1) /\ j \in DOMAIN s
      BY <1>2, <1>5, <2>2
    <3> QED BY <1>3, <3>1
  <2>3. CASE j >= k
    <3>1. j \in k..n /\ i - 1 + c + (j - k + 1) \in DOMAIN s
      BY <1>2, <1>5, <2>3
    <3> QED BY <1>3, <3>1
  <2> QED BY <2>2, <2>3
<1>8. \A j \in DOMAIN l : \E x \in DOMAIN s : s[x] = l[j]
  <2>1. TAKE j \in DOMAIN l
  <2>2. i - 1 + j \in DOMAIN s /\ j \in 1..c
    BY <1>2, <1>5
  <2> QED BY <1>3, <2>2
<1>9. Elems(s) = {m[j] : j \in D} \cup Elems(l)
  BY <1>6, <1>7, <1>8 DEF Elems
<1> QED BY <1>9 DEF s

\* The regions of a process are those of its list.
LEMMA RegsAt == \A p \in Procs : Regs[p] = {maps[p][i] : i \in DOMAIN maps[p]}
BY DEF Regs, Elems

\* When one list changes.
LEMMA RegsChange ==
    ASSUME TypeOK, NEW p \in Procs, NEW s, maps' = [maps EXCEPT ![p] = s]
    PROVE  /\ Regs' = [Regs EXCEPT ![p] = Elems(s)] /\ Regs'[p] = Elems(s)
           /\ \A q \in Procs : q # p => Regs'[q] = Regs[q]
BY DEF TypeOK, Regs

\* A process that does not run has none.
LEMMA RegsEmpty ==
    ASSUME TypeOK, NEW p \in Procs, p \notin Running
    PROVE  Regs[p] = {}
<1>1. maps[p] = <<>>
  BY DEF TypeOK
<1> QED BY <1>1, RegsAt

\* Regions at different places of a list have no page in common.
LEMMA PlacesApart ==
    ASSUME NEW m \in Regions, RangeOK(m), NEW i \in DOMAIN m, NEW j \in DOMAIN m, i # j, NEW va,
           va \in Pages(m[i]), va \in Pages(m[j])
    PROVE  FALSE
<1>1. m[i] \in Region /\ m[j] \in Region /\ Apart(m[i], m[j])
  BY ListFacts DEF RangeOK
<1>2. m[i].addr \in Int /\ m[j].addr \in Int /\ EndOf(m[i]) \in Int /\ EndOf(m[j]) \in Int /\ va \in Int
  BY <1>1, RegionFacts, PagesIn, PageFacts
<1>3. m[i].addr <= va /\ va < EndOf(m[i]) /\ m[j].addr <= va /\ va < EndOf(m[j])
  BY DEF Pages
<1> QED BY <1>1, <1>2, <1>3 DEF Apart

\* kfree of the frames of pages S of p.
LEMMA Kfreed ==
    ASSUME NEW p, NEW S, KFree(FramesOf(p, S))
    PROVE  /\ free' = free \cup {pt[p][v] : v \in {w \in S : pt[p][w] # NULL}}
           /\ Scrubbed(pt, p, S, mem, mem')
BY DEF KFree, FramesOf, Present, Scrubbed

\* write_to_file puts the loaded pages into the file.
LEMMA WriteBackIs ==
    ASSUME TypeOK, NEW p \in Procs, NEW r \in Region, NEW S \in SUBSET PageAddrs, NEW d \in Disks
    PROVE  WroteBack(pt, mem, p, r, S, d, WriteBack(d, p, r, S))
<1>1. CASE ~(FileBacked(r) /\ Shared(r))
  BY <1>1 DEF WriteBack, WroteBack
<1>2. CASE FileBacked(r) /\ Shared(r)
  <2>1. r.file \in Files
    BY <1>2, RegionFacts DEF FileBacked
  <2> DEFINE Src(o) == {va \in Present(p, S) : Offset(r, va) = o}
             W(o) == IF Src(o) = {} THEN d[r.file][o] ELSE mem[pt[p][CHOOSE va \in Src(o) : TRUE]]
             e == WriteBack(d, p, r, S)
  <2>2. e = [d EXCEPT ![r.file] = [o \in DOMAIN d[r.file] |-> W(o)]]
    BY <1>2, <2>1 DEF WriteBack
  <2>3. DOMAIN d = Files /\ DOMAIN d[r.file] = Offsets
    BY <2>1 DEF Disks, Contents, Offsets
  <2>4. \A f \in Files : f # r.file => e[f] = d[f]
    BY <2>2, <2>3
  <2>5. \A o \in Offsets : e[r.file][o] = W(o)
    BY <2>1, <2>2, <2>3
  <2>6. \A o, va : va \in Src(o) <=> va \in S /\ pt[p][va] # NULL /\ Offset(r, va) = o
    BY DEF Present
  <2> HIDE DEF Src, e
  <2>7. ASSUME NEW o \in Offsets
        PROVE  IF \E va \in S : pt[p][va] # NULL /\ Offset(r, va) = o
               THEN \E va \in S : pt[p][va] # NULL /\ Offset(r, va) = o /\ e[r.file][o] = mem[pt[p][va]]
               ELSE e[r.file][o] = d[r.file][o]
    <3>1. CASE Src(o) = {}
      BY <2>5, <2>6, <3>1
    <3>2. CASE Src(o) # {}
      <4>1. (CHOOSE va \in Src(o) : TRUE) \in Src(o)
        BY <3>2
      <4>2. e[r.file][o] = mem[pt[p][CHOOSE va \in Src(o) : TRUE]]
        BY <2>5, <3>2
      <4> HIDE DEF W
      <4> QED BY <2>6, <4>1, <4>2
    <3> QED BY <3>1, <3>2
  <2>8. WroteBack(pt, mem, p, r, S, d, e)
    BY <1>2, <2>4, <2>7 DEF WroteBack
  <2> QED BY <2>8 DEF e
<1> QED BY <1>1, <1>2

\* The parts of the invariant, and where it is to be shown.
InOrder ==
    /\ Star /\ Marked(Regs) /\ Handed(Regs, pt) /\ Counted(Regs, pt) /\ Exclusive(Regs, pt, free)
    /\ OneBack(Regs) /\ Stored(Regs, pt, mem, disk, last)
Kept == /\ TypeOK /\ TypeOK' /\ ListInv /\ client' = client /\ Orderly /\ InOrder

\* What the earlier invariants say of the state.
LEMMA KeptLayout ==
    ASSUME Kept
    PROVE  /\ Layout(Regs, pt) /\ \A p \in Procs : maps[p] \in Regions /\ RangeOK(maps[p])
           /\ mem \in [Frames -> Vals \cup {Junk}] /\ disk \in Disks /\ free \in SUBSET Frames
<1>1. "in_range" \in client.rules /\ TypeOK /\ ListInv
  BY DEF Kept, Orderly
<1> QED BY <1>1, LayoutNow DEF ListInv, TypeOK, Regions, Disks

\* The family is the same when nobody is born or dies.
LEMMA StarSame ==
    ASSUME Star, UNCHANGED <<st, parent>>
    PROVE  Star'
BY DEF Star, Running

\* wmap keeps the invariant.
LEMMA MapOrder ==
    ASSUME Kept, NEW p \in Procs, NEW r, NEW k, MapStep(p, r, k)
    PROVE  InOrder'
<1> DEFINE m == maps[p]
           l == <<r>>
           M == Regs
           M2 == Regs'
<1>0. TypeOK /\ Orderly /\ InOrder /\ TypeOK'
  BY DEF Kept
<1>1. Layout(M, pt) /\ m \in Regions
  BY KeptLayout
<1>2. /\ r \in Region /\ k \in 1..(Len(m) + 1) /\ maps' = [maps EXCEPT ![p] = Splice(m, k, l, k)]
      /\ UNCHANGED <<st, parent, pt, disk, free, mem, last>>
      /\ r.refcnt = 0 /\ r.n_loaded_pages = 0 /\ Shared(r) # ("PRIVATE" \in r.flags)
      /\ \A i \in DOMAIN m : Apart(m[i], r)
  BY DEF MapStep
<1>3. l \in Regions /\ Elems(l) = {r} /\ k \in k..(Len(m) + 1)
  BY <1>2 DEF Regions, Elems
<1>4. Elems(Splice(m, k, l, k)) = M[p] \cup {r}
  <2>1. \A x \in DOMAIN m : x < k \/ x >= k
    BY <1>1, <1>2, ListFacts
  <2>2. Elems(Splice(m, k, l, k)) = {m[j] : j \in {x \in DOMAIN m : x < k \/ x >= k}} \cup Elems(l)
    <3> HIDE DEF m, l
    <3> QED BY <1>1, <1>2, <1>3, SpliceElems
  <2> QED BY <1>3, <2>1, <2>2, RegsAt
<1>5. M2 = [M EXCEPT ![p] = M[p] \cup {r}]
  BY <1>0, <1>2, <1>4, RegsChange
<1>6. ASSUME NEW s \in M[p], NEW va \in Pages(s) PROVE va \notin Pages(r)
  <2>1. PICK i \in DOMAIN m : s = m[i]
    BY RegsAt
  <2>2. s \in Region /\ Apart(s, r)
    BY <1>1, <1>2, <2>1, ListFacts
  <2>3. s.addr \in Int /\ r.addr \in Int /\ EndOf(s) \in Int /\ EndOf(r) \in Int /\ va \in Int
    BY <1>2, <2>2, RegionFacts, PagesIn, PageFacts
  <2>4. s.addr <= va /\ va < EndOf(s)
    BY <1>6 DEF Pages
  <2>5. ~(r.addr <= va /\ va < EndOf(r))
    BY <2>2, <2>3, <2>4 DEF Apart
  <2> QED BY <2>5 DEF Pages
<1>7. ASSUME Shared(r), FileBacked(r), NEW q \in Procs, NEW s \in M[q] PROVE s.file # r.file
  <2>1. q \in Running
    BY <1>0, RegsEmpty
  <2>2. PICK i \in DOMAIN maps[q] : s = maps[q][i]
    BY RegsAt
  <2>3. "one_map" \in client.rules /\ "ANONYMOUS" \notin r.flags
    BY <1>0, <1>7 DEF Orderly, FileBacked
  <2> QED BY <2>1, <2>2, <2>3 DEF MapStep
<1>8. Grown(M, pt, p, r, M2)
  BY <1>1, <1>2, <1>5, <1>6, <1>7 DEF Grown
<1> HIDE DEF M, M2
<1>9. /\ Star /\ Marked(M) /\ Handed(M, pt) /\ Counted(M, pt) /\ Exclusive(M, pt, free)
      /\ OneBack(M) /\ Stored(M, pt, mem, disk, last)
  BY <1>0 DEF InOrder, M
<1>10. /\ Marked(M2) /\ Handed(M2, pt) /\ Counted(M2, pt) /\ Exclusive(M2, pt, free)
  BY <1>8, <1>9, GrownMarked, GrownHanded, GrownCounted, GrownFrames
<1>11. OneBack(M2) /\ Stored(M2, pt, mem, disk, last)
  BY <1>8, <1>9, GrownOneBack, GrownStored
<1>12. Star'
  BY <1>2, <1>9, StarSame
<1> QED BY <1>2, <1>10, <1>11, <1>12 DEF InOrder, M2

\* A shrunken region leaves the invariant as it was.
LEMMA ShrunkOrder ==
    ASSUME Kept, NEW p, NEW r, NEW S, NEW L, Shrunk(Regs, pt, p, r, S, L, Regs', pt'),
           KFree(FramesOf(p, S)), WroteBack(pt, mem, p, r, S, disk, disk'), UNCHANGED <<st, parent, last>>
    PROVE  InOrder'
<1> DEFINE M == Regs
           M2 == Regs'
<1>1. /\ Star /\ Marked(M) /\ Handed(M, pt) /\ Counted(M, pt) /\ Exclusive(M, pt, free)
      /\ OneBack(M) /\ Stored(M, pt, mem, disk, last) /\ Shrunk(M, pt, p, r, S, L, M2, pt')
  BY DEF Kept, InOrder
<1>2. free' = free \cup {pt[p][v] : v \in {w \in S : pt[p][w] # NULL}} /\ Scrubbed(pt, p, S, mem, mem')
  BY Kfreed
<1> HIDE DEF M, M2
<1>3. /\ Marked(M2) /\ Handed(M2, pt') /\ Counted(M2, pt') /\ OneBack(M2)
  BY <1>1, ShrunkMarked, ShrunkHanded, ShrunkCounted, ShrunkOneBack
<1>4. Exclusive(M2, pt', free')
  BY <1>1, <1>2, ShrunkFrames
<1>5. Stored(M2, pt', mem', disk', last)
  BY <1>1, <1>2, ShrunkStored
<1>6. Star'
  BY <1>1, StarSame
<1> QED BY <1>3, <1>4, <1>5, <1>6 DEF InOrder, M2

\* The rules keep a child from unmapping what it has inherited, and First from
\* unmapping what a child has.
LEMMA UnmapOwn ==
    ASSUME Kept, NEW p \in Procs, NEW i, UnmapStep(p, i)
    PROVE  /\ maps[p][i].refcnt = 0
           /\ Shared(maps[p][i]) /\ p = First =>
                 \A q \in Procs : q # p => \A s \in Regs[q] : s.addr # maps[p][i].addr
<1> DEFINE r == maps[p][i]
<1>0. TypeOK /\ Orderly /\ Star /\ Marked(Regs) /\ Handed(Regs, pt)
  BY DEF Kept, InOrder
<1>1. p \in Running /\ i \in DOMAIN maps[p] /\ MayUnmap(p, r)
  BY DEF UnmapStep
<1>2. r \in Regs[p] /\ r \in Region
  BY <1>0, <1>1, RegsAt DEF TypeOK
<1>3. First \in Procs /\ NULL \notin Procs
  BY WmapAssumption
<1>4. "child_keeps" \in client.rules /\ "parent_keeps" \in client.rules
  BY <1>0 DEF Orderly
<1>5. r.refcnt = 0
  <2>1. SUFFICES ASSUME r.refcnt # 0 PROVE FALSE
    OBVIOUS
  <2>2. r.refcnt = 1
    BY <1>2, <2>1, RegionFacts
  <2>3. Shared(r) /\ p # First
    BY <1>0, <1>2, <2>2 DEF Marked
  <2>4. PICK s \in Regs[First] : Alike(r, s)
    BY <1>0, <1>2, <2>2 DEF Handed
  <2>5. parent[p] = First
    BY <1>0, <1>1, <2>3 DEF Star
  <2>6. PICK j \in DOMAIN maps[First] : s = maps[First][j]
    BY <1>3, RegsAt
  <2>7. j \in AtAddr(maps[First], r.addr)
    BY <2>4, <2>6 DEF AtAddr, Alike
  <2> QED BY <1>1, <1>3, <1>4, <2>3, <2>5, <2>7 DEF MayUnmap
<1>6. ASSUME Shared(r), p = First, NEW q \in Procs, q # p, NEW s \in Regs[q] PROVE s.addr # r.addr
  <2>1. q \in Running
    BY <1>0, RegsEmpty
  <2>2. parent[q] = p
    BY <1>0, <1>6, <2>1 DEF Star
  <2>3. PICK j \in DOMAIN maps[q] : s = maps[q][j]
    BY RegsAt
  <2>4. AtAddr(maps[q], r.addr) = {}
    BY <1>1, <1>4, <1>6, <2>1, <2>2 DEF MayUnmap
  <2> QED BY <2>3, <2>4 DEF AtAddr
<1> QED BY <1>5, <1>6

\* wunmap keeps the invariant.
LEMMA UnmapOrder ==
    ASSUME Kept, NEW p \in Procs, NEW i, UnmapStep(p, i)
    PROVE  InOrder'
<1> DEFINE m == maps[p]
           r == m[i]
           l == <<>>
           S == Pages(r)
           M == Regs
           M2 == Regs'
<1>0. TypeOK /\ TypeOK' /\ Orderly
  BY DEF Kept
<1>1. /\ Layout(M, pt) /\ m \in Regions /\ RangeOK(m) /\ disk \in Disks
  BY KeptLayout
<1>2. /\ i \in DOMAIN m /\ disk' = WriteBack(disk, p, r, S) /\ pt' = Unmapped(p, S)
      /\ maps' = [maps EXCEPT ![p] = Splice(m, i, l, i + 1)] /\ UNCHANGED <<st, parent, last>>
      /\ KFree(IF r.refcnt = 0 THEN FramesOf(p, S) ELSE {})
  BY DEF UnmapStep
<1>3. r.refcnt = 0
      /\ (Shared(r) /\ p = First => \A q \in Procs : q # p => \A s \in M[q] : s.addr # r.addr)
  BY UnmapOwn
<1>4. KFree(FramesOf(p, S))
  BY <1>2, <1>3
<1>5. r \in M[p] /\ r \in Region /\ S \in SUBSET PageAddrs
  BY <1>1, <1>2, RegsAt, ListFacts, PagesIn
<1>6. M2[p] = {m[j] : j \in {x \in DOMAIN m : x # i}} /\ \A q \in Procs : q # p => M2[q] = M[q]
  <2>1. i \in Int /\ DOMAIN m \in SUBSET Int /\ i \in 1..(Len(m) + 1) /\ i + 1 \in i..(Len(m) + 1)
    BY <1>1, <1>2, ListFacts
  <2>2. l \in Regions /\ Elems(l) = {}
    BY DEF Regions, Elems
  <2>3. Elems(Splice(m, i, l, i + 1)) = {m[j] : j \in {x \in DOMAIN m : x < i \/ x >= i + 1}} \cup Elems(l)
    <3> HIDE DEF m, l
    <3> QED BY <1>1, <2>1, <2>2, SpliceElems
  <2>4. {x \in DOMAIN m : x < i \/ x >= i + 1} = {x \in DOMAIN m : x # i}
    BY <2>1
  <2> QED BY <1>0, <1>2, <2>2, <2>3, <2>4, RegsChange
<1>7. Cleared(pt, p, S, pt')
  BY <1>0, <1>2 DEF Cleared, Unmapped, TypeOK
<1>8. M2 \in RegionSets /\ M[p] = {m[j] : j \in DOMAIN m}
  BY <1>0, <1>5, RegsAt DEF RegionSets, Regs, Elems, TypeOK
<1>9. r \in M2[p] => S = {}
  <2>1. SUFFICES ASSUME r \in M2[p], NEW va \in S PROVE FALSE
    OBVIOUS
  <2>2. PICK j \in DOMAIN m : j # i /\ m[j] = r
    BY <1>6, <2>1
  <2> QED BY <1>1, <1>2, <2>1, <2>2, PlacesApart
<1>10. Shrunk(M, pt, p, r, S, {}, M2, pt')
  <2>1. /\ \A s \in M[p] : s # r => s \in M2[p]
        /\ \A s \in M2[p] : s \in M[p]
    BY <1>6, <1>8
  <2> HIDE DEF M, M2, r, m
  <2> QED BY <1>1, <1>3, <1>5, <1>6, <1>7, <1>8, <1>9, <2>1 DEF Shrunk
<1>11. WroteBack(pt, mem, p, r, S, disk, disk')
  BY <1>0, <1>1, <1>2, <1>5, WriteBackIs
<1> QED BY <1>2, <1>4, <1>10, <1>11, ShrunkOrder

\* Region i of a list changes into t.
LEMMA ElemsExcept ==
    ASSUME NEW m \in Regions, RangeOK(m), NEW i \in DOMAIN m, NEW t, NEW va \in Pages(m[i])
    PROVE  Elems([m EXCEPT ![i] = t]) = (Elems(m) \ {m[i]}) \cup {t}
<1>1. \A j \in DOMAIN m : j # i => m[j] # m[i]
  <2>1. SUFFICES ASSUME NEW j \in DOMAIN m, j # i, m[j] = m[i] PROVE FALSE
    OBVIOUS
  <2> QED BY <2>1, PlacesApart
<1> QED BY <1>1 DEF Elems

\* A page fault keeps the invariant.
LEMMA FaultOrder ==
    ASSUME Kept, NEW p \in Procs, NEW va \in PageAddrs, NEW i, NEW f, FaultStep(p, va, i, f)
    PROVE  InOrder'
<1> DEFINE m == maps[p]
           r == m[i]
           t == [r EXCEPT !.n_loaded_pages = r.n_loaded_pages + 1]
           M == Regs
           M2 == Regs'
           x == Filled(r, va)
<1>0. TypeOK /\ TypeOK' /\ Orderly
  BY DEF Kept
<1>1. /\ Layout(M, pt) /\ m \in Regions /\ RangeOK(m) /\ disk \in Disks /\ free \in SUBSET Frames
      /\ mem \in [Frames -> Vals \cup {Junk}]
  BY KeptLayout
<1>2. /\ i \in DOMAIN m /\ va \in Pages(r) /\ pt[p][va] = NULL /\ f \in free /\ free' = free \ {f}
      /\ pt' = [pt EXCEPT ![p] = [pt[p] EXCEPT ![va] = f]] /\ mem' = [mem EXCEPT ![f] = x]
      /\ maps' = [maps EXCEPT ![p] = [m EXCEPT ![i] = t]]
      /\ UNCHANGED <<st, parent, disk, last>>
  BY DEF FaultStep
<1>3. r \in M[p] /\ r \in Region /\ M[p] = Elems(m)
  BY <1>1, <1>2, RegsAt, ListFacts DEF Elems
<1>4. t \in Region /\ Alike(r, t) /\ t.refcnt = r.refcnt /\ t.n_loaded_pages = r.n_loaded_pages + 1
  BY <1>3 DEF Region, Alike
<1>5. Read(r, va, disk, x)
  <2>1. FileBacked(r) => r.file \in Files
    BY <1>3, RegionFacts DEF FileBacked
  <2>2. FileBacked(r) => DOMAIN disk[r.file] = Offsets
    BY <1>1, <2>1 DEF Disks, Contents, Offsets
  <2> QED BY <2>2 DEF Filled, Read
<1> HIDE DEF t, x
<1>6. M2 = [M EXCEPT ![p] = (M[p] \ {r}) \cup {t}]
  <2>1. Elems([m EXCEPT ![i] = t]) = (Elems(m) \ {r}) \cup {t}
    BY <1>1, <1>2, ElemsExcept
  <2> DEFINE l == [m EXCEPT ![i] = t]
  <2>2. maps' = [maps EXCEPT ![p] = l]
    BY <1>2
  <2>3. Elems(l) = (M[p] \ {r}) \cup {t}
    BY <1>3, <2>1
  <2> HIDE DEF l
  <2>4. M2 = [M EXCEPT ![p] = Elems(l)]
    BY <1>0, <2>2, RegsChange
  <2> QED BY <2>3, <2>4
<1>7. PagedIn(M, pt, free, p, r, t, va, f, M2, pt')
  BY <1>1, <1>2, <1>3, <1>4, <1>6 DEF PagedIn
<1>8. /\ Star /\ Marked(M) /\ Handed(M, pt) /\ Counted(M, pt) /\ Exclusive(M, pt, free)
      /\ OneBack(M) /\ Stored(M, pt, mem, disk, last) /\ DOMAIN mem = Frames
  BY <1>1 DEF Kept, InOrder
<1> HIDE DEF M, M2, m, r
<1>9. Marked(M2) /\ Handed(M2, pt') /\ Counted(M2, pt') /\ OneBack(M2)
  BY <1>7, <1>8, PagedInMarked, PagedInHanded, PagedInCounted, PagedInOneBack
<1>10. Exclusive(M2, pt', free')
  BY <1>2, <1>7, <1>8, PagedInFrames
<1>11. Stored(M2, pt', mem', disk, last)
  BY <1>2, <1>5, <1>7, <1>8, PagedInStored
<1>12. Star'
  BY <1>2, <1>8, StarSame
<1> QED BY <1>2, <1>9, <1>10, <1>11, <1>12 DEF InOrder, M2

\* A store keeps the invariant.
LEMMA StoreOrder ==
    ASSUME Kept, NEW p \in Procs, NEW va \in PageAddrs, NEW v \in Vals, Store(p, va, v)
    PROVE  InOrder'
<1> DEFINE M == Regs
<1>0. TypeOK /\ TypeOK' /\ Orderly
  BY DEF Kept
<1>1. Layout(M, pt) /\ mem \in [Frames -> Vals \cup {Junk}]
  BY KeptLayout
<1>2. /\ pt[p][va] # NULL /\ mem' = [mem EXCEPT ![pt[p][va]] = v]
      /\ last' = [f \in Files |-> [o \in DOMAIN last[f] |->
           IF \E i \in DOMAIN maps[p] :
                va \in Pages(maps[p][i]) /\ Shared(maps[p][i]) /\ FileBacked(maps[p][i]) /\ maps[p][i].file = f
                /\ Offset(maps[p][i], va) = o
           THEN v ELSE last[f][o]]]
      /\ UNCHANGED <<st, parent, maps, pt, disk, free>>
  BY DEF Store
<1>3. \A f \in Files : DOMAIN last[f] = Offsets
  BY <1>0 DEF TypeOK, Contents, Offsets
<1>4. Noted(M, p, va, v, last, last')
  <2> DEFINE Here(f, o) == \E i \in DOMAIN maps[p] :
                va \in Pages(maps[p][i]) /\ Shared(maps[p][i]) /\ FileBacked(maps[p][i]) /\ maps[p][i].file = f
                /\ Offset(maps[p][i], va) = o
             There(f, o) == \E r \in M[p] :
                va \in Pages(r) /\ Shared(r) /\ FileBacked(r) /\ r.file = f /\ Offset(r, va) = o
  <2>1. ASSUME NEW f \in Files, NEW o \in Offsets PROVE Here(f, o) <=> There(f, o)
    BY RegsAt
  <2>2. ASSUME NEW f \in Files, NEW o \in Offsets PROVE last'[f][o] = IF Here(f, o) THEN v ELSE last[f][o]
    BY <1>2, <1>3
  <2> HIDE DEF M, Here, There
  <2>3. ASSUME NEW f \in Files, NEW o \in Offsets PROVE last'[f][o] = IF There(f, o) THEN v ELSE last[f][o]
    BY <2>1, <2>2
  <2> QED BY <2>3 DEF Noted, There
<1>5. /\ Star /\ Marked(M) /\ Handed(M, pt) /\ Counted(M, pt) /\ Exclusive(M, pt, free)
      /\ OneBack(M) /\ Stored(M, pt, mem, disk, last) /\ DOMAIN mem = Frames
  BY <1>1 DEF Kept, InOrder
<1>6. Regs' = M
  BY <1>2 DEF Regs
<1> HIDE DEF M
<1>7. Stored(M, pt, mem', disk, last')
  BY <1>1, <1>2, <1>4, <1>5, PutStored
<1>8. Star'
  BY <1>2, <1>5, StarSame
<1> QED BY <1>2, <1>5, <1>6, <1>7, <1>8 DEF InOrder

\* The size of a difference.
LEMMA DifferenceCount ==
    ASSUME NEW A, NEW B, IsFiniteSet(A), B \in SUBSET A
    PROVE  Cardinality(A \ B) = Cardinality(A) - Cardinality(B)
<1>1. IsFiniteSet(B) /\ IsFiniteSet(A \ B)
  BY FS_Subset
<1>2. A = B \cup (A \ B) /\ \A x \in B : x \notin A \ B
  OBVIOUS
<1> DEFINE C == A \ B
<1>3. /\ Cardinality(B \cup C) = Cardinality(B) + Cardinality(C)
      /\ Cardinality(B) \in Nat /\ Cardinality(C) \in Nat
  BY <1>1, <1>2, DisjointCount
<1>4. B \cup C = A
  BY <1>2
<1>5. Cardinality(A) = Cardinality(B) + Cardinality(C)
  BY <1>3, <1>4
<1> HIDE DEF C
<1>6. Cardinality(C) = Cardinality(A) - Cardinality(B)
  BY <1>3, <1>5
<1> QED BY <1>6 DEF C

\* What is left of region r of p without its pages S, the page table being T2.
CutLeft(p, r, S, l, T2) ==
    /\ \A x \in DOMAIN l : /\ Pages(l[x]) \in SUBSET Pages(r)
                           /\ l[x].n_loaded_pages = Cardinality(Loads(T2, p, l[x]))
    /\ \A va \in Pages(r) : va \in S \/ \E x \in DOMAIN l : va \in Pages(l[x])

\* What wpunmap leaves counts its loaded pages and has all pages but those
\* that go.
LEMMA CutLeaves ==
    ASSUME TypeOK, NEW p \in Procs, NEW i, NEW a, NEW len, NEW e, NEW l, CutStep(p, i, a, len, e, l),
           "in_range" \in client.rules, InRange(maps[p][i]),
           maps[p][i].n_loaded_pages = Cardinality(Loads(pt, p, maps[p][i])),
           NEW T2, \A va \in PageAddrs : T2[p][va] = IF va \in Between(a, e) THEN NULL ELSE pt[p][va]
    PROVE  /\ CutLeft(p, maps[p][i], Between(a, e), l, T2)
           /\ Between(a, e) \in SUBSET Pages(maps[p][i]) /\ a \in Between(a, e)
<1> DEFINE r == maps[p][i]
           S == Between(a, e)
           n == r.n_loaded_pages - Cardinality(Present(p, S))
<1>0. Aligned(r.addr) /\ MMAPBASE <= r.addr /\ EndOf(r) <= KERNBASE
  BY DEF InRange
<1>1. /\ i \in DOMAIN maps[p] /\ a \in Nat /\ e \in Nat
      /\ Aligned(a) /\ Aligned(e) /\ r.addr <= a /\ EndOf(r) >= e
      /\ l = Remainder(p, maps[p], r, a, e, n)
  BY DEF CutStep
<1>2. CutShape(r, a, e, l)
  BY <1>0, CutStepShape
<1>3. a < e /\ e <= EndOf(r) /\ r \in Region /\ l \in Regions
  BY <1>2 DEF CutShape
<1>4. r.addr \in Int /\ EndOf(r) \in Int /\ r.n_loaded_pages \in Int
  BY <1>3, RegionFacts
<1>5. \A va \in PageAddrs : va \in Int
  BY PageFacts
<1>6. /\ \A s, va : va \in Pages(s) <=> va \in PageAddrs /\ s.addr <= va /\ va < EndOf(s)
      /\ \A va : va \in S <=> va \in PageAddrs /\ a <= va /\ va < e
  BY DEF Pages, Between
<1>n. r.n_loaded_pages = Cardinality(Loads(pt, p, r))
  OBVIOUS
<1>t. \A va \in PageAddrs : T2[p][va] = IF va \in S THEN NULL ELSE pt[p][va]
  OBVIOUS
<1>d. \A s, va : va \in Loads(T2, p, s) <=> va \in Pages(s) /\ va \notin S /\ pt[p][va] # NULL
  BY <1>6, <1>t DEF Loads
<1> HIDE DEF r, S
<1>7. S \in SUBSET Pages(r) /\ S \in SUBSET PageAddrs
  BY <1>1, <1>3, <1>4, <1>5, <1>6
<1>8. IsFiniteSet(Loads(pt, p, r)) /\ Present(p, S) \in SUBSET Loads(pt, p, r)
  <2>1. Loads(pt, p, r) \in SUBSET PageAddrs
    BY PagesIn DEF Loads
  <2>2. IsFiniteSet(Loads(pt, p, r))
    BY <2>1, PageFacts, FS_Subset
  <2> QED BY <1>7, <2>2 DEF Loads, Present
<1>9. n = Cardinality(Loads(pt, p, r) \ Present(p, S)) /\ n \in Int
  <2>1. Cardinality(Loads(pt, p, r) \ Present(p, S)) = Cardinality(Loads(pt, p, r)) - Cardinality(Present(p, S))
    BY <1>8, DifferenceCount
  <2>2. Cardinality(Present(p, S)) \in Nat
    BY <1>7, PresentFacts
  <2> QED BY <1>4, <1>n, <2>1, <2>2
<1> HIDE DEF n
<1>10. a \in S
  <2>1. MMAPBASE <= a /\ a < KERNBASE
    BY <1>0, <1>1, <1>3, <1>4, Sizes
  <2>2. a \in PageAddrs
    BY <1>1, <2>1, PageFacts
  <2> QED BY <1>1, <1>3, <1>6, <2>2
\* A single region that keeps all the other pages has the right count.
<1>11. ASSUME NEW c, l = <<c>>, c.n_loaded_pages = n, Pages(c) \in SUBSET Pages(r),
              \A va \in Pages(r) : va \in S \/ va \in Pages(c)
       PROVE  CutLeft(p, r, S, l, T2)
  <2>1. Loads(T2, p, c) = Loads(pt, p, r) \ Present(p, S)
    <3>1. \A va : va \in Loads(pt, p, r) <=> va \in Pages(r) /\ pt[p][va] # NULL
      BY DEF Loads
    <3>2. \A va : va \in Present(p, S) <=> va \in S /\ pt[p][va] # NULL
      BY DEF Present
    <3> QED BY <1>11, <1>d, <3>1, <3>2
  <2>2. DOMAIN l = {1} /\ l[1] = c
    BY <1>11
  <2> QED BY <1>9, <1>11, <2>1, <2>2 DEF CutLeft
<1>12. CASE a = r.addr
  <2> DEFINE c == Cut(r, e, EndOf(r), n)
  <2>1. l = <<c>>
    BY <1>1, <1>12 DEF Remainder
  <2>2. c.addr = e /\ EndOf(c) = EndOf(r) /\ c.n_loaded_pages = n
    BY <1>1, <1>3, <1>4, <1>9, CutType
  <2> HIDE DEF c
  <2>3. \A va \in Pages(c) : va \in Pages(r)
    BY <1>1, <1>3, <1>4, <1>5, <1>6, <2>2
  <2>4. \A va \in Pages(r) : va \in S \/ va \in Pages(c)
    BY <1>1, <1>3, <1>4, <1>5, <1>6, <1>12, <2>2
  <2> QED BY <1>7, <1>10, <1>11, <2>1, <2>2, <2>3, <2>4 DEF r, S
<1>13. CASE a # r.addr /\ e = EndOf(r)
  <2> DEFINE c == Cut(r, r.addr, a, n)
  <2>1. l = <<c>>
    BY <1>1, <1>13 DEF Remainder
  <2>2. c.addr = r.addr /\ EndOf(c) = a /\ c.n_loaded_pages = n
    BY <1>1, <1>3, <1>4, <1>9, CutType
  <2> HIDE DEF c
  <2>3. \A va \in Pages(c) : va \in Pages(r)
    BY <1>1, <1>3, <1>4, <1>5, <1>6, <2>2
  <2>4. \A va \in Pages(r) : va \in S \/ va \in Pages(c)
    BY <1>1, <1>3, <1>4, <1>5, <1>6, <1>13, <2>2
  <2> QED BY <1>7, <1>10, <1>11, <2>1, <2>2, <2>3, <2>4 DEF r, S
<1>14. CASE a # r.addr /\ e # EndOf(r) /\ Len(maps[p]) < MAX_NMMAP
  <2> DEFINE u == Cut(r, r.addr, a, Loaded(p, r.addr, a))
             v == Cut(r, e, EndOf(r), Loaded(p, e, EndOf(r)))
  <2>0. Loaded(p, r.addr, a) \in Int /\ Loaded(p, e, EndOf(r)) \in Int
    BY PresentFacts DEF Loaded
  <2>1. l = <<u, v>>
    BY <1>1, <1>14 DEF Remainder, Split
  <2>2. u.addr = r.addr /\ EndOf(u) = a /\ u.n_loaded_pages = Loaded(p, r.addr, a)
    BY <1>1, <1>3, <1>4, <2>0, CutType
  <2>3. v.addr = e /\ EndOf(v) = EndOf(r) /\ v.n_loaded_pages = Loaded(p, e, EndOf(r))
    BY <1>1, <1>3, <1>4, <2>0, CutType
  <2> HIDE DEF u, v
  <2>4. DOMAIN l = {1, 2} /\ l[1] = u /\ l[2] = v
    BY <2>1
  <2>5. \A va \in Pages(u) : va \in Pages(r) /\ va \notin S
    BY <1>1, <1>3, <1>4, <1>5, <1>6, <2>2
  <2>6. \A va \in Pages(v) : va \in Pages(r) /\ va \notin S
    BY <1>1, <1>3, <1>4, <1>5, <1>6, <2>3
  <2>7. \A va \in Pages(r) : va \in S \/ va \in Pages(u) \/ va \in Pages(v)
    BY <1>1, <1>3, <1>4, <1>5, <1>6, <2>2, <2>3
  <2>8. u.n_loaded_pages = Cardinality(Loads(T2, p, u))
    <3>1. Loads(T2, p, u) = Present(p, {va \in PageAddrs : r.addr <= va /\ va < a})
      BY <1>6, <1>d, <2>2, <2>5 DEF Present
    <3> QED BY <2>2, <3>1 DEF Loaded
  <2>9. v.n_loaded_pages = Cardinality(Loads(T2, p, v))
    <3>1. Loads(T2, p, v) = Present(p, {va \in PageAddrs : e <= va /\ va < EndOf(r)})
      BY <1>6, <1>d, <2>3, <2>6 DEF Present
    <3> QED BY <2>3, <3>1 DEF Loaded
  <2>10. CutLeft(p, r, S, l, T2)
    BY <2>4, <2>5, <2>6, <2>7, <2>8, <2>9 DEF CutLeft
  <2> QED BY <1>7, <1>10, <2>10 DEF r, S
<1>15. CASE a # r.addr /\ e # EndOf(r) /\ ~(Len(maps[p]) < MAX_NMMAP)
  <2> DEFINE c == [r EXCEPT !.n_loaded_pages = n]
  <2>1. l = <<c>>
    BY <1>1, <1>15 DEF Remainder
  <2>2. c.addr = r.addr /\ c.length = r.length /\ c.n_loaded_pages = n
    BY <1>3, <1>9 DEF Region
  <2> HIDE DEF c
  <2>3. Pages(c) = Pages(r)
    BY <2>2 DEF Pages, EndOf
  <2> QED BY <1>7, <1>10, <1>11, <2>1, <2>2, <2>3 DEF r, S
<1> QED BY <1>12, <1>13, <1>14, <1>15

\* wpunmap keeps the invariant.
LEMMA CutOrder ==
    ASSUME Kept, NEW p \in Procs, NEW i, NEW a, NEW len, NEW e, NEW l, CutStep(p, i, a, len, e, l)
    PROVE  InOrder'
<1> DEFINE m == maps[p]
           r == m[i]
           S == Between(a, e)
           L == Elems(l)
           M == Regs
           M2 == Regs'
<1>0. TypeOK /\ TypeOK' /\ Orderly /\ Marked(M) /\ Counted(M, pt) /\ Layout(M, pt)
  BY KeptLayout DEF Kept, InOrder
<1>1. m \in Regions /\ RangeOK(m) /\ disk \in Disks
  BY KeptLayout
<1>2. /\ i \in DOMAIN m /\ disk' = WriteBack(disk, p, r, S) /\ pt' = Unmapped(p, S)
      /\ maps' = [maps EXCEPT ![p] = Splice(m, i, l, i + 1)] /\ UNCHANGED <<st, parent, last>>
      /\ KFree(FramesOf(p, S)) /\ MayCut(r, a, len)
  BY DEF CutStep
<1>3. r \in M[p] /\ r \in Region /\ S \in SUBSET PageAddrs /\ InRange(r)
  BY <1>1, <1>2, RegsAt, ListFacts DEF Between, RangeOK
<1>4. ~Shared(r) /\ r.refcnt = 0
  <2>1. "PRIVATE" \in r.flags
    BY <1>0, <1>2 DEF MayCut, Orderly
  <2>2. ~Shared(r) /\ r.refcnt # 1
    BY <1>0, <1>3, <2>1 DEF Marked
  <2> QED BY <1>3, <2>2, RegionFacts
<1>5. l \in Regions /\ \A x \in DOMAIN l : l[x].flags = r.flags /\ l[x].file = r.file /\ l[x].refcnt = r.refcnt
  BY <1>0, CutStepFacts DEF Regions
<1>6. Cleared(pt, p, S, pt')
  BY <1>0, <1>2 DEF Cleared, Unmapped, TypeOK
<1>7. \A va \in PageAddrs : pt'[p][va] = IF va \in S THEN NULL ELSE pt[p][va]
  BY <1>0, <1>3, <1>6, ClearedAt
<1>8. CutLeft(p, r, S, l, pt') /\ S \in SUBSET Pages(r) /\ a \in S
  <2>1. r.n_loaded_pages = Cardinality(Loads(pt, p, r))
    BY <1>0, <1>3 DEF Counted
  <2>2. "in_range" \in client.rules
    BY <1>0 DEF Orderly
  <2> QED BY <1>0, <1>3, <1>7, <2>1, <2>2, CutLeaves
<1>9. /\ M2[p] = {m[j] : j \in {x \in DOMAIN m : x # i}} \cup L /\ \A q \in Procs : q # p => M2[q] = M[q]
  <2>1. i \in Int /\ DOMAIN m \in SUBSET Int /\ i \in 1..(Len(m) + 1) /\ i + 1 \in i..(Len(m) + 1)
    BY <1>1, <1>2, ListFacts
  <2>3. Elems(Splice(m, i, l, i + 1)) = {m[j] : j \in {x \in DOMAIN m : x < i \/ x >= i + 1}} \cup Elems(l)
    <3> HIDE DEF m
    <3> QED BY <1>1, <1>5, <2>1, SpliceElems
  <2>4. {x \in DOMAIN m : x < i \/ x >= i + 1} = {x \in DOMAIN m : x # i}
    BY <2>1
  <2> QED BY <1>0, <1>2, <2>3, <2>4, RegsChange
<1>10. M2 \in RegionSets /\ M[p] = {m[j] : j \in DOMAIN m}
  BY <1>0, RegsAt DEF RegionSets, Regs, Elems, TypeOK
<1>11. \A j \in DOMAIN m : j # i => m[j] # r
  <2>1. SUFFICES ASSUME NEW j \in DOMAIN m, j # i, m[j] = r PROVE FALSE
    OBVIOUS
  <2>2. a \in Pages(r)
    BY <1>8
  <2> QED BY <1>1, <1>2, <2>1, <2>2, PlacesApart
<1>12. /\ \A s \in M[p] : s # r => s \in M2[p]
       /\ \A s \in M2[p] : s \in M[p] \/ s \in L
       /\ r \in M2[p] => r \in L
       /\ L \in SUBSET M2[p]
  BY <1>9, <1>10, <1>11
<1>13. \A t \in L : /\ t.flags = r.flags /\ t.file = r.file /\ t.refcnt = 0
                    /\ Pages(t) \in SUBSET Pages(r)
                    /\ t.n_loaded_pages = Cardinality(Loads(pt', p, t))
  BY <1>4, <1>5, <1>8 DEF CutLeft, Elems
<1>14. \A va \in Pages(r) : va \in S \/ \E t \in L : va \in Pages(t)
  BY <1>8 DEF CutLeft, Elems
<1>15. Shrunk(M, pt, p, r, S, L, M2, pt')
  <2> HIDE DEF M, M2, r, m, L, S
  <2> QED BY <1>0, <1>3, <1>4, <1>6, <1>8, <1>9, <1>10, <1>12, <1>13, <1>14 DEF Shrunk
<1>16. WroteBack(pt, mem, p, r, S, disk, disk')
  BY <1>0, <1>1, <1>2, <1>3, WriteBackIs
<1> QED BY <1>2, <1>15, <1>16, ShrunkOrder

\* The pages of the regions of a kind.
LEMMA WherePages ==
    ASSUME NEW p \in Procs, NEW v
    PROVE  /\ v \in PagesWhere(p, Private) <=> \E r \in Regs[p] : ~Shared(r) /\ v \in Pages(r)
           /\ v \in PagesWhere(p, Shared) <=> \E r \in Regs[p] : Shared(r) /\ v \in Pages(r)
           /\ v \in PagesWhere(p, Unshared) <=> \E r \in Regs[p] : r.refcnt = 0 /\ v \in Pages(r)
           /\ v \in PagesWhere(p, LAMBDA r : TRUE) <=> \E r \in Regs[p] : v \in Pages(r)
<1>1. Regs[p] = {maps[p][i] : i \in DOMAIN maps[p]}
  BY RegsAt
<1>2. v \in PagesWhere(p, Private) <=> \E i \in DOMAIN maps[p] : ~Shared(maps[p][i]) /\ v \in Pages(maps[p][i])
  BY DEF PagesWhere, Private
<1>3. v \in PagesWhere(p, Shared) <=> \E i \in DOMAIN maps[p] : Shared(maps[p][i]) /\ v \in Pages(maps[p][i])
  BY DEF PagesWhere
<1>4. v \in PagesWhere(p, Unshared) <=> \E i \in DOMAIN maps[p] : maps[p][i].refcnt = 0 /\ v \in Pages(maps[p][i])
  BY DEF PagesWhere, Unshared
<1>5. v \in PagesWhere(p, LAMBDA r : TRUE) <=> \E i \in DOMAIN maps[p] : v \in Pages(maps[p][i])
  BY DEF PagesWhere
<1> QED BY <1>1, <1>2, <1>3, <1>4, <1>5

\* A process that forks is First, with all its pages loaded.
LEMMA ForkFirst ==
    ASSUME Kept, NEW p \in Procs, NEW q \in Procs, NEW n, Forks(p, q, n)
    PROVE  /\ p = First /\ First \in Running /\ q # First /\ q \notin Running
           /\ \A r \in Regs[First] : \A v \in Pages(r) : pt[First][v] # NULL
<1>0. TypeOK /\ Orderly /\ Star /\ NULL \notin Procs /\ First \in Procs
  BY WmapAssumption DEF Kept, InOrder
<1>1. p \in Running /\ st[q] = "UNUSED" /\ MayFork(p)
  BY DEF Forks, Makes
<1>2. "touched" \in client.rules /\ "one_generation" \in client.rules
  BY <1>0 DEF Orderly
<1>3. parent[p] = NULL /\ \A i \in DOMAIN maps[p] : Present(p, Pages(maps[p][i])) = Pages(maps[p][i])
  BY <1>1, <1>2 DEF MayFork
<1>4. p = First
  BY <1>0, <1>1, <1>3 DEF Star
<1>5. q \notin Running
  BY <1>1 DEF Running
<1>6. \A r \in Regs[p] : Present(p, Pages(r)) = Pages(r)
  BY <1>3, RegsAt
<1>7. \A r \in Regs[p] : \A v \in Pages(r) : pt[p][v] # NULL
  BY <1>6 DEF Present
<1> QED BY <1>1, <1>4, <1>5, <1>7

\* fork hands First's regions down to the child.
LEMMA ForkForked ==
    ASSUME Kept, NEW p \in Procs, NEW q \in Procs, Fork(p, q)
    PROVE  LET N == PagesWhere(First, Private) IN
           /\ Forked(Regs, pt, free, q, Elems(Child(First)), N, Regs', pt')
           /\ free' = free \ {pt'[q][v] : v \in N}
           /\ \A f \in Frames \ free : mem'[f] = mem[f]
<1> DEFINE M == Regs
           C == Elems(Child(First))
           N == PagesWhere(First, Private)
<1>0. TypeOK /\ TypeOK' /\ First \in Procs /\ NULL \notin Procs
  BY WmapAssumption DEF Kept
<1>1. Layout(M, pt) /\ free \in SUBSET Frames
  BY KeptLayout
<1>2. Forks(p, q, Len(maps[p])) /\ CopyPages(p, q) /\ maps' = [maps EXCEPT ![q] = Child(p)]
  BY DEF Fork, Child, Inherited
<1>3. /\ p = First /\ q # First /\ q \notin Running
      /\ \A r \in M[First] : \A v \in Pages(r) : pt[First][v] # NULL
  BY <1>2, ForkFirst
<1>4. M[q] = {} /\ Regs' = [M EXCEPT ![q] = C]
  BY <1>0, <1>2, <1>3, RegsEmpty, RegsChange
<1>5. N \in SUBSET PageAddrs
  BY PagesIn
<1>6. \A v : v \in N <=> \E r \in M[First] : ~Shared(r) /\ v \in Pages(r)
  BY <1>0, WherePages
<1>7. \A v : v \in PagesWhere(First, Shared) <=> \E r \in M[First] : Shared(r) /\ v \in Pages(r)
  BY <1>0, WherePages
<1>8. Present(First, N) = N
  BY <1>3, <1>6 DEF Present
<1>c. Inherits(First, q, N)
  BY <1>2, <1>3, <1>8 DEF CopyPages
<1> HIDE DEF N
<1>9. PICK g \in [N -> free] :
        /\ \A v, w \in N : v # w => g[v] # g[w]
        /\ free' = free \ {g[v] : v \in N}
        /\ mem' = [f \in Frames |-> IF \E v \in N : g[v] = f
                      THEN mem[pt[First][CHOOSE v \in N : g[v] = f]] ELSE mem[f]]
        /\ pt' = [pt EXCEPT ![q] = [va \in PageAddrs |->
              IF va \in N THEN g[va]
              ELSE IF va \in PagesWhere(First, Shared) THEN pt[First][va] ELSE NULL]]
  BY <1>c DEF Inherits
<1>10. pt' \in PageTables /\ pt \in PageTables
  BY <1>0 DEF TypeOK, PageTables
<1>11. /\ \A x \in Procs : x # q => pt'[x] = pt[x]
       /\ \A v \in PageAddrs : pt'[q][v] = IF v \in N THEN g[v]
                                ELSE IF v \in PagesWhere(First, Shared) THEN pt[First][v] ELSE NULL
  BY <1>9, <1>10 DEF PageTables
<1>12. \A v \in N : pt'[q][v] = g[v] /\ g[v] \in free
  BY <1>5, <1>9, <1>11
<1>13. free' = free \ {pt'[q][v] : v \in N}
  BY <1>9, <1>12
<1>14. \A f \in Frames \ free : mem'[f] = mem[f]
  BY <1>9
<1>15. ASSUME NEW r \in M[First], NEW v \in Pages(r), Shared(r) PROVE pt'[q][v] = pt[First][v]
  <2>1. v \in PageAddrs
    BY PagesIn
  <2>2. v \notin N
    BY <1>0, <1>1, <1>6, <1>15, <2>1 DEF Layout
  <2> QED BY <1>7, <1>11, <1>15, <2>1, <2>2
<1>16. \A v \in PageAddrs : pt'[q][v] # NULL => \E r \in M[First] : v \in Pages(r)
  BY <1>6, <1>7, <1>11
<1>17. ASSUME NEW i \in DOMAIN maps[First] PROVE Heir(pt, maps[First][i], Child(First)[i])
  <2> DEFINE r == maps[First][i]
             c == Child(First)[i]
  <2>1. /\ c.addr = r.addr /\ c.length = r.length /\ c.flags = r.flags /\ c.file = r.file
        /\ c.refcnt = (IF Shared(r) THEN 1 ELSE 0) /\ c.n_loaded_pages = Cardinality(Present(First, Pages(r)))
    BY <1>0, ChildType
  <2>2. Present(First, Pages(r)) = Loads(pt, First, r)
    BY DEF Present, Loads
  <2> HIDE DEF r, c
  <2>3. Heir(pt, r, c)
    BY <2>1, <2>2 DEF Heir, Alike
  <2> QED BY <2>3 DEF r, c
<1>18. M[First] = {maps[First][i] : i \in DOMAIN maps[First]} /\ C = {Child(First)[i] : i \in DOMAIN maps[First]}
  <2>1. DOMAIN Child(First) = DOMAIN maps[First]
    BY <1>0, ChildType
  <2> QED BY <1>0, <2>1, RegsAt DEF Elems
<1> HIDE DEF M, C
<1>19. \A c \in C : \E r \in M[First] : Heir(pt, r, c)
  BY <1>17, <1>18
<1>20. \A r \in M[First] : \E c \in C : Heir(pt, r, c)
  BY <1>17, <1>18
<1>21. \A v, w \in N : pt'[q][v] = pt'[q][w] => v = w
  BY <1>9, <1>12
<1>22. Forked(M, pt, free, q, C, N, Regs', pt')
  BY <1>1, <1>3, <1>4, <1>5, <1>6, <1>10, <1>11, <1>12, <1>15, <1>16, <1>19, <1>20, <1>21 DEF Forked
<1> QED BY <1>13, <1>14, <1>22 DEF M, C, N

\* fork keeps the invariant.
LEMMA ForkOrder ==
    ASSUME Kept, NEW p \in Procs, NEW q \in Procs, Fork(p, q)
    PROVE  InOrder'
<1> DEFINE M == Regs
           M2 == Regs'
           N == PagesWhere(First, Private)
           C == Elems(Child(First))
<1>1. /\ Star /\ Marked(M) /\ Handed(M, pt) /\ Counted(M, pt) /\ Exclusive(M, pt, free)
      /\ OneBack(M) /\ Stored(M, pt, mem, disk, last) /\ TypeOK /\ First \in Procs
  BY WmapAssumption DEF Kept, InOrder
<1>2. /\ Forked(M, pt, free, q, C, N, M2, pt') /\ free' = free \ {pt'[q][v] : v \in N}
      /\ \A f \in Frames \ free : mem'[f] = mem[f]
  BY ForkForked
<1>3. /\ Forks(p, q, Len(maps[p])) /\ st' = [st EXCEPT ![q] = "RUNNING"] /\ parent' = [parent EXCEPT ![q] = p]
      /\ UNCHANGED <<disk, last>>
  BY DEF Fork, Forks
<1>4. p = First /\ First \in Running /\ q # First /\ q \notin Running
  BY <1>3, ForkFirst
<1>5. Star'
  <2>1. \A x \in Procs : x # q => parent'[x] = parent[x] /\ (x \in Running' <=> x \in Running)
    BY <1>1, <1>3 DEF TypeOK, Running
  <2>2. parent'[q] = First
    BY <1>1, <1>3, <1>4 DEF TypeOK
  <2>3. parent'[First] = NULL /\ First \in Running'
    BY <1>1, <1>4, <2>1 DEF Star
  <2>4. \A x \in Running' : x \in Procs
    BY DEF Running
  <2> QED BY <1>1, <2>1, <2>2, <2>3, <2>4 DEF Star
<1> HIDE DEF M, M2, N, C
<1>6. Marked(M2) /\ Handed(M2, pt') /\ Counted(M2, pt') /\ OneBack(M2)
  BY <1>1, <1>2, ForkedMarked, ForkedHanded, ForkedCounted, ForkedOneBack
<1>7. Exclusive(M2, pt', free')
  BY <1>1, <1>2, ForkedFrames
<1>8. Stored(M2, pt', mem', disk, last)
  BY <1>1, <1>2, ForkedStored
<1> QED BY <1>3, <1>5, <1>6, <1>7, <1>8 DEF InOrder, M2

\* A loaded page of region r of p is page o of file f, in a shared mapping of its own.
Saves(p, r, f, o) == /\ r.refcnt = 0 /\ Shared(r) /\ FileBacked(r) /\ r.file = f
                     /\ \E va \in Pages(r) : pt[p][va] # NULL /\ Offset(r, va) = o

\* Writing one region back puts into the file what was stored last.
LEMMA RegionSaved ==
    ASSUME Kept, NEW p \in Procs, NEW r \in Regs[p], NEW d \in Disks, NEW f \in Files, NEW o \in Offsets,
           NEW e, e = Written(r, d, p)
    PROVE  e[f][o] = IF Saves(p, r, f, o) THEN last[f][o] ELSE d[f][o]
<1>0. TypeOK /\ Stored(Regs, pt, mem, disk, last) /\ Layout(Regs, pt)
  BY KeptLayout DEF Kept, InOrder
<1>1. r \in Region /\ Pages(r) \in SUBSET PageAddrs
  BY <1>0, LayoutFacts
<1>2. CASE ~Unshared(r)
  BY <1>2 DEF Unshared, Written, Saves
<1>3. CASE Unshared(r)
  <2>1. e = WriteBack(d, p, r, Pages(r)) /\ r.refcnt = 0
    BY <1>3 DEF Written, Unshared
  <2>2. WroteBack(pt, mem, p, r, Pages(r), d, e)
    BY <1>0, <1>1, <2>1, WriteBackIs
  <2>3. CASE Saves(p, r, f, o)
    <3>1. PICK va \in Pages(r) : pt[p][va] # NULL /\ Offset(r, va) = o /\ e[f][o] = mem[pt[p][va]]
      BY <2>2, <2>3 DEF WroteBack, Saves
    <3>2. Backs(Regs, p, va, f, o)
      BY <2>3, <3>1 DEF Backs, Saves
    <3>3. va \in PageAddrs
      BY <1>1
    <3>4. mem[pt[p][va]] = last[f][o]
      BY <1>0, <3>1, <3>2, <3>3 DEF Stored
    <3> QED BY <2>3, <3>1, <3>4
  <2>4. CASE ~Saves(p, r, f, o)
    BY <2>1, <2>2, <2>4 DEF WroteBack, Saves
  <2> QED BY <2>3, <2>4
<1> QED BY <1>2, <1>3

\* Exit puts into the files what was stored last in the pages p has loaded.
LEMMA ExitSaved ==
    ASSUME Kept, NEW p \in Procs, NEW f \in Files, NEW o \in Offsets
    PROVE  ExitWrites(p)[f][o] = IF \E r \in Regs[p] : Saves(p, r, f, o) THEN last[f][o] ELSE disk[f][o]
<1> DEFINE m == maps[p]
           n == Len(m)
           Until(k) == \E i \in 1..k : Saves(p, m[i], f, o)
<1>0. TypeOK /\ m \in Regions /\ n \in Nat /\ DOMAIN m = 1..n
  <2>1. m \in Regions
    BY KeptLayout
  <2> QED BY <2>1, ListFacts DEF Kept
<1>1. Regs[p] = {m[i] : i \in DOMAIN m}
  BY RegsAt
<1>2. PICK F : /\ Writes(F, p, n) /\ ExitWrites(p) = F[n]
               /\ \A i \in 0..n : F[i] \in Disks
  BY <1>0, ExitWritesIs
<1> DEFINE Bad == {k \in 0..n : F[k][f][o] # IF Until(k) THEN last[f][o] ELSE disk[f][o]}
<1>3. F[0] = disk /\ \A k \in 1..n : F[k] = Written(m[k], F[k - 1], p)
  <2> HIDE DEF n
  <2> QED BY <1>0, <1>2 DEF Writes
<1> HIDE DEF n, m
<1>4. Bad = {}
  <2> SUFFICES ASSUME Bad # {} PROVE FALSE
    OBVIOUS
  <2>1. Bad \in SUBSET Nat
    BY <1>0
  <2>2. PICK k \in Bad : \A i \in Bad : k <= i
    BY <2>1, LeastNumber
  <2>3. CASE k = 0
    <3>1. ~Until(0)
      OBVIOUS
    <3> QED BY <1>3, <2>2, <2>3, <3>1
  <2>4. CASE k # 0
    <3>1. k - 1 \in 0..n /\ k - 1 \notin Bad /\ k \in 1..n /\ k \in DOMAIN m
      BY <1>0, <2>2, <2>4
    <3>2. F[k - 1][f][o] = IF Until(k - 1) THEN last[f][o] ELSE disk[f][o]
      BY <3>1
    <3>3. Until(k) <=> Until(k - 1) \/ Saves(p, m[k], f, o)
      <4>1. 1..k = (1..(k - 1)) \cup {k}
        BY <3>1
      <4> QED BY <4>1
    <3>4. F[k] = Written(m[k], F[k - 1], p) /\ F[k - 1] \in Disks /\ m[k] \in Regs[p]
      BY <1>1, <1>2, <1>3, <3>1
    <3>5. F[k][f][o] = IF Saves(p, m[k], f, o) THEN last[f][o] ELSE F[k - 1][f][o]
      BY <3>4, RegionSaved
    <3> HIDE DEF Until
    <3> QED BY <2>2, <3>2, <3>3, <3>5
  <2> QED BY <2>3, <2>4
<1>5. F[n][f][o] = IF Until(n) THEN last[f][o] ELSE disk[f][o]
  BY <1>0, <1>4
<1>6. Until(n) <=> \E r \in Regs[p] : Saves(p, r, f, o)
  BY <1>0, <1>1
<1> QED BY <1>2, <1>5, <1>6

\* The parent of a process that exits keeps its regions: it is First, which
\* has no region with refcnt 1.
LEMMA ReleasedSame ==
    ASSUME Kept, NEW p \in Procs
    PROVE  Elems(Released(p, maps[First])) = Regs[First]
<1> DEFINE m == maps[First]
           s == Released(p, m)
<1>0. TypeOK /\ Marked(Regs) /\ First \in Procs
  BY WmapAssumption DEF Kept, InOrder
<1>1. Regs[First] = {m[j] : j \in DOMAIN m}
  BY <1>0, RegsAt
<1>2. DOMAIN s = DOMAIN m /\ \A j \in DOMAIN m :
        /\ m[j] \in Region /\ s[j] \in Region /\ s[j].refcnt \in {0, m[j].refcnt}
        /\ s[j].addr = m[j].addr /\ s[j].length = m[j].length /\ s[j].flags = m[j].flags /\ s[j].file = m[j].file
        /\ s[j].n_loaded_pages = m[j].n_loaded_pages
  BY <1>0, ReleasedType
<1> HIDE DEF m, s
<1>3. ASSUME NEW j \in DOMAIN m PROVE s[j] = m[j]
  <2> DEFINE x == s[j]
             y == m[j]
  <2>1. y.refcnt = 0
    <3>1. y.refcnt # 1
      BY <1>0, <1>1 DEF Marked
    <3> QED BY <1>2, <3>1, RegionFacts
  <2>2. /\ x \in Region /\ y \in Region /\ x.refcnt = y.refcnt
        /\ x.addr = y.addr /\ x.length = y.length /\ x.flags = y.flags /\ x.file = y.file
        /\ x.n_loaded_pages = y.n_loaded_pages
    BY <1>2, <2>1
  <2> HIDE DEF x, y
  <2>3. x = y
    BY <2>2 DEF Region
  <2> QED BY <2>3 DEF x, y
<1>4. Elems(s) = {m[j] : j \in DOMAIN m}
  BY <1>2, <1>3 DEF Elems
<1> QED BY <1>1, <1>4 DEF m, s

\* exit takes all regions and pages from the process.
LEMMA ExitLeft ==
    ASSUME Kept, NEW p \in Procs, Exit(p)
    PROVE  Gone(Regs, pt, p, Regs', pt') /\ Star'
<1> DEFINE M == Regs
<1>0. TypeOK /\ TypeOK' /\ Orderly /\ Star /\ Counted(M, pt) /\ First \in Procs /\ NULL \notin Procs
  BY WmapAssumption DEF Kept, InOrder
<1>1. Layout(M, pt)
  BY KeptLayout
<1>2. /\ p \in Running /\ MayExit(p) /\ pt' = Unmapped(p, PagesWhere(p, LAMBDA r : TRUE))
      /\ maps' = [q \in Procs |-> IF q = p THEN <<>>
                               ELSE IF q = parent[p] THEN Released(p, maps[q]) ELSE maps[q]]
      /\ parent' = [q \in Procs |-> IF parent[q] = p THEN NULL ELSE parent[q]]
      /\ st' = [st EXCEPT ![p] = "ZOMBIE"]
  BY DEF Exit
<1>3. \A q \in Procs : q = parent[p] => q = First
  BY <1>0, <1>2 DEF Star
<1>4. \A q \in Running : parent[q] # p
  BY <1>0, <1>2 DEF MayExit, Orderly
<1>5. p = First => \A q \in Procs : q # p => q \notin Running
  BY <1>0, <1>4 DEF Star
<1>6. Regs' = [M EXCEPT ![p] = {}]
  <2>1. \A q \in Procs : q # p => Elems(maps'[q]) = M[q]
    <3>1. TAKE q \in Procs
    <3>2. CASE q = parent[p] /\ q # p
      BY <1>2, <1>3, <3>2, ReleasedSame
    <3>3. CASE q # parent[p] /\ q # p
      BY <1>2, <3>3 DEF Regs
    <3> QED BY <3>2, <3>3
  <2>2. Elems(maps'[p]) = {}
    BY <1>2 DEF Elems
  <2>3. Regs' = [q \in Procs |-> Elems(maps'[q])] /\ DOMAIN M = Procs
    BY DEF Regs
  <2> HIDE DEF M
  <2> QED BY <2>1, <2>2, <2>3
<1>8. \A v : v \in PagesWhere(p, LAMBDA r : TRUE) <=> \E r \in M[p] : v \in Pages(r)
  BY WherePages
<1> DEFINE S == PagesWhere(p, LAMBDA r : TRUE)
<1>9. Cleared(pt, p, S, pt')
  BY <1>0, <1>2 DEF Cleared, Unmapped, TypeOK
<1>s. \A v : v \in S <=> \E r \in M[p] : v \in Pages(r)
  BY <1>8
<1> HIDE DEF S
<1>10. /\ pt' \in PageTables /\ \A q \in Procs : q # p => pt'[q] = pt[q]
       /\ \A v \in PageAddrs : pt'[p][v] = IF v \in S THEN NULL ELSE pt[p][v]
  BY <1>1, <1>9 DEF Layout, PageTables, Cleared
<1>11. \A v \in PageAddrs : pt'[p][v] = NULL
  BY <1>0, <1>s, <1>10 DEF Counted
<1>12. p = First => \A q \in Procs : q # p => M[q] = {}
  BY <1>0, <1>5, RegsEmpty
<1>13. Gone(M, pt, p, Regs', pt')
  BY <1>1, <1>6, <1>10, <1>11, <1>12 DEF Gone
<1>14. Star'
  <2>1. \A q : q \in Running' => q \in Procs /\ q \in Running /\ q # p
    BY <1>0, <1>2 DEF Running, TypeOK
  <2>2. \A q \in Procs : parent'[q] = IF parent[q] = p THEN NULL ELSE parent[q]
    BY <1>2
  <2>3. parent'[First] = NULL
    BY <1>0, <2>2 DEF Star
  <2>4. ASSUME NEW q \in Running', q # First PROVE parent'[q] = First /\ First \in Running'
    <3>1. q \in Procs /\ q \in Running /\ q # p
      BY <2>1
    <3>2. p # First
      BY <1>5, <3>1
    <3>3. parent[q] = First /\ First \in Running
      BY <1>0, <2>4, <3>1 DEF Star
    <3>4. First \in Running'
      BY <1>0, <1>2, <3>2, <3>3 DEF Running, TypeOK
    <3> QED BY <2>2, <3>1, <3>2, <3>3, <3>4
  <2> QED BY <2>3, <2>4 DEF Star
<1> QED BY <1>13, <1>14

\* exit keeps the invariant.
LEMMA ExitOrder ==
    ASSUME Kept, NEW p \in Procs, Exit(p)
    PROVE  InOrder'
<1> DEFINE M == Regs
           M2 == Regs'
           S == PagesWhere(p, Unshared)
<1>1. /\ Star /\ Marked(M) /\ Handed(M, pt) /\ Counted(M, pt) /\ Exclusive(M, pt, free)
      /\ OneBack(M) /\ Stored(M, pt, mem, disk, last)
  BY DEF Kept, InOrder
<1>2. Gone(M, pt, p, M2, pt') /\ Star'
  BY ExitLeft
<1>3. disk' = ExitWrites(p) /\ KFree(FramesOf(p, S)) /\ UNCHANGED last
  BY DEF Exit, ExitFrees
<1>4. free' = free \cup {pt[p][v] : v \in {w \in S : pt[p][w] # NULL}} /\ Scrubbed(pt, p, S, mem, mem')
  BY <1>3, Kfreed
<1>5. S \in SUBSET PageAddrs /\ \A v \in PageAddrs : v \in S <=> \E r \in M[p] : r.refcnt = 0 /\ v \in Pages(r)
  BY PagesIn, WherePages
<1>6. ASSUME NEW f \in Files, NEW o \in Offsets
      PROVE  IF \E v \in PageAddrs : Backs(M, p, v, f, o) /\ pt[p][v] # NULL THEN disk'[f][o] = last[f][o]
             ELSE disk'[f][o] = disk[f][o]
  <2>1. disk'[f][o] = IF \E r \in M[p] : Saves(p, r, f, o) THEN last[f][o] ELSE disk[f][o]
    BY <1>3, ExitSaved
  <2>2. (\E r \in M[p] : Saves(p, r, f, o)) <=> \E v \in PageAddrs : Backs(M, p, v, f, o) /\ pt[p][v] # NULL
    <3>1. \A r : Pages(r) \in SUBSET PageAddrs
      BY PagesIn
    <3> HIDE DEF M
    <3> QED BY <3>1 DEF Saves, Backs
  <2> QED BY <2>1, <2>2
<1> HIDE DEF M, M2, S
<1>7. Marked(M2) /\ Handed(M2, pt') /\ Counted(M2, pt') /\ OneBack(M2)
  BY <1>1, <1>2, GoneMarked, GoneHanded, GoneCounted, GoneOneBack
<1>8. Exclusive(M2, pt', free')
  BY <1>1, <1>2, <1>4, <1>5, GoneFrames
<1>9. Stored(M2, pt', mem', disk', last)
  BY <1>1, <1>2, <1>4, <1>5, <1>6, GoneStored
<1> QED BY <1>2, <1>3, <1>7, <1>8, <1>9 DEF InOrder, M2

\* A zombie has nothing left in its page table: wait frees none of wmap's pages.
LEMMA WaitOrder ==
    ASSUME Kept, NEW q \in Procs, Wait(q)
    PROVE  InOrder'
<1>0. TypeOK /\ Star /\ Counted(Regs, pt) /\ First \in Procs
  BY WmapAssumption DEF Kept, InOrder
<1>1. /\ st[q] = "ZOMBIE" /\ KFree(FramesOf(q, PageAddrs)) /\ pt' = Unmapped(q, PageAddrs)
      /\ st' = [st EXCEPT ![q] = "UNUSED"] /\ parent' = [parent EXCEPT ![q] = NULL]
      /\ UNCHANGED <<maps, disk, last>>
  BY DEF Wait
<1>2. Regs[q] = {}
  <2>1. q \notin Running
    BY <1>1 DEF Running
  <2> QED BY <1>0, <2>1, RegsEmpty
<1>3. \A va \in PageAddrs : pt[q][va] = NULL
  BY <1>0, <1>2 DEF Counted
<1>4. FramesOf(q, PageAddrs) = {}
  BY <1>3 DEF FramesOf, Present
<1>5. free' = free /\ mem' = mem
  <2>1. mem = [f \in Frames |-> mem[f]]
    BY <1>0 DEF TypeOK
  <2>2. free' = free \cup {} /\ mem' = [f \in Frames |-> IF f \in {} THEN Junk ELSE mem[f]]
    BY <1>1, <1>4 DEF KFree
  <2> QED BY <2>1, <2>2
<1>6. pt' = pt
  <2>1. pt \in [Procs -> [PageAddrs -> Frames \cup {NULL}]]
    BY <1>0 DEF TypeOK
  <2>2. pt' = [pt EXCEPT ![q] = [va \in PageAddrs |-> NULL]]
    BY <1>1, <2>1 DEF Unmapped
  <2>3. pt[q] = [va \in PageAddrs |-> NULL]
    BY <1>3, <2>1
  <2> QED BY <2>1, <2>2, <2>3
<1>7. Star'
  <2>1. \A p : p \in Running' <=> p \in Running
    BY <1>0, <1>1 DEF Running, TypeOK
  <2>2. \A p \in Procs : parent'[p] = IF p = q THEN NULL ELSE parent[p]
    BY <1>0, <1>1 DEF TypeOK
  <2>3. q \notin Running /\ \A p \in Running : p \in Procs
    BY <1>1 DEF Running
  <2> QED BY <1>0, <2>1, <2>2, <2>3 DEF Star
<1>8. Regs' = Regs
  BY <1>1 DEF Regs
<1> QED BY <1>1, <1>5, <1>6, <1>7, <1>8 DEF Kept, InOrder

\* Calls that neither map nor unmap.
LEMMA OtherOrder ==
    ASSUME Kept, UNCHANGED <<st, parent, maps, pt, disk, free, mem, last>>
    PROVE  InOrder'
<1>1. Regs' = Regs
  BY DEF Regs
<1>2. Star'
  BY StarSame DEF Kept, InOrder
<1> QED BY <1>1, <1>2 DEF Kept, InOrder

\* Every call of an orderly family keeps the invariant.
LEMMA OrderStep ==
    ASSUME Kept, Steps
    PROVE  InOrder'
<1>1. PICK p \in Procs :
    \/ \E r, k : MapStep(p, r, k)
    \/ \E a \in client.addrs, len \in client.lengths, flags \in client.flags, fd \in Fds :
          WmapInvalid(p, a, len, flags, fd)
    \/ \E i : UnmapStep(p, i)
    \/ \E i, a, len, e, l : CutStep(p, i, a, len, e, l)
    \/ \E va \in PageAddrs : \E i, f : FaultStep(p, va, i, f)
    \/ \E va \in PageAddrs, v \in Vals : Store(p, va, v)
    \/ \E q \in Procs : Fork(p, q)
    \/ \E q \in Procs, n \in DOMAIN maps[p], va \in PageAddrs : ForkFails(p, q, n, va)
    \/ Exit(p) \/ Wait(p) \/ Exec(p)
    \/ \E fd \in Fds : Close(p, fd)
    \/ \E fd \in Fds, f \in Files : Open(p, fd, f)
  BY DEF Steps
<1>2. ~client.mayfail /\ "exec" \notin client.calls
  BY DEF Kept, Orderly
<1>3. CASE \E r, k : MapStep(p, r, k)
  BY <1>3, MapOrder
<1>4. CASE \E a \in client.addrs, len \in client.lengths, flags \in client.flags, fd \in Fds :
             WmapInvalid(p, a, len, flags, fd)
  <2>1. UNCHANGED <<st, parent, maps, pt, disk, free, mem, last>>
    BY <1>4 DEF WmapInvalid
  <2> QED BY <2>1, OtherOrder
<1>5. CASE \E i : UnmapStep(p, i)
  BY <1>5, UnmapOrder
<1>6. CASE \E i, a, len, e, l : CutStep(p, i, a, len, e, l)
  BY <1>6, CutOrder
<1>7. CASE \E va \in PageAddrs : \E i, f : FaultStep(p, va, i, f)
  BY <1>7, FaultOrder
<1>8. CASE \E va \in PageAddrs, v \in Vals : Store(p, va, v)
  BY <1>8, StoreOrder
<1>9. CASE \E q \in Procs : Fork(p, q)
  BY <1>9, ForkOrder
<1>10. CASE \E q \in Procs, n \in DOMAIN maps[p], va \in PageAddrs : ForkFails(p, q, n, va)
  BY <1>2, <1>10 DEF ForkFails
<1>11. CASE Exit(p)
  BY <1>11, ExitOrder
<1>12. CASE Wait(p)
  BY <1>12, WaitOrder
<1>13. CASE Exec(p)
  BY <1>2, <1>13 DEF Exec, Makes
<1>14. CASE \E fd \in Fds : Close(p, fd)
  <2>1. UNCHANGED <<st, parent, maps, pt, disk, free, mem, last>>
    BY <1>14 DEF Close
  <2> QED BY <2>1, OtherOrder
<1>15. CASE \E fd \in Fds, f \in Files : Open(p, fd, f)
  <2>1. UNCHANGED <<st, parent, maps, pt, disk, free, mem, last>>
    BY <1>15 DEF Open
  <2> QED BY <2>1, OtherOrder
<1> QED BY <1>1, <1>3, <1>4, <1>5, <1>6, <1>7, <1>8, <1>9, <1>10, <1>11, <1>12, <1>13, <1>14, <1>15

\* Every step keeps the invariant.
LEMMA OrderInductive == TypeOK /\ ListInv /\ OrderInv /\ [Next]_vars => OrderInv'
<1> SUFFICES ASSUME TypeOK, ListInv, OrderInv, [Next]_vars PROVE OrderInv'
  OBVIOUS
<1>1. TypeOK'
  BY TypeInductive
<1>2. client' = client
  BY NextIs DEF vars
<1>3. Orderly' <=> Orderly
  BY <1>2 DEF Orderly
<1>4. ASSUME Orderly PROVE InOrder'
  <2>1. Kept
    BY <1>1, <1>2, <1>4 DEF Kept, OrderInv, InOrder
  <2>2. CASE Next
    BY <2>1, <2>2, NextIs, OrderStep
  <2>3. CASE UNCHANGED vars
    <3>1. UNCHANGED <<st, parent, maps, pt, disk, free, mem, last>>
      BY <2>3 DEF vars
    <3> QED BY <2>1, <3>1, OtherOrder
  <2> QED BY <2>2, <2>3
<1> QED BY <1>3, <1>4 DEF OrderInv, InOrder

\* It holds at the start.
LEMMA OrderInit == Init => OrderInv
<1> SUFFICES ASSUME Init PROVE InOrder
  BY DEF OrderInv, InOrder
<1>0. First \in Procs /\ NULL \notin Procs
  BY WmapAssumption
<1>1. \A p \in Procs : Regs[p] = {}
  BY DEF Init, Regs, Elems
<1>2. \A p \in Procs : \A va \in PageAddrs : pt[p][va] = NULL
  BY DEF Init
<1>3. Star
  BY <1>0 DEF Init, Star, Running
<1>4. Marked(Regs) /\ Handed(Regs, pt) /\ Counted(Regs, pt) /\ OneBack(Regs)
  BY <1>1, <1>2 DEF Marked, Handed, Counted, OneBack, Backs
<1>5. Exclusive(Regs, pt, free)
  <2>1. free = Frames
    BY DEF Init
  <2> QED BY <1>1, <1>2, <2>1 DEF Exclusive, Owned
<1>6. Stored(Regs, pt, mem, disk, last)
  <2>1. last = disk
    BY DEF Init
  <2> QED BY <1>1, <2>1 DEF Stored, Backs
<1> QED BY <1>3, <1>4, <1>5, <1>6 DEF InOrder

\* It holds in every state.
LEMMA OrderAlways == Spec => [](TypeOK /\ ListInv /\ OrderInv)
<1>1. Init => TypeOK /\ ListInv /\ OrderInv
  BY InitType, ListInit, OrderInit
<1>2. TypeOK /\ ListInv /\ OrderInv /\ [Next]_vars => (TypeOK /\ ListInv /\ OrderInv)'
  BY TypeInductive, ListInductive, OrderInductive
<1> QED BY <1>1, <1>2, PTL DEF Spec

\* What an orderly state gives.
LEMMA OrderFacts ==
    ASSUME TypeOK, ListInv, OrderInv, Orderly
    PROVE  /\ InOrder /\ Layout(Regs, pt) /\ First \in Procs /\ NULL \notin Frames /\ free \in SUBSET Frames
<1>1. "in_range" \in client.rules
  BY DEF Orderly
<1> QED BY <1>1, LayoutNow, WmapAssumption DEF OrderInv, InOrder, TypeOK

\* A mapped frame has an owner, so it is not free.
LEMMA KeptFollows == TypeOK /\ ListInv /\ OrderInv => FramesKept
<1> SUFFICES ASSUME TypeOK, ListInv, OrderInv, Orderly, NEW f \in free, NEW x \in Mappers(f) PROVE FALSE
  BY DEF FramesKept, NoFreeWhileMapped
<1>1. /\ InOrder /\ Layout(Regs, pt) /\ First \in Procs /\ NULL \notin Frames /\ f \in Frames
  BY OrderFacts
<1>2. PICK p \in Procs, va \in PageAddrs : pt[p][va] = f
  BY DEF Mappers
<1>3. PICK z \in {p, First} : \E r \in Regs[p], s \in Regs[z] :
              /\ va \in Pages(r) /\ va \in Pages(s) /\ Alike(r, s) /\ s.refcnt = 0
              /\ pt[z][va] = pt[p][va] /\ Owned(Regs, pt, z, va) /\ (z # p => Shared(r))
  BY <1>1, <1>2, HasOwner DEF InOrder
<1>4. z \in Procs /\ pt[z][va] = f /\ Owned(Regs, pt, z, va)
  BY <1>1, <1>2, <1>3
<1> QED BY <1>1, <1>4 DEF InOrder, Exclusive

\* The counts are those of the loaded pages.
LEMMA CountsFollow ==
    ASSUME TypeOK, ListInv, OrderInv, Orderly
    PROVE  LoadedExact
<1>1. Counted(Regs, pt)
  BY OrderFacts DEF InOrder
<1>2. ASSUME NEW p \in Procs, NEW i \in DOMAIN maps[p]
      PROVE  maps[p][i].n_loaded_pages = Cardinality(Present(p, Pages(maps[p][i])))
  <2>1. maps[p][i] \in Regs[p]
    BY RegsAt
  <2>2. Loads(pt, p, maps[p][i]) = Present(p, Pages(maps[p][i]))
    BY DEF Loads, Present
  <2> QED BY <1>1, <2>1, <2>2 DEF Counted
<1>3. ASSUME NEW p \in Procs, NEW va \in Present(p, PageAddrs)
      PROVE  va \in PagesWhere(p, LAMBDA r : TRUE)
  <2>1. \E r \in Regs[p] : va \in Pages(r)
    BY <1>1 DEF Counted, Present
  <2> QED BY <2>1, WherePages
<1> QED BY <1>2, <1>3 DEF LoadedExact

\* Two pages with one frame have one owner.
LEMMA OneOwner ==
    ASSUME TypeOK, ListInv, OrderInv, Orderly, NEW p \in Procs, NEW q \in Procs,
           NEW v \in PageAddrs, NEW w \in PageAddrs, pt[p][v] = pt[q][w], pt[p][v] # NULL, <<p, v>> # <<q, w>>
    PROVE  /\ v = w /\ p # q
           /\ \E r \in Regs[p] : Shared(r) /\ v \in Pages(r)
           /\ \E r \in Regs[q] : Shared(r) /\ v \in Pages(r)
<1>1. /\ Marked(Regs) /\ Handed(Regs, pt) /\ Counted(Regs, pt) /\ Exclusive(Regs, pt, free)
      /\ Layout(Regs, pt) /\ First \in Procs
  BY OrderFacts DEF InOrder
<1>2. PICK x \in {p, First} : \E r \in Regs[p], s \in Regs[x] :
              /\ v \in Pages(r) /\ v \in Pages(s) /\ Alike(r, s) /\ s.refcnt = 0
              /\ pt[x][v] = pt[p][v] /\ Owned(Regs, pt, x, v) /\ (x # p => Shared(r))
  BY <1>1, HasOwner
<1>3. PICK r1 \in Regs[p], s1 \in Regs[x] :
              /\ v \in Pages(r1) /\ v \in Pages(s1) /\ Alike(r1, s1) /\ s1.refcnt = 0
              /\ pt[x][v] = pt[p][v] /\ Owned(Regs, pt, x, v) /\ (x # p => Shared(r1))
  BY <1>2
<1>4. PICK y \in {q, First} : \E r \in Regs[q], s \in Regs[y] :
              /\ w \in Pages(r) /\ w \in Pages(s) /\ Alike(r, s) /\ s.refcnt = 0
              /\ pt[y][w] = pt[q][w] /\ Owned(Regs, pt, y, w) /\ (y # q => Shared(r))
  BY <1>1, HasOwner
<1>5. PICK r2 \in Regs[q], s2 \in Regs[y] :
              /\ w \in Pages(r2) /\ w \in Pages(s2) /\ Alike(r2, s2) /\ s2.refcnt = 0
              /\ pt[y][w] = pt[q][w] /\ Owned(Regs, pt, y, w) /\ (y # q => Shared(r2))
  BY <1>4
<1>6. x \in Procs /\ y \in Procs
  BY <1>1
<1>7. x = y /\ v = w
  BY <1>1, <1>3, <1>5, <1>6 DEF Exclusive
<1>8. p # q
  BY <1>7
<1>9. s1 = s2
  BY <1>1, <1>3, <1>5, <1>6, <1>7 DEF Layout
<1>10. (Shared(s1) <=> Shared(r1)) /\ (Shared(s2) <=> Shared(r2))
  BY <1>3, <1>5 DEF Alike, Shared
<1>11. x # p \/ y # q
  BY <1>7, <1>8
<1>12. Shared(r1) /\ Shared(r2)
  BY <1>3, <1>5, <1>9, <1>10, <1>11
<1> QED BY <1>3, <1>5, <1>7, <1>8, <1>12

\* No frame is lost; frames are shared in shared mappings only.
LEMMA OwnersFollow ==
    ASSUME TypeOK, ListInv, OrderInv, Orderly
    PROVE  FramesOwned
<1>0. Exclusive(Regs, pt, free) /\ NULL \notin Frames
  BY OrderFacts DEF InOrder
<1>1. ASSUME NEW f \in Frames \ free PROVE Mappers(f) # {}
  <2>1. PICK p \in Procs, v \in PageAddrs : pt[p][v] = f
    BY <1>0, <1>1 DEF Exclusive
  <2>2. <<p, v>> \in Mappers(f)
    BY <2>1 DEF Mappers
  <2> QED BY <2>2
<1>2. ASSUME NEW f \in Frames, NEW x \in Mappers(f), NEW y \in Mappers(f), x # y
      PROVE  x[2] = y[2] /\ x[2] \in PagesWhere(x[1], Shared) \cap PagesWhere(y[1], Shared)
  <2>1. PICK p \in Procs, v \in PageAddrs : x = <<p, v>> /\ pt[p][v] = f
    BY DEF Mappers
  <2>2. PICK q \in Procs, w \in PageAddrs : y = <<q, w>> /\ pt[q][w] = f
    BY DEF Mappers
  <2>3. <<p, v>> # <<q, w>> /\ pt[p][v] = pt[q][w] /\ pt[p][v] # NULL
    BY <1>0, <1>2, <2>1, <2>2
  <2>4. /\ v = w
        /\ \E r \in Regs[p] : Shared(r) /\ v \in Pages(r)
        /\ \E r \in Regs[q] : Shared(r) /\ v \in Pages(r)
    BY <2>3, OneOwner
  <2>5. v \in PagesWhere(p, Shared) /\ v \in PagesWhere(q, Shared)
    BY <2>4, WherePages
  <2> QED BY <2>1, <2>2, <2>4, <2>5
<1> QED BY <1>1, <1>2 DEF FramesOwned

\* The invariant implies the property.
LEMMA ExactFollows == TypeOK /\ ListInv /\ OrderInv => FramesExact
BY CountsFollow, OwnersFollow DEF FramesExact

\* Parent and child see the same frames in what is shared.
LEMMA SameFollows ==
    ASSUME TypeOK, ListInv, OrderInv, Orderly
    PROVE  SharedSame
<1>1. Star /\ Marked(Regs) /\ Handed(Regs, pt)
  BY OrderFacts DEF InOrder
<1>2. ASSUME NEW q \in Running, NEW i \in DOMAIN maps[q], maps[q][i].refcnt = 1, NEW va \in Pages(maps[q][i])
      PROVE  pt[q][va] # NULL /\ pt[q][va] = pt[parent[q]][va]
  <2>1. q \in Procs
    BY DEF Running
  <2>2. maps[q][i] \in Regs[q]
    BY <2>1, RegsAt
  <2>3. q # First
    BY <1>1, <1>2, <2>1, <2>2 DEF Marked
  <2>4. parent[q] = First
    BY <1>1, <2>3 DEF Star
  <2> QED BY <1>1, <1>2, <2>1, <2>2, <2>4 DEF Handed
<1> QED BY <1>2 DEF SharedSame

\* What was stored is in the file when nobody maps it.
LEMMA ReachFollows ==
    ASSUME TypeOK, ListInv, OrderInv, Orderly
    PROVE  StoresReachFile
<1>1. Stored(Regs, pt, mem, disk, last)
  BY OrderFacts DEF InOrder
<1>2. ASSUME NEW f \in Files, \A p \in Procs : \A i \in DOMAIN maps[p] : maps[p][i].file # f
      PROVE  disk[f] = last[f]
  <2>1. \A p \in Procs : \A r \in Regs[p] : r.file # f
    BY <1>2, RegsAt
  <2>2. \A p \in Procs : \A v \in PageAddrs : \A o \in Offsets : ~Backs(Regs, p, v, f, o)
    BY <2>1 DEF Backs
  <2>3. \A o \in Offsets : disk[f][o] = last[f][o]
    BY <1>1, <2>2 DEF Stored
  <2>4. disk[f] \in [Offsets -> Vals \cup {Junk}] /\ last[f] \in [Offsets -> Vals \cup {Junk}]
    BY DEF TypeOK, Contents, Offsets
  <2> QED BY <2>3, <2>4
<1> QED BY <1>2 DEF StoresReachFile

\* The invariant implies the property.
LEMMA SeenFollows == TypeOK /\ ListInv /\ OrderInv => StoresSeen
BY SameFollows, ReachFollows DEF StoresSeen

\* As long as a family follows the rules of Orderly, no exit, wunmap, wpunmap
\* or wait frees a frame that a process still maps (FramesKept).
THEOREM FramesStay == Spec => []FramesKept
BY OrderAlways, KeptFollows, PTL

\* The n_loaded_pages that getwmapinfo reports are right, no frame is lost, and
\* two processes have a frame in common only in a shared mapping, at one
\* address (FramesExact).
THEOREM FramesRight == Spec => []FramesExact
BY OrderAlways, ExactFollows, PTL

\* A child sees the frames of First in the shared mappings it has inherited,
\* and what any of them has stored there is in the file when nobody maps it any
\* more, whoever unmapped it or exited last (StoresSeen).
THEOREM StoresReach == Spec => []StoresSeen
BY OrderAlways, SeenFollows, PTL
=============================================================================
