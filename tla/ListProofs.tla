----------------------------- MODULE ListProofs -----------------------------
(***************************************************************************)
(* What the helpers on lists and sums return, for lists of any length.     *)
(***************************************************************************)
EXTENDS Lists, SequencesExt, FiniteSetTheorems, SequenceTheorems, TLAPS

(* Ascending enumerates its set: every member once, in increasing order.     *)
LEMMA AscendingEnumerates ==
    ASSUME NEW n \in Nat, NEW I \in SUBSET (1..n)
    PROVE  /\ Cardinality(I) \in Nat
           /\ Ascending(I) \in [1..Cardinality(I) -> I]
           /\ \A i \in I : \E k \in 1..Cardinality(I) : Ascending(I)[k] = i
           /\ \A j, k \in 1..Cardinality(I) : j < k => Ascending(I)[j] < Ascending(I)[k]
<1> DEFINE below(i) == {j \in I : j < i}
           N == Cardinality(I)
           rank == [i \in I |-> Cardinality(below(i))]
<1>1. IsFiniteSet(I) /\ N \in Nat
  <2>1. IsFiniteSet(1..n)
    BY FS_Interval
  <2>2. IsFiniteSet(I)
    BY <2>1, FS_Subset
  <2> QED BY <2>2, FS_CardinalityType
<1>2. \A i \in I : IsFiniteSet(below(i)) /\ Cardinality(below(i)) \in 0..(N - 1)
  <2> SUFFICES ASSUME NEW i \in I
               PROVE  IsFiniteSet(below(i)) /\ Cardinality(below(i)) \in 0..(N - 1)
    OBVIOUS
  <2>1. below(i) \in SUBSET I /\ below(i) # I
    OBVIOUS
  <2>2. IsFiniteSet(below(i)) /\ Cardinality(below(i)) <= N /\ Cardinality(below(i)) # N
    BY <1>1, <2>1, FS_Subset
  <2>3. Cardinality(below(i)) \in Nat
    BY <2>2, FS_CardinalityType
  <2> HIDE DEF below
  <2> QED BY <1>1, <2>2, <2>3
<1>3. \A i, j \in I : i < j => Cardinality(below(i)) < Cardinality(below(j))
  <2> SUFFICES ASSUME NEW i \in I, NEW j \in I, i < j
               PROVE  Cardinality(below(i)) < Cardinality(below(j))
    OBVIOUS
  <2>0. i \in below(j) /\ i \notin below(i)
    OBVIOUS
  <2>a. \A x \in I : x < i => x < j
    OBVIOUS
  <2>b. below(i) \subseteq below(j)
    BY <2>a
  <2>1. below(i) \in SUBSET below(j) /\ below(i) # below(j)
    BY <2>0, <2>b, Zenon
  <2>2. Cardinality(below(i)) <= Cardinality(below(j)) /\ Cardinality(below(i)) # Cardinality(below(j))
    BY <1>2, <2>1, FS_Subset
  <2>3. Cardinality(below(i)) \in Nat /\ Cardinality(below(j)) \in Nat
    BY <1>2, FS_CardinalityType
  <2> HIDE DEF below
  <2> QED BY <2>2, <2>3
<1>4. rank \in Injection(I, 0..(N - 1))
  <2>1. rank \in [I -> 0..(N - 1)]
    BY <1>2
  <2>2. \A i, j \in I : rank[i] = rank[j] => i = j
    <3> SUFFICES ASSUME NEW i \in I, NEW j \in I, i # j PROVE rank[i] # rank[j]
      OBVIOUS
    <3>1. i < j \/ j < i
      OBVIOUS
    <3>2. rank[i] = Cardinality(below(i)) /\ rank[j] = Cardinality(below(j))
      OBVIOUS
    <3>3. Cardinality(below(i)) \in Nat /\ Cardinality(below(j)) \in Nat
      BY <1>2, FS_CardinalityType
    <3> HIDE DEF below, rank
    <3> QED BY <1>3, <3>1, <3>2, <3>3
  <2> HIDE DEF rank
  <2> QED BY <2>1, <2>2 DEF Injection, IsInjective
<1>5. rank \in Surjection(I, 0..(N - 1))
  <2>1. IsFiniteSet(0..(N - 1)) /\ Cardinality(0..(N - 1)) = N
    BY <1>1, FS_Interval, SMTT(30)
  <2> HIDE DEF rank
  <2> QED BY <1>1, <1>4, <2>1, FS_Injection
<1>6. \A k \in 1..N : \E i \in I : Cardinality(below(i)) = k - 1
  <2> SUFFICES ASSUME NEW k \in 1..N PROVE \E i \in I : Cardinality(below(i)) = k - 1
    OBVIOUS
  <2>1. k - 1 \in 0..(N - 1)
    BY <1>1
  <2>2. \E i \in I : rank[i] = k - 1
    BY <1>5, <2>1 DEF Surjection
  <2> QED BY <2>2
<1>7. \A k \in 1..N : /\ Ascending(I)[k] \in I
                      /\ Cardinality(below(Ascending(I)[k])) = k - 1
  BY <1>6 DEF Ascending
<1>8. Ascending(I) \in [1..N -> I]
  BY <1>7 DEF Ascending
<1>9. \A i \in I : \E k \in 1..N : Ascending(I)[k] = i
  <2> SUFFICES ASSUME NEW i \in I PROVE \E k \in 1..N : Ascending(I)[k] = i
    OBVIOUS
  <2> DEFINE k == Cardinality(below(i)) + 1
             j == Ascending(I)[k]
  <2>1. k \in 1..N
    BY <1>1, <1>2
  <2>a. j \in I /\ Cardinality(below(j)) = k - 1
    <3> HIDE DEF below, k
    <3> QED BY <1>7, <2>1
  <2>b. Cardinality(below(i)) \in 0..(N - 1)
    BY <1>2
  <2>2. j \in I /\ Cardinality(below(j)) = Cardinality(below(i))
    <3> DEFINE c == Cardinality(below(i))
    <3>1. c \in Int /\ k - 1 = c
      <4>1. c \in Int /\ k = c + 1
        BY <1>1, <2>b
      <4> HIDE DEF c, k
      <4> QED BY <4>1
    <3> HIDE DEF k, below
    <3> QED BY <2>a, <3>1
  <2>3. rank[j] = rank[i]
    BY <2>2
  <2>4. j = i
    BY <1>4, <2>2, <2>3 DEF Injection, IsInjective
  <2> QED BY <2>1, <2>4
<1>10. \A j, k \in 1..N : j < k => Ascending(I)[j] < Ascending(I)[k]
  <2> SUFFICES ASSUME NEW j \in 1..N, NEW k \in 1..N, j < k
               PROVE  Ascending(I)[j] < Ascending(I)[k]
    OBVIOUS
  <2> DEFINE x == Ascending(I)[j]
             y == Ascending(I)[k]
  <2>1. x \in I /\ y \in I /\ Cardinality(below(x)) = j - 1 /\ Cardinality(below(y)) = k - 1
    BY <1>7
  <2> HIDE DEF below, x, y
  <2>2. ~(y < x) /\ x # y
    BY <1>1, <1>3, <2>1
  <2>3. x \in Int /\ y \in Int
    BY <2>1
  <2>4. x < y
    BY <2>2, <2>3
  <2> QED BY <2>4 DEF x, y
<1> QED BY <1>1, <1>8, <1>9, <1>10

(* The k-th item of ItemsAt is an item at one of the positions, each       *)
(* position gives one, and their order is kept.                            *)
LEMMA ItemsAtKeeps ==
    ASSUME NEW S, NEW s \in Seq(S), NEW I \in SUBSET DOMAIN s
    PROVE  /\ ItemsAt(s, I) \in Seq(S)
           /\ Len(ItemsAt(s, I)) = Cardinality(I)
           /\ \A k \in DOMAIN ItemsAt(s, I) : \E i \in I : ItemsAt(s, I)[k] = s[i]
           /\ \A i \in I : \E k \in DOMAIN ItemsAt(s, I) : ItemsAt(s, I)[k] = s[i]
<1>1. Len(s) \in Nat /\ DOMAIN s = 1..Len(s) /\ \A i \in DOMAIN s : s[i] \in S
  BY ElementOfSeq, LenProperties
<1>2. /\ Cardinality(I) \in Nat
      /\ Ascending(I) \in [1..Cardinality(I) -> I]
      /\ \A i \in I : \E k \in 1..Cardinality(I) : Ascending(I)[k] = i
  BY <1>1, AscendingEnumerates
<1> DEFINE N == Cardinality(I)
           order == Ascending(I)
           t == ItemsAt(s, I)
<1>3. t = [k \in 1..N |-> s[order[k]]]
  BY DEF ItemsAt
<1>4. N \in Nat /\ order \in [1..N -> I] /\ \A i \in I : \E k \in 1..N : order[k] = i
  BY <1>2
<1> HIDE DEF N, order, t
<1>5. \A k \in 1..N : s[order[k]] \in S
  BY <1>1, <1>4
<1>6. t \in Seq(S) /\ DOMAIN t = 1..N
  <2>1. t \in [1..N -> S]
    BY <1>3, <1>5
  <2> QED BY <1>4, <2>1
<1>7. Len(t) = N
  BY <1>4, <1>6, LenProperties
<1>8. \A k \in DOMAIN t : \E i \in I : t[k] = s[i]
  BY <1>3, <1>4, <1>6
<1>9. \A i \in I : \E k \in DOMAIN t : t[k] = s[i]
  BY <1>3, <1>4, <1>6
<1> QED BY <1>6, <1>7, <1>8, <1>9 DEF N, t

(* Items that are all different stay so.                                   *)
LEMMA ItemsAtInjective ==
    ASSUME NEW S, NEW s \in Seq(S), NEW I \in SUBSET DOMAIN s, IsInjective(s)
    PROVE  IsInjective(ItemsAt(s, I))
<1>1. Len(s) \in Nat /\ DOMAIN s = 1..Len(s)
  BY ElementOfSeq, LenProperties
<1> DEFINE N == Cardinality(I)
           order == Ascending(I)
           t == ItemsAt(s, I)
<1>2. /\ N \in Nat /\ order \in [1..N -> I]
      /\ \A j, k \in 1..N : j < k => order[j] < order[k]
  BY <1>1, AscendingEnumerates
<1>3. t = [k \in 1..N |-> s[order[k]]]
  BY DEF ItemsAt
<1> HIDE DEF N, order, t
<1>4. ASSUME NEW j \in 1..N, NEW k \in 1..N, t[j] = t[k] PROVE j = k
  <2>1. order[j] = order[k] /\ order[j] \in Int
    <3>1. order[j] \in DOMAIN s /\ order[k] \in DOMAIN s /\ s[order[j]] = s[order[k]]
      BY <1>2, <1>3, <1>4
    <3> QED BY <1>1, <3>1 DEF IsInjective
  <2> QED BY <1>2, <2>1
<1> QED BY <1>3, <1>4 DEF IsInjective, t

-----------------------------------------------------------------------------
(* Every non-empty set of natural numbers has a least element: the form in *)
(* which the library's well-foundedness of < can be used by a proof that   *)
(* argues about a set of counterexamples.                                  *)
LEMMA LeastElement ==
    ASSUME NEW T, T \subseteq Nat, T # {}
    PROVE  \E x \in T : \A y \in T : x <= y
<1> DEFINE R == OpToRel(<, Nat)
<1>1. IsWellFoundedOn(R, Nat)
  BY NatLessThanWellFounded
<1>2. \A x, y \in Nat : x < y => <<x, y>> \in R
  BY DEF R, OpToRel
<1> HIDE DEF R
<1>3. PICK x \in T : \A y \in T : ~(<<y, x>> \in R)
  BY <1>1, WFMin
<1>4. \A y \in T : ~(y < x)
  BY <1>2, <1>3
<1> QED BY <1>3, <1>4

(* Induction over the natural numbers, for the members of a set.           *)
LEMMA SetInduction ==
    ASSUME NEW S, 0 \in S, \A n \in Nat : n \in S => n + 1 \in S
    PROVE  Nat \subseteq S
<1> SUFFICES ASSUME Nat \ S # {} PROVE FALSE
  OBVIOUS
<1>1. PICK x \in Nat \ S : \A y \in Nat \ S : x <= y
  BY LeastElement
<1>2. x # 0 /\ x - 1 \in Nat /\ x - 1 \in S
  BY <1>1
<1>3. (x - 1) + 1 \in S
  BY <1>2
<1> QED BY <1>1, <1>3

(* A function to the integers has a greatest value on a finite set.        *)
LEMMA GreatestOf ==
    ASSUME NEW S, IsFiniteSet(S), S # {}, NEW f \in [S -> Int]
    PROVE  \E x \in S : \A y \in S : f[y] <= f[x]
<1> DEFINE above(x) == {y \in S : f[y] > f[x]}
           T == {Cardinality(above(x)) : x \in S}
<1>1. \A x \in S : IsFiniteSet(above(x)) /\ Cardinality(above(x)) \in Nat
  BY FS_Subset, FS_CardinalityType
<1>2. T \subseteq Nat /\ T # {}
  BY <1>1
<1>3. PICK n \in T : \A m \in T : n <= m
  <2> HIDE DEF T
  <2> QED BY <1>2, LeastElement
<1>4. PICK x \in S : n = Cardinality(above(x))
  BY <1>3
<1>5. \A y \in S : Cardinality(above(x)) <= Cardinality(above(y))
  BY <1>3, <1>4
<1>6. SUFFICES ASSUME NEW z \in S, f[z] > f[x] PROVE FALSE
  <2>1. \A y \in S : f[y] \in Int
    OBVIOUS
  <2> QED BY <2>1
<1>7. above(z) \in SUBSET above(x)
  <2>1. f[x] \in Int /\ f[z] \in Int /\ \A y \in S : f[y] \in Int
    OBVIOUS
  <2>2. \A y \in S : f[y] > f[z] => f[y] > f[x]
    BY <1>6, <2>1
  <2> QED BY <2>2
<1>8. z \in above(x) /\ z \notin above(z)
  BY <1>6
<1> HIDE DEF above
<1>9. Cardinality(above(z)) = Cardinality(above(x)) => above(z) = above(x)
  BY <1>1, <1>7, FS_Subset
<1>10. Cardinality(above(z)) <= Cardinality(above(x))
  BY <1>1, <1>7, FS_Subset
<1> QED BY <1>1, <1>5, <1>6, <1>8, <1>9, <1>10

-----------------------------------------------------------------------------
(* What the recursive function behind a sum of w has to satisfy.           *)
OneLess(s) == s \ {CHOOSE i \in s : TRUE}

AddsUp(w, f, S) ==
    \A s \in S : f[s] = IF s = {} THEN 0 ELSE w[CHOOSE i \in s : TRUE] + f[OneLess(s)]

LEMMA OneLessIsSmaller ==
    ASSUME NEW s, IsFiniteSet(s), s # {}
    PROVE  /\ (CHOOSE i \in s : TRUE) \in s
           /\ IsFiniteSet(OneLess(s)) /\ OneLess(s) \subseteq s
           /\ Cardinality(s) \in Nat \ {0}
           /\ Cardinality(OneLess(s)) = Cardinality(s) - 1
<1>1. (CHOOSE i \in s : TRUE) \in s
  OBVIOUS
<1>2. Cardinality(s) \in Nat /\ Cardinality(s) # 0
  BY FS_CardinalityType, FS_EmptySet
<1>3. /\ IsFiniteSet(OneLess(s))
      /\ Cardinality(OneLess(s)) = Cardinality(s) - 1
  BY <1>1, FS_RemoveElement DEF OneLess
<1> QED BY <1>1, <1>2, <1>3 DEF OneLess

(* Such a function exists: it is built for the sets of at most n elements, *)
(* one size after the other.                                               *)
LEMMA SumExists ==
    ASSUME NEW D, IsFiniteSet(D), NEW w \in [D -> Nat]
    PROVE  \E f \in [SUBSET D -> Nat] : AddsUp(w, f, SUBSET D)
<1> DEFINE Upto(n) == {s \in SUBSET D : Cardinality(s) <= n}
           Built == {n \in Nat : \E f \in [Upto(n) -> Nat] : AddsUp(w, f, Upto(n))}
<1>1. \A s \in SUBSET D : /\ IsFiniteSet(s) /\ Cardinality(s) \in Nat
                         /\ Cardinality(s) <= Cardinality(D)
                         /\ (Cardinality(s) = 0 <=> s = {})
  BY FS_Subset, FS_CardinalityType, FS_EmptySet
<1>2. \A s \in SUBSET D : s # {} =>
         /\ (CHOOSE i \in s : TRUE) \in D
         /\ OneLess(s) \in SUBSET D
         /\ Cardinality(OneLess(s)) = Cardinality(s) - 1
  <2> SUFFICES ASSUME NEW s \in SUBSET D, s # {}
               PROVE  /\ (CHOOSE i \in s : TRUE) \in D
                      /\ OneLess(s) \in SUBSET D
                      /\ Cardinality(OneLess(s)) = Cardinality(s) - 1
    OBVIOUS
  <2>1. IsFiniteSet(s)
    BY <1>1, Zenon
  <2>2. (CHOOSE i \in s : TRUE) \in s
    BY <2>1, OneLessIsSmaller
  <2>3. OneLess(s) \subseteq s
    BY <2>1, OneLessIsSmaller
  <2>4. Cardinality(OneLess(s)) = Cardinality(s) - 1
    BY <2>1, OneLessIsSmaller
  <2> QED BY <2>2, <2>3, <2>4
<1>3. 0 \in Built
  <2> DEFINE f == [s \in Upto(0) |-> 0]
  <2>1. \A s \in Upto(0) : s = {}
    <3> SUFFICES ASSUME NEW s \in SUBSET D, Cardinality(s) <= 0 PROVE s = {}
      OBVIOUS
    <3>1. Cardinality(s) \in Nat /\ (Cardinality(s) = 0 <=> s = {})
      BY <1>1, Zenon
    <3>2. Cardinality(s) = 0
      BY <3>1
    <3> QED BY <3>1, <3>2
  <2>2. f \in [Upto(0) -> Nat] /\ AddsUp(w, f, Upto(0))
    BY <2>1 DEF AddsUp
  <2> QED BY <2>2
<1>4. \A n \in Nat : n \in Built => n + 1 \in Built
  <2> SUFFICES ASSUME NEW n \in Nat, n \in Built PROVE n + 1 \in Built
    OBVIOUS
  <2>1. PICK f \in [Upto(n) -> Nat] : AddsUp(w, f, Upto(n))
    OBVIOUS
  <2> DEFINE g == [s \in Upto(n + 1) |->
                    IF s = {} THEN 0 ELSE w[CHOOSE i \in s : TRUE] + f[OneLess(s)]]
  <2>2. \A s \in Upto(n + 1) : s # {} => OneLess(s) \in Upto(n) /\ OneLess(s) \in Upto(n + 1)
    <3> SUFFICES ASSUME NEW s \in SUBSET D, Cardinality(s) <= n + 1, s # {}
                 PROVE  /\ OneLess(s) \in SUBSET D
                        /\ Cardinality(OneLess(s)) <= n
                        /\ Cardinality(OneLess(s)) <= n + 1
      OBVIOUS
    <3>1. Cardinality(s) \in Nat
      BY <1>1, Zenon
    <3>2. OneLess(s) \in SUBSET D /\ Cardinality(OneLess(s)) = Cardinality(s) - 1
      BY <1>2
    <3> QED BY <3>1, <3>2
  <2>3. \A s \in Upto(n + 1) : s # {} => (CHOOSE i \in s : TRUE) \in D
    BY <1>2
  <2>4. \A s \in Upto(n) : s \in Upto(n + 1)
    <3> SUFFICES ASSUME NEW s \in SUBSET D, Cardinality(s) <= n
                 PROVE  Cardinality(s) <= n + 1
      OBVIOUS
    <3>1. Cardinality(s) \in Nat
      BY <1>1, Zenon
    <3> QED BY <3>1
  <2> HIDE DEF Upto
  <2>5. g \in [Upto(n + 1) -> Nat]
    BY <2>2, <2>3
  <2>6. \A s \in Upto(n) : g[s] = f[s]
    BY <2>1, <2>4 DEF AddsUp
  <2>7. AddsUp(w, g, Upto(n + 1))
    <3> SUFFICES ASSUME NEW s \in Upto(n + 1)
                 PROVE  g[s] = IF s = {} THEN 0
                               ELSE w[CHOOSE i \in s : TRUE] + g[OneLess(s)]
      BY DEF AddsUp
    <3>1. s # {} => g[OneLess(s)] = f[OneLess(s)]
      BY <2>2, <2>6
    <3> QED BY <3>1
  <2> HIDE DEF g
  <2> QED BY <2>5, <2>7
<1>5. Cardinality(D) \in Built
  <2> HIDE DEF Built
  <2>1. Nat \subseteq Built
    BY <1>3, <1>4, SetInduction
  <2> QED BY <2>1, FS_CardinalityType
<1>6. Upto(Cardinality(D)) = SUBSET D
  BY <1>1
<1> QED BY <1>5, <1>6

(* What it computes: a natural number, at least every term, and 0 when     *)
(* every term is 0.                                                        *)
LEMMA SumBounds ==
    ASSUME NEW D, IsFiniteSet(D), NEW w \in [D -> Nat],
           NEW f, AddsUp(w, f, SUBSET D)
    PROVE  /\ f[D] \in Nat
           /\ \A i \in D : w[i] <= f[D]
           /\ (\A i \in D : w[i] = 0) => f[D] = 0
<1> DEFINE Fits(s) == /\ f[s] \in Nat
                      /\ \A i \in s : w[i] <= f[s]
                      /\ (\A i \in D : w[i] = 0) => f[s] = 0
           Right == {n \in Nat : \A s \in SUBSET D : Cardinality(s) = n => Fits(s)}
<1>1. 0 \in Right
  <2>1. \A s \in SUBSET D : Cardinality(s) = 0 => s = {}
    BY FS_Subset, FS_EmptySet
  <2>2. Fits({})
    BY DEF AddsUp
  <2> HIDE DEF Fits
  <2> QED BY <2>1, <2>2
<1>2. \A n \in Nat : n \in Right => n + 1 \in Right
  <2> SUFFICES ASSUME NEW n \in Nat, n \in Right,
                      NEW s \in SUBSET D, Cardinality(s) = n + 1
               PROVE  Fits(s)
    OBVIOUS
  <2> DEFINE c == CHOOSE i \in s : TRUE
             r == OneLess(s)
  <2>1. IsFiniteSet(s) /\ s # {}
    BY FS_Subset, FS_EmptySet
  <2>2. c \in s /\ r \in SUBSET D /\ Cardinality(r) = n
    BY <2>1, OneLessIsSmaller
  <2>3. Fits(r)
    BY <2>2
  <2>4. f[s] = w[c] + f[r]
    BY <2>1 DEF AddsUp
  <2>5. \A i \in s : i = c \/ i \in r
    BY DEF OneLess
  <2>6. w[c] \in Nat /\ \A i \in s : w[i] \in Nat
    BY <2>2
  <2> HIDE DEF c, r
  <2> QED BY <2>2, <2>3, <2>4, <2>5, <2>6
<1>3. Cardinality(D) \in Right
  <2> HIDE DEF Right
  <2>1. Nat \subseteq Right
    BY <1>1, <1>2, SetInduction
  <2> QED BY <2>1, FS_CardinalityType
<1> HIDE DEF Fits
<1>4. Fits(D)
  BY <1>3
<1> QED BY <1>4 DEF Fits

(* The sum of the values of a function: never below one of them, and 0     *)
(* when all of them are.                                                   *)
THEOREM SumOfNaturals ==
    ASSUME NEW D, IsFiniteSet(D), NEW w \in [D -> Nat]
    PROVE  /\ SumFunction(w) \in Nat
           /\ \A i \in D : w[i] <= SumFunction(w)
           /\ (\A i \in D : w[i] = 0) => SumFunction(w) = 0
<1> DEFINE Recursion(f) ==
              f = [s \in SUBSET D |->
                     IF s = {} THEN 0 ELSE w[CHOOSE i \in s : TRUE] + f[OneLess(s)]]
           sum == CHOOSE f : Recursion(f)
<1>1. SumFunction(w) = sum[D]
  BY DEF SumFunction, SumFunctionOnSet, FoldFunctionOnSet, MapThenFoldSet, OneLess
<1>2. \E f : Recursion(f)
  <2>1. PICK f \in [SUBSET D -> Nat] : AddsUp(w, f, SUBSET D)
    BY SumExists
  <2>2. Recursion(f)
    BY <2>1 DEF AddsUp
  <2> QED BY <2>2
<1>3. Recursion(sum)
  <2> HIDE DEF Recursion
  <2> QED BY <1>2
<1> HIDE DEF sum
<1>4. AddsUp(w, sum, SUBSET D)
  <2> SUFFICES ASSUME NEW s \in SUBSET D
               PROVE  sum[s] = IF s = {} THEN 0
                               ELSE w[CHOOSE i \in s : TRUE] + sum[OneLess(s)]
    BY DEF AddsUp
  <2> QED BY <1>3
<1> QED BY <1>1, <1>4, SumBounds

-----------------------------------------------------------------------------
(* Flattening a list of lists: where each item of each list ends up.       *)
Flattens(ss, f, n) ==
    f = [i \in 1..n |-> IF i = 1 THEN ss[i] ELSE f[i - 1] \o ss[i]]

LEMMA FlatteningExists ==
    ASSUME NEW T, NEW ss \in Seq(Seq(T))
    PROVE  \A n \in Nat : n <= Len(ss) => \E f \in [1..n -> Seq(T)] : Flattens(ss, f, n)
<1> DEFINE Built == {n \in Nat : n <= Len(ss) => \E f \in [1..n -> Seq(T)] : Flattens(ss, f, n)}
<1>0. Len(ss) \in Nat /\ \A i \in 1..Len(ss) : ss[i] \in Seq(T)
  OBVIOUS
<1>1. 0 \in Built
  <2> DEFINE f == [i \in 1..0 |-> <<>>]
  <2>1. f \in [1..0 -> Seq(T)] /\ Flattens(ss, f, 0)
    BY DEF Flattens
  <2> QED BY <2>1
<1>2. ASSUME NEW n \in Nat, n \in Built PROVE n + 1 \in Built
  <2> SUFFICES ASSUME n + 1 <= Len(ss)
               PROVE  \E g \in [1..(n + 1) -> Seq(T)] : Flattens(ss, g, n + 1)
    OBVIOUS
  <2>1. PICK f \in [1..n -> Seq(T)] : Flattens(ss, f, n)
    BY <1>0, <1>2
  <2> DEFINE g == [i \in 1..(n + 1) |->
                     IF i = n + 1 THEN IF n = 0 THEN ss[1] ELSE f[n] \o ss[n + 1] ELSE f[i]]
  <2>2. \A i \in 1..n : f[i] \in Seq(T) /\ f[i] = IF i = 1 THEN ss[i] ELSE f[i - 1] \o ss[i]
    BY <2>1 DEF Flattens
  <2>3. \A i \in 1..(n + 1) : g[i] \in Seq(T)
    <3> SUFFICES ASSUME NEW i \in 1..(n + 1) PROVE g[i] \in Seq(T)
      OBVIOUS
    <3>1. CASE i = n + 1 /\ n = 0
      BY <1>0, <3>1
    <3>2. CASE i = n + 1 /\ n # 0
      <4>1. f[n] \in Seq(T) /\ ss[n + 1] \in Seq(T)
        BY <1>0, <2>2, <3>2
      <4>2. f[n] \o ss[n + 1] \in Seq(T)
        BY <4>1, ConcatProperties
      <4> QED BY <3>2, <4>2
    <3>3. CASE i # n + 1
      BY <2>2, <3>3
    <3> QED BY <3>1, <3>2, <3>3
  <2>4. \A i \in 1..(n + 1) : g[i] = IF i = 1 THEN ss[i] ELSE g[i - 1] \o ss[i]
    <3> SUFFICES ASSUME NEW i \in 1..(n + 1) PROVE g[i] = IF i = 1 THEN ss[i] ELSE g[i - 1] \o ss[i]
      OBVIOUS
    <3>1. CASE i = n + 1
      BY <3>1
    <3>2. CASE i # n + 1
      <4>1. i \in 1..n /\ g[i] = f[i] /\ (i # 1 => g[i - 1] = f[i - 1])
        BY <3>2
      <4> QED BY <2>2, <4>1
    <3> QED BY <3>1, <3>2
  <2>5. g \in [1..(n + 1) -> Seq(T)] /\ DOMAIN g = 1..(n + 1)
    BY <2>3
  <2>6. Flattens(ss, g, n + 1)
    <3> DEFINE h == [i \in 1..(n + 1) |-> IF i = 1 THEN ss[i] ELSE g[i - 1] \o ss[i]]
    <3>1. \A i \in 1..(n + 1) : g[i] = h[i]
      BY <2>4
    <3>2. DOMAIN g = DOMAIN h /\ g = [i \in DOMAIN g |-> g[i]] /\ h = [i \in DOMAIN h |-> h[i]]
      OBVIOUS
    <3>3. g = h
      <4> HIDE DEF g, h
      <4> QED BY <2>5, <3>1, <3>2
    <3> HIDE DEF g
    <3> QED BY <3>3 DEF Flattens
  <2> HIDE DEF g
  <2> QED BY <2>5, <2>6
<1> HIDE DEF Built
<1>3. Nat \subseteq Built
  BY <1>1, <1>2, SetInduction
<1> QED BY <1>3 DEF Built

(* The place of item k of list m in the flattened list of the first n.     *)
Before(f, m) == IF m = 0 THEN 0 ELSE Len(f[m])

PlacesOf(ss, f, n) ==
    /\ \A m \in 0..n : Before(f, m) \in Nat /\ Before(f, m) <= Before(f, n)
    /\ \A m \in 1..n : /\ Before(f, m) = Before(f, m - 1) + Len(ss[m])
                       /\ \A k \in 1..Len(ss[m]) : f[n][Before(f, m - 1) + k] = ss[m][k]
    /\ \A p \in 1..Before(f, n) : \E m \in 1..n : \E k \in 1..Len(ss[m]) : p = Before(f, m - 1) + k

LEMMA FlatteningPlaces ==
    ASSUME NEW T, NEW ss \in Seq(Seq(T)), NEW f \in [1..Len(ss) -> Seq(T)], Flattens(ss, f, Len(ss))
    PROVE  \A n \in 0..Len(ss) : PlacesOf(ss, f, n)
<1> DEFINE Placed == {n \in Nat : n <= Len(ss) => PlacesOf(ss, f, n)}
           L == Len(ss)
<1>0. L \in Nat /\ \A i \in 1..L : ss[i] \in Seq(T) /\ Len(ss[i]) \in Nat
  OBVIOUS
<1>a. \A i \in 1..L : f[i] = IF i = 1 THEN ss[i] ELSE f[i - 1] \o ss[i]
  BY DEF Flattens
<1>b. \A i \in 1..L : f[i] \in Seq(T) /\ Len(f[i]) \in Nat
  <2>1. \A i \in 1..L : f[i] \in Seq(T)
    OBVIOUS
  <2>2. \A s \in Seq(T) : Len(s) \in Nat
    OBVIOUS
  <2> QED BY <2>1, <2>2
<1>1. 0 \in Placed
  <2>1. Before(f, 0) = 0
    BY DEF Before
  <2>2. \A m \in 0..0 : m = 0
    OBVIOUS
  <2>3. PlacesOf(ss, f, 0)
    BY <2>1, <2>2 DEF PlacesOf
  <2> QED BY <2>3
<1>2. ASSUME NEW n \in Nat, n \in Placed PROVE n + 1 \in Placed
  <2> SUFFICES ASSUME n + 1 <= L PROVE PlacesOf(ss, f, n + 1)
    OBVIOUS
  <2>1. PlacesOf(ss, f, n)
    BY <1>0, <1>2
  <2> HIDE DEF Placed, L
  <2>i. n + 1 \in 1..L /\ (n + 1) - 1 = n /\ (n # 0 => n \in 1..L /\ n + 1 # 1)
    BY <1>0
  <2>2. f[n + 1] = IF n = 0 THEN ss[n + 1] ELSE f[n] \o ss[n + 1]
    BY <1>a, <2>i
  <2>3. /\ Len(f[n + 1]) = Before(f, n) + Len(ss[n + 1])
        /\ \A p \in 1..Before(f, n) : f[n + 1][p] = f[n][p]
        /\ \A k \in 1..Len(ss[n + 1]) : f[n + 1][Before(f, n) + k] = ss[n + 1][k]
    <3>1. CASE n = 0
      <4>1. f[n + 1] = ss[n + 1] /\ Before(f, n) = 0 /\ Len(ss[n + 1]) \in Nat
        BY <1>0, <2>i, <2>2, <3>1 DEF Before
      <4> QED BY <4>1
    <3>2. CASE n # 0
      <4>1. f[n] \in Seq(T) /\ ss[n + 1] \in Seq(T) /\ f[n + 1] = f[n] \o ss[n + 1]
        BY <1>0, <1>b, <2>i, <2>2, <3>2
      <4>2. Before(f, n) = Len(f[n]) /\ Len(f[n]) \in Nat /\ Len(ss[n + 1]) \in Nat
        BY <3>2, <4>1 DEF Before
      <4> DEFINE s == f[n]
                 t == ss[n + 1]
      <4>3. /\ Len(s \o t) = Len(s) + Len(t)
            /\ \A i \in 1..(Len(s) + Len(t)) : (s \o t)[i] = IF i <= Len(s) THEN s[i] ELSE t[i - Len(s)]
        BY <4>1, ConcatProperties
      <4>4. Len(s) \in Nat /\ Len(t) \in Nat
        BY <4>1
      <4> HIDE DEF s, t
      <4>5. /\ \A p \in 1..Len(s) : (s \o t)[p] = s[p]
            /\ \A k \in 1..Len(t) : (s \o t)[Len(s) + k] = t[k]
        <5>1. ASSUME NEW p \in 1..Len(s) PROVE (s \o t)[p] = s[p]
          BY <4>3, <4>4
        <5>2. ASSUME NEW k \in 1..Len(t) PROVE (s \o t)[Len(s) + k] = t[k]
          <6>1. Len(s) + k \in 1..(Len(s) + Len(t)) /\ ~(Len(s) + k <= Len(s)) /\ (Len(s) + k) - Len(s) = k
            BY <4>4
          <6> QED BY <4>3, <6>1
        <5> QED BY <5>1, <5>2
      <4> QED BY <4>1, <4>2, <4>3, <4>5 DEF s, t
    <3> QED BY <3>1, <3>2
  <2>4. /\ Before(f, n + 1) = Before(f, n) + Len(ss[n + 1])
        /\ Len(ss[n + 1]) \in Nat /\ Before(f, n) \in Nat
    <3>1. Before(f, n + 1) = Len(f[n + 1])
      BY DEF Before
    <3>2. Before(f, n) \in Nat
      BY <1>b, <2>i DEF Before
    <3> QED BY <1>0, <2>i, <2>3, <3>1, <3>2
  <2>5. \A m \in 0..(n + 1) : Before(f, m) \in Nat /\ Before(f, m) <= Before(f, n + 1)
    <3>1. \A m \in 0..n : Before(f, m) \in Nat /\ Before(f, m) <= Before(f, n)
      BY <2>1 DEF PlacesOf
    <3> SUFFICES ASSUME NEW m \in 0..(n + 1)
                 PROVE  Before(f, m) \in Nat /\ Before(f, m) <= Before(f, n + 1)
      OBVIOUS
    <3>2. CASE m = n + 1
      BY <2>4, <3>2
    <3>3. CASE m # n + 1
      <4>1. m \in 0..n
        BY <3>3
      <4>2. Before(f, m) \in Nat /\ Before(f, m) <= Before(f, n)
        BY <3>1, <4>1
      <4> QED BY <2>4, <4>2
    <3> QED BY <3>2, <3>3
  <2>6. ASSUME NEW m \in 1..(n + 1)
        PROVE  /\ Before(f, m) = Before(f, m - 1) + Len(ss[m])
               /\ \A k \in 1..Len(ss[m]) : f[n + 1][Before(f, m - 1) + k] = ss[m][k]
    <3>1. CASE m = n + 1
      BY <2>3, <2>4, <2>i, <3>1
    <3>2. CASE m # n + 1
      <4>1. m \in 1..n /\ m \in 0..n /\ m - 1 \in 0..n /\ m \in 1..L
        BY <1>0, <2>i, <3>2
      <4>2. /\ Before(f, m) = Before(f, m - 1) + Len(ss[m])
            /\ \A k \in 1..Len(ss[m]) : f[n][Before(f, m - 1) + k] = ss[m][k]
        BY <2>1, <4>1 DEF PlacesOf
      <4>3. /\ Before(f, m) <= Before(f, n) /\ Before(f, m - 1) \in Nat /\ Before(f, m) \in Nat
            /\ Len(ss[m]) \in Nat
        BY <1>0, <2>1, <4>1 DEF PlacesOf
      <4>4. ASSUME NEW k \in 1..Len(ss[m]) PROVE f[n + 1][Before(f, m - 1) + k] = ss[m][k]
        <5>1. Before(f, m - 1) + k \in 1..Before(f, n)
          <6> DEFINE x == Before(f, m - 1)
                     y == Before(f, n)
                     z == Len(ss[m])
          <6>1. x \in Nat /\ y \in Nat /\ z \in Nat /\ x + z <= y /\ k \in 1..z
            BY <2>4, <4>2, <4>3
          <6> HIDE DEF x, y, z
          <6>2. x + k \in 1..y
            BY <6>1
          <6> QED BY <6>2 DEF x, y
        <5> QED BY <2>3, <4>2, <5>1
      <4> QED BY <4>2, <4>4
    <3> QED BY <3>1, <3>2
  <2>7. ASSUME NEW p \in 1..Before(f, n + 1)
        PROVE  \E m \in 1..(n + 1) : \E k \in 1..Len(ss[m]) : p = Before(f, m - 1) + k
    <3>1. CASE p <= Before(f, n)
      <4>1. p \in 1..Before(f, n)
        BY <2>4, <3>1
      <4>2. PICK m \in 1..n : \E k \in 1..Len(ss[m]) : p = Before(f, m - 1) + k
        BY <2>1, <4>1 DEF PlacesOf
      <4>3. m \in 1..(n + 1)
        OBVIOUS
      <4> QED BY <4>2, <4>3
    <3>2. CASE ~(p <= Before(f, n))
      <4>1. p - Before(f, n) \in 1..Len(ss[n + 1]) /\ p = Before(f, n) + (p - Before(f, n))
        BY <2>4, <3>2
      <4>2. n + 1 \in 1..(n + 1)
        OBVIOUS
      <4> QED BY <2>i, <4>1, <4>2
    <3> QED BY <3>1, <3>2
  <2> QED BY <2>5, <2>6, <2>7 DEF PlacesOf
<1>3. Nat \subseteq Placed
  <2> HIDE DEF Placed
  <2> QED BY <1>1, <1>2, SetInduction
<1>4. ASSUME NEW n \in 0..L PROVE PlacesOf(ss, f, n)
  <2>1. n \in Placed /\ n <= L
    BY <1>0, <1>3
  <2> QED BY <2>1
<1> QED BY <1>4

LEMMA FlattenedItems ==
    ASSUME NEW T, NEW ss \in Seq(Seq(T)), ss # <<>>
    PROVE  /\ FlattenSeq(ss) \in Seq(T)
           /\ \E f : /\ \A n \in 0..Len(ss) : PlacesOf(ss, f, n)
                     /\ f[Len(ss)] = FlattenSeq(ss) /\ Before(f, Len(ss)) = Len(FlattenSeq(ss))
<1> DEFINE L == Len(ss)
           f == CHOOSE g : Flattens(ss, g, L)
<1>1. L \in Nat /\ L # 0 /\ L \in 1..L
  <2>1. L \in Nat /\ L # 0
    OBVIOUS
  <2> QED BY <2>1
<1>2. FlattenSeq(ss) = f[L]
  BY <1>1 DEF FlattenSeq, Flattens
<1>3. PICK g \in [1..L -> Seq(T)] : Flattens(ss, g, L)
  <2>1. L <= L
    BY <1>1
  <2> HIDE DEF L
  <2>2. \A n \in Nat : n <= Len(ss) => \E g \in [1..n -> Seq(T)] : Flattens(ss, g, n)
    BY FlatteningExists
  <2> QED BY <1>1, <2>1, <2>2 DEF L
<1>4. Flattens(ss, f, L)
  BY <1>3
<1> HIDE DEF f
<1>5. f \in [1..L -> Seq(T)]
  <2> DEFINE Same == {n \in Nat : n + 1 \in 1..L => f[n + 1] = g[n + 1]}
  <2>0. /\ \A i \in 1..L : f[i] = IF i = 1 THEN ss[i] ELSE f[i - 1] \o ss[i]
        /\ \A i \in 1..L : g[i] = IF i = 1 THEN ss[i] ELSE g[i - 1] \o ss[i]
    BY <1>3, <1>4 DEF Flattens
  <2> HIDE DEF L
  <2>1. 0 \in Same
    <3>1. 0 + 1 = 1 /\ 1 \in 1..L
      BY <1>1
    <3>2. f[1] = ss[1] /\ g[1] = ss[1]
      BY <2>0, <3>1
    <3> QED BY <3>1, <3>2
  <2>2. ASSUME NEW n \in Nat, n \in Same PROVE n + 1 \in Same
    <3> SUFFICES ASSUME (n + 1) + 1 \in 1..L PROVE f[(n + 1) + 1] = g[(n + 1) + 1]
      OBVIOUS
    <3>1. n + 1 \in 1..L /\ ((n + 1) + 1) - 1 = n + 1 /\ (n + 1) + 1 # 1
      BY <1>1
    <3>2. f[n + 1] = g[n + 1]
      BY <2>2, <3>1
    <3>3. /\ f[(n + 1) + 1] = f[n + 1] \o ss[(n + 1) + 1]
          /\ g[(n + 1) + 1] = g[n + 1] \o ss[(n + 1) + 1]
      BY <2>0, <3>1
    <3> QED BY <3>2, <3>3
  <2>3. \A i \in 1..L : f[i] = g[i]
    <3>1. Nat \subseteq Same
      <4> HIDE DEF Same
      <4> QED BY <2>1, <2>2, SetInduction
    <3> SUFFICES ASSUME NEW i \in 1..L PROVE f[i] = g[i]
      OBVIOUS
    <3>2. i - 1 \in Nat /\ (i - 1) + 1 = i
      BY <1>1
    <3> QED BY <3>1, <3>2
  <2>4. DOMAIN f = 1..L /\ f = [i \in DOMAIN f |-> f[i]]
    BY <1>4 DEF Flattens
  <2>5. \A i \in 1..L : g[i] \in Seq(T)
    OBVIOUS
  <2>6. \A i \in 1..L : f[i] \in Seq(T)
    BY <2>3, <2>5
  <2> QED BY <2>4, <2>6
<1>6. \A n \in 0..L : PlacesOf(ss, f, n)
  BY <1>4, <1>5, FlatteningPlaces
<1>7. f[L] \in Seq(T) /\ Before(f, L) = Len(f[L])
  BY <1>1, <1>5 DEF Before
<1> QED BY <1>2, <1>6, <1>7
=============================================================================
