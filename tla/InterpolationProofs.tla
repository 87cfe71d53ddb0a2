------------------------ MODULE InterpolationProofs ------------------------
(***************************************************************************)
(* What interpolate() computes, for tables of any length and any gaps.     *)
(***************************************************************************)
EXTENDS Interpolation, FiniteSetTheorems, SequenceTheorems,
        WellFoundedInduction, TLAPS

Bijections(n) == {p \in [1..n -> 1..n] :
                    /\ \A i, j \in 1..n : p[i] = p[j] => i = j
                    /\ \A i \in 1..n : \E k \in 1..n : p[k] = i}

\* t has the rows of s in another order.
Permuted(s, t) ==
  /\ Len(s) \in Nat /\ Len(t) = Len(s)
  /\ \E p \in Bijections(Len(s)) : t = [k \in 1..Len(s) |-> s[p[k]]]

-----------------------------------------------------------------------------
(* The order of texts, and of the rows of s by column c.                   *)

LEMMA BeforeOrder ==
  ASSUME NEW a \in Cells, NEW b \in Cells, NEW d \in Cells
  PROVE  /\ ~Before(a, a)
         /\ Before(a, b) => ~Before(b, a)
         /\ Before(a, b) /\ Before(b, d) => Before(a, d)
         /\ Before(a, b) => Before(a, d) \/ Before(d, b)
BY TextsAssumption DEF Before, Cells

Ahead(s, c, j, i) ==
  \/ Before(s[j][c], s[i][c])
  \/ j <= i /\ ~Before(s[i][c], s[j][c])

Upto(s, c, i) == {j \in 1..Len(s) : Ahead(s, c, j, i)}

Sorted(s, c) ==
  \A i, j \in 1..Len(s) : i < j => ~Before(s[j][c], s[i][c])

\* The rows of s on which c is a text.
Timed(s, c) == Len(s) \in Nat /\ \A i \in 1..Len(s) : s[i][c] \in Cells

LEMMA AheadOrder ==
  ASSUME NEW s, NEW c, Timed(s, c),
         NEW i \in 1..Len(s), NEW j \in 1..Len(s), NEW k \in 1..Len(s)
  PROVE  /\ Ahead(s, c, i, i)
         /\ Ahead(s, c, i, j) \/ Ahead(s, c, j, i)
         /\ Ahead(s, c, i, j) /\ Ahead(s, c, j, i) => i = j
         /\ Ahead(s, c, i, j) /\ Ahead(s, c, j, k) => Ahead(s, c, i, k)
<1> DEFINE x == s[i][c]
           y == s[j][c]
           z == s[k][c]
<1>1. x \in Cells /\ y \in Cells /\ z \in Cells  BY DEF Timed
<1>2. i \in Int /\ j \in Int /\ k \in Int  BY DEF Timed
<1>3. /\ ~Before(x, x)
      /\ Before(x, y) => ~Before(y, x)
  BY <1>1, BeforeOrder
<1>4. /\ Before(x, y) /\ Before(y, z) => Before(x, z)
      /\ Before(x, y) => Before(x, z) \/ Before(z, y)
      /\ Before(y, z) => Before(y, x) \/ Before(x, z)
      /\ Before(z, x) => Before(z, y) \/ Before(y, x)
  BY <1>1, BeforeOrder
<1> HIDE DEF x, y, z
<1> QED  BY <1>2, <1>3, <1>4 DEF Ahead, x, y, z

LEMMA PlaceGrows ==
  ASSUME NEW s, NEW c, Timed(s, c),
         NEW i \in 1..Len(s), NEW j \in 1..Len(s), i # j, Ahead(s, c, i, j)
  PROVE  Place(s, c, i) < Place(s, c, j)
<1>1. IsFiniteSet(1..Len(s))  BY FS_Interval DEF Timed
<1>2. Upto(s, c, j) \in SUBSET (1..Len(s))  BY DEF Upto
<1>3. IsFiniteSet(Upto(s, c, j))  BY <1>1, <1>2, FS_Subset
<1>4. Upto(s, c, i) \subseteq Upto(s, c, j)
  <2>1. ASSUME NEW k \in 1..Len(s), Ahead(s, c, k, i)  PROVE Ahead(s, c, k, j)
    BY <2>1, AheadOrder
  <2> QED  BY <2>1 DEF Upto
<1>5. j \in Upto(s, c, j) /\ j \notin Upto(s, c, i)
  BY AheadOrder DEF Upto
<1>6. /\ Cardinality(Upto(s, c, i)) <= Cardinality(Upto(s, c, j))
      /\ Cardinality(Upto(s, c, i)) # Cardinality(Upto(s, c, j))
      /\ IsFiniteSet(Upto(s, c, i))
  BY <1>3, <1>4, <1>5, FS_Subset
<1>7. /\ Cardinality(Upto(s, c, i)) \in Nat
      /\ Cardinality(Upto(s, c, j)) \in Nat
  BY <1>3, <1>6, FS_CardinalityType
<1>8. /\ Place(s, c, i) = Cardinality(Upto(s, c, i))
      /\ Place(s, c, j) = Cardinality(Upto(s, c, j))
  BY DEF Place, Upto, Ahead
<1> QED  BY <1>6, <1>7, <1>8

LEMMA PlaceIsNumber ==
  ASSUME NEW s, NEW c, Timed(s, c), NEW i \in 1..Len(s)
  PROVE  Place(s, c, i) \in 1..Len(s)
<1>1. IsFiniteSet(1..Len(s)) /\ Cardinality(1..Len(s)) = Len(s)
  <2>1. Len(s) \in Int /\ 1 \in Int  BY DEF Timed
  <2>2. /\ IsFiniteSet(1..Len(s))
        /\ Cardinality(1..Len(s)) = IF 1 > Len(s) THEN 0 ELSE Len(s) - 1 + 1
    BY <2>1, FS_Interval, Zenon
  <2> QED  BY <2>2 DEF Timed
<1>2. Upto(s, c, i) \in SUBSET (1..Len(s))  BY DEF Upto
<1>3. IsFiniteSet(Upto(s, c, i)) /\ Cardinality(Upto(s, c, i)) <= Len(s)
  BY <1>1, <1>2, FS_Subset
<1>4. i \in Upto(s, c, i)  BY AheadOrder DEF Upto
<1>5. Cardinality(Upto(s, c, i)) \in Nat /\ Cardinality(Upto(s, c, i)) # 0
  BY <1>3, <1>4, FS_CardinalityType, FS_EmptySet
<1>6. Place(s, c, i) = Cardinality(Upto(s, c, i))
  BY DEF Place, Upto, Ahead
<1> QED  BY <1>3, <1>5, <1>6 DEF Timed

\* A map of 1..n to itself that keeps rows apart reaches every place.
LEMMA InjectiveIsBijective ==
  ASSUME NEW n \in Nat, NEW f \in [1..n -> 1..n],
         \A i, j \in 1..n : f[i] = f[j] => i = j
  PROVE  f \in Bijections(n)
<1>1. f \in Injection(1..n, 1..n)  BY DEF Injection, IsInjective
<1>2. IsFiniteSet(1..n)  BY FS_Interval
<1>3. f \in Surjection(1..n, 1..n)  BY <1>1, <1>2, FS_Injection
<1> QED  BY <1>3 DEF Surjection, Bijections

\* sortItems(): the rows of s, each of them once, in the order of their texts
\* in column c; rows with the same text stay in the order they had.
THEOREM SortItemsSorts ==
  ASSUME NEW s, NEW c, Timed(s, c)
  PROVE  \E p \in Bijections(Len(s)) :
           /\ SortItems(s, c) = [k \in 1..Len(s) |-> s[p[k]]]
           /\ \A k, l \in 1..Len(s) : k < l => Ahead(s, c, p[k], p[l])
<1> DEFINE n == Len(s)
           f == [i \in 1..n |-> Place(s, c, i)]
           p == [k \in 1..n |-> CHOOSE i \in 1..n : Place(s, c, i) = k]
<1>1. n \in Nat /\ f \in [1..n -> 1..n]  BY PlaceIsNumber DEF Timed
<1>2. ASSUME NEW i \in 1..n, NEW j \in 1..n, f[i] = f[j]  PROVE i = j
  <2>1. SUFFICES ASSUME i # j  PROVE FALSE  OBVIOUS
  <2>2. Ahead(s, c, i, j) \/ Ahead(s, c, j, i)  BY AheadOrder
  <2>3. f[i] < f[j] \/ f[j] < f[i]  BY <2>1, <2>2, PlaceGrows
  <2> QED  BY <2>3, <1>1, <1>2
<1>3. f \in Bijections(n)  BY <1>1, <1>2, InjectiveIsBijective
<1>4. \A k \in 1..n : p[k] \in 1..n /\ Place(s, c, p[k]) = k
  BY <1>3 DEF Bijections
<1>5. p \in Bijections(n)
  <2>1. p \in [1..n -> 1..n]  BY <1>4
  <2>2. \A k, l \in 1..n : p[k] = p[l] => k = l  BY <1>4
  <2> HIDE DEF p
  <2> QED  BY <1>1, <2>1, <2>2, InjectiveIsBijective
<1>6. SortItems(s, c) = [k \in 1..n |-> s[p[k]]]  BY DEF SortItems
<1>7. ASSUME NEW k \in 1..n, NEW l \in 1..n, k < l  PROVE Ahead(s, c, p[k], p[l])
  <2> HIDE DEF p
  <2>1. SUFFICES ASSUME Ahead(s, c, p[l], p[k])  PROVE FALSE
    BY <1>4, AheadOrder
  <2>2. p[l] # p[k]  BY <1>4, <1>7
  <2>3. Place(s, c, p[l]) < Place(s, c, p[k])  BY <1>4, <2>1, <2>2, PlaceGrows
  <2> QED  BY <2>3, <1>4, <1>7, <1>1
<1> QED  BY <1>5, <1>6, <1>7

LEMMA SortItemsSorted ==
  ASSUME NEW S, NEW s \in Seq(S), NEW c, Timed(s, c)
  PROVE  /\ SortItems(s, c) \in Seq(S)
         /\ Len(SortItems(s, c)) = Len(s)
         /\ Sorted(SortItems(s, c), c)
         /\ Timed(SortItems(s, c), c)
         /\ Permuted(s, SortItems(s, c))
<1> DEFINE t == SortItems(s, c)
<1>1. PICK p \in Bijections(Len(s)) :
        /\ t = [k \in 1..Len(s) |-> s[p[k]]]
        /\ \A k, l \in 1..Len(s) : k < l => Ahead(s, c, p[k], p[l])
  BY SortItemsSorts
<1>2. Len(s) \in Nat /\ \A k \in 1..Len(s) : s[k] \in S  OBVIOUS
<1>3. \A k \in 1..Len(s) : p[k] \in 1..Len(s)  BY DEF Bijections
<1> HIDE DEF t
<1>4. t \in Seq(S) /\ Len(t) = Len(s)
  <2>1. t \in [1..Len(s) -> S]  BY <1>1, <1>2, <1>3
  <2> QED  BY <2>1, <1>2
<1>5. Timed(t, c)  BY <1>1, <1>3, <1>4 DEF Timed
<1>6. Sorted(t, c)
  <2>1. ASSUME NEW k \in 1..Len(s), NEW l \in 1..Len(s), k < l
        PROVE  ~Before(s[p[l]][c], s[p[k]][c])
    <3>1. Ahead(s, c, p[k], p[l])  BY <1>1, <2>1
    <3>2. s[p[k]][c] \in Cells /\ s[p[l]][c] \in Cells  BY <1>3 DEF Timed
    <3> QED  BY <3>1, <3>2, BeforeOrder DEF Ahead
  <2> QED  BY <2>1, <1>1, <1>4 DEF Sorted
<1> QED  BY <1>1, <1>2, <1>4, <1>5, <1>6 DEF t, Permuted

-----------------------------------------------------------------------------
(* Sorting changes no counts.                                              *)

LEMMA SubintervalFinite ==
  ASSUME NEW n \in Nat, NEW I \in SUBSET (1..n)
  PROVE  IsFiniteSet(I) /\ Cardinality(I) \in Nat
<1>1. IsFiniteSet(1..n)  BY FS_Interval
<1>2. IsFiniteSet(I)  BY <1>1, FS_Subset
<1> QED  BY <1>2, FS_CardinalityType

LEMMA CountMoved ==
  ASSUME NEW n \in Nat, NEW p \in Bijections(n), NEW I \in SUBSET (1..n)
  PROVE  Cardinality({k \in 1..n : p[k] \in I}) = Cardinality(I)
<1> DEFINE K == {k \in 1..n : p[k] \in I}
           g == [k \in K |-> p[k]]
<1>1. IsFiniteSet(K)  BY SubintervalFinite
<1>2. g \in Bijection(K, I)
  <2>1. g \in [K -> I]  OBVIOUS
  <2>2. \A i, j \in K : g[i] = g[j] => i = j  BY DEF Bijections
  <2>3. \A i \in I : \E k \in K : g[k] = i  BY DEF Bijections
  <2> QED  BY <2>1, <2>2, <2>3
       DEF Bijection, Injection, IsInjective, Surjection
<1>3. ExistsBijection(K, I)  BY <1>2 DEF ExistsBijection
<1> QED  BY <1>1, <1>3, FS_Bijection

LEMMA CountsKept ==
  ASSUME NEW s, NEW t, Permuted(s, t)
  PROVE  /\ \A r : Copies(t, r) = Copies(s, r)
         /\ \A c, time : At(t, c, time) = At(s, c, time)
<1>4. PICK p \in Bijections(Len(s)) : t = [k \in 1..Len(s) |-> s[p[k]]]
  BY DEF Permuted
<1>5. Len(s) \in Nat /\ Len(t) = Len(s)  BY DEF Permuted
<1>1. \A k \in 1..Len(s) : p[k] \in 1..Len(s)  BY DEF Bijections
<1>2. ASSUME NEW r  PROVE Copies(t, r) = Copies(s, r)
  <2> DEFINE I == {i \in 1..Len(s) : s[i] = r}
  <2>1. {k \in 1..Len(t) : t[k] = r} = {k \in 1..Len(s) : p[k] \in I}
    BY <1>1, <1>4, <1>5
  <2>2. I \in SUBSET (1..Len(s))  OBVIOUS
  <2> HIDE DEF I
  <2>3. Cardinality({k \in 1..Len(s) : p[k] \in I}) = Cardinality(I)
    BY <2>2, <1>5, CountMoved
  <2> QED  BY <2>1, <2>3 DEF Copies, I
<1>3. ASSUME NEW c, NEW time  PROVE At(t, c, time) = At(s, c, time)
  <2> DEFINE I == {i \in 1..Len(s) : s[i][c] = time}
  <2>1. {k \in 1..Len(t) : t[k][c] = time} = {k \in 1..Len(s) : p[k] \in I}
    BY <1>1, <1>4, <1>5
  <2>2. I \in SUBSET (1..Len(s))  OBVIOUS
  <2> HIDE DEF I
  <2>3. Cardinality({k \in 1..Len(s) : p[k] \in I}) = Cardinality(I)
    BY <2>2, <1>5, CountMoved
  <2> QED  BY <2>1, <2>3 DEF At, I
<1> QED  BY <1>2, <1>3

-----------------------------------------------------------------------------
(* Induction, from the fact that a set of numbers has a least one.         *)

LEMMA LeastIn ==
  ASSUME NEW R, IsWellFoundedOn(R, Nat),
         \A x, y \in Nat : x < y => <<x, y>> \in R,
         NEW T \in SUBSET Nat, T # {}
  PROVE  \E x \in T : \A y \in T : x <= y
<1>1. T \subseteq Nat  OBVIOUS
<1>2. \E x \in T : \A y \in T : ~ (<<y, x>> \in R)
  BY ONLY <1>1, IsWellFoundedOn(R, Nat), T # {}, WFMin
<1>3. PICK x \in T : \A y \in T : ~ (<<y, x>> \in R)  BY <1>2
<1>4. \A y \in T : ~(y < x)  BY <1>3
<1> QED  BY <1>4

LEMMA LeastNatural ==
  ASSUME NEW T \in SUBSET Nat, T # {}
  PROVE  \E x \in T : \A y \in T : x <= y
<1>1. \A x, y \in Nat : x < y => <<x, y>> \in OpToRel(<, Nat)  BY DEF OpToRel
<1> QED  BY <1>1, NatLessThanWellFounded, LeastIn, Zenon

LEMMA Induction ==
  ASSUME NEW n \in Nat, NEW T, 0 \in T,
         \A m \in 0..n - 1 : m \in T => m + 1 \in T
  PROVE  \A m \in 0..n : m \in T
<1> DEFINE U == {m \in 0..n : m \notin T}
<1>1. SUFFICES ASSUME U # {}  PROVE FALSE  OBVIOUS
<1>2. U \in SUBSET Nat  OBVIOUS
<1>3. PICK x \in U : \A y \in U : x <= y
  <2> HIDE DEF U
  <2> QED  BY <1>1, <1>2, LeastNatural
<1>4. x # 0 /\ x - 1 \in 0..n - 1 /\ x - 1 \in T  BY <1>3
<1>5. (x - 1) + 1 \in T  BY <1>4
<1> QED  BY <1>3, <1>5
-----------------------------------------------------------------------------
(* The rows that are appended.  Throughout, s is a table that is sorted by *)
(* its column c of dates and times, and co are the columns that are        *)
(* computed.                                                               *)

IsFilled(f, s, C, c, co) ==
  /\ f[0] = s
  /\ \A m \in 1..Len(s) - 1 : f[m] = f[m - 1] \o NewRows(s, C, c, co, m)

LEMMA WithNewRowsEquation ==
  ASSUME NEW s, Len(s) \in Nat \ {0}, NEW C, NEW c, NEW co
  PROVE  \E f : IsFilled(f, s, C, c, co) /\ WithNewRows(s, C, c, co) = f[Len(s) - 1]
<1> DEFINE N == Len(s) - 1
           new(i) == NewRows(s, C, c, co, i)
           Fills(f, m) == f = [i \in 0..m |-> IF i = 0 THEN s ELSE f[i - 1] \o new(i)]
           T == {m \in 0..N : \E f : Fills(f, m)}
           filled == CHOOSE f : Fills(f, N)
<1>1. N \in Nat  OBVIOUS
<1>2. WithNewRows(s, C, c, co) = filled[N]  BY DEF WithNewRows
<1> HIDE DEF new, N
<1>3. 0 \in T
  <2>1. Fills([i \in 0..0 |-> s], 0)  OBVIOUS
  <2> HIDE DEF Fills
  <2> QED  BY <1>1, <2>1
<1>4. ASSUME NEW m \in 0..N - 1, m \in T  PROVE m + 1 \in T
  <2>1. PICK f : Fills(f, m)  BY <1>4
  <2> DEFINE g == [i \in 0..m + 1 |-> IF i <= m THEN f[i] ELSE f[m] \o new(m + 1)]
  <2>2. \A i \in 0..m : f[i] = IF i = 0 THEN s ELSE f[i - 1] \o new(i)
    BY <2>1, <1>1
  <2>3. ASSUME NEW i \in 0..m + 1
        PROVE  g[i] = IF i = 0 THEN s ELSE g[i - 1] \o new(i)
    <3>1. CASE i <= m
      <4>1. i \in 0..m /\ (i # 0 => i - 1 \in 0..m /\ i - 1 \in 0..m + 1)  BY <3>1, <1>1
      <4> QED  BY <4>1, <2>2, <3>1, <1>1
    <3>2. CASE ~(i <= m)
      <4>1. i = m + 1 /\ i # 0 /\ i - 1 = m /\ m \in 0..m + 1  BY <3>2, <1>1
      <4>2. g[m + 1] = f[m] \o new(m + 1)  BY <4>1, <3>2
      <4>3. g[m] = f[m]  BY <4>1, <1>1
      <4> HIDE DEF g
      <4> QED  BY <4>1, <4>2, <4>3
    <3> QED  BY <3>1, <3>2
  <2>4. g = [i \in 0..m + 1 |-> g[i]]  OBVIOUS
  <2> HIDE DEF g
  <2>5. Fills(g, m + 1)  BY <2>3, <2>4
  <2> HIDE DEF Fills
  <2> QED  BY <2>5, <1>1
<1>5. \E f : Fills(f, N)
  <2> HIDE DEF T
  <2>1. \A m \in 0..N : m \in T  BY <1>1, <1>3, <1>4, Induction
  <2>2. N \in T  BY <1>1, <2>1
  <2> QED  BY <2>2 DEF T
<1>6. Fills(filled, N)
  <2> HIDE DEF Fills
  <2> QED  BY <1>5
<1> HIDE DEF filled
<1>7. /\ filled[0] = s
      /\ \A m \in 1..N : filled[m] = filled[m - 1] \o new(m)
  <2>1. \A i \in 0..N : filled[i] = IF i = 0 THEN s ELSE filled[i - 1] \o new(i)
    BY <1>6
  <2> HIDE DEF Fills, T
  <2>2. 0 \in 0..N /\ \A m \in 1..N : m \in 0..N /\ m # 0  BY <1>1
  <2> QED  BY <2>1, <2>2
<1> QED  BY <1>2, <1>7 DEF N, new, IsFilled

LEMMA NewTimesBetween ==
  ASSUME NEW start, NEW end, NEW k \in NewTimes(start, end)
  PROVE  /\ Close(start, end)
         /\ k \in Nat /\ 0 < k /\ start + k \in Nat
         /\ start < start + k /\ start + k < end
BY DEF NewTimes, Close

\* NewRows() is a sequence of rows, one for every new time.
AreNewRows(r, C, c, co, start, end) ==
  /\ r \in Seq([C -> Cells]) /\ Len(r) \in Nat
  /\ NewTimes(start, end) = 1..Len(r)
  /\ \A k \in NewTimes(start, end) : /\ r[k] = NewRow(C, c, co, start + k)
                                     /\ r[k][c] = start + k

LEMMA NewRowsTyped ==
  ASSUME NEW s, NEW C, NEW c \in C, NEW co, NEW m
  PROVE  AreNewRows(NewRows(s, C, c, co, m), C, c, co, s[m][c], s[m + 1][c])
<1> DEFINE r == NewRows(s, C, c, co, m)
           start == s[m][c]
           end == s[m + 1][c]
           D == NewTimes(start, end)
<1>1. PICK n \in Nat : D = 1..n
  <2>1. CASE Close(start, end) /\ end - start - 1 \in Nat
    BY <2>1 DEF NewTimes
  <2>2. CASE ~(Close(start, end) /\ end - start - 1 \in Nat)
    <3>1. D = 1..0  BY <2>2 DEF NewTimes, Close
    <3> QED  BY <3>1
  <2> QED  BY <2>1, <2>2
<1>2. r = [k \in D |-> NewRow(C, c, co, start + k)]  BY DEF NewRows
<1>3. \A k \in D : NewRow(C, c, co, start + k) \in [C -> Cells]
  <2>1. \A k \in D : start + k \in Cells
    BY NewTimesBetween DEF Cells
  <2> HIDE DEF D, start
  <2> QED  BY <2>1 DEF NewRow, Cells
<1>4. \A k \in D : NewRow(C, c, co, start + k)[c] = start + k
  BY DEF NewRow
<1> HIDE DEF D, start
<1>5. r \in [1..n -> [C -> Cells]] /\ r \in Seq([C -> Cells]) /\ Len(r) = n
  <2>1. r \in [1..n -> [C -> Cells]]  BY <1>1, <1>2, <1>3
  <2> HIDE DEF r
  <2> QED  BY <2>1
<1>6. \A k \in D : r[k] = NewRow(C, c, co, start + k)  BY <1>2
<1> QED  BY <1>1, <1>4, <1>5, <1>6 DEF D, start, AreNewRows
\* f is s with the new rows of its first m pairs of rows.
Appended(s, f) == Len(s) + 1..Len(f)
IsNewAfter(s, C, c, co, j, row) ==
  \E k \in NewTimes(s[j][c], s[j + 1][c]) : row = NewRow(C, c, co, s[j][c] + k)

Grown(s, C, c, co, m, f) ==
  /\ f \in Seq([C -> Cells]) /\ Len(f) >= Len(s)
  /\ \A i \in 1..Len(s) : f[i] = s[i]
  /\ \A i \in Appended(s, f) : \E j \in 1..m : IsNewAfter(s, C, c, co, j, f[i])
  /\ \A j \in 1..m : \A k \in NewTimes(s[j][c], s[j + 1][c]) :
       \E i \in Appended(s, f) : f[i][c] = s[j][c] + k
  /\ \A i, l \in Appended(s, f) : f[i][c] = f[l][c] => i = l

\* A time between two neighbours of a sorted table comes after the rows before
\* them and before the rows after them.
LEMMA NeighboursBound ==
  ASSUME NEW s, NEW c, Timed(s, c), Sorted(s, c),
         NEW i \in 1..Len(s), NEW j \in 1..Len(s), i < j, s[i][c] \in Nat
  PROVE  /\ s[j][c] \in Nat => s[i][c] <= s[j][c]
         /\ s[j][c] # Blank
<1>1. ~Before(s[j][c], s[i][c]) /\ s[j][c] \in Cells  BY DEF Sorted, Timed
<1> QED  BY <1>1, TextsAssumption DEF Before, Cells

LEMMA NewRowTime ==
  ASSUME NEW s, NEW C, NEW c \in C, NEW co, NEW j, NEW row,
         IsNewAfter(s, C, c, co, j, row)
  PROVE  /\ Close(s[j][c], s[j + 1][c])
         /\ row[c] \in Nat
         /\ s[j][c] < row[c] /\ row[c] < s[j + 1][c]
<1>1. PICK k \in NewTimes(s[j][c], s[j + 1][c]) : row = NewRow(C, c, co, s[j][c] + k)
  BY DEF IsNewAfter
<1>2. row[c] = s[j][c] + k  BY <1>1 DEF NewRow
<1> QED  BY <1>2, NewTimesBetween

LEMMA PairGrows ==
  ASSUME NEW C, NEW c \in C, NEW co, NEW s \in Seq([C -> Cells]), Sorted(s, c),
         NEW m \in 1..Len(s) - 1, NEW f, Grown(s, C, c, co, m - 1, f)
  PROVE  Grown(s, C, c, co, m, f \o NewRows(s, C, c, co, m))
<1> DEFINE r == NewRows(s, C, c, co, m)
           D == NewTimes(s[m][c], s[m + 1][c])
           g == f \o r
<1>1. /\ Len(s) \in Nat /\ Len(s) \in Nat \ {0} /\ m \in Nat /\ m >= 1
      /\ Timed(s, c)
  BY DEF Timed
<1>2. /\ r \in Seq([C -> Cells]) /\ D = 1..Len(r) /\ Len(r) \in Nat
      /\ \A k \in D : /\ r[k] = NewRow(C, c, co, s[m][c] + k)
                      /\ r[k][c] = s[m][c] + k
  <2>1. AreNewRows(r, C, c, co, s[m][c], s[m + 1][c])  BY NewRowsTyped
  <2> QED  BY <2>1 DEF AreNewRows
<1>3. f \in Seq([C -> Cells]) /\ Len(f) \in Nat /\ Len(f) >= Len(s)
  BY DEF Grown
<1> HIDE DEF r, D
<1>4. /\ g \in Seq([C -> Cells]) /\ Len(g) = Len(f) + Len(r)
      /\ \A i \in 1..Len(f) + Len(r) :
           g[i] = IF i <= Len(f) THEN f[i] ELSE r[i - Len(f)]
  BY <1>2, <1>3, ConcatProperties
<1> HIDE DEF g
<1>5. \A i \in Appended(s, f) : i \in Appended(s, g) /\ g[i] = f[i]
  BY <1>1, <1>2, <1>3, <1>4 DEF Appended
<1>6. \A k \in D : Len(f) + k \in Appended(s, g) /\ g[Len(f) + k] = r[k]
  <2> SUFFICES ASSUME NEW k \in D
               PROVE  Len(f) + k \in Appended(s, g) /\ g[Len(f) + k] = r[k]
    OBVIOUS
  <2>1. k \in Nat /\ 1 <= k /\ k <= Len(r)  BY <1>2
  <2> DEFINE x == Len(f) + k
  <2>2. x \in 1..Len(f) + Len(r) /\ ~(x <= Len(f)) /\ x - Len(f) = k
    BY <2>1, <1>1, <1>2, <1>3
  <2> HIDE DEF x
  <2>3. g[x] = r[x - Len(f)]  BY <2>2, <1>4
  <2>4. g[Len(f) + k] = r[k]  BY <2>2, <2>3 DEF x
  <2>5. Len(f) + k \in Appended(s, g)
    BY <2>1, <1>1, <1>2, <1>3, <1>4 DEF Appended
  <2> QED  BY <2>4, <2>5
<1>7. \A i \in Appended(s, g) :
        i \in Appended(s, f) \/ (i - Len(f) \in D /\ i = Len(f) + (i - Len(f)))
  BY <1>1, <1>2, <1>3, <1>4 DEF Appended
<1>8. \A i \in Appended(s, f) :
        /\ \E j \in 1..m - 1 : IsNewAfter(s, C, c, co, j, f[i])
        /\ f[i][c] \in Nat
        /\ s[m][c] \in Nat => f[i][c] < s[m][c]
  <2> SUFFICES ASSUME NEW i \in Appended(s, f)
               PROVE  /\ \E j \in 1..m - 1 : IsNewAfter(s, C, c, co, j, f[i])
                      /\ f[i][c] \in Nat
                      /\ s[m][c] \in Nat => f[i][c] < s[m][c]
    OBVIOUS
  <2>1. PICK j \in 1..m - 1 : IsNewAfter(s, C, c, co, j, f[i])  BY DEF Grown
  <2>2. /\ Close(s[j][c], s[j + 1][c])
        /\ f[i][c] \in Nat /\ f[i][c] < s[j + 1][c]
    BY <2>1, NewRowTime
  <2>3. s[m][c] \in Nat => s[j + 1][c] <= s[m][c]
    <3>1. CASE j + 1 = m  BY <3>1, <2>2 DEF Close
    <3>2. CASE j + 1 # m
      <4>1. j + 1 \in 1..Len(s) /\ m \in 1..Len(s) /\ j + 1 < m  BY <3>2, <1>1
      <4> QED  BY <4>1, <2>2, <1>1, NeighboursBound DEF Close
    <3> QED  BY <3>1, <3>2
  <2> QED  BY <2>1, <2>2, <2>3 DEF Close
<1>9. \A i \in 1..Len(s) : g[i] = s[i]
  <2>1. \A i \in 1..Len(s) : i \in 1..Len(f) + Len(r) /\ i <= Len(f)
    BY <1>1, <1>2, <1>3
  <2> QED  BY <2>1, <1>4 DEF Grown
<1>10. ASSUME NEW i \in Appended(s, g)
       PROVE  \E j \in 1..m : IsNewAfter(s, C, c, co, j, g[i])
  <2>1. CASE i \in Appended(s, f)
    <3>1. PICK j \in 1..m - 1 : IsNewAfter(s, C, c, co, j, f[i])  BY <2>1, <1>8
    <3>2. j \in 1..m  BY <1>1
    <3> QED  BY <3>1, <3>2, <2>1, <1>5
  <2>2. CASE i - Len(f) \in D /\ i = Len(f) + (i - Len(f))
    <3>1. g[i] = r[i - Len(f)]  BY <2>2, <1>6
    <3>2. g[i] = NewRow(C, c, co, s[m][c] + (i - Len(f)))  BY <3>1, <2>2, <1>2
    <3>3. m \in 1..m  BY <1>1
    <3> QED  BY <3>2, <3>3, <2>2 DEF IsNewAfter, D
  <2> QED  BY <2>1, <2>2, <1>7
<1>11. ASSUME NEW j \in 1..m, NEW k \in NewTimes(s[j][c], s[j + 1][c])
       PROVE  \E i \in Appended(s, g) : g[i][c] = s[j][c] + k
  <2>1. CASE j = m
    <3>1. k \in D  BY <2>1, <1>11 DEF D
    <3> QED  BY <3>1, <2>1, <1>6, <1>2
  <2>2. CASE j # m
    <3>1. j \in 1..m - 1  BY <2>2, <1>1
    <3>2. PICK i \in Appended(s, f) : f[i][c] = s[j][c] + k
      BY <3>1, <1>11 DEF Grown
    <3> QED  BY <3>2, <1>5
  <2> QED  BY <2>1, <2>2
<1>12. ASSUME NEW i \in Appended(s, g), NEW l \in Appended(s, g), g[i][c] = g[l][c]
       PROVE  i = l
  <2>1. ASSUME NEW k \in D  PROVE s[m][c] \in Nat /\ g[Len(f) + k][c] \in Nat
                                  /\ g[Len(f) + k][c] > s[m][c]
                                  /\ g[Len(f) + k][c] = s[m][c] + k /\ k \in Nat
    BY <1>2, <1>6, NewTimesBetween DEF D, Close
  <2>2. ASSUME NEW a \in Appended(s, f), NEW b \in D  PROVE g[a][c] # g[Len(f) + b][c]
    <3>1. g[a] = f[a] /\ f[a][c] \in Nat /\ f[a][c] < s[m][c]
      BY <2>1, <1>5, <1>8
    <3> QED  BY <3>1, <2>1
  <2>3. CASE i \in Appended(s, f) /\ l \in Appended(s, f)
    BY <2>3, <1>12, <1>5 DEF Grown
  <2>4. CASE i \in Appended(s, f) /\ l - Len(f) \in D /\ l = Len(f) + (l - Len(f))
    BY <2>4, <2>2, <1>12
  <2>5. CASE l \in Appended(s, f) /\ i - Len(f) \in D /\ i = Len(f) + (i - Len(f))
    BY <2>5, <2>2, <1>12
  <2>6. CASE /\ i - Len(f) \in D /\ i = Len(f) + (i - Len(f))
             /\ l - Len(f) \in D /\ l = Len(f) + (l - Len(f))
    <3> DEFINE a == i - Len(f)
               b == l - Len(f)
    <3>1. a \in Nat /\ b \in Nat /\ s[m][c] \in Nat
          /\ g[i][c] = s[m][c] + a /\ g[l][c] = s[m][c] + b
      BY <2>6, <2>1
    <3> HIDE DEF a, b
    <3>2. a = b  BY <3>1, <1>12
    <3>3. i = Len(f) + a /\ l = Len(f) + b  BY <2>6 DEF a, b
    <3> QED  BY <3>2, <3>3
  <2> QED  BY <2>3, <2>4, <2>5, <2>6, <1>7
<1>13. Len(g) >= Len(s)  BY <1>1, <1>2, <1>3, <1>4
<1> QED  BY <1>4, <1>9, <1>10, <1>11, <1>12, <1>13 DEF Grown, g, r
LEMMA AllPairsGrow ==
  ASSUME NEW C, NEW c \in C, NEW co, NEW s \in Seq([C -> Cells]), Sorted(s, c),
         Len(s) \in Nat \ {0}
  PROVE  Grown(s, C, c, co, Len(s) - 1, WithNewRows(s, C, c, co))
<1>1. PICK f : IsFilled(f, s, C, c, co) /\ WithNewRows(s, C, c, co) = f[Len(s) - 1]
  BY WithNewRowsEquation
<1> DEFINE N == Len(s) - 1
           T == {m \in 0..N : Grown(s, C, c, co, m, f[m])}
<1>2. N \in Nat  OBVIOUS
<1>3. 0 \in T
  <2>1. Grown(s, C, c, co, 0, s)  BY DEF Grown, Appended
  <2> QED  BY <2>1, <1>1, <1>2 DEF IsFilled
<1>4. ASSUME NEW m \in 0..N - 1, m \in T  PROVE m + 1 \in T
  <2>1. m + 1 \in 1..Len(s) - 1 /\ (m + 1) - 1 = m /\ m + 1 \in 0..N
    BY <1>2
  <2>2. Grown(s, C, c, co, (m + 1) - 1, f[m])  BY <1>4, <2>1
  <2>3. Grown(s, C, c, co, m + 1, f[m] \o NewRows(s, C, c, co, m + 1))
    BY <2>1, <2>2, PairGrows
  <2>4. f[m + 1] = f[m] \o NewRows(s, C, c, co, m + 1)  BY <2>1, <1>1 DEF IsFilled
  <2> QED  BY <2>1, <2>3, <2>4
<1> HIDE DEF T
<1>5. \A m \in 0..N : m \in T  BY <1>2, <1>3, <1>4, Induction
<1>6. N \in T  BY <1>2, <1>5
<1> QED  BY <1>6, <1>1 DEF T

\* Every time of the result is one of s or lies in a gap of s.
InGapAfter(s, c, a, time) ==
  /\ a + 1 \in 1..Len(s) /\ Close(s[a][c], s[a + 1][c])
  /\ s[a][c] < time /\ time < s[a + 1][c]

LEMMA RowOrigin ==
  ASSUME NEW C, NEW c \in C, NEW co, NEW s \in Seq([C -> Cells]), NEW w,
         Grown(s, C, c, co, Len(s) - 1, w), NEW i \in 1..Len(w)
  PROVE  \E a \in 1..Len(s) : w[i][c] = s[a][c] \/ InGapAfter(s, c, a, w[i][c])
<1>1. Len(s) \in Nat /\ Len(w) \in Nat  BY DEF Grown
<1>2. CASE i \in 1..Len(s)  BY <1>2 DEF Grown
<1>3. CASE i \notin 1..Len(s)
  <2>1. i \in Appended(s, w)  BY <1>1, <1>3 DEF Appended
  <2>2. PICK a \in 1..Len(s) - 1 : IsNewAfter(s, C, c, co, a, w[i])
    BY <2>1 DEF Grown
  <2>3. a \in 1..Len(s) /\ a + 1 \in 1..Len(s)  BY <1>1
  <2> QED  BY <2>2, <2>3, NewRowTime DEF InGapAfter
<1> QED  BY <1>2, <1>3

\* Between two times that are close enough no second is left out.
Dense(w, c) ==
  \A i, j \in 1..Len(w) :
    w[i][c] \in Nat /\ w[j][c] \in Nat /\ w[i][c] < w[j][c] /\
    w[j][c] - w[i][c] <= GapLimit
      => \E k \in 1..Len(w) : w[k][c] = w[i][c] + 1

LEMMA NextSecond ==
  ASSUME NEW C, NEW c \in C, NEW co, NEW s \in Seq([C -> Cells]), Sorted(s, c),
         NEW w, Grown(s, C, c, co, Len(s) - 1, w)
  PROVE  Dense(w, c)
<1>0. SUFFICES ASSUME NEW i \in 1..Len(w), NEW j \in 1..Len(w),
                      w[i][c] \in Nat, w[j][c] \in Nat, w[i][c] < w[j][c],
                      w[j][c] - w[i][c] <= GapLimit
               PROVE  \E k \in 1..Len(w) : w[k][c] = w[i][c] + 1
  BY DEF Dense
<1> DEFINE u == w[i][c]
           v == w[j][c]
           t(a) == s[a][c]
           U == {l \in 1..Len(s) : t(l) \in Nat /\ t(l) > u}
<1>1. /\ Len(s) \in Nat /\ Len(w) \in Nat /\ Len(s) <= Len(w)
      /\ u \in Nat /\ v \in Nat /\ u < v /\ v - u <= GapLimit
      /\ Timed(s, c) /\ GapLimit \in Nat
  BY <1>0, TextsAssumption DEF Grown, Timed
<1>2. PICK a \in 1..Len(s) :
        \/ u = t(a)
        \/ a + 1 \in 1..Len(s) /\ Close(t(a), t(a + 1)) /\ t(a) < u /\ u < t(a + 1)
  <2>1. PICK a \in 1..Len(s) : w[i][c] = s[a][c] \/ InGapAfter(s, c, a, w[i][c])
    BY RowOrigin
  <2> QED  BY <2>1 DEF InGapAfter
<1>3. PICK b \in 1..Len(s) :
        \/ v = t(b)
        \/ b + 1 \in 1..Len(s) /\ Close(t(b), t(b + 1)) /\ t(b) < v /\ v < t(b + 1)
  <2>1. PICK b \in 1..Len(s) : w[j][c] = s[b][c] \/ InGapAfter(s, c, b, w[j][c])
    BY RowOrigin
  <2> QED  BY <2>1 DEF InGapAfter
<1>4. ASSUME NEW x \in 1..Len(s), NEW y \in 1..Len(s), x < y, t(x) \in Nat
      PROVE  (t(y) \in Nat => t(x) <= t(y)) /\ t(y) # Blank
  BY <1>1, <1>4, NeighboursBound
<1>5. ASSUME NEW x \in 1..Len(s), NEW y \in 1..Len(s), x < y, t(y) \in Nat
      PROVE  t(x) \in Nat \cup {Blank}
  <2>1. ~Before(t(y), t(x)) /\ t(x) \in Cells  BY <1>1, <1>5 DEF Sorted, Timed
  <2> QED  BY <2>1, <1>5 DEF Before
<1> HIDE DEF u, v, t
<1>6. t(a) \in Nat /\ t(a) <= u /\ t(b) \in Nat /\ t(b) <= v
  <2>1. t(a) \in Nat /\ t(b) \in Nat  BY <1>1, <1>2, <1>3 DEF Close
  <2>2. t(a) <= u  BY <2>1, <1>1, <1>2
  <2>3. t(b) <= v  BY <2>1, <1>1, <1>3
  <2> QED  BY <2>1, <2>2, <2>3
<1>7. U # {}
  <2>1. v = t(b) => b \in U  BY <1>1
  <2>2. v # t(b) => b + 1 \in U  BY <1>1, <1>3 DEF Close
  <2> QED  BY <2>1, <2>2
<1>8. PICK l \in U : \A y \in U : l <= y
  <2>1. U \in SUBSET Nat  OBVIOUS
  <2> HIDE DEF U
  <2> QED  BY <2>1, <1>7, LeastNatural
<1>9. l \in 1..Len(s) /\ t(l) \in Nat /\ t(l) > u  BY <1>8
<1>10. a < l  BY <1>1, <1>4, <1>6, <1>9
<1> DEFINE p == l - 1
<1>11. p \in 1..Len(s) - 1 /\ p \in 1..Len(s) /\ p < l /\ p + 1 = l /\ a <= p
       /\ p \notin U
  <2>1. p \in 1..Len(s) - 1 /\ p \in 1..Len(s) /\ p < l /\ p + 1 = l /\ a <= p
    BY <1>1, <1>9, <1>10
  <2> QED  BY <2>1, <1>8, <1>9
<1> HIDE DEF p
<1>12. t(p) \in Nat /\ t(a) <= t(p) /\ t(p) <= u
  <2>1. t(p) \in Nat \cup {Blank}  BY <1>5, <1>9, <1>11
  <2>2. t(p) \in Nat
    <3>1. CASE a = p  BY <3>1, <1>6
    <3>2. CASE a # p
      <4>1. t(p) # Blank  BY <3>2, <1>1, <1>4, <1>6, <1>11
      <4> QED  BY <4>1, <2>1
    <3> QED  BY <3>1, <3>2
  <2>3. t(a) <= t(p)  BY <2>2, <1>1, <1>4, <1>6, <1>11
  <2>4. ~(t(p) > u)  BY <2>2, <1>11
  <2> QED  BY <2>2, <2>3, <2>4, <1>1
<1>13. \A y \in U : t(l) <= t(y)
  BY <1>1, <1>4, <1>8, <1>9
<1>14. t(l) - t(p) <= GapLimit
  <2>1. CASE a + 1 \in 1..Len(s) /\ Close(t(a), t(a + 1)) /\ t(a) < u /\ u < t(a + 1)
    <3>1. a + 1 \in U  BY <2>1 DEF Close
    <3>2. l = a + 1 /\ p = a  BY <3>1, <1>1, <1>8, <1>9, <1>10, <1>11
    <3> QED  BY <3>2, <2>1 DEF Close
  <2>2. CASE u = t(a) /\ v = t(b)
    <3>1. b \in U  BY <2>2, <1>1
    <3>2. t(l) <= v /\ t(p) = u  BY <3>1, <2>2, <1>1, <1>12, <1>13
    <3> QED  BY <3>2, <1>1, <1>9
  <2>3. CASE /\ u = t(a) /\ b + 1 \in 1..Len(s) /\ Close(t(b), t(b + 1))
             /\ t(b) < v /\ v < t(b + 1)
    <3>1. t(p) = u  BY <2>3, <1>1, <1>12
    <3>2. CASE t(b) > u
      <4>1. b \in U  BY <3>2, <1>6
      <4>2. t(l) <= t(b)  BY <4>1, <1>13
      <4> QED  BY <4>2, <3>1, <2>3, <1>1, <1>6, <1>9
    <3>3. CASE ~(t(b) > u)
      <4>1. b + 1 \in U  BY <2>3, <1>1 DEF Close
      <4>2. b < l  BY <3>3, <1>1, <1>4, <1>6, <1>9
      <4>3. l = b + 1 /\ p = b  BY <4>1, <4>2, <1>1, <1>8, <1>9, <1>11
      <4> QED  BY <4>3, <2>3 DEF Close
    <3> QED  BY <3>2, <3>3
  <2> QED  BY <2>1, <2>2, <2>3, <1>2, <1>3
<1>15. CASE t(l) = u + 1
  <2>1. w[l] = s[l] /\ l \in 1..Len(w)  BY <1>1, <1>9 DEF Grown
  <2> QED  BY <2>1, <1>15 DEF u, t
<1>16. CASE t(l) # u + 1
  <2> DEFINE k == u + 1 - t(p)
  <2>1. k \in 1..t(l) - t(p) - 1 /\ t(p) + k = u + 1
    <3>1. ASSUME NEW x \in Nat, NEW y \in Nat, x <= u, y > u, y # u + 1
          PROVE  u + 1 - x \in 1..y - x - 1 /\ x + (u + 1 - x) = u + 1
      BY <3>1, <1>1
    <3> QED  BY <3>1, <1>9, <1>12, <1>16
  <2>2. Close(t(p), t(l))  BY <1>9, <1>12, <1>14 DEF Close
  <2>3. k \in NewTimes(t(p), t(p + 1))  BY <2>1, <2>2, <1>11 DEF NewTimes
  <2> HIDE DEF k
  <2>4. PICK x \in Appended(s, w) : w[x][c] = s[p][c] + k
    BY <2>3, <1>11 DEF Grown, t
  <2>5. x \in 1..Len(w)  BY <1>1 DEF Appended
  <2> QED  BY <2>1, <2>4, <2>5 DEF u, t
<1> QED  BY <1>15, <1>16
-----------------------------------------------------------------------------
(* The result.                                                             *)

LEMMA TypedIsTimed ==
  ASSUME NEW C, NEW c \in C, NEW s \in Seq([C -> Cells])
  PROVE  Timed(s, c)
BY DEF Timed

LEMMA SortItemsCounts ==
  ASSUME NEW S, NEW s \in Seq(S), NEW c, Timed(s, c)
  PROVE  /\ \A r : Copies(SortItems(s, c), r) = Copies(s, r)
         /\ \A d, time : At(SortItems(s, c), d, time) = At(s, d, time)
<1>1. Permuted(s, SortItems(s, c))  BY SortItemsSorted
<1> QED  BY <1>1, CountsKept

LEMMA AppendedCounts ==
  ASSUME NEW C, NEW c \in C, NEW co, NEW s \in Seq([C -> Cells]), Sorted(s, c),
         NEW w, Grown(s, C, c, co, Len(s) - 1, w)
  PROVE  /\ \A r : Copies(w, r) >= Copies(s, r)
         /\ \A i \in 1..Len(w) :
              \/ At(w, c, w[i][c]) = At(s, c, w[i][c])
              \/ /\ At(s, c, w[i][c]) = 0 /\ At(w, c, w[i][c]) = 1
                 /\ InGap(GapLimit, s, c, w[i][c])
<1>1. Len(s) \in Nat /\ Len(w) \in Nat /\ Len(s) <= Len(w)  BY DEF Grown
<1>2. ASSUME NEW r  PROVE Copies(w, r) >= Copies(s, r)
  <2> DEFINE I == {i \in 1..Len(s) : s[i] = r}
             K == {i \in 1..Len(w) : w[i] = r}
  <2>1. I \in SUBSET K  BY <1>1 DEF Grown
  <2>2. K \in SUBSET (1..Len(w))  OBVIOUS
  <2> HIDE DEF I, K
  <2>3. IsFiniteSet(K)  BY <2>2, <1>1, SubintervalFinite
  <2>4. /\ Cardinality(I) <= Cardinality(K)
        /\ Cardinality(I) \in Nat /\ Cardinality(K) \in Nat
    BY <2>1, <2>3, FS_Subset, FS_CardinalityType
  <2> QED  BY <2>4 DEF Copies, I, K
<1>3. ASSUME NEW i \in 1..Len(w)
      PROVE  \/ At(w, c, w[i][c]) = At(s, c, w[i][c])
             \/ /\ At(s, c, w[i][c]) = 0 /\ At(w, c, w[i][c]) = 1
                /\ InGap(GapLimit, s, c, w[i][c])
  <2> DEFINE t == w[i][c]
             I == {k \in 1..Len(s) : s[k][c] = t}
             K == {k \in 1..Len(w) : w[k][c] = t}
  <2>1. CASE \E x \in Appended(s, w) : w[x][c] = t
    <3>1. PICK x \in Appended(s, w) : w[x][c] = t  BY <2>1
    <3>2. PICK a \in 1..Len(s) - 1 : IsNewAfter(s, C, c, co, a, w[x])
      BY DEF Grown
    <3>3. /\ Close(s[a][c], s[a + 1][c]) /\ t \in Nat
          /\ s[a][c] < t /\ t < s[a + 1][c]
          /\ a \in 1..Len(s) /\ a + 1 \in 1..Len(s)
      BY <3>1, <3>2, <1>1, NewRowTime
    <3> HIDE DEF t
    <3>4. s[a][c] \in Nat /\ s[a + 1][c] \in Nat
          /\ s[a + 1][c] - s[a][c] <= GapLimit
      BY <3>3 DEF Close
    <3>5. InGap(GapLimit, s, c, t)  BY <3>3, <3>4 DEF InGap
    <3>6. I = {}
      <4>1. SUFFICES ASSUME NEW k \in 1..Len(s), s[k][c] = t  PROVE FALSE
        OBVIOUS
      <4>2. Timed(s, c)  BY TypedIsTimed
      <4>3. k <= a \/ k >= a + 1  BY <3>3
      <4> HIDE DEF I, K
      <4>4. ASSUME NEW x1 \in 1..Len(s), NEW y1 \in 1..Len(s), x1 < y1,
                   s[x1][c] \in Nat, s[y1][c] \in Nat
            PROVE  s[x1][c] <= s[y1][c]
        BY <4>2, <4>4, NeighboursBound
      <4>5. CASE k <= a
        <5>1. k = a \/ k < a  BY <4>5, <3>3
        <5> QED  BY <5>1, <4>1, <4>4, <3>3, <3>4
      <4>6. CASE k >= a + 1
        <5>1. k = a + 1 \/ a + 1 < k  BY <4>6, <3>3
        <5> QED  BY <5>1, <4>1, <4>4, <3>3, <3>4
      <4> QED  BY <4>3, <4>5, <4>6
    <3>7. K = {x}
      <4>1. x \in 1..Len(w)  BY <3>1, <1>1 DEF Appended
      <4>2. ASSUME NEW k \in 1..Len(w), w[k][c] = t  PROVE k = x
        <5>1. k \notin 1..Len(s)  BY <4>2, <3>6 DEF Grown
        <5>2. k \in Appended(s, w)  BY <5>1, <1>1 DEF Appended
        <5> QED  BY <5>2, <4>2, <3>1 DEF Grown
      <4> QED  BY <4>1, <4>2, <3>1
    <3>8. Cardinality(I) = 0 /\ Cardinality(K) = 1
      BY <3>6, <3>7, FS_EmptySet, FS_Singleton
    <3> QED  BY <3>5, <3>8 DEF At, t
  <2>2. CASE ~ \E x \in Appended(s, w) : w[x][c] = t
    <3>1. \A k \in 1..Len(w) : k \in 1..Len(s) \/ k \in Appended(s, w)
      BY <1>1 DEF Appended
    <3>2. \A k \in 1..Len(s) : k \in 1..Len(w) /\ w[k] = s[k]
      BY <1>1 DEF Grown
    <3> HIDE DEF t
    <3>3. I = K  BY <3>1, <3>2, <2>2
    <3> QED  BY <3>3 DEF At, t
  <2> QED  BY <2>1, <2>2
<1> QED  BY <1>2, <1>3

LEMMA SortedIsFilled ==
  ASSUME NEW C, NEW c \in C, NEW co, NEW s \in Seq([C -> Cells]), Sorted(s, c),
         NEW w, Grown(s, C, c, co, Len(s) - 1, w)
  PROVE  Filled(GapLimit, SortItems(w, c), c)
<1> DEFINE new == SortItems(w, c)
<1>1. w \in Seq([C -> Cells]) /\ Len(w) \in Nat  BY DEF Grown
<1>2. Timed(w, c)  BY <1>1, TypedIsTimed
<1>3. /\ Len(new) = Len(w) /\ Sorted(new, c) /\ Timed(new, c)
      /\ Permuted(w, new)
  BY <1>1, <1>2, SortItemsSorted
<1>4. PICK p \in Bijections(Len(w)) : new = [k \in 1..Len(w) |-> w[p[k]]]
  BY <1>3 DEF Permuted
<1> HIDE DEF new
<1>5. Dense(w, c)  BY NextSecond
<1>6. ASSUME NEW i \in 1..Len(new) - 1
      PROVE  /\ ~Before(new[i + 1][c], new[i][c])
             /\ new[i][c] \in Nat /\ new[i + 1][c] \in Nat =>
                  \/ new[i + 1][c] - new[i][c] \in {0, 1}
                  \/ new[i + 1][c] - new[i][c] > GapLimit
  <2>1. i \in 1..Len(new) /\ i + 1 \in 1..Len(new) /\ i < i + 1
    BY <1>1, <1>3
  <2>2. ~Before(new[i + 1][c], new[i][c])  BY <2>1, <1>3 DEF Sorted
  <2>3. SUFFICES ASSUME /\ new[i][c] \in Nat /\ new[i + 1][c] \in Nat
                        /\ new[i + 1][c] - new[i][c] \notin {0, 1}
                        /\ new[i + 1][c] - new[i][c] <= GapLimit
                 PROVE  FALSE
    BY <2>2, TextsAssumption
  <2> DEFINE u == new[i][c]
             v == new[i + 1][c]
  <2>4. u < v /\ u + 1 < v  BY <2>2, <2>3 DEF Before
  <2>5. p[i] \in 1..Len(w) /\ p[i + 1] \in 1..Len(w)
        /\ w[p[i]][c] = u /\ w[p[i + 1]][c] = v
    BY <2>1, <1>3, <1>4 DEF Bijections
  <2>6. PICK k \in 1..Len(w) : w[k][c] = u + 1
    <3>1. /\ w[p[i]][c] \in Nat /\ w[p[i + 1]][c] \in Nat
          /\ w[p[i]][c] < w[p[i + 1]][c]
          /\ w[p[i + 1]][c] - w[p[i]][c] <= GapLimit
      BY <2>3, <2>4, <2>5
    <3>2. \E k \in 1..Len(w) : w[k][c] = w[p[i]][c] + 1
      BY <2>5, <3>1, <1>5 DEF Dense
    <3> QED  BY <3>2, <2>5
  <2>7. PICK x \in 1..Len(w) : p[x] = k  BY DEF Bijections
  <2>8. x \in 1..Len(new) /\ new[x][c] = u + 1  BY <2>6, <2>7, <1>3, <1>4
  <2>9. x <= i \/ i + 1 <= x  BY <2>1, <1>3, <1>1
  <2> HIDE DEF u, v
  <2>12. ASSUME NEW k1 \in 1..Len(new), NEW l1 \in 1..Len(new), k1 < l1,
                new[k1][c] \in Nat, new[l1][c] \in Nat
         PROVE  new[k1][c] <= new[l1][c]
    BY <2>12, <1>3, NeighboursBound
  <2>10. CASE x <= i
    <3>1. x # i  BY <2>3, <2>8 DEF u
    <3>2. x < i  BY <3>1, <2>10, <1>1, <1>3
    <3>3. u \in Nat /\ new[x][c] \in Nat  BY <2>3, <2>8 DEF u
    <3>4. new[x][c] <= u  BY <3>2, <3>3, <2>1, <2>8, <2>12 DEF u
    <3> QED  BY <3>3, <3>4, <2>8
  <2>11. CASE i + 1 <= x
    <3>1. x # i + 1  BY <2>4, <2>3, <2>8 DEF u, v
    <3>2. i + 1 < x  BY <3>1, <2>11, <1>1, <1>3
    <3>3. u \in Nat /\ v \in Nat /\ new[x][c] \in Nat
      BY <2>3, <2>8 DEF u, v
    <3>4. v <= new[x][c]  BY <3>2, <3>3, <2>1, <2>8, <2>12 DEF v
    <3> QED  BY <3>3, <3>4, <2>4, <2>8
  <2> QED  BY <2>9, <2>10, <2>11
<1> QED  BY <1>6 DEF Filled, new

\* interpolate() does what it is for, whatever the table: in the sorted result
\* every second between two times at most GapLimit apart has a row, no row is
\* lost, and nothing else is added.
THEOREM InterpolatedComplete ==
  ASSUME NEW C, NEW c \in C, NEW co, NEW s \in Seq([C -> Cells]), Len(s) >= 2
  PROVE  /\ Interpolated(s, C, c, co) \in Seq([C -> Cells])
         /\ Complete(GapLimit, s, Interpolated(s, C, c, co), c)
<1> DEFINE s1 == SortItems(s, c)
           w == WithNewRows(s1, C, c, co)
           new == SortItems(w, c)
<1>1. Len(s) \in Nat /\ Timed(s, c)  BY TypedIsTimed
<1>2. /\ s1 \in Seq([C -> Cells]) /\ Len(s1) = Len(s) /\ Sorted(s1, c)
      /\ Timed(s1, c)
  BY <1>1, SortItemsSorted
<1>3. Len(s1) \in Nat \ {0}  BY <1>1, <1>2
<1>4. Interpolated(s, C, c, co) = new  BY <1>1 DEF Interpolated
<1> HIDE DEF s1
<1>5. Grown(s1, C, c, co, Len(s1) - 1, w)  BY <1>2, <1>3, AllPairsGrow
<1> HIDE DEF w
<1>6. w \in Seq([C -> Cells]) /\ Timed(w, c)
  <2>1. w \in Seq([C -> Cells])  BY <1>5 DEF Grown
  <2> QED  BY <2>1, TypedIsTimed
<1>7. new \in Seq([C -> Cells]) /\ Len(new) = Len(w)
  BY <1>6, SortItemsSorted
<1>8. Filled(GapLimit, new, c)  BY <1>2, <1>5, SortedIsFilled
<1>9. PICK p \in Bijections(Len(w)) : new = [k \in 1..Len(w) |-> w[p[k]]]
  BY <1>6, SortItemsSorted DEF Permuted
<1>10. /\ \A r : Copies(new, r) = Copies(w, r)
       /\ \A time : At(new, c, time) = At(w, c, time)
  BY <1>6, SortItemsCounts
<1>11. /\ \A r : Copies(s1, r) = Copies(s, r)
       /\ \A time : At(s1, c, time) = At(s, c, time)
  BY <1>1, SortItemsCounts DEF s1
<1>12. /\ \A r : Copies(w, r) >= Copies(s1, r)
       /\ \A i \in 1..Len(w) :
            \/ At(w, c, w[i][c]) = At(s1, c, w[i][c])
            \/ /\ At(s1, c, w[i][c]) = 0 /\ At(w, c, w[i][c]) = 1
               /\ InGap(GapLimit, s1, c, w[i][c])
  BY <1>2, <1>5, AppendedCounts
<1>13. ASSUME NEW t, InGap(GapLimit, s1, c, t)  PROVE InGap(GapLimit, s, c, t)
  <2>1. PICK q \in Bijections(Len(s)) : s1 = [k \in 1..Len(s) |-> s[q[k]]]
    BY <1>1, SortItemsSorted DEF s1, Permuted
  <2>2. \A k \in 1..Len(s1) : q[k] \in 1..Len(s) /\ s1[k] = s[q[k]]
    BY <2>1, <1>2 DEF Bijections
  <2>3. PICK i \in 1..Len(s1), j \in 1..Len(s1) :
          /\ {s1[i][c], t, s1[j][c]} \subseteq Nat
          /\ s1[i][c] < t /\ t < s1[j][c] /\ s1[j][c] - s1[i][c] <= GapLimit
    BY <1>13 DEF InGap
  <2>4. /\ {s[q[i]][c], t, s[q[j]][c]} \subseteq Nat
        /\ s[q[i]][c] < t /\ t < s[q[j]][c]
        /\ s[q[j]][c] - s[q[i]][c] <= GapLimit
        /\ q[i] \in 1..Len(s) /\ q[j] \in 1..Len(s)
    BY <2>2, <2>3
  <2> QED  BY <2>4 DEF InGap
<1> HIDE DEF new
<1>14. ASSUME NEW i \in 1..Len(new)
       PROVE  \/ At(new, c, new[i][c]) = At(s, c, new[i][c])
              \/ /\ At(s, c, new[i][c]) = 0 /\ At(new, c, new[i][c]) = 1
                 /\ InGap(GapLimit, s, c, new[i][c])
  <2>1. p[i] \in 1..Len(w) /\ new[i] = w[p[i]]
    BY <1>7, <1>9 DEF Bijections
  <2>2. \/ At(w, c, new[i][c]) = At(s1, c, new[i][c])
        \/ /\ At(s1, c, new[i][c]) = 0 /\ At(w, c, new[i][c]) = 1
           /\ InGap(GapLimit, s1, c, new[i][c])
    BY <2>1, <1>12
  <2> QED  BY <2>2, <1>10, <1>11, <1>13
<1>15. \A i \in 1..Len(s) : Copies(new, s[i]) >= Copies(s, s[i])
  BY <1>10, <1>11, <1>12
<1> QED  BY <1>4, <1>7, <1>8, <1>14, <1>15 DEF Complete
LEMMA DensePermuted ==
  ASSUME NEW w, NEW t, NEW c, Permuted(w, t), Dense(w, c)
  PROVE  Dense(t, c)
<1>1. PICK p \in Bijections(Len(w)) : t = [k \in 1..Len(w) |-> w[p[k]]]
  BY DEF Permuted
<1>2. Len(t) = Len(w)  BY DEF Permuted
<1>3. \A k \in 1..Len(t) : p[k] \in 1..Len(w) /\ t[k] = w[p[k]]
  BY <1>1, <1>2 DEF Bijections
<1>4. \A i \in 1..Len(w) : \E k \in 1..Len(t) : t[k] = w[i]
  BY <1>1, <1>2 DEF Bijections
<1>5. ASSUME NEW i \in 1..Len(t), NEW j \in 1..Len(t),
             t[i][c] \in Nat, t[j][c] \in Nat, t[i][c] < t[j][c],
             t[j][c] - t[i][c] <= GapLimit
      PROVE  \E k \in 1..Len(t) : t[k][c] = t[i][c] + 1
  <2>1. \E k \in 1..Len(w) : w[k][c] = w[p[i]][c] + 1
    BY <1>3, <1>5 DEF Dense
  <2> QED  BY <2>1, <1>3, <1>4
<1> QED  BY <1>5 DEF Dense

LEMMA InterpolatedDense ==
  ASSUME NEW C, NEW c \in C, NEW co, NEW s \in Seq([C -> Cells]), Len(s) >= 2
  PROVE  Dense(Interpolated(s, C, c, co), c) /\ Len(Interpolated(s, C, c, co)) >= 2
<1> DEFINE s1 == SortItems(s, c)
           w == WithNewRows(s1, C, c, co)
<1>1. Len(s) \in Nat /\ Timed(s, c)  BY TypedIsTimed
<1>2. s1 \in Seq([C -> Cells]) /\ Len(s1) = Len(s) /\ Sorted(s1, c)
  BY <1>1, SortItemsSorted
<1>3. Interpolated(s, C, c, co) = SortItems(w, c)  BY <1>1 DEF Interpolated
<1> HIDE DEF s1
<1>4. Grown(s1, C, c, co, Len(s1) - 1, w)  BY <1>1, <1>2, AllPairsGrow
<1> HIDE DEF w
<1>5. w \in Seq([C -> Cells]) /\ Timed(w, c) /\ Len(w) >= 2
  <2>1. w \in Seq([C -> Cells]) /\ Len(w) >= Len(s1)  BY <1>4 DEF Grown
  <2>2. Timed(w, c)  BY <2>1, TypedIsTimed
  <2>3. Len(w) \in Nat  BY <2>1
  <2> QED  BY <2>1, <2>2, <2>3, <1>1, <1>2
<1>6. Permuted(w, SortItems(w, c)) /\ Len(SortItems(w, c)) = Len(w)
  BY <1>5, SortItemsSorted
<1>7. Dense(w, c)  BY <1>2, <1>4, NextSecond
<1> QED  BY <1>3, <1>5, <1>6, <1>7, DensePermuted

\* interpolate() again finds no gap: it only sorts the rows that are there.
THEOREM InterpolatedTwice ==
  ASSUME NEW C, NEW c \in C, NEW co, NEW d, NEW s \in Seq([C -> Cells]),
         Len(s) >= 2
  PROVE  LET once == Interpolated(s, C, c, co)
             twice == Interpolated(once, C, c, d)
         IN  Len(twice) = Len(once) /\ \A r : Copies(twice, r) = Copies(once, r)
<1> DEFINE once == Interpolated(s, C, c, co)
           s1 == SortItems(once, c)
           w == WithNewRows(s1, C, c, d)
           twice == Interpolated(once, C, c, d)
<1>1. once \in Seq([C -> Cells])  BY InterpolatedComplete
<1>2. Dense(once, c) /\ Len(once) >= 2  BY InterpolatedDense
<1> HIDE DEF once
<1>3. Len(once) \in Nat /\ Timed(once, c)  BY <1>1, TypedIsTimed
<1>4. /\ s1 \in Seq([C -> Cells]) /\ Len(s1) = Len(once) /\ Sorted(s1, c)
      /\ Permuted(once, s1) /\ Timed(s1, c)
  BY <1>1, <1>3, SortItemsSorted
<1>5. twice = SortItems(w, c)  BY <1>2, <1>3 DEF Interpolated
<1> HIDE DEF s1
<1>6. Grown(s1, C, c, d, Len(s1) - 1, w)
  BY <1>2, <1>3, <1>4, AllPairsGrow
<1> HIDE DEF w
<1>7. Dense(s1, c)  BY <1>2, <1>4, DensePermuted
<1>8. ASSUME NEW x \in Appended(s1, w)  PROVE FALSE
  <2>1. PICK j \in 1..Len(s1) - 1 : IsNewAfter(s1, C, c, d, j, w[x])
    BY <1>6 DEF Grown
  <2> DEFINE u == s1[j][c]
             v == s1[j + 1][c]
             t == w[x][c]
  <2>2. Close(u, v) /\ t \in Nat /\ u < t /\ t < v
    BY <2>1, NewRowTime
  <2>3. j \in 1..Len(s1) /\ j + 1 \in 1..Len(s1) /\ j \in Nat
    BY <2>1, <1>3, <1>4
  <2>4. PICK k \in 1..Len(s1) : s1[k][c] = u + 1
    BY <2>2, <2>3, <1>7 DEF Dense, Close
  <2> HIDE DEF u, v, t
  <2>5. u \in Nat /\ v \in Nat /\ u + 1 < v  BY <2>2 DEF Close
  <2>6. ASSUME NEW a \in 1..Len(s1), NEW b \in 1..Len(s1), a < b,
               s1[a][c] \in Nat, s1[b][c] \in Nat
        PROVE  s1[a][c] <= s1[b][c]
    BY <2>6, <1>4, NeighboursBound
  <2>7. s1[j][c] = u /\ s1[j + 1][c] = v  BY DEF u, v
  <2>8. k = j \/ k < j \/ k = j + 1 \/ j + 1 < k  BY <2>3, <1>3, <1>4
  <2> QED  BY <2>3, <2>4, <2>5, <2>6, <2>7, <2>8
<1>9. Len(w) = Len(s1) /\ w \in Seq([C -> Cells]) /\ \A i \in 1..Len(s1) : w[i] = s1[i]
  <2>1. Len(w) \in Nat /\ Len(w) >= Len(s1) /\ w \in Seq([C -> Cells])
    BY <1>6 DEF Grown
  <2>2. Len(w) > Len(s1) => Len(s1) + 1 \in Appended(s1, w)
    BY <2>1, <1>3, <1>4 DEF Appended
  <2>3. Len(w) = Len(s1)  BY <2>1, <2>2, <1>3, <1>4, <1>8
  <2>4. \A i \in 1..Len(s1) : w[i] = s1[i]  BY <1>6 DEF Grown
  <2> QED  BY <2>1, <2>3, <2>4
<1>10. w = s1  BY <1>4, <1>9, SeqEqual
<1>11. Len(twice) = Len(once) /\ \A r : Copies(twice, r) = Copies(s1, r)
  BY <1>4, <1>5, <1>10, SortItemsSorted, SortItemsCounts
<1>12. \A r : Copies(s1, r) = Copies(once, r)  BY <1>4, CountsKept
<1> QED  BY <1>11, <1>12 DEF once
=============================================================================
