-------------------------- MODULE GpsImportProofs --------------------------
(***************************************************************************)
(* Theorems about reading files into the table, for any files and lengths. *)
(***************************************************************************)
EXTENDS GpsImport, InterpolationProofs

-----------------------------------------------------------------------------
(* FlattenSeq, by induction on the sequence of sequences.                  *)

\* A set that has the empty sequence and is closed under Append has them all.
LEMMA SeqInduction ==
  ASSUME NEW X, NEW T, <<>> \in T,
         \A s \in Seq(X), x \in X : s \in T => Append(s, x) \in T
  PROVE  Seq(X) \subseteq T
<1> SUFFICES ASSUME NEW s \in Seq(X)  PROVE s \in T
  OBVIOUS
<1> DEFINE n == Len(s)
           U == {m \in 0..n : SubSeq(s, 1, m) \in T}
<1>1. n \in Nat /\ SubSeq(s, 1, 0) = <<>> /\ SubSeq(s, 1, n) = s
  OBVIOUS
<1>2. 0 \in U
  <2>1. SubSeq(s, 1, 0) \in T  BY <1>1, Zenon
  <2> HIDE DEF n
  <2>2. 0 \in 0..n  BY <1>1
  <2> QED  BY <2>1, <2>2
<1>3. ASSUME NEW m \in 0..n - 1, m \in U  PROVE m + 1 \in U
  <2>1. SubSeq(s, 1, m) \in Seq(X) /\ s[m + 1] \in X  BY <1>1
  <2>2. SubSeq(s, 1, m + 1) = Append(SubSeq(s, 1, m), s[m + 1])  BY <1>1
  <2> HIDE DEF n
  <2>3. SubSeq(s, 1, m) \in T /\ m + 1 \in 0..n  BY <1>1, <1>3
  <2> QED  BY <2>1, <2>2, <2>3
<1> HIDE DEF n
<1>4. \A m \in 0..n : m \in U
  <2> HIDE DEF U
  <2> QED  BY <1>1, <1>2, <1>3, Induction
<1>5. n \in 0..n  BY <1>1
<1> QED  BY <1>1, <1>4, <1>5

\* f is the function that FlattenSeq() builds.
Flattens(f, ss, n) ==
  f = [i \in 1..n |-> IF i = 1 THEN ss[i] ELSE f[i - 1] \o ss[i]]

LEMMA FlattensExists ==
  ASSUME NEW ss, NEW n \in Nat
  PROVE  \E f : Flattens(f, ss, n)
<1> DEFINE T == {m \in 0..n : \E f : Flattens(f, ss, m)}
<1>1. 0 \in T
  <2>1. Flattens([i \in 1..0 |-> ss], ss, 0)  BY DEF Flattens
  <2> QED  BY <2>1
<1>2. ASSUME NEW m \in 0..n - 1, m \in T  PROVE m + 1 \in T
  <2>1. PICK f : Flattens(f, ss, m)  BY <1>2
  <2> DEFINE last == IF m = 0 THEN ss[1] ELSE f[m] \o ss[m + 1]
             g == [i \in 1..m + 1 |-> IF i <= m THEN f[i] ELSE last]
  <2>2. \A i \in 1..m : f[i] = IF i = 1 THEN ss[i] ELSE f[i - 1] \o ss[i]
    BY <2>1 DEF Flattens
  <2>3. ASSUME NEW i \in 1..m + 1
        PROVE  g[i] = IF i = 1 THEN ss[i] ELSE g[i - 1] \o ss[i]
    <3>1. CASE i <= m
      <4>1. i \in 1..m /\ (i # 1 => i - 1 \in 1..m /\ i - 1 \in 1..m + 1)  BY <3>1
      <4>2. g[i] = f[i] /\ (i # 1 => g[i - 1] = f[i - 1])  BY <4>1
      <4> HIDE DEF g
      <4> QED  BY <4>1, <4>2, <2>2
    <3>2. CASE ~(i <= m)
      <4>1. i = m + 1 /\ (m = 0 <=> i = 1)  BY <3>2
      <4>2. g[i] = last  BY <4>1, <3>2
      <4>3. CASE m = 0  BY <4>1, <4>2, <4>3
      <4>4. CASE m # 0
        <5>1. m \in 1..m + 1 /\ m <= m /\ i - 1 = m  BY <4>1, <4>4
        <5>2. g[m] = f[m]  BY <5>1
        <5> HIDE DEF g
        <5> QED  BY <4>1, <4>2, <4>4, <5>1, <5>2
      <4> QED  BY <4>3, <4>4
    <3> QED  BY <3>1, <3>2
  <2>4. g = [i \in 1..m + 1 |-> g[i]]  OBVIOUS
  <2> HIDE DEF g
  <2>5. Flattens(g, ss, m + 1)  BY <2>3, <2>4 DEF Flattens
  <2> QED  BY <2>5
<1> HIDE DEF T
<1>3. \A m \in 0..n : m \in T  BY <1>1, <1>2, Induction
<1>4. n \in 0..n  OBVIOUS
<1> QED  BY <1>3, <1>4 DEF T

LEMMA FlattenEquation ==
  ASSUME NEW ss, Len(ss) \in Nat \ {0}
  PROVE  \E f : Flattens(f, ss, Len(ss)) /\ FlattenSeq(ss) = f[Len(ss)]
<1> DEFINE flatten == CHOOSE f : Flattens(f, ss, Len(ss))
<1>1. FlattenSeq(ss) = flatten[Len(ss)]  BY DEF FlattenSeq, Flattens
<1>2. Flattens(flatten, ss, Len(ss))
  BY FlattensExists
<1> QED  BY <1>1, <1>2

\* Two that agree on a prefix flatten it to the same.
LEMMA FlattensAgree ==
  ASSUME NEW ss, NEW tt, NEW f, NEW g, NEW n \in Nat, NEW k \in Nat, n <= k,
         Flattens(f, ss, n), Flattens(g, tt, k),
         \A i \in 1..n : ss[i] = tt[i]
  PROVE  \A i \in 1..n : f[i] = g[i]
<1> DEFINE T == {m \in 0..n : m # 0 => f[m] = g[m]}
<1>1. 0 \in T  OBVIOUS
<1>2. \A i \in 1..n : f[i] = IF i = 1 THEN ss[i] ELSE f[i - 1] \o ss[i]
  BY DEF Flattens
<1>3. \A i \in 1..n : g[i] = IF i = 1 THEN tt[i] ELSE g[i - 1] \o tt[i]
  <2>1. \A i \in 1..k : g[i] = IF i = 1 THEN tt[i] ELSE g[i - 1] \o tt[i]
    BY DEF Flattens
  <2>2. 1..n \subseteq 1..k  OBVIOUS
  <2> QED  BY <2>1, <2>2
<1>4. ASSUME NEW m \in 0..n - 1, m \in T  PROVE m + 1 \in T
  <2>1. m + 1 \in 1..n /\ m + 1 \in 0..n /\ (m + 1 # 1 => m # 0) /\ (m + 1) - 1 = m
    OBVIOUS
  <2> QED  BY <1>2, <1>3, <1>4, <2>1
<1> HIDE DEF T
<1>5. \A m \in 0..n : m \in T  BY <1>1, <1>4, Induction
<1> QED  BY <1>5 DEF T

LEMMA FlattenAppend ==
  ASSUME NEW X, NEW ss \in Seq(Seq(X)), NEW s \in Seq(X)
  PROVE  FlattenSeq(Append(ss, s)) = FlattenSeq(ss) \o s
<1> DEFINE n == Len(ss)
           tt == Append(ss, s)
<1>1. n \in Nat /\ Len(tt) = n + 1 /\ tt[n + 1] = s
      /\ \A i \in 1..n : ss[i] = tt[i]
  OBVIOUS
<1>2. PICK g : Flattens(g, tt, n + 1) /\ FlattenSeq(tt) = g[n + 1]
  <2>1. Len(tt) \in Nat \ {0}  BY <1>1
  <2> HIDE DEF tt, n
  <2> QED  BY <1>1, <2>1, FlattenEquation
<1>3. CASE n = 0
  <2>1. FlattenSeq(ss) = <<>>  BY <1>3 DEF FlattenSeq
  <2>2. g[1] = tt[1]  BY <1>2, <1>3 DEF Flattens
  <2> QED  BY <1>1, <1>2, <1>3, <2>1, <2>2
<1>4. CASE n # 0
  <2>1. PICK f : Flattens(f, ss, n) /\ FlattenSeq(ss) = f[n]
    BY <1>1, <1>4, FlattenEquation
  <2> HIDE DEF tt, n
  <2>2. \A i \in 1..n : f[i] = g[i]
    BY <1>1, <1>2, <2>1, FlattensAgree
  <2>3. g[n + 1] = g[n] \o tt[n + 1]
    <3>1. n + 1 \in 1..n + 1 /\ n + 1 # 1 /\ (n + 1) - 1 = n  BY <1>1, <1>4
    <3> QED  BY <1>2, <3>1 DEF Flattens
  <2>4. n \in 1..n  BY <1>1, <1>4
  <2> QED  BY <1>1, <1>2, <2>1, <2>2, <2>3, <2>4 DEF tt
<1> QED  BY <1>3, <1>4

LEMMA FlattenEmpty == FlattenSeq(<<>>) = <<>>
BY DEF FlattenSeq

LEMMA FlattenTyped ==
  ASSUME NEW X, NEW ss \in Seq(Seq(X))
  PROVE  FlattenSeq(ss) \in Seq(X)
<1> DEFINE T == {tt \in Seq(Seq(X)) : FlattenSeq(tt) \in Seq(X)}
<1>1. <<>> \in T  BY FlattenEmpty, EmptySeq
<1>2. ASSUME NEW tt \in Seq(Seq(X)), NEW s \in Seq(X), tt \in T
      PROVE  Append(tt, s) \in T
  <2>1. FlattenSeq(Append(tt, s)) = FlattenSeq(tt) \o s  BY FlattenAppend
  <2>2. Append(tt, s) \in Seq(Seq(X))  BY AppendProperties
  <2>3. FlattenSeq(tt) \o s \in Seq(X)  BY <1>2, ConcatProperties
  <2> QED  BY <2>1, <2>2, <2>3
<1> HIDE DEF T
<1>3. Seq(Seq(X)) \subseteq T  BY <1>1, <1>2, SeqInduction
<1> QED  BY <1>3 DEF T

LEMMA FlattenSingle ==
  ASSUME NEW X, NEW s \in Seq(X)
  PROVE  FlattenSeq(<<s>>) = s
<1>1. <<>> \in Seq(Seq(X))  BY EmptySeq
<1>2. FlattenSeq(Append(<<>>, s)) = FlattenSeq(<<>>) \o s  BY <1>1, FlattenAppend
<1>3. Append(<<>>, s) = <<s>>  OBVIOUS
<1>4. <<>> \o s = s  BY ConcatEmptySeq
<1> QED  BY <1>2, <1>3, <1>4, FlattenEmpty

LEMMA ConcatAppend ==
  ASSUME NEW X, NEW s \in Seq(X), NEW t \in Seq(X), NEW x \in X
  PROVE  s \o Append(t, x) = Append(s \o t, x)
OBVIOUS

LEMMA FlattenConcat ==
  ASSUME NEW X, NEW ss \in Seq(Seq(X)), NEW tt \in Seq(Seq(X))
  PROVE  FlattenSeq(ss \o tt) = FlattenSeq(ss) \o FlattenSeq(tt)
<1> DEFINE T == {uu \in Seq(Seq(X)) :
                   FlattenSeq(ss \o uu) = FlattenSeq(ss) \o FlattenSeq(uu)}
<1>1. <<>> \in T
  <2>1. <<>> \in Seq(Seq(X)) /\ ss \o <<>> = ss  BY EmptySeq, ConcatEmptySeq
  <2>2. FlattenSeq(ss) \o <<>> = FlattenSeq(ss)  BY FlattenTyped, ConcatEmptySeq
  <2> QED  BY <2>1, <2>2, FlattenEmpty
<1>2. ASSUME NEW uu \in Seq(Seq(X)), NEW s \in Seq(X), uu \in T
      PROVE  Append(uu, s) \in T
  <2>1. Append(uu, s) \in Seq(Seq(X)) /\ ss \o uu \in Seq(Seq(X))
    BY AppendProperties, ConcatProperties
  <2>2. FlattenSeq(ss \o Append(uu, s)) = FlattenSeq(ss \o uu) \o s
    <3>1. ss \o Append(uu, s) = Append(ss \o uu, s)  BY ConcatAppend
    <3>2. FlattenSeq(Append(ss \o uu, s)) = FlattenSeq(ss \o uu) \o s
      BY <2>1, FlattenAppend
    <3> QED  BY <3>1, <3>2
  <2>3. FlattenSeq(Append(uu, s)) = FlattenSeq(uu) \o s  BY FlattenAppend
  <2>4. (FlattenSeq(ss) \o FlattenSeq(uu)) \o s = FlattenSeq(ss) \o (FlattenSeq(uu) \o s)
    <3>1. FlattenSeq(ss) \in Seq(X) /\ FlattenSeq(uu) \in Seq(X)  BY FlattenTyped
    <3> QED  BY <3>1, ConcatAssociative
  <2> QED  BY <1>2, <2>1, <2>2, <2>3, <2>4
<1> HIDE DEF T
<1>3. Seq(Seq(X)) \subseteq T  BY <1>1, <1>2, SeqInduction
<1> QED  BY <1>3 DEF T

\* s with g applied to every element.
Mapped(g, s) == [k \in 1..Len(s) |-> g[s[k]]]

LEMMA MappedTyped ==
  ASSUME NEW X, NEW Y, NEW g, \A x \in X : g[x] \in Y, NEW s \in Seq(X)
  PROVE  Mapped(g, s) \in Seq(Y) /\ Len(Mapped(g, s)) = Len(s)
BY DEF Mapped

LEMMA MappedConcat ==
  ASSUME NEW X, NEW g, NEW s \in Seq(X), NEW t \in Seq(X)
  PROVE  Mapped(g, s \o t) = Mapped(g, s) \o Mapped(g, t)
BY DEF Mapped

LEMMA MappedAppend ==
  ASSUME NEW X, NEW g, NEW s \in Seq(X), NEW x \in X
  PROVE  Mapped(g, Append(s, x)) = Append(Mapped(g, s), g[x])
BY DEF Mapped

LEMMA MappedEmpty == ASSUME NEW g  PROVE Mapped(g, <<>>) = <<>>
BY DEF Mapped

Maps(g, X, Y) == \A x \in X : g[x] \in Y
MapsEach(h, g, X) == \A s \in Seq(X) : h[s] = Mapped(g, s)
FlattensEach(h, X) == \A ss \in Seq(Seq(X)) : h[ss] = FlattenSeq(ss)

\* Mapping commutes with flattening; h maps the elements of each sequence.
LEMMA FlattenMapped ==
  ASSUME NEW X, NEW Y, NEW g, Maps(g, X, Y), NEW h, MapsEach(h, g, X),
         NEW ss \in Seq(Seq(X))
  PROVE  FlattenSeq(Mapped(h, ss)) = Mapped(g, FlattenSeq(ss))
<1> USE DEF Maps, MapsEach
<1> DEFINE T == {tt \in Seq(Seq(X)) :
                   FlattenSeq(Mapped(h, tt)) = Mapped(g, FlattenSeq(tt))}
<1>1. <<>> \in T
  BY EmptySeq, MappedEmpty, FlattenEmpty
<1>2. ASSUME NEW tt \in Seq(Seq(X)), NEW s \in Seq(X), tt \in T
      PROVE  Append(tt, s) \in T
  <2>1. Append(tt, s) \in Seq(Seq(X))  BY AppendProperties
  <2>2. Mapped(h, Append(tt, s)) = Append(Mapped(h, tt), Mapped(g, s))
    <3>1. Mapped(h, Append(tt, s)) = Append(Mapped(h, tt), h[s])  BY MappedAppend
    <3>2. h[s] = Mapped(g, s)  OBVIOUS
    <3> QED  BY <3>1, <3>2
  <2>3. Mapped(h, tt) \in Seq(Seq(Y)) /\ Mapped(g, s) \in Seq(Y)
    <3>1. \A t \in Seq(X) : h[t] \in Seq(Y)  BY MappedTyped
    <3> QED  BY <3>1, MappedTyped
  <2>4. FlattenSeq(Append(Mapped(h, tt), Mapped(g, s)))
          = FlattenSeq(Mapped(h, tt)) \o Mapped(g, s)
    BY <2>3, FlattenAppend
  <2>5. FlattenSeq(Append(tt, s)) = FlattenSeq(tt) \o s  BY FlattenAppend
  <2>6. Mapped(g, FlattenSeq(tt) \o s) = Mapped(g, FlattenSeq(tt)) \o Mapped(g, s)
    BY FlattenTyped, MappedConcat
  <2> QED  BY <1>2, <2>1, <2>2, <2>4, <2>5, <2>6
<1> HIDE DEF T
<1>3. Seq(Seq(X)) \subseteq T  BY <1>1, <1>2, SeqInduction
<1> QED  BY <1>3 DEF T

\* Inner or outer sequences may be flattened first; h flattens each.
LEMMA FlattenFlattened ==
  ASSUME NEW X, NEW h, FlattensEach(h, X),
         NEW sss \in Seq(Seq(Seq(X)))
  PROVE  FlattenSeq(FlattenSeq(sss)) = FlattenSeq(Mapped(h, sss))
<1> USE DEF FlattensEach
<1> DEFINE Y == Seq(Seq(X))
           T == {ttt \in Seq(Y) :
                   FlattenSeq(FlattenSeq(ttt)) = FlattenSeq(Mapped(h, ttt))}
<1>1. <<>> \in T
  BY EmptySeq, MappedEmpty, FlattenEmpty
<1>2. ASSUME NEW ttt \in Seq(Y), NEW ss \in Y, ttt \in T
      PROVE  Append(ttt, ss) \in T
  <2>1. Append(ttt, ss) \in Seq(Y)  BY AppendProperties
  <2>2. FlattenSeq(Append(ttt, ss)) = FlattenSeq(ttt) \o ss  BY FlattenAppend
  <2>3. FlattenSeq(ttt) \in Y  BY FlattenTyped
  <2>4. FlattenSeq(FlattenSeq(ttt) \o ss)
          = FlattenSeq(FlattenSeq(ttt)) \o FlattenSeq(ss)
    BY <2>3, FlattenConcat
  <2>5. Mapped(h, Append(ttt, ss)) = Append(Mapped(h, ttt), FlattenSeq(ss))
    BY MappedAppend
  <2>6. Mapped(h, ttt) \in Seq(Seq(X)) /\ FlattenSeq(ss) \in Seq(X)
    <3>1. \A uu \in Y : h[uu] \in Seq(X)  BY FlattenTyped
    <3> HIDE DEF Y
    <3>2. Mapped(h, ttt) \in Seq(Seq(X))  BY <3>1, MappedTyped
    <3> QED  BY <3>2, FlattenTyped DEF Y
  <2>7. FlattenSeq(Append(Mapped(h, ttt), FlattenSeq(ss)))
          = FlattenSeq(Mapped(h, ttt)) \o FlattenSeq(ss)
    BY <2>6, FlattenAppend
  <2> QED  BY <1>2, <2>1, <2>2, <2>4, <2>5, <2>7
<1> HIDE DEF T
<1>3. Seq(Y) \subseteq T
  <2> HIDE DEF Y
  <2> QED  BY <1>1, <1>2, SeqInduction
<1> QED  BY <1>3 DEF T

\* What is in one of the sequences is in the flattened one.
LEMMA FlattenContains ==
  ASSUME NEW X, NEW ss \in Seq(Seq(X)), NEW i \in 1..Len(ss), NEW j \in 1..Len(ss[i])
  PROVE  \E k \in 1..Len(FlattenSeq(ss)) : FlattenSeq(ss)[k] = ss[i][j]
<1> DEFINE Has(tt) == \A a \in 1..Len(tt) : \A b \in 1..Len(tt[a]) :
                        \E k \in 1..Len(FlattenSeq(tt)) : FlattenSeq(tt)[k] = tt[a][b]
           T == {tt \in Seq(Seq(X)) : Has(tt)}
<1>1. <<>> \in T  BY EmptySeq
<1>2. ASSUME NEW tt \in Seq(Seq(X)), NEW s \in Seq(X), tt \in T
      PROVE  Append(tt, s) \in T
  <2> DEFINE old == FlattenSeq(tt)
             uu == Append(tt, s)
             new == FlattenSeq(uu)
  <2>1. /\ uu \in Seq(Seq(X)) /\ Len(uu) = Len(tt) + 1 /\ Len(tt) \in Nat
        /\ \A a \in 1..Len(tt) : uu[a] = tt[a]
        /\ uu[Len(tt) + 1] = s
    BY AppendProperties, LenProperties
  <2>2. new = old \o s /\ old \in Seq(X)  BY FlattenAppend, FlattenTyped
  <2>3. /\ Len(new) = Len(old) + Len(s) /\ Len(old) \in Nat /\ Len(s) \in Nat
        /\ \A k \in 1..Len(old) : new[k] = old[k]
        /\ \A k \in 1..Len(s) : new[Len(old) + k] = s[k]
    BY <2>2
  <2> HIDE DEF uu, new, old
  <2>4. ASSUME NEW a \in 1..Len(uu), NEW b \in 1..Len(uu[a])
        PROVE  \E k \in 1..Len(new) : new[k] = uu[a][b]
    <3>1. CASE a \in 1..Len(tt)
      <4>1. PICK k \in 1..Len(old) : old[k] = tt[a][b]
        BY <1>2, <2>1, <3>1 DEF old
      <4>2. k \in 1..Len(new)  BY <2>3, <4>1
      <4>3. new[k] = old[k] /\ uu[a][b] = tt[a][b]  BY <2>1, <2>3, <3>1, <4>1
      <4> QED  BY <4>1, <4>2, <4>3
    <3>2. CASE a = Len(tt) + 1
      <4>1. b \in 1..Len(s) /\ uu[a][b] = s[b]  BY <2>1, <3>2
      <4>2. Len(old) + b \in 1..Len(new)  BY <2>3, <4>1
      <4> QED  BY <2>3, <4>1, <4>2
    <3> QED  BY <2>1, <3>1, <3>2
  <2>5. Has(uu)  BY <2>4 DEF new
  <2> HIDE DEF Has
  <2> QED  BY <2>1, <2>5 DEF uu
<1> HIDE DEF T
<1>3. Seq(Seq(X)) \subseteq T  BY <1>1, <1>2, SeqInduction
<1> QED  BY <1>3 DEF T

-----------------------------------------------------------------------------
(* Chosen(): the elements at some positions.                               *)

Parts(s, I) == [i \in 1..Len(s) |-> IF i \in I THEN <<s[i]>> ELSE <<>>]

Short(X) == {q \in Seq(X) : Len(q) <= 1}

ChosenIn(s, I, X) ==
  Len(s) \in Nat /\ \A i \in 1..Len(s) : i \in I => s[i] \in X

AreParts(p, s, I, X) ==
  /\ p \in Seq(Short(X)) /\ p \in Seq(Seq(X))
  /\ Len(p) = Len(s)
  /\ \A i \in 1..Len(s) : Len(p[i]) = IF i \in I THEN 1 ELSE 0

LEMMA SeqChosenIn == ASSUME NEW X, NEW s \in Seq(X), NEW I  PROVE ChosenIn(s, I, X)
BY DEF ChosenIn

LEMMA PartsTyped ==
  ASSUME NEW X, NEW s, NEW I, ChosenIn(s, I, X)
  PROVE  AreParts(Parts(s, I), s, I, X)
<1> USE DEF ChosenIn
<1> DEFINE p == Parts(s, I)
           Q == Short(X)
<1>1. ASSUME NEW i \in 1..Len(s)
      PROVE  p[i] \in Q /\ Len(p[i]) = IF i \in I THEN 1 ELSE 0
  <2>1. p[i] = IF i \in I THEN <<s[i]>> ELSE <<>>  BY DEF Parts
  <2>2. CASE i \in I
    <3>1. s[i] \in X  BY <2>2
    <3>2. <<s[i]>> \in Seq(X) /\ Len(<<s[i]>>) = 1  BY <3>1
    <3> QED  BY <2>1, <2>2, <3>2 DEF Short
  <2>3. CASE i \notin I
    <3>1. <<>> \in Seq(X) /\ Len(<<>>) = 0  OBVIOUS
    <3> QED  BY <2>1, <2>3, <3>1 DEF Short
  <2> QED  BY <2>2, <2>3
<1>2. p = [i \in 1..Len(s) |-> p[i]]  BY DEF Parts
<1> HIDE DEF p
<1>3. p \in Seq(Q) /\ Len(p) = Len(s)
  <2> HIDE DEF Q
  <2> QED  BY <1>1, <1>2
<1>4. p \in Seq(Seq(X))
  <2>1. \A i \in 1..Len(s) : p[i] \in Seq(X)  BY <1>1 DEF Short
  <2> QED  BY <1>2, <2>1
<1> QED  BY <1>1, <1>3, <1>4 DEF p, AreParts

LEMMA ChosenTyped ==
  ASSUME NEW X, NEW s, NEW I, ChosenIn(s, I, X)
  PROVE  Chosen(s, I) \in Seq(X)
<1>1. Chosen(s, I) = FlattenSeq(Parts(s, I))  BY DEF Chosen, Parts
<1>2. Parts(s, I) \in Seq(Seq(X))  BY PartsTyped DEF AreParts
<1> QED  BY <1>1, <1>2, FlattenTyped

\* Every chosen element is there.
LEMMA ChosenContains ==
  ASSUME NEW X, NEW s \in Seq(X), NEW I, NEW i \in 1..Len(s), i \in I
  PROVE  \E k \in 1..Len(Chosen(s, I)) : Chosen(s, I)[k] = s[i]
<1> DEFINE p == Parts(s, I)
<1>1. Chosen(s, I) = FlattenSeq(p)  BY DEF Chosen, Parts
<1>2. p \in Seq(Seq(X)) /\ Len(p) = Len(s)
  BY SeqChosenIn, PartsTyped DEF AreParts
<1>3. p[i] = <<s[i]>>  BY DEF Parts
<1> HIDE DEF p
<1>4. 1 \in 1..Len(p[i]) /\ p[i][1] = s[i] /\ i \in 1..Len(p)  BY <1>2, <1>3
<1>5. \E k \in 1..Len(FlattenSeq(p)) : FlattenSeq(p)[k] = p[i][1]
  BY <1>2, <1>4, FlattenContains
<1> QED  BY <1>1, <1>4, <1>5

\* Sequences of at most one element have no more in all than there are, and
\* fewer if one of them is empty.
LEMMA FlattenShort ==
  ASSUME NEW X, NEW ss \in Seq(Short(X))
  PROVE  /\ Len(FlattenSeq(ss)) <= Len(ss)
         /\ Len(FlattenSeq(ss)) < Len(ss) <=> \E i \in 1..Len(ss) : Len(ss[i]) # 1
<1> DEFINE Q == Short(X)
           Kept(tt) ==
             /\ tt \in Seq(Seq(X))
             /\ Len(FlattenSeq(tt)) <= Len(tt)
             /\ Len(FlattenSeq(tt)) < Len(tt) <=> \E i \in 1..Len(tt) : Len(tt[i]) # 1
           T == {tt \in Seq(Q) : Kept(tt)}
<1>1. <<>> \in T  BY EmptySeq, FlattenEmpty
<1>2. ASSUME NEW tt \in Seq(Q), NEW s \in Q, tt \in T
      PROVE  Append(tt, s) \in T
  <2> DEFINE old == FlattenSeq(tt)
             uu == Append(tt, s)
             new == FlattenSeq(uu)
  <2>1. /\ uu \in Seq(Q) /\ Len(uu) = Len(tt) + 1 /\ Len(tt) \in Nat
        /\ \A a \in 1..Len(tt) : uu[a] = tt[a]
        /\ uu[Len(tt) + 1] = s
    <3> HIDE DEF Q
    <3> QED  BY AppendProperties, LenProperties
  <2>2. tt \in Seq(Seq(X)) /\ s \in Seq(X) /\ Len(s) \in 0..1
    <3>1. s \in Seq(X) /\ Len(s) <= 1  BY DEF Short
    <3>2. Len(s) \in Nat  BY <3>1, LenProperties
    <3>3. tt \in Seq(Seq(X))  BY <1>2
    <3>4. \A n \in Nat : n <= 1 => n \in 0..1  OBVIOUS
    <3> HIDE DEF Q
    <3>5. Len(s) \in 0..1  BY <3>1, <3>2, <3>4, Zenon
    <3> QED  BY <3>1, <3>3, <3>5, Zenon
  <2>3. uu \in Seq(Seq(X))  BY <2>2, AppendProperties
  <2>4. new = old \o s /\ old \in Seq(X)  BY <2>2, FlattenAppend, FlattenTyped
  <2>5. Len(new) = Len(old) + Len(s) /\ Len(old) \in Nat  BY <2>2, <2>4
  <2>6. /\ Len(old) <= Len(tt)
        /\ Len(old) < Len(tt) <=> \E i \in 1..Len(tt) : Len(tt[i]) # 1
    BY <1>2
  <2> HIDE DEF uu, new, old, Q
  <2>7. (\E i \in 1..Len(uu) : Len(uu[i]) # 1)
          <=> (\E i \in 1..Len(tt) : Len(tt[i]) # 1) \/ Len(s) # 1
    <3>1. 1..Len(uu) = 1..Len(tt) \cup {Len(tt) + 1}  BY <2>1
    <3> QED  BY <2>1, <3>1
  <2>8. Len(new) <= Len(uu)
        /\ (Len(new) < Len(uu) <=> \E i \in 1..Len(uu) : Len(uu[i]) # 1)
    <3> DEFINE A == \E i \in 1..Len(tt) : Len(tt[i]) # 1
               B == \E i \in 1..Len(uu) : Len(uu[i]) # 1
    <3>1. (B <=> A \/ Len(s) # 1) /\ (Len(old) < Len(tt) <=> A)  BY <2>6, <2>7
    <3> HIDE DEF A, B
    <3>2. CASE Len(s) = 1
      <4>1. Len(new) <= Len(uu) /\ (Len(new) < Len(uu) <=> Len(old) < Len(tt))
        BY <2>1, <2>5, <2>6, <3>2
      <4> QED  BY <3>1, <3>2, <4>1, Zenon DEF B
    <3>3. CASE Len(s) # 1
      <4>1. Len(s) = 0  BY <2>2, <3>3
      <4>2. Len(new) <= Len(uu) /\ Len(new) < Len(uu)
        BY <2>1, <2>5, <2>6, <4>1
      <4> QED  BY <3>1, <3>3, <4>2, Zenon DEF B
    <3> QED  BY <3>2, <3>3
  <2>9. Kept(uu)  BY <2>3, <2>8 DEF new
  <2> HIDE DEF Kept
  <2> QED  BY <2>1, <2>9 DEF uu
<1>3. Seq(Q) \subseteq T
  <2> HIDE DEF T, Q
  <2> QED  BY <1>1, <1>2, SeqInduction
<1> HIDE DEF Q
<1> QED  BY <1>3 DEF Q

LEMMA ChosenLength ==
  ASSUME NEW X, NEW s \in Seq(X), NEW I
  PROVE  /\ Len(Chosen(s, I)) <= Len(s)
         /\ Len(Chosen(s, I)) < Len(s) <=> \E i \in 1..Len(s) : i \notin I
<1> DEFINE p == Parts(s, I)
<1>1. Chosen(s, I) = FlattenSeq(p)  BY DEF Chosen, Parts
<1>2. /\ p \in Seq(Short(X)) /\ Len(p) = Len(s)
      /\ \A i \in 1..Len(s) : Len(p[i]) = IF i \in I THEN 1 ELSE 0
  BY SeqChosenIn, PartsTyped DEF AreParts
<1> HIDE DEF p
<1>3. /\ Len(FlattenSeq(p)) <= Len(p)
      /\ Len(FlattenSeq(p)) < Len(p) <=> \E i \in 1..Len(p) : Len(p[i]) # 1
  BY <1>2, FlattenShort
<1>4. (\E i \in 1..Len(p) : Len(p[i]) # 1) <=> \E i \in 1..Len(s) : i \notin I
  <2>1. ASSUME NEW i \in 1..Len(s), i \in I  PROVE Len(p[i]) = 1  BY <1>2, <2>1
  <2>2. ASSUME NEW i \in 1..Len(s), i \notin I  PROVE Len(p[i]) # 1
    <3>1. Len(p[i]) = IF i \in I THEN 1 ELSE 0  BY <1>2
    <3>2. Len(p[i]) = 0  BY <2>2, <3>1, Zenon
    <3> QED  BY <3>2
  <2> QED  BY <1>2, <2>1, <2>2, Zenon
<1> QED  BY <1>1, <1>2, <1>3, <1>4

\* Choosing the first element as well puts it in front.
LEMMA ChosenCons ==
  ASSUME NEW X, NEW s \in Seq(X), s # <<>>, NEW I, 1 \in I, NEW J,
         \A i \in 1..Len(s) - 1 : i + 1 \in I <=> i \in J
  PROVE  Chosen(s, I) = <<s[1]>> \o Chosen(Tail(s), J)
<1> DEFINE p == Parts(s, I)
           q == Parts(Tail(s), J)
<1>1. Chosen(s, I) = FlattenSeq(p) /\ Chosen(Tail(s), J) = FlattenSeq(q)
  BY DEF Chosen, Parts
<1>2. /\ Len(s) \in Nat \ {0} /\ s[1] \in X
      /\ Tail(s) \in Seq(X) /\ Len(Tail(s)) = Len(s) - 1
      /\ \A i \in 1..Len(s) - 1 : Tail(s)[i] = s[i + 1]
  OBVIOUS
<1>3. p = <<<<s[1]>>>> \o q
  <2>1. Len(p) = Len(s) /\ Len(q) = Len(s) - 1
        /\ p \in Seq(Seq(X)) /\ q \in Seq(Seq(X)) /\ <<<<s[1]>>>> \in Seq(Seq(X))
    <3>3. <<s[1]>> \in Seq(X)  BY <1>2
    <3>4. <<<<s[1]>>>> \in Seq(Seq(X))  BY <3>3
    <3>5. p \in Seq(Seq(X)) /\ Len(p) = Len(s)
      BY SeqChosenIn, PartsTyped DEF AreParts
    <3>6. q \in Seq(Seq(X)) /\ Len(q) = Len(Tail(s))
      <4>1. ChosenIn(Tail(s), J, X)  BY <1>2, SeqChosenIn
      <4> QED  BY <4>1, PartsTyped DEF AreParts
    <3> QED  BY <1>2, <3>4, <3>5, <3>6
  <2>2. p[1] = <<s[1]>>  BY <1>2 DEF Parts
  <2>3. ASSUME NEW i \in 1..Len(s) - 1  PROVE p[i + 1] = q[i]
    <3>1. i + 1 \in 1..Len(s) /\ i \in 1..Len(Tail(s))  BY <1>2
    <3>2. p[i + 1] = IF i + 1 \in I THEN <<s[i + 1]>> ELSE <<>>  BY <3>1 DEF Parts
    <3>3. q[i] = IF i \in J THEN <<Tail(s)[i]>> ELSE <<>>  BY <3>1 DEF Parts
    <3> QED  BY <1>2, <3>2, <3>3
  <2> HIDE DEF p, q
  <2> DEFINE r == <<<<s[1]>>>> \o q
  <2>4. r \in Seq(Seq(X)) /\ Len(r) = Len(s) /\ r[1] = <<s[1]>>
        /\ \A i \in 1..Len(s) - 1 : r[i + 1] = q[i]
    <3> DEFINE Y == Seq(X)
    <3>1. q \in Seq(Y) /\ <<s[1]>> \in Y /\ Len(q) = Len(s) - 1  BY <1>2, <2>1
    <3> HIDE DEF Y
    <3>2. <<<<s[1]>>>> \in Seq(Y) /\ Len(<<<<s[1]>>>>) = 1  BY <3>1
    <3>3. r \in Seq(Y) /\ Len(r) = 1 + Len(q)  BY <3>1, <3>2
    <3>4. r[1] = <<s[1]>> /\ \A i \in 1..Len(q) : r[i + 1] = q[i]  BY <3>1, <3>2
    <3>5. 1..Len(q) = 1..Len(s) - 1 /\ 1 + Len(q) = Len(s)  BY <1>2, <3>1
    <3> QED  BY <3>3, <3>4, <3>5, Zenon DEF Y
  <2> HIDE DEF r
  <2>5. ASSUME NEW k \in 1..Len(p)  PROVE p[k] = r[k]
    <3>1. k = 1 \/ (k - 1 \in 1..Len(s) - 1 /\ (k - 1) + 1 = k)  BY <1>2, <2>1
    <3> QED  BY <2>2, <2>3, <2>4, <3>1
  <2>6. p = r  BY <2>1, <2>4, <2>5, SeqEqual
  <2> QED  BY <2>6 DEF r
<1>4. q \in Seq(Seq(X)) /\ <<<<s[1]>>>> \in Seq(Seq(X)) /\ <<s[1]>> \in Seq(X)
  <2>2. <<s[1]>> \in Seq(X)  BY <1>2
  <2>3. q \in Seq(Seq(X))  BY <1>2, SeqChosenIn, PartsTyped DEF AreParts
  <2> QED  BY <2>2, <2>3
<1> HIDE DEF p, q
<1>5. FlattenSeq(<<<<s[1]>>>> \o q) = FlattenSeq(<<<<s[1]>>>>) \o FlattenSeq(q)
  BY <1>4, FlattenConcat
<1>6. FlattenSeq(<<<<s[1]>>>>) = <<s[1]>>  BY <1>4, FlattenSingle
<1> QED  BY <1>1, <1>3, <1>5, <1>6

-----------------------------------------------------------------------------
(* What is read, and its cells.                                            *)

LEMMA MaxIn ==
  ASSUME NEW n \in Nat, NEW S \in SUBSET (1..n), S # {}
  PROVE  Max(S) \in S
<1> DEFINE T == {n - x : x \in S}
<1>1. T \in SUBSET Nat /\ T # {}
  <2>1. \A x \in S : n - x \in Nat  OBVIOUS
  <2> QED  BY <2>1
<1> HIDE DEF T
<1>2. PICK t \in T : \A u \in T : t <= u  BY <1>1, LeastNatural
<1>3. PICK x \in S : t = n - x  BY DEF T
<1>4. \A y \in S : x >= y
  <2> SUFFICES ASSUME NEW y \in S  PROVE x >= y  OBVIOUS
  <2>1. n - y \in T  BY DEF T
  <2>2. n - x <= n - y  BY <1>2, <1>3, <2>1
  <2> QED  BY <2>2
<1> QED  BY <1>4, Zenon DEF Max

HasCells(record) == \A h \in DOMAIN record : record[h] \in Cells

\* A result whose records are made of cells.
Reads(res) ==
  /\ Len(res.headers) \in Nat /\ Len(res.records) \in Nat
  /\ \A i \in 1..Len(res.records) : HasCells(res.records[i])

LEMMA TableTyped ==
  ASSUME NEW res, Reads(res)
  PROVE  /\ Table(res) \in Seq([1..Len(res.headers) -> Cells])
         /\ Len(Table(res)) = Len(res.records)
<1> DEFINE C == 1..Len(res.headers)
           cell(r, h) == IF h \in DOMAIN res.records[r] THEN res.records[r][h] ELSE Blank
           row(r) == [c \in C |-> cell(r, res.headers[c])]
<1>1. Table(res) = [r \in 1..Len(res.records) |-> row(r)]  BY DEF Table
<1>2. ASSUME NEW r \in 1..Len(res.records)  PROVE row(r) \in [C -> Cells]
  <2>1. ASSUME NEW h  PROVE cell(r, h) \in Cells
    BY DEF Reads, HasCells, Cells
  <2> HIDE DEF cell, C
  <2> QED  BY <2>1
<1> HIDE DEF row, C
<1>3. Len(res.records) \in Nat  BY DEF Reads
<1> QED  BY <1>1, <1>2, <1>3 DEF C

IsLines(lines, hasHeaders) ==
  /\ lines \in Seq(Seq(Names \cup Cells))
  /\ \A i \in 1..Len(lines) : (hasHeaders /\ i = 1) \/ lines[i] \in Seq(Cells)

Width(lines) == Len(FirstLine(lines))
Rest(lines) == SubSeq(lines, 2, Len(lines))
Right(lines) == {i \in 1..Len(Rest(lines)) : Len(Rest(lines)[i]) = Width(lines)}
Kept(lines) == Chosen(Rest(lines), Right(lines))
Wide(width) == {q \in Seq(Cells) : Len(q) = width}

LEMMA LinesTyped ==
  ASSUME NEW lines, NEW hasHeaders, IsLines(lines, hasHeaders)
  PROVE  /\ FirstLine(lines) \in Seq(Names \cup Cells) /\ Width(lines) \in Nat
         /\ ~hasHeaders => FirstLine(lines) \in Seq(Cells)
         /\ Rest(lines) \in Seq(Seq(Cells))
         /\ Kept(lines) \in Seq(Wide(Width(lines)))
<1> DEFINE X == Seq(Names \cup Cells)
<1>1. lines \in Seq(X) /\ Len(lines) \in Nat  BY DEF IsLines
<1>2. Blank \in Cells  BY DEF Cells
<1>3. CASE lines = <<>>
  <2>1. FirstLine(lines) = <<Blank>>  BY <1>3 DEF FirstLine
  <2>2. <<Blank>> \in Seq(Names \cup Cells) /\ <<Blank>> \in Seq(Cells)
        /\ Len(<<Blank>>) \in Nat
    BY <1>2
  <2>3. Rest(lines) = <<>>  BY <1>3, SubSeqEmpty DEF Rest
  <2>4. ChosenIn(Rest(lines), Right(lines), Wide(Width(lines)))
    BY <2>3 DEF ChosenIn
  <2>5. Rest(lines) \in Seq(Seq(Cells))  BY <2>3, EmptySeq
  <2> QED  BY <2>1, <2>2, <2>4, <2>5, ChosenTyped DEF Kept, Width
<1>4. CASE lines # <<>>
  <2>1. FirstLine(lines) = lines[1] /\ 1 \in 1..Len(lines)
    BY <1>1, <1>4 DEF FirstLine
  <2>2. lines[1] \in X  BY <1>1, <2>1
  <2>3. ~hasHeaders => lines[1] \in Seq(Cells)  BY <2>1 DEF IsLines
  <2>4. Len(lines[1]) \in Nat  BY <2>2
  <2>5. /\ Rest(lines) \in Seq(Seq(Cells))
    <3>1. ASSUME NEW i \in 2..Len(lines)  PROVE lines[i] \in Seq(Cells)
      <4>1. i \in 1..Len(lines) /\ i # 1  BY <1>1
      <4> QED  BY <4>1 DEF IsLines
    <3>2. 2 \in Int /\ Len(lines) \in Int  BY <1>1
    <3> QED  BY <3>1, <3>2, SubSeqProperties DEF Rest
  <2>6. ChosenIn(Rest(lines), Right(lines), Wide(Width(lines)))
    <3>1. ASSUME NEW i \in 1..Len(Rest(lines)), i \in Right(lines)
          PROVE  Rest(lines)[i] \in Wide(Width(lines))
      <4>1. Rest(lines)[i] \in Seq(Cells)  BY <2>5
      <4>2. Len(Rest(lines)[i]) = Width(lines)  BY <3>1 DEF Right
      <4> QED  BY <4>1, <4>2 DEF Wide
    <3>2. Len(Rest(lines)) \in Nat  BY <2>5
    <3> QED  BY <3>1, <3>2 DEF ChosenIn
  <2> QED  BY <2>1, <2>2, <2>3, <2>4, <2>5, <2>6, ChosenTyped DEF Kept, Width
<1> QED  BY <1>3, <1>4

TextRead(lines, hasHeaders) ==
  LET headers == TextHeaders(lines, hasHeaders)
      read == [i \in 1..Len(Kept(lines)) |-> Record(headers, Kept(lines)[i])]
  IN  Result(TRUE, IF Len(Kept(lines)) < Len(Rest(lines)) THEN "Warning" ELSE "None",
             headers,
             IF hasHeaders THEN read ELSE <<FirstRecord(FirstLine(lines))>> \o read)

LEMMA HeadersWide ==
  ASSUME NEW lines, NEW hasHeaders, IsLines(lines, hasHeaders)
  PROVE  /\ Len(TextHeaders(lines, hasHeaders)) = Width(lines)
         /\ DOMAIN TextHeaders(lines, hasHeaders) = 1..Width(lines)
<1>1. FirstLine(lines) \in Seq(Names \cup Cells) /\ Width(lines) \in Nat
  BY LinesTyped
<1>2. CASE hasHeaders  BY <1>1, <1>2 DEF TextHeaders, Width
<1>3. CASE ~hasHeaders
  <2>1. TextHeaders(lines, hasHeaders) = [c \in 1..Width(lines) |-> c]
    BY <1>3 DEF TextHeaders, Width
  <2> QED  BY <1>1, <2>1
<1> QED  BY <1>2, <1>3

LEMMA ReadTextReads ==
  ASSUME NEW lines, NEW hasHeaders, IsLines(lines, hasHeaders), lines # Unreadable
  PROVE  ReadText(lines, hasHeaders) = TextRead(lines, hasHeaders)
<1> DEFINE headers == TextHeaders(lines, hasHeaders)
<1>1. {i \in 1..Len(Rest(lines)) : Fits(Rest(lines)[i], headers)} = Right(lines)
  BY HeadersWide DEF Fits, Right
<1> QED  BY <1>1 DEF ReadText, TextRead, Rest, Kept

\* The fields are found under their headers.
LEMMA RecordTyped ==
  ASSUME NEW headers, Len(headers) \in Nat, DOMAIN headers = 1..Len(headers),
         NEW fields \in Wide(Len(headers))
  PROVE  /\ DOMAIN Record(headers, fields) = Range(headers)
         /\ HasCells(Record(headers, fields))
         /\ IsInjective(headers) =>
              \A c \in 1..Len(headers) : Record(headers, fields)[headers[c]] = fields[c]
<1> DEFINE w == Len(headers)
           With(h) == {c \in 1..w : headers[c] = h}
<1>1. \A c \in 1..w : fields[c] \in Cells  BY DEF Wide
<1>2. Record(headers, fields) = [h \in Range(headers) |-> fields[Max(With(h))]]
  BY DEF Record
<1>3. ASSUME NEW h \in Range(headers)
      PROVE  Max(With(h)) \in 1..w /\ headers[Max(With(h))] = h
  <2>1. With(h) \in SUBSET (1..w) /\ With(h) # {}  BY DEF Range
  <2>2. Max(With(h)) \in With(h)
    <3> HIDE DEF With
    <3> QED  BY <2>1, MaxIn
  <2> QED  BY <2>2
<1> HIDE DEF With
<1>4. HasCells(Record(headers, fields))
  BY <1>1, <1>2, <1>3 DEF HasCells
<1>5. ASSUME IsInjective(headers), NEW c \in 1..w
      PROVE  Record(headers, fields)[headers[c]] = fields[c]
  <2>1. headers[c] \in Range(headers)  BY DEF Range
  <2>2. Max(With(headers[c])) = c  BY <1>3, <1>5, <2>1 DEF IsInjective
  <2> QED  BY <1>2, <2>1, <2>2
<1> QED  BY <1>2, <1>4, <1>5

LEMMA FirstRecordTyped ==
  ASSUME NEW fields \in Seq(Cells)
  PROVE  /\ HasCells(FirstRecord(fields))
         /\ DOMAIN FirstRecord(fields) = 0..Len(fields) - 1
         /\ \A c \in 0..Len(fields) - 1 : FirstRecord(fields)[c] = fields[c + 1]
<1>1. \A c \in 0..Len(fields) - 1 : c + 1 \in 1..Len(fields)  OBVIOUS
<1>2. \A c \in 0..Len(fields) - 1 : fields[c + 1] \in Cells  BY <1>1
<1>3. DOMAIN FirstRecord(fields) = 0..Len(fields) - 1
      /\ \A c \in 0..Len(fields) - 1 : FirstRecord(fields)[c] = fields[c + 1]
  BY DEF FirstRecord
<1> QED  BY <1>2, <1>3 DEF HasCells

\* The records of a text: one for each line that is kept, after the first line
\* if that is none of headers.
LEMMA TextRecords ==
  ASSUME NEW lines, NEW hasHeaders, IsLines(lines, hasHeaders)
  PROVE  LET kept == Kept(lines)
             headers == TextHeaders(lines, hasHeaders)
             records == TextRead(lines, hasHeaders).records
         IN  /\ hasHeaders => /\ Len(records) = Len(kept)
                              /\ \A i \in 1..Len(kept) :
                                   records[i] = Record(headers, kept[i])
             /\ ~hasHeaders => /\ Len(records) = Len(kept) + 1
                               /\ records[1] = FirstRecord(FirstLine(lines))
                               /\ \A i \in 1..Len(kept) :
                                    records[i + 1] = Record(headers, kept[i])
<1> DEFINE kept == Kept(lines)
           headers == TextHeaders(lines, hasHeaders)
           records == TextRead(lines, hasHeaders).records
           read == [i \in 1..Len(kept) |-> Record(headers, kept[i])]
           first == FirstRecord(FirstLine(lines))
<1>1. records = IF hasHeaders THEN read ELSE <<first>> \o read
  BY DEF TextRead, Result
<1>2. Len(kept) \in Nat  BY LinesTyped
<1> HIDE DEF kept, headers, records, first
<1>3. Len(read) = Len(kept) /\ \A i \in 1..Len(kept) : read[i] = Record(headers, kept[i])
  BY <1>2
<1>4. LET both == <<first>> \o read
      IN  /\ Len(both) = Len(kept) + 1 /\ both[1] = first
          /\ \A i \in 1..Len(kept) : both[i + 1] = read[i]
  BY <1>2, <1>3
<1> HIDE DEF read
<1> QED  BY <1>1, <1>3, <1>4 DEF kept, headers, records, first

LEMMA TextReads ==
  ASSUME NEW lines, NEW hasHeaders, IsLines(lines, hasHeaders)
  PROVE  Reads(TextRead(lines, hasHeaders))
<1> DEFINE kept == Kept(lines)
           headers == TextHeaders(lines, hasHeaders)
           res == TextRead(lines, hasHeaders)
           first == FirstRecord(FirstLine(lines))
<1>1. res.headers = headers  BY DEF TextRead, Result
<1>2. Len(headers) = Width(lines) /\ Width(lines) \in Nat
      /\ DOMAIN headers = 1..Len(headers)
  BY HeadersWide, LinesTyped
<1>3. kept \in Seq(Wide(Len(headers)))  BY <1>2, LinesTyped
<1>4. \A i \in 1..Len(kept) : HasCells(Record(headers, kept[i]))
  <2> HIDE DEF headers, kept
  <2> QED  BY <1>2, <1>3, RecordTyped
<1>5. ~hasHeaders => HasCells(first)  BY LinesTyped, FirstRecordTyped
<1>6. Len(kept) \in Nat  BY <1>3
<1>7. /\ hasHeaders => /\ Len(res.records) = Len(kept)
                       /\ \A i \in 1..Len(kept) :
                            res.records[i] = Record(headers, kept[i])
      /\ ~hasHeaders => /\ Len(res.records) = Len(kept) + 1
                        /\ res.records[1] = first
                        /\ \A i \in 1..Len(kept) :
                             res.records[i + 1] = Record(headers, kept[i])
  BY TextRecords
<1> HIDE DEF kept, headers, res, first
<1>8. CASE hasHeaders  BY <1>1, <1>2, <1>4, <1>6, <1>7, <1>8 DEF Reads, res
<1>9. CASE ~hasHeaders
  <2>1. ASSUME NEW i \in 1..Len(res.records)  PROVE HasCells(res.records[i])
    <3>1. i = 1 \/ (i - 1 \in 1..Len(kept) /\ (i - 1) + 1 = i)  BY <1>6, <1>7, <1>9
    <3> QED  BY <1>4, <1>5, <1>7, <1>9, <3>1
  <2>2. Len(res.headers) \in Nat /\ Len(res.records) \in Nat
    BY <1>1, <1>2, <1>6, <1>7, <1>9
  <2> QED  BY <2>1, <2>2 DEF Reads, res
<1> QED  BY <1>8, <1>9

-----------------------------------------------------------------------------
(* What is shown of a text.                                                *)

All(lines) == IF lines = <<>> THEN <<FirstLine(<<>>)>> ELSE lines

LEMMA AllLines ==
  ASSUME NEW lines, NEW hasHeaders, IsLines(lines, hasHeaders)
  PROVE  /\ All(lines) \in Seq(Seq(Names \cup Cells)) /\ All(lines) # <<>>
         /\ All(lines)[1] = FirstLine(lines)
         /\ Tail(All(lines)) = Rest(lines)
         /\ Len(All(lines)) = Len(Rest(lines)) + 1
<1> DEFINE X == Seq(Names \cup Cells)
<1>1. lines \in Seq(X)  BY DEF IsLines
<1>2. FirstLine(lines) \in X  BY LinesTyped
<1> HIDE DEF X
<1>3. CASE lines = <<>>
  <2>1. All(lines) = <<FirstLine(lines)>>  BY <1>3 DEF All
  <2>2. Rest(lines) = <<>>  BY <1>3, SubSeqEmpty DEF Rest
  <2>3. LET a == <<FirstLine(lines)>>
        IN  a \in Seq(X) /\ a # <<>> /\ a[1] = FirstLine(lines) /\ Tail(a) = <<>> /\ Len(a) = 1
    BY <1>2
  <2>4. Len(<<>>) = 0  OBVIOUS
  <2> QED  BY <2>1, <2>2, <2>3, <2>4 DEF X
<1>4. CASE lines # <<>>
  <2>1. All(lines) = lines /\ FirstLine(lines) = lines[1]  BY <1>4 DEF All, FirstLine
  <2>2. Tail(lines) = Rest(lines)  BY <1>1, <1>4 DEF Rest
  <2>3. Len(lines) = Len(Tail(lines)) + 1  BY <1>1, <1>4
  <2> QED  BY <1>1, <1>4, <2>1, <2>2, <2>3 DEF X
<1> QED  BY <1>3, <1>4

ShownOf(all, hasHeaders, width) ==
  LET lines == IF hasHeaders THEN Tail(all) ELSE all
  IN  Chosen(lines, {i \in 1..Len(lines) : Len(lines[i]) = width})

LEMMA ShownIsKept ==
  ASSUME NEW lines, NEW hasHeaders, IsLines(lines, hasHeaders)
  PROVE  LET shown == ShownOf(All(lines), hasHeaders, Width(lines))
         IN  /\ hasHeaders => shown = Kept(lines)
             /\ ~hasHeaders => shown = <<FirstLine(lines)>> \o Kept(lines)
<1> DEFINE all == All(lines)
           w == Width(lines)
           I == {i \in 1..Len(all) : Len(all[i]) = w}
<1>1. /\ all \in Seq(Seq(Names \cup Cells)) /\ all # <<>> /\ all[1] = FirstLine(lines)
      /\ Tail(all) = Rest(lines) /\ Len(all) = Len(Rest(lines)) + 1
  BY AllLines
<1>2. Len(all) \in Nat \ {0} /\ Len(Rest(lines)) \in Nat
      /\ \A i \in 1..Len(all) - 1 : all[i + 1] = Rest(lines)[i]
  <2> DEFINE X == Seq(Names \cup Cells)
  <2>1. all \in Seq(X) /\ all # <<>>  BY <1>1
  <2> HIDE DEF X, all
  <2>2. Len(all) \in Nat \ {0} /\ \A i \in 1..Len(all) - 1 : all[i + 1] = Tail(all)[i]
    BY <2>1
  <2>3. Len(Rest(lines)) \in Nat  BY LinesTyped
  <2> QED  BY <1>1, <2>2, <2>3
<1>3. CASE hasHeaders
  BY <1>1, <1>3 DEF ShownOf, Kept, Right
<1>4. CASE ~hasHeaders
  <2>1. ShownOf(all, hasHeaders, w) = Chosen(all, I)  BY <1>4 DEF ShownOf
  <2>2. 1 \in I  BY <1>1, <1>2 DEF Width
  <2>3. \A i \in 1..Len(all) - 1 : i + 1 \in I <=> i \in Right(lines)
    <3> SUFFICES ASSUME NEW i \in 1..Len(all) - 1
                 PROVE  i + 1 \in I <=> i \in Right(lines)
      OBVIOUS
    <3>1. i + 1 \in 1..Len(all) /\ i \in 1..Len(Rest(lines)) /\ all[i + 1] = Rest(lines)[i]
      BY <1>1, <1>2
    <3> QED  BY <3>1, Zenon DEF Right
  <2> HIDE DEF I, all
  <2>4. Chosen(all, I) = <<all[1]>> \o Chosen(Tail(all), Right(lines))
    BY <1>1, <2>2, <2>3, ChosenCons
  <2> QED  BY <1>1, <1>4, <2>1, <2>4 DEF Kept, all
<1> QED  BY <1>3, <1>4

LEMMA WarnedOf ==
  ASSUME NEW lines, NEW hasHeaders, IsLines(lines, hasHeaders)
  PROVE  TextRead(lines, hasHeaders).error = "Warning"
           <=> \E i \in 1..Len(All(lines)) : Len(All(lines)[i]) # Width(lines)
<1> DEFINE all == All(lines)
           w == Width(lines)
           rest == Rest(lines)
<1>1. TextRead(lines, hasHeaders).error = "Warning" <=> Len(Kept(lines)) < Len(rest)
  BY DEF TextRead, Result
<1>2. rest \in Seq(Seq(Cells)) /\ Len(rest) \in Nat  BY LinesTyped
<1>3. Len(Kept(lines)) < Len(rest) <=> \E i \in 1..Len(rest) : i \notin Right(lines)
  BY <1>2, ChosenLength DEF Kept
<1>4. /\ all \in Seq(Seq(Names \cup Cells)) /\ all # <<>> /\ all[1] = FirstLine(lines)
      /\ Tail(all) = rest /\ Len(all) = Len(rest) + 1
  BY AllLines
<1> HIDE DEF all, rest
<1>5. \A i \in 1..Len(rest) : all[i + 1] = rest[i]
  <2> DEFINE X == Seq(Names \cup Cells)
  <2>1. all \in Seq(X) /\ all # <<>>  BY <1>4
  <2> HIDE DEF X
  <2>2. \A i \in 1..Len(all) - 1 : all[i + 1] = Tail(all)[i]  BY <2>1
  <2>3. Len(all) - 1 = Len(rest)  BY <1>2, <1>4
  <2> QED  BY <1>4, <2>2, <2>3
<1>6. ASSUME NEW i \in 1..Len(rest), i \notin Right(lines)
      PROVE  \E k \in 1..Len(all) : Len(all[k]) # w
  <2>1. Len(rest[i]) # w  BY <1>6 DEF Right, rest
  <2>2. i + 1 \in 1..Len(all)  BY <1>2, <1>4
  <2>3. all[i + 1] = rest[i]  BY <1>5
  <2> QED  BY <2>1, <2>2, <2>3
<1>7. ASSUME NEW k \in 1..Len(all), Len(all[k]) # w
      PROVE  \E i \in 1..Len(rest) : i \notin Right(lines)
  <2>1. k # 1  BY <1>4, <1>7 DEF Width
  <2>2. k - 1 \in 1..Len(rest) /\ (k - 1) + 1 = k  BY <1>2, <1>4, <2>1
  <2>3. all[k] = rest[k - 1]  BY <1>5, <2>2
  <2>4. k - 1 \notin Right(lines)  BY <1>7, <2>3 DEF Right, rest
  <2> QED  BY <2>2, <2>4
<1> QED  BY <1>1, <1>3, <1>6, <1>7, Zenon DEF all

LEMMA RecordField ==
  ASSUME NEW headers, Len(headers) \in Nat, DOMAIN headers = 1..Len(headers),
         NEW fields \in Wide(Len(headers)), IsInjective(headers),
         NEW c \in 1..Len(headers)
  PROVE  /\ headers[c] \in DOMAIN Record(headers, fields)
         /\ Record(headers, fields)[headers[c]] = fields[c]
<1>1. headers[c] \in Range(headers)  BY DEF Range
<1> QED  BY <1>1, RecordTyped

LEMMA TableCell ==
  ASSUME NEW res, NEW r \in 1..Len(res.records), NEW c \in 1..Len(res.headers)
  PROVE  Table(res)[r][c] =
           IF res.headers[c] \in DOMAIN res.records[r]
             THEN res.records[r][res.headers[c]] ELSE Blank
BY Zenon DEF Table

\* The rows of a text with headers.
LEMMA HeadedRows ==
  ASSUME NEW lines, NEW hasHeaders, IsLines(lines, hasHeaders), hasHeaders,
         NEW r \in 1..Len(Kept(lines)), NEW c \in 1..Width(lines),
         IsInjective(TextHeaders(lines, hasHeaders))
  PROVE  Table(TextRead(lines, hasHeaders))[r][c] = Kept(lines)[r][c]
<1> DEFINE res == TextRead(lines, hasHeaders)
           headers == TextHeaders(lines, hasHeaders)
           fields == Kept(lines)[r]
<1>1. res.headers = headers  BY DEF TextRead, Result
<1>2. Len(headers) = Width(lines) /\ DOMAIN headers = 1..Width(lines)
      /\ Width(lines) \in Nat
  BY HeadersWide, LinesTyped
<1>3. fields \in Wide(Width(lines))  BY LinesTyped, ElementOfSeq
<1>4. Len(res.records) = Len(Kept(lines)) /\ res.records[r] = Record(headers, fields)
  BY TextRecords
<1> HIDE DEF res, headers, fields
<1>5. Record(headers, fields)[headers[c]] = fields[c]
      /\ headers[c] \in DOMAIN Record(headers, fields)
  <2>1. IsInjective(headers) /\ c \in 1..Len(headers) /\ fields \in Wide(Len(headers))
    BY <1>2, <1>3 DEF headers
  <2> QED  BY <1>2, <2>1, RecordField
<1>6. Table(res)[r][c] = IF res.headers[c] \in DOMAIN res.records[r]
                           THEN res.records[r][res.headers[c]] ELSE Blank
  BY <1>1, <1>2, <1>4, TableCell
<1> QED  BY <1>1, <1>4, <1>5, <1>6 DEF res, fields

\* The first row of a text without headers, and the others.
LEMMA HeadlessRows ==
  ASSUME NEW lines, NEW hasHeaders, IsLines(lines, hasHeaders), ~hasHeaders,
         NEW c \in 1..Width(lines)
  PROVE  /\ Table(TextRead(lines, hasHeaders))[1][c] =
              IF c < Width(lines) THEN FirstLine(lines)[c + 1] ELSE Blank
         /\ \A r \in 1..Len(Kept(lines)) :
              Table(TextRead(lines, hasHeaders))[r + 1][c] = Kept(lines)[r][c]
<1> DEFINE res == TextRead(lines, hasHeaders)
           headers == TextHeaders(lines, hasHeaders)
           first == FirstLine(lines)
           w == Width(lines)
<1>1. res.headers = headers  BY DEF TextRead, Result
<1>2. w \in Nat /\ headers = [k \in 1..w |-> k] /\ Len(headers) = w
      /\ DOMAIN headers = 1..w /\ w = Len(first) /\ first \in Seq(Cells)
  BY HeadersWide, LinesTyped DEF TextHeaders, Width
<1>3. Kept(lines) \in Seq(Wide(w))  BY LinesTyped
<1>4. /\ Len(res.records) = Len(Kept(lines)) + 1
      /\ res.records[1] = FirstRecord(first)
      /\ \A i \in 1..Len(Kept(lines)) :
           res.records[i + 1] = Record(headers, Kept(lines)[i])
  BY TextRecords
<1>5. Len(Kept(lines)) \in Nat  BY <1>3
<1> HIDE DEF res, headers, first, w
<1>6. headers[c] = c /\ c \in 1..Len(headers) /\ c \in Nat  BY <1>2 DEF w
<1>7. Table(res)[1][c] = IF c < w THEN first[c + 1] ELSE Blank
  <2>1. 1 \in 1..Len(res.records)  BY <1>4, <1>5
  <2>2. Table(res)[1][c] = IF c \in DOMAIN FirstRecord(first)
                             THEN FirstRecord(first)[c] ELSE Blank
    <3>1. c \in 1..Len(res.headers) /\ res.headers[c] = c  BY <1>1, <1>6
    <3>2. Table(res)[1][c] = IF res.headers[c] \in DOMAIN res.records[1]
                               THEN res.records[1][res.headers[c]] ELSE Blank
      BY <2>1, <3>1, TableCell
    <3> QED  BY <1>4, <3>1, <3>2
  <2>3. DOMAIN FirstRecord(first) = 0..w - 1
        /\ \A k \in 0..w - 1 : FirstRecord(first)[k] = first[k + 1]
    BY <1>2, FirstRecordTyped
  <2>4. c \in 0..w - 1 <=> c < w  BY <1>2, <1>6
  <2> QED  BY <2>2, <2>3, <2>4
<1>8. ASSUME NEW r \in 1..Len(Kept(lines))
      PROVE  Table(res)[r + 1][c] = Kept(lines)[r][c]
  <2>1. r + 1 \in 1..Len(res.records)  BY <1>4, <1>5
  <2>2. res.records[r + 1] = Record(headers, Kept(lines)[r])  BY <1>4
  <2>3. Kept(lines)[r] \in Wide(w)  BY <1>3, ElementOfSeq
  <2>4. IsInjective(headers)  BY <1>2 DEF IsInjective
  <2>5. /\ Record(headers, Kept(lines)[r])[headers[c]] = Kept(lines)[r][c]
        /\ headers[c] \in DOMAIN Record(headers, Kept(lines)[r])
    <3>1. Kept(lines)[r] \in Wide(Len(headers)) /\ DOMAIN headers = 1..Len(headers)
      BY <1>2, <2>3
    <3> QED  BY <1>2, <1>6, <2>4, <3>1, RecordField
  <2>6. Table(res)[r + 1][c] = IF res.headers[c] \in DOMAIN res.records[r + 1]
                                 THEN res.records[r + 1][res.headers[c]] ELSE Blank
    BY <1>1, <1>6, <2>1, TableCell
  <2> QED  BY <1>1, <2>2, <2>5, <2>6
<1> QED  BY <1>7, <1>8 DEF res, first, w

\* All of it, as TextShown says it.
LEMMA TextIsShown ==
  ASSUME NEW lines, NEW hasHeaders, IsLines(lines, hasHeaders)
  PROVE  LET res == TextRead(lines, hasHeaders)
             table == Table(res)
             shown == ShownOf(All(lines), hasHeaders, Width(lines))
         IN  /\ Len(table) = Len(shown)
             /\ \A r \in 1..Len(table) : \A c \in 1..Width(lines) :
                  \/ (hasHeaders /\ ~IsInjective(res.headers))
                  \/ table[r][c] = shown[r][c]
                  \/ /\ ~hasHeaders /\ r = 1
                     /\ table[r][c] = IF c < Width(lines) THEN shown[r][c + 1] ELSE Blank
<1> DEFINE res == TextRead(lines, hasHeaders)
           table == Table(res)
           shown == ShownOf(All(lines), hasHeaders, Width(lines))
           kept == Kept(lines)
           first == FirstLine(lines)
           w == Width(lines)
<1>1. res.headers = TextHeaders(lines, hasHeaders)  BY DEF TextRead, Result
<1>2. Len(table) = Len(res.records)
  <2>1. Reads(res)  BY TextReads
  <2> HIDE DEF res
  <2> QED  BY <2>1, TableTyped
<1>3. kept \in Seq(Wide(w)) /\ Len(kept) \in Nat /\ first \in Seq(Names \cup Cells)
  <2>1. kept \in Seq(Wide(w)) /\ first \in Seq(Names \cup Cells)  BY LinesTyped
  <2> QED  BY <2>1, LenProperties
<1>4. CASE hasHeaders
  <2>1. Len(res.records) = Len(kept)  BY <1>4, TextRecords
  <2>2. shown = kept  BY <1>4, ShownIsKept
  <2>3. ASSUME NEW r \in 1..Len(kept), NEW c \in 1..w, IsInjective(res.headers)
        PROVE  table[r][c] = kept[r][c]
    BY <1>1, <1>4, <2>3, HeadedRows
  <2> HIDE DEF res, table, shown, kept, w
  <2>4. Len(table) = Len(shown)
        /\ \A r \in 1..Len(table) : \A c \in 1..w :
             (hasHeaders /\ ~IsInjective(res.headers)) \/ table[r][c] = shown[r][c]
    BY <1>2, <1>4, <2>1, <2>2, <2>3
  <2> QED  BY <2>4, Zenon DEF res, table, shown, w
<1>5. CASE ~hasHeaders
  <2>1. Len(res.records) = Len(kept) + 1  BY <1>5, TextRecords
  <2>2. shown = <<first>> \o kept  BY <1>5, ShownIsKept
  <2>3. ASSUME NEW c \in 1..w
        PROVE  /\ table[1][c] = IF c < w THEN first[c + 1] ELSE Blank
               /\ \A r \in 1..Len(kept) : table[r + 1][c] = kept[r][c]
    BY <1>5, HeadlessRows
  <2> HIDE DEF res, table, shown, kept, w, first
  <2>4. Len(shown) = Len(kept) + 1 /\ shown[1] = first
        /\ \A r \in 1..Len(kept) : shown[r + 1] = kept[r]
    BY <1>3, <2>2
  <2>5. ASSUME NEW r \in 1..Len(table), NEW c \in 1..w
        PROVE  \/ table[r][c] = shown[r][c]
               \/ r = 1 /\ table[r][c] = IF c < w THEN shown[r][c + 1] ELSE Blank
    <3>1. r = 1 \/ (r - 1 \in 1..Len(kept) /\ (r - 1) + 1 = r)
      BY <1>2, <1>3, <2>1
    <3>2. CASE r = 1  BY <2>3, <2>4, <3>2
    <3>3. CASE r - 1 \in 1..Len(kept) /\ (r - 1) + 1 = r
      <4>1. table[(r - 1) + 1][c] = kept[r - 1][c] /\ shown[(r - 1) + 1] = kept[r - 1]
        BY <2>3, <2>4, <3>3
      <4> QED  BY <3>3, <4>1
    <3> QED  BY <3>1, <3>2, <3>3
  <2>6. Len(table) = Len(shown)  BY <1>2, <2>1, <2>4
  <2> QED  BY <1>5, <2>5, <2>6, Zenon DEF res, table, shown, w
<1> QED  BY <1>4, <1>5

-----------------------------------------------------------------------------
(* What is shown of a GPX document.                                        *)

\* A node with the name of the route or track that it is of.
Labels == [name : Cells, node : Nodes]

\* A part of a document that becomes points: a route, or a segment of a track.
FeatureParts == [name : Cells, points : Seq(Nodes)]

Labelled(name, nodes) == [j \in 1..Len(nodes) |-> [name |-> name, node |-> nodes[j]]]

LEMMA LabelledTyped ==
  ASSUME NEW name \in Cells, NEW nodes \in Seq(Nodes)
  PROVE  Labelled(name, nodes) \in Seq(Labels)
BY DEF Labelled, Labels

LEMMA LabelledFields ==
  ASSUME NEW name, NEW nodes \in Seq(Nodes)
  PROVE  /\ Len(Labelled(name, nodes)) = Len(nodes) /\ Len(nodes) \in Nat
         /\ \A j \in 1..Len(nodes) :
              /\ Labelled(name, nodes)[j].name = name
              /\ Labelled(name, nodes)[j].node = nodes[j]
BY DEF Labelled

\* The parts of a document of which the feature makes points.
Features(d, feature) ==
  CASE feature = "WayPoints" -> <<[name |-> Blank, points |-> d.wpt]>>
    [] feature = "Routes" -> d.rte
    [] feature = "Tracks" ->
         FlattenSeq([i \in 1..Len(d.trk) |->
           [j \in 1..Len(d.trk[i].segments) |->
              [name |-> d.trk[i].name, points |-> d.trk[i].segments[j]]]])

LabelledFeatures(parts) ==
  FlattenSeq([i \in 1..Len(parts) |-> Labelled(parts[i].name, parts[i].points)])

\* What the parser makes of a point.
PointRecord(feature, p) ==
  CASE feature = "WayPoints" -> ParseWayPoint(p.node)
    [] feature = "Routes" -> Named(p.name, p.node, "Route Name")
    [] feature = "Tracks" -> Named(p.name, p.node, "Track Name")

PointRecords(feature, points) ==
  [k \in 1..Len(points) |-> PointRecord(feature, points[k])]

NamedParts(parts, h) ==
  FlattenSeq([i \in 1..Len(parts) |-> WithName(parts[i].name, parts[i].points, h)])

NamedRecords(points, h) ==
  [k \in 1..Len(points) |-> Named(points[k].name, points[k].node, h)]

\* Records are made of the points of parts, one by one.
LEMMA NamedPoints ==
  ASSUME NEW parts \in Seq(FeatureParts), NEW h
  PROVE  /\ LabelledFeatures(parts) \in Seq(Labels)
         /\ NamedParts(parts, h) = NamedRecords(LabelledFeatures(parts), h)
<1> DEFINE g == [p \in Labels |-> Named(p.name, p.node, h)]
           each == [s \in Seq(Labels) |-> Mapped(g, s)]
           ss == [i \in 1..Len(parts) |-> Labelled(parts[i].name, parts[i].points)]
           Y == {g[p] : p \in Labels}
<1>1. Len(parts) \in Nat
      /\ \A i \in 1..Len(parts) : parts[i].name \in Cells /\ parts[i].points \in Seq(Nodes)
  <2>1. Len(parts) \in Nat /\ \A i \in 1..Len(parts) : parts[i] \in FeatureParts
    OBVIOUS
  <2>2. \A q \in FeatureParts : q.name \in Cells /\ q.points \in Seq(Nodes)
    BY DEF FeatureParts
  <2> QED  BY <2>1, <2>2
<1>2. \A i \in 1..Len(parts) : Labelled(parts[i].name, parts[i].points) \in Seq(Labels)
  BY <1>1, LabelledTyped
<1>3. ss \in Seq(Seq(Labels)) /\ Len(ss) = Len(parts)
  BY <1>1, <1>2
<1>4. FlattenSeq(ss) \in Seq(Labels)  BY <1>3, FlattenTyped
<1>5. FlattenSeq(Mapped(each, ss)) = Mapped(g, FlattenSeq(ss))
  <2>1. Maps(g, Labels, Y)  BY DEF Maps
  <2>2. MapsEach(each, g, Labels)  BY DEF MapsEach
  <2> HIDE DEF g, each, ss, Y
  <2> QED  BY <1>3, <2>1, <2>2, FlattenMapped
<1>6. Mapped(each, ss) = [i \in 1..Len(parts) |-> WithName(parts[i].name, parts[i].points, h)]
  <2>1. ASSUME NEW i \in 1..Len(parts)
        PROVE  each[ss[i]] = WithName(parts[i].name, parts[i].points, h)
    <3> DEFINE l == Labelled(parts[i].name, parts[i].points)
    <3>1. ss[i] = l /\ l \in Seq(Labels)  BY <1>2
    <3>2. each[l] = Mapped(g, l)  BY <3>1
    <3>3. Len(l) = Len(parts[i].points) /\ Len(l) \in Nat
          /\ \A j \in 1..Len(l) : /\ l[j] \in Labels
                                  /\ l[j].name = parts[i].name
                                  /\ l[j].node = parts[i].points[j]
      <4>1. /\ Len(l) = Len(parts[i].points) /\ Len(l) \in Nat
            /\ \A j \in 1..Len(l) : /\ l[j].name = parts[i].name
                                    /\ l[j].node = parts[i].points[j]
        BY <1>1, LabelledFields
      <4>2. \A j \in 1..Len(l) : l[j] \in Labels  BY <3>1
      <4> QED  BY <4>1, <4>2
    <3>4. \A j \in 1..Len(l) : g[l[j]] = Named(parts[i].name, parts[i].points[j], h)
      BY <3>3
    <3> HIDE DEF g, l
    <3>5. Mapped(g, l) = WithName(parts[i].name, parts[i].points, h)
      BY <3>3, <3>4 DEF Mapped, WithName
    <3> QED  BY <3>1, <3>2, <3>5
  <2> HIDE DEF ss, each
  <2> QED  BY <1>3, <2>1 DEF Mapped
<1>7. Mapped(g, FlattenSeq(ss)) =
        [k \in 1..Len(FlattenSeq(ss)) |->
           Named(FlattenSeq(ss)[k].name, FlattenSeq(ss)[k].node, h)]
  <2> DEFINE s == FlattenSeq(ss)
  <2>1. \A k \in 1..Len(s) : s[k] \in Labels  BY <1>4
  <2> HIDE DEF s
  <2>2. \A k \in 1..Len(s) : g[s[k]] = Named(s[k].name, s[k].node, h)  BY <2>1
  <2> HIDE DEF g
  <2> QED  BY <2>2 DEF Mapped, s
<1> QED  BY <1>4, <1>5, <1>6, <1>7 DEF LabelledFeatures, NamedParts, NamedRecords

Coordinates == {"Latitude", "Longitude"}

\* A record of cells that has the coordinates of a node.
Located(record, node) ==
  /\ HasCells(record)
  /\ \A c \in Coordinates :
       c \in DOMAIN record /\ record[c] = IF c \in DOMAIN node THEN node[c] ELSE Blank

LEMMA WayPointLocated ==
  ASSUME NEW node \in Nodes
  PROVE  Located(ParseWayPoint(node), node)
<1> DEFINE point == ParseWayPoint(node)
<1>1. /\ DOMAIN node \subseteq Tags
      /\ \A c \in DOMAIN node \ {Stamp} : node[c] \in Cells
      /\ Stamp \in DOMAIN node => node[Stamp] \in Cells \X Nat
  BY NodesAssumption
<1>2. DOMAIN point = DOMAIN node \cup Coordinates
      /\ \A c \in DOMAIN point :
           point[c] = IF c \notin DOMAIN node THEN Blank
                      ELSE IF c = Stamp THEN Sanitized(node[c]) ELSE node[c]
  BY DEF ParseWayPoint, Coordinates
<1>3. Stamp \in DOMAIN node => Sanitized(node[Stamp]) \in Cells
  BY <1>1 DEF Sanitized, Cells
<1>4. Blank \in Cells  BY DEF Cells
<1>5. Stamp \notin Coordinates  BY DEF Stamp, Coordinates
<1> HIDE DEF point
<1>6. HasCells(point)  BY <1>1, <1>2, <1>3, <1>4 DEF HasCells
<1>7. \A c \in Coordinates : c \in DOMAIN point
        /\ point[c] = IF c \in DOMAIN node THEN node[c] ELSE Blank
  BY <1>2, <1>5
<1> QED  BY <1>6, <1>7 DEF point, Located

LEMMA NamedLocated ==
  ASSUME NEW node \in Nodes, NEW name \in Cells, NEW h, h \notin Coordinates
  PROVE  /\ Located(Named(name, node, h), node)
         /\ h \in DOMAIN Named(name, node, h) /\ Named(name, node, h)[h] = name
<1> DEFINE point == ParseWayPoint(node)
           named == Named(name, node, h)
<1>1. Located(point, node)  BY WayPointLocated
<1>2. DOMAIN named = DOMAIN point \cup {h}
      /\ \A c \in DOMAIN point \cup {h} : named[c] = IF c = h THEN name ELSE point[c]
  BY DEF Named
<1> HIDE DEF point, named
<1>3. HasCells(named)  BY <1>1, <1>2 DEF HasCells, Located
<1>4. \A c \in Coordinates : c \in DOMAIN named
        /\ named[c] = IF c \in DOMAIN node THEN node[c] ELSE Blank
  BY <1>1, <1>2 DEF Located
<1> QED  BY <1>2, <1>3, <1>4 DEF named, Located

TrackSet == [name : Cells, segments : Seq(Seq(Nodes))]

LEMMA DocumentParts ==
  ASSUME NEW d \in Documents
  PROVE  d.wpt \in Seq(Nodes) /\ d.rte \in Seq(FeatureParts) /\ d.trk \in Seq(TrackSet)
BY Zenon DEF Documents, FeatureParts, TrackSet

\* The segments of a track, under its name.
TrackParts(track) ==
  [j \in 1..Len(track.segments) |-> [name |-> track.name, points |-> track.segments[j]]]

LEMMA TrackPartsTyped ==
  ASSUME NEW track \in TrackSet
  PROVE  /\ track.name \in Cells /\ track.segments \in Seq(Seq(Nodes))
         /\ Segments(track) \in Seq(Nodes)
         /\ TrackParts(track) \in Seq(FeatureParts)
         /\ Len(TrackParts(track)) = Len(track.segments)
<1>1. track.name \in Cells /\ track.segments \in Seq(Seq(Nodes))  BY DEF TrackSet
<1>2. Segments(track) \in Seq(Nodes)  BY <1>1, FlattenTyped DEF Segments
<1>3. Len(track.segments) \in Nat
      /\ \A j \in 1..Len(track.segments) : track.segments[j] \in Seq(Nodes)
  <2> DEFINE X == Seq(Nodes)
  <2>1. track.segments \in Seq(X)  BY <1>1
  <2> HIDE DEF X
  <2>2. Len(track.segments) \in Nat
        /\ \A j \in 1..Len(track.segments) : track.segments[j] \in X
    BY <2>1
  <2> QED  BY <2>2 DEF X
<1>4. \A j \in 1..Len(track.segments) :
        [name |-> track.name, points |-> track.segments[j]] \in FeatureParts
  BY <1>1, <1>3 DEF FeatureParts
<1>5. TrackParts(track) \in Seq(FeatureParts)
      /\ Len(TrackParts(track)) = Len(track.segments)
  BY <1>3, <1>4 DEF TrackParts
<1> QED  BY <1>1, <1>2, <1>5

\* Labelling the segments of a track one by one, or all its nodes at once.
LEMMA TrackLabelled ==
  ASSUME NEW track \in TrackSet, NEW l,
         \A q \in FeatureParts : l[q] = Labelled(q.name, q.points)
  PROVE  FlattenSeq(Mapped(l, TrackParts(track))) = Labelled(track.name, Segments(track))
<1> DEFINE name == track.name
           segments == track.segments
           g == [n \in Nodes |-> [name |-> name, node |-> n]]
           each == [s \in Seq(Nodes) |-> Labelled(name, s)]
<1>1. name \in Cells /\ segments \in Seq(Seq(Nodes)) /\ Segments(track) \in Seq(Nodes)
      /\ TrackParts(track) \in Seq(FeatureParts)
      /\ Len(TrackParts(track)) = Len(segments)
  BY TrackPartsTyped
<1>2. Maps(g, Nodes, Labels)  BY <1>1 DEF Maps, Labels
<1>3. \A s \in Seq(Nodes) : Mapped(g, s) = Labelled(name, s)
  BY DEF Mapped, Labelled
<1>4. MapsEach(each, g, Nodes)  BY <1>3 DEF MapsEach
<1> HIDE DEF g, each
<1>5. FlattenSeq(Mapped(each, segments)) = Mapped(g, FlattenSeq(segments))
  BY <1>1, <1>2, <1>4, FlattenMapped
<1>6. Mapped(each, segments) = Mapped(l, TrackParts(track))
  <2>1. ASSUME NEW j \in 1..Len(segments)
        PROVE  each[segments[j]] = l[TrackParts(track)[j]]
    <3>1. TrackParts(track)[j] = [name |-> name, points |-> segments[j]]
      BY DEF TrackParts
    <3>2. TrackParts(track)[j] \in FeatureParts
      BY <1>1, ElementOfSeq
    <3>3. l[TrackParts(track)[j]] = Labelled(name, segments[j])  BY <3>1, <3>2
    <3>4. segments[j] \in Seq(Nodes)
      <4>1. [name |-> name, points |-> segments[j]] \in FeatureParts  BY <3>1, <3>2
      <4>2. [name |-> name, points |-> segments[j]].points \in Seq(Nodes)
        BY <4>1, Zenon DEF FeatureParts
      <4> QED  BY <4>2
    <3> QED  BY <3>3, <3>4 DEF each
  <2> QED  BY <1>1, <2>1 DEF Mapped
<1> QED  BY <1>1, <1>3, <1>5, <1>6 DEF Segments

LEMMA TracksLabelled ==
  ASSUME NEW trk \in Seq(TrackSet)
  PROVE  LET parts == FlattenSeq([i \in 1..Len(trk) |-> TrackParts(trk[i])])
         IN  /\ parts \in Seq(FeatureParts)
             /\ LabelledFeatures(parts) =
                  FlattenSeq([i \in 1..Len(trk) |-> Labelled(trk[i].name, Segments(trk[i]))])
<1> DEFINE pp == [i \in 1..Len(trk) |-> TrackParts(trk[i])]
           parts == FlattenSeq(pp)
           l == [q \in FeatureParts |-> Labelled(q.name, q.points)]
           each == [s \in Seq(FeatureParts) |-> Mapped(l, s)]
           flat == [ss \in Seq(Seq(Labels)) |-> FlattenSeq(ss)]
<1>1. Len(trk) \in Nat /\ \A i \in 1..Len(trk) : trk[i] \in TrackSet
  BY LenProperties, ElementOfSeq
<1>2. pp \in Seq(Seq(FeatureParts)) /\ Len(pp) = Len(trk)
  <2>1. \A i \in 1..Len(trk) : TrackParts(trk[i]) \in Seq(FeatureParts)
    BY <1>1, TrackPartsTyped
  <2> QED  BY <1>1, <2>1
<1>3. parts \in Seq(FeatureParts)
  <2> HIDE DEF pp
  <2> QED  BY <1>2, FlattenTyped
<1>4. \A q \in FeatureParts : l[q] = Labelled(q.name, q.points) /\ l[q] \in Seq(Labels)
  <2>1. \A q \in FeatureParts : q.name \in Cells /\ q.points \in Seq(Nodes)
    BY DEF FeatureParts
  <2>2. \A q \in FeatureParts : Labelled(q.name, q.points) \in Seq(Labels)
    BY <2>1, LabelledTyped
  <2> QED  BY <2>2
<1>5. Maps(l, FeatureParts, Seq(Labels)) /\ MapsEach(each, l, FeatureParts)
      /\ FlattensEach(flat, Labels)
  <2>1. Maps(l, FeatureParts, Seq(Labels))  BY <1>4 DEF Maps
  <2> HIDE DEF l
  <2>2. MapsEach(each, l, FeatureParts)  BY DEF MapsEach
  <2>3. FlattensEach(flat, Labels)  BY DEF FlattensEach
  <2> QED  BY <2>1, <2>2, <2>3
<1>6. LabelledFeatures(parts) = FlattenSeq(Mapped(l, parts))
  <2>1. \A i \in 1..Len(parts) : parts[i] \in FeatureParts
    <3> HIDE DEF parts
    <3> QED  BY <1>3, ElementOfSeq
  <2>2. \A i \in 1..Len(parts) : l[parts[i]] = Labelled(parts[i].name, parts[i].points)
    BY <1>4, <2>1
  <2> HIDE DEF l, parts
  <2> QED  BY <2>2 DEF Mapped, LabelledFeatures
<1> HIDE DEF l, each, flat
<1>7. Mapped(l, parts) = FlattenSeq(Mapped(each, pp))
  <2> HIDE DEF pp
  <2> QED  BY <1>2, <1>5, FlattenMapped
<1>8. Mapped(each, pp) \in Seq(Seq(Seq(Labels)))
  <2> DEFINE Y == Seq(Seq(Labels))
  <2>1. \A s \in Seq(FeatureParts) : Mapped(l, s) \in Y
    BY <1>5, MappedTyped DEF Maps
  <2>2. \A s \in Seq(FeatureParts) : each[s] \in Y
    BY <1>5, <2>1 DEF MapsEach
  <2> HIDE DEF Y, pp
  <2> QED  BY <1>2, <2>2, MappedTyped DEF Y
<1>9. FlattenSeq(FlattenSeq(Mapped(each, pp))) = FlattenSeq(Mapped(flat, Mapped(each, pp)))
  <2> HIDE DEF pp
  <2> QED  BY <1>5, <1>8, FlattenFlattened
<1>10. Mapped(flat, Mapped(each, pp)) =
         [i \in 1..Len(trk) |-> Labelled(trk[i].name, Segments(trk[i]))]
  <2> DEFINE m == Mapped(each, pp)
  <2>1. Len(m) = Len(trk) /\ \A i \in 1..Len(trk) : m[i] = each[pp[i]]
    <3> HIDE DEF pp
    <3> QED  BY <1>1, <1>2 DEF Mapped
  <2>2. ASSUME NEW i \in 1..Len(trk)
        PROVE  flat[m[i]] = Labelled(trk[i].name, Segments(trk[i]))
    <3>1. trk[i] \in TrackSet /\ pp[i] = TrackParts(trk[i])  BY <1>1
    <3>2. TrackParts(trk[i]) \in Seq(FeatureParts)  BY <3>1, TrackPartsTyped
    <3>3. m[i] = Mapped(l, TrackParts(trk[i]))
      <4> HIDE DEF m, pp
      <4> QED  BY <1>5, <2>1, <3>1, <3>2 DEF MapsEach
    <3>4. Mapped(l, TrackParts(trk[i])) \in Seq(Seq(Labels))
      BY <1>5, <3>2, MappedTyped DEF Maps
    <3>5. flat[m[i]] = FlattenSeq(Mapped(l, TrackParts(trk[i])))
      <4> HIDE DEF m
      <4> QED  BY <1>5, <3>3, <3>4 DEF FlattensEach
    <3>6. FlattenSeq(Mapped(l, TrackParts(trk[i]))) = Labelled(trk[i].name, Segments(trk[i]))
      BY <1>4, <3>1, TrackLabelled
    <3> QED  BY <3>5, <3>6
  <2> HIDE DEF m
  <2>3. Mapped(flat, m) = [i \in 1..Len(trk) |-> Labelled(trk[i].name, Segments(trk[i]))]
    BY <2>1, <2>2 DEF Mapped
  <2> QED  BY <2>3 DEF m
<1> QED  BY <1>3, <1>6, <1>7, <1>9, <1>10

\* All points of a document that a feature shows, labelled.
PointsOf(d, feature) == LabelledFeatures(Features(d, feature))

LEMMA FeaturesTyped ==
  ASSUME NEW d \in Documents, NEW feature \in {"WayPoints", "Routes", "Tracks"}
  PROVE  /\ Features(d, feature) \in Seq(FeatureParts)
         /\ PointsOf(d, feature) \in Seq(Labels)
<1>1. d.wpt \in Seq(Nodes) /\ d.rte \in Seq(FeatureParts) /\ d.trk \in Seq(TrackSet)
  BY DocumentParts
<1>2. Features(d, feature) \in Seq(FeatureParts)
  <2>1. CASE feature = "WayPoints"
    <3>1. Features(d, feature) = <<[name |-> Blank, points |-> d.wpt]>>
      BY <2>1 DEF Features
    <3>2. [name |-> Blank, points |-> d.wpt] \in FeatureParts
      BY <1>1 DEF FeatureParts, Cells
    <3> QED  BY <3>1, <3>2
  <2>2. CASE feature = "Routes"  BY <1>1, <2>2 DEF Features
  <2>3. CASE feature = "Tracks"
    <3>1. Features(d, feature) = FlattenSeq([i \in 1..Len(d.trk) |-> TrackParts(d.trk[i])])
      BY <2>3 DEF Features, TrackParts
    <3> QED  BY <1>1, <3>1, TracksLabelled
  <2> QED  BY <2>1, <2>2, <2>3
<1> QED  BY <1>2, NamedPoints DEF PointsOf

\* The parser makes a record of every point of the feature, in order.
LEMMA ParsePoints ==
  ASSUME NEW d \in Documents, NEW feature \in {"WayPoints", "Routes", "Tracks"}
  PROVE  Parse(d, feature) = PointRecords(feature, PointsOf(d, feature))
<1> DEFINE points == PointsOf(d, feature)
<1>1. d.wpt \in Seq(Nodes) /\ d.rte \in Seq(FeatureParts) /\ d.trk \in Seq(TrackSet)
  BY DocumentParts
<1>2. CASE feature = "WayPoints"
  <2> DEFINE l == Labelled(Blank, d.wpt)
             part == [name |-> Blank, points |-> d.wpt]
             parts == <<part>>
  <2>1. Features(d, feature) = parts  BY <1>2 DEF Features
  <2>2. l \in Seq(Labels)  BY <1>1, LabelledTyped DEF Cells
  <2>3. [i \in 1..Len(parts) |-> Labelled(parts[i].name, parts[i].points)] = <<l>>
    <3>1. part.name = Blank /\ part.points = d.wpt  OBVIOUS
    <3> HIDE DEF part
    <3>2. Len(parts) = 1 /\ parts[1] = part  OBVIOUS
    <3> HIDE DEF parts
    <3>3. [i \in 1..Len(parts) |-> Labelled(parts[i].name, parts[i].points)]
            = [i \in 1..1 |-> Labelled(part.name, part.points)]
      BY <3>2
    <3>4. Labelled(part.name, part.points) = l  BY <3>1
    <3> HIDE DEF l
    <3>5. [i \in 1..1 |-> l] = <<l>>  OBVIOUS
    <3> QED  BY <3>3, <3>4, <3>5
  <2>4. points = l
    <3> HIDE DEF l, parts
    <3> QED  BY <2>1, <2>2, <2>3, FlattenSingle DEF PointsOf, LabelledFeatures
  <2>5. Len(l) = Len(d.wpt) /\ \A j \in 1..Len(d.wpt) : l[j].node = d.wpt[j]
    BY <1>1, LabelledFields
  <2> HIDE DEF l, points
  <2>6. PointRecords(feature, l) = [i \in 1..Len(d.wpt) |-> ParseWayPoint(d.wpt[i])]
    BY <1>2, <2>5 DEF PointRecords, PointRecord
  <2>7. Parse(d, feature) = [i \in 1..Len(d.wpt) |-> ParseWayPoint(d.wpt[i])]
    BY <1>2 DEF Parse
  <2> QED  BY <2>4, <2>6, <2>7 DEF points
<1>3. CASE feature = "Routes"
  <2>1. Features(d, feature) = d.rte  BY <1>3 DEF Features
  <2>2. Parse(d, feature) = NamedParts(d.rte, "Route Name")
    BY <1>3 DEF Parse, NamedParts
  <2>3. PointRecords(feature, points) = NamedRecords(points, "Route Name")
    <3> HIDE DEF points
    <3> QED  BY <1>3 DEF PointRecords, PointRecord, NamedRecords
  <2> QED  BY <1>1, <2>1, <2>2, <2>3, NamedPoints DEF PointsOf
<1>4. CASE feature = "Tracks"
  <2> DEFINE trk == d.trk
             whole == [i \in 1..Len(trk) |-> [name |-> trk[i].name, points |-> Segments(trk[i])]]
  <2>1. Features(d, feature) = FlattenSeq([i \in 1..Len(trk) |-> TrackParts(trk[i])])
    BY <1>4 DEF Features, TrackParts
  <2>2. points = FlattenSeq([i \in 1..Len(trk) |-> Labelled(trk[i].name, Segments(trk[i]))])
    BY <1>1, <2>1, TracksLabelled DEF PointsOf
  <2>3. whole \in Seq(FeatureParts) /\ Len(whole) = Len(trk)
    <3>1. Len(trk) \in Nat /\ \A i \in 1..Len(trk) : trk[i] \in TrackSet
      BY <1>1, LenProperties, ElementOfSeq
    <3> HIDE DEF trk
    <3>2. \A i \in 1..Len(trk) :
            [name |-> trk[i].name, points |-> Segments(trk[i])] \in FeatureParts
      BY <3>1, TrackPartsTyped DEF FeatureParts
    <3> QED  BY <3>1, <3>2
  <2>4. \A i \in 1..Len(trk) :
          whole[i].name = trk[i].name /\ whole[i].points = Segments(trk[i])
    OBVIOUS
  <2>5. Parse(d, feature) =
          FlattenSeq([i \in 1..Len(trk) |->
            WithName(trk[i].name, Segments(trk[i]), "Track Name")])
    BY <1>4 DEF Parse
  <2> HIDE DEF trk, whole
  <2>6. points = LabelledFeatures(whole)
    <3>1. [i \in 1..Len(whole) |-> Labelled(whole[i].name, whole[i].points)]
            = [i \in 1..Len(trk) |-> Labelled(trk[i].name, Segments(trk[i]))]
      BY <2>3, <2>4
    <3> QED  BY <2>2, <3>1 DEF LabelledFeatures
  <2>7. [i \in 1..Len(trk) |-> WithName(trk[i].name, Segments(trk[i]), "Track Name")]
          = [i \in 1..Len(whole) |-> WithName(whole[i].name, whole[i].points, "Track Name")]
    BY <2>3, <2>4
  <2>8. PointRecords(feature, points) = NamedRecords(points, "Track Name")
    <3> HIDE DEF points
    <3> QED  BY <1>4 DEF PointRecords, PointRecord, NamedRecords
  <2> HIDE DEF points
  <2>9. Parse(d, feature) = NamedParts(whole, "Track Name")
    BY <2>5, <2>7 DEF NamedParts
  <2> QED  BY <2>3, <2>6, <2>8, <2>9, NamedPoints DEF points
<1> QED  BY <1>2, <1>3, <1>4

LEMMA PointFields ==
  ASSUME NEW p \in Labels, NEW feature \in {"WayPoints", "Routes", "Tracks"}
  PROVE  /\ Located(PointRecord(feature, p), p.node)
         /\ feature = "Tracks" => /\ "Track Name" \in DOMAIN PointRecord(feature, p)
                                  /\ PointRecord(feature, p)["Track Name"] = p.name
<1>1. p.node \in Nodes /\ p.name \in Cells  BY DEF Labels
<1>2. "Route Name" \notin Coordinates /\ "Track Name" \notin Coordinates
  BY DEF Coordinates
<1>3. CASE feature = "WayPoints"
  BY <1>1, <1>3, WayPointLocated DEF PointRecord
<1>4. CASE feature = "Routes"
  BY <1>1, <1>2, <1>4, NamedLocated DEF PointRecord
<1>5. CASE feature = "Tracks"
  BY <1>1, <1>2, <1>5, NamedLocated DEF PointRecord
<1> QED  BY <1>3, <1>4, <1>5

Occurring(records) ==
  {k \in 1..Len(HeaderOrder) :
     \E i \in 1..Len(records) : HeaderOrder[k] \in DOMAIN records[i]}

HeaderNames == {Stamp, "Latitude", "Longitude", "Name", "Route Name", "Track Name"}

LEMMA HeaderOrderTyped ==
  /\ HeaderOrder \in Seq(HeaderNames) /\ Len(HeaderOrder) = 6
  /\ HeaderOrder[2] = "Latitude" /\ HeaderOrder[3] = "Longitude"
  /\ HeaderOrder[6] = "Track Name"
<1>2. HeaderOrder \in Seq(HeaderNames)
  BY DEF HeaderOrder, HeaderNames
<1>3. Len(HeaderOrder) = 6  BY DEF HeaderOrder
<1>4. HeaderOrder[2] = "Latitude" /\ HeaderOrder[3] = "Longitude"
  BY DEF HeaderOrder
<1>5. HeaderOrder[6] = "Track Name"  BY DEF HeaderOrder
<1> QED  BY <1>2, <1>3, <1>4, <1>5

LEMMA GpxHeadersTyped ==
  ASSUME NEW records
  PROVE  /\ GpxHeaders(records) = Chosen(HeaderOrder, Occurring(records))
         /\ GpxHeaders(records) \in Seq(HeaderNames)
<1>1. GpxHeaders(records) = Chosen(HeaderOrder, Occurring(records))
  BY DEF GpxHeaders, Occurring
<1>2. ChosenIn(HeaderOrder, Occurring(records), HeaderNames)
  BY HeaderOrderTyped, SeqChosenIn
<1> QED  BY <1>1, <1>2, ChosenTyped

ColumnIn(headers, h) == SelectInSeq(headers, LAMBDA g : g = h)

\* The column that is named by a header which occurs has that header.
LEMMA HeaderFound ==
  ASSUME NEW records, NEW i \in 1..Len(records), NEW h \in DOMAIN records[i],
         NEW k \in 1..6, HeaderOrder[k] = h
  PROVE  /\ ColumnIn(GpxHeaders(records), h) \in 1..Len(GpxHeaders(records))
         /\ GpxHeaders(records)[ColumnIn(GpxHeaders(records), h)] = h
<1> DEFINE headers == GpxHeaders(records)
           I == {j \in 1..Len(headers) : headers[j] = h}
<1>1. k \in 1..Len(HeaderOrder) /\ k \in Occurring(records)
  BY HeaderOrderTyped DEF Occurring
<1>2. \E j \in 1..Len(headers) : headers[j] = h
  <2>1. \E j \in 1..Len(Chosen(HeaderOrder, Occurring(records))) :
          Chosen(HeaderOrder, Occurring(records))[j] = HeaderOrder[k]
    <3>1. HeaderOrder \in Seq(HeaderNames)  BY HeaderOrderTyped
    <3> QED  BY <1>1, <3>1, ChosenContains, Zenon
  <2> QED  BY <2>1, GpxHeadersTyped
<1> HIDE DEF headers
<1>3. I # {} /\ I \in SUBSET Nat  BY <1>2
<1>4. Min(I) \in I
  <2> HIDE DEF I
  <2>1. \E x \in I : \A y \in I : x <= y  BY <1>3, LeastNatural
  <2> QED  BY <2>1, Zenon DEF Min
<1>5. ColumnIn(headers, h) = Min(I)
  BY <1>3 DEF ColumnIn, SelectInSeq
<1> QED  BY <1>4, <1>5 DEF headers

LEMMA GpxRecords ==
  ASSUME NEW d \in Documents, d # Unreadable, NEW feature \in {"WayPoints", "Routes", "Tracks"}
  PROVE  LET res == ReadGpx(d, feature)
             points == PointsOf(d, feature)
         IN  /\ res.headers = GpxHeaders(res.records)
             /\ Len(res.records) = Len(points) /\ Len(points) \in Nat
             /\ \A k \in 1..Len(points) : /\ points[k] \in Labels
                                         /\ res.records[k] = PointRecord(feature, points[k])
<1> DEFINE res == ReadGpx(d, feature)
           points == PointsOf(d, feature)
<1>1. res.headers = GpxHeaders(res.records) /\ res.records = PointRecords(feature, points)
  BY ParsePoints DEF ReadGpx, Result
<1>2. points \in Seq(Labels)  BY FeaturesTyped
<1> HIDE DEF res, points
<1>3. Len(points) \in Nat /\ \A k \in 1..Len(points) : points[k] \in Labels
  BY <1>2, LenProperties, ElementOfSeq
<1>4. Len(PointRecords(feature, points)) = Len(points)
      /\ \A k \in 1..Len(points) :
           PointRecords(feature, points)[k] = PointRecord(feature, points[k])
  BY <1>3 DEF PointRecords
<1> QED  BY <1>1, <1>3, <1>4 DEF res, points

LEMMA GpxReads ==
  ASSUME NEW d, NEW feature \in {"WayPoints", "Routes", "Tracks"},
         d # Unreadable => d \in Documents
  PROVE  Reads(ReadGpx(d, feature))
<1> DEFINE res == ReadGpx(d, feature)
<1>1. Len(res.headers) \in Nat
  <2>1. res.headers = GpxHeaders(res.records)  BY DEF ReadGpx, Result
  <2> QED  BY <2>1, GpxHeadersTyped
<1>2. CASE d = Unreadable
  <2>1. res.records = <<>>  BY <1>2 DEF ReadGpx, Result
  <2> QED  BY <1>1, <2>1 DEF Reads
<1>3. CASE d # Unreadable
  <2> DEFINE points == PointsOf(d, feature)
  <2>1. /\ Len(res.records) = Len(points) /\ Len(points) \in Nat
        /\ \A k \in 1..Len(points) : /\ points[k] \in Labels
                                    /\ res.records[k] = PointRecord(feature, points[k])
    BY <1>3, GpxRecords
  <2> HIDE DEF res, points
  <2>2. ASSUME NEW k \in 1..Len(points)  PROVE HasCells(res.records[k])
    <3>1. Located(PointRecord(feature, points[k]), points[k].node)  BY <2>1, PointFields
    <3> QED  BY <2>1, <3>1 DEF Located
  <2> QED  BY <1>1, <2>1, <2>2 DEF Reads, res
<1> QED  BY <1>2, <1>3

\* All of it, as PointsShown says it.
LEMMA GpxIsShown ==
  ASSUME NEW d \in Documents, d # Unreadable, NEW feature \in {"WayPoints", "Routes", "Tracks"},
         NEW r \in 1..Len(PointsOf(d, feature))
  PROVE  LET res == ReadGpx(d, feature)
             p == PointsOf(d, feature)[r]
             cell(h) == Table(res)[r][ColumnIn(res.headers, h)]
         IN  /\ \A h \in {"Latitude", "Longitude"} :
                  cell(h) = IF h \in DOMAIN p.node THEN p.node[h] ELSE Blank
             /\ feature = "Tracks" => cell("Track Name") = p.name
<1> DEFINE res == ReadGpx(d, feature)
           p == PointsOf(d, feature)[r]
           column(h) == ColumnIn(res.headers, h)
           rec == PointRecord(feature, p)
<1>1. /\ res.headers = GpxHeaders(res.records) /\ r \in 1..Len(res.records)
      /\ p \in Labels /\ res.records[r] = rec
  BY GpxRecords
<1> HIDE DEF res, p, rec
<1>2. ASSUME NEW h \in DOMAIN rec, NEW k \in 1..6, HeaderOrder[k] = h
      PROVE  Table(res)[r][column(h)] = rec[h]
  <2>1. column(h) \in 1..Len(res.headers) /\ res.headers[column(h)] = h
    <3>1. h \in DOMAIN res.records[r]  BY <1>1
    <3> QED  BY <1>1, <1>2, <3>1, HeaderFound
  <2> HIDE DEF column
  <2>2. Table(res)[r][column(h)] = IF res.headers[column(h)] \in DOMAIN res.records[r]
                                     THEN res.records[r][res.headers[column(h)]] ELSE Blank
    BY <1>1, <2>1, TableCell
  <2> QED  BY <1>1, <2>1, <2>2
<1> HIDE DEF column
<1>3. Located(rec, p.node)
      /\ (feature = "Tracks" => "Track Name" \in DOMAIN rec /\ rec["Track Name"] = p.name)
  BY <1>1, PointFields DEF rec
<1>4. "Latitude" \in DOMAIN rec => Table(res)[r][column("Latitude")] = rec["Latitude"]
  <2>1. HeaderOrder[2] = "Latitude"  BY HeaderOrderTyped, Zenon
  <2>2. 2 \in 1..6  OBVIOUS
  <2> QED  BY <1>2, <2>1, <2>2, Zenon
<1>5. "Longitude" \in DOMAIN rec => Table(res)[r][column("Longitude")] = rec["Longitude"]
  <2>1. HeaderOrder[3] = "Longitude"  BY HeaderOrderTyped, Zenon
  <2>2. 3 \in 1..6  OBVIOUS
  <2> QED  BY <1>2, <2>1, <2>2, Zenon
<1>6. "Track Name" \in DOMAIN rec => Table(res)[r][column("Track Name")] = rec["Track Name"]
  <2>1. HeaderOrder[6] = "Track Name"  BY HeaderOrderTyped, Zenon
  <2>2. 6 \in 1..6  OBVIOUS
  <2> QED  BY <1>2, <2>1, <2>2, Zenon
<1>7. \A h \in {"Latitude", "Longitude"} :
        Table(res)[r][column(h)] = IF h \in DOMAIN p.node THEN p.node[h] ELSE Blank
  <2>1. ASSUME NEW h \in Coordinates
        PROVE  h \in DOMAIN rec /\ rec[h] = IF h \in DOMAIN p.node THEN p.node[h] ELSE Blank
    BY <1>3 DEF Located
  <2>2. \A h \in Coordinates : h = "Latitude" \/ h = "Longitude"  BY DEF Coordinates
  <2> QED  BY <1>4, <1>5, <2>1, <2>2 DEF Coordinates
<1> QED  BY <1>3, <1>6, <1>7 DEF res, p, column

-----------------------------------------------------------------------------
(* The state machine.                                                      *)

WhatIsRead ==
  IF file.kind = "text" THEN ReadText(file.content, file.hasHeaders)
                        ELSE ReadGpx(file.content, file.feature)

\* The table has a cell in every column that was read; before it is changed it
\* is what was read.
ImportInv ==
  /\ file \in Files
  /\ rows \in Seq([Columns -> Cells])
  /\ presses # 0 => result = WhatIsRead
  /\ presses = 1 => rows = IF result.valid THEN Table(result) ELSE <<>>

LEMMA FileKinds ==
  ASSUME NEW f \in Files
  PROVE  /\ f.kind = "text" => IsText(f)
         /\ f.kind # "text" => IsGpx(f)
BY FilesAssumption

LEMMA TextRows ==
  ASSUME NEW f \in Files, f.kind = "text", f.content # Unreadable
  PROVE  /\ IsLines(f.content, f.hasHeaders)
         /\ ReadText(f.content, f.hasHeaders) = TextRead(f.content, f.hasHeaders)
<1>1. IsLines(f.content, f.hasHeaders)  BY FileKinds DEF IsText, IsLines
<1> QED  BY <1>1, ReadTextReads

LEMMA FileReads ==
  ASSUME file \in Files
  PROVE  Reads(WhatIsRead)
<1>1. CASE file.kind = "text"
  <2>1. CASE file.content = Unreadable
    <3>1. WhatIsRead = Result(FALSE, "Fatal", <<>>, <<>>)
      BY <1>1, <2>1 DEF WhatIsRead, ReadText
    <3>2. WhatIsRead.headers = <<>> /\ WhatIsRead.records = <<>>
      BY <3>1 DEF Result
    <3> QED  BY <3>2 DEF Reads
  <2>2. CASE file.content # Unreadable
    BY <1>1, <2>2, TextRows, TextReads DEF WhatIsRead
  <2> QED  BY <2>1, <2>2
<1>2. CASE file.kind # "text"
  <2>1. /\ file.feature \in {"WayPoints", "Routes", "Tracks"}
        /\ file.content # Unreadable => file.content \in Documents
    BY <1>2, FileKinds DEF IsGpx
  <2>2. WhatIsRead = ReadGpx(file.content, file.feature)  BY <1>2 DEF WhatIsRead
  <2> QED  BY <2>1, <2>2, GpxReads
<1> QED  BY <1>1, <1>2

LEMMA ImportInit == Init => ImportInv
<1> SUFFICES ASSUME Init  PROVE ImportInv  OBVIOUS
<1>1. rows = <<>> /\ presses = 0 /\ file \in Files  BY DEF Init
<1>2. rows \in Seq([Columns -> Cells])  BY <1>1, EmptySeq
<1> QED  BY <1>1, <1>2 DEF ImportInv

LEMMA ImportStep == ImportInv /\ [Next]_vars => ImportInv'
<1> SUFFICES ASSUME ImportInv, [Next]_vars  PROVE ImportInv'  OBVIOUS
<1>1. CASE ReadFile
  <2>1. file' = file /\ file \in Files /\ presses' = 1 /\ result' = WhatIsRead
        /\ rows' = IF result'.valid THEN Table(result') ELSE <<>>
    BY <1>1 DEF ReadFile, ImportInv, WhatIsRead
  <2>2. WhatIsRead' = WhatIsRead  BY <2>1 DEF WhatIsRead
  <2>3. Reads(result')  BY <2>1, FileReads
  <2>4. Columns' = 1..Len(result'.headers)  BY DEF Columns
  <2>5. Table(result') \in Seq([Columns' -> Cells])  BY <2>3, <2>4, TableTyped
  <2>6. rows' \in Seq([Columns' -> Cells])  BY <2>1, <2>5, EmptySeq
  <2> QED  BY <2>1, <2>2, <2>6 DEF ImportInv
<1>2. CASE Interpolate
  <2>1. /\ presses' # 1 /\ presses # 0 /\ UNCHANGED <<file, result>>
        /\ StampColumn \in Columns
        /\ rows' = Interpolated(rows, Columns, StampColumn, {CoordinateColumn})
    BY <1>2 DEF Interpolate
  <2>2. Columns' = Columns /\ WhatIsRead' = WhatIsRead
    BY <2>1 DEF Columns, WhatIsRead
  <2>3. rows \in Seq([Columns -> Cells])  BY DEF ImportInv
  <2>4. rows' \in Seq([Columns -> Cells])
    <3>1. CASE Len(rows) >= 2
      BY <2>1, <2>3, <3>1, InterpolatedComplete
    <3>2. CASE ~(Len(rows) >= 2)
      <4>1. Len(rows) < 2  BY <2>3, <3>2
      <4> QED  BY <2>1, <2>3, <4>1 DEF Interpolated
    <3> QED  BY <3>1, <3>2
  <2> QED  BY <2>1, <2>2, <2>4 DEF ImportInv
<1>3. CASE Delete
  <2>1. presses' = 2 /\ presses # 0 /\ UNCHANGED <<file, result>>
    BY <1>3 DEF Delete
  <2>2. Columns' = Columns /\ WhatIsRead' = WhatIsRead
    BY <2>1 DEF Columns, WhatIsRead
  <2>3. PICK r \in 1..Len(rows) :
          rows' = [i \in 1..Len(rows) - 1 |-> IF i < r THEN rows[i] ELSE rows[i + 1]]
    BY <1>3 DEF Delete
  <2>4. rows \in Seq([Columns -> Cells])  BY DEF ImportInv
  <2>5. rows' \in Seq([Columns -> Cells])
    <3> DEFINE X == [Columns -> Cells]
    <3>1. rows \in Seq(X)  BY <2>4
    <3> HIDE DEF X
    <3>2. Len(rows) - 1 \in Nat
          /\ \A i \in 1..Len(rows) - 1 : rows[i] \in X /\ rows[i + 1] \in X
      BY <3>1
    <3>3. rows' \in Seq(X)  BY <2>3, <3>2
    <3> QED  BY <3>3 DEF X
  <2> QED  BY <2>1, <2>2, <2>5 DEF ImportInv
<1>4. CASE UNCHANGED vars
  BY <1>4 DEF vars, ImportInv, WhatIsRead, Columns
<1> QED  BY <1>1, <1>2, <1>3, <1>4 DEF Next

\* What the claims about every file rest on.
LEMMA ImportCorrect == Spec => []ImportInv
<1> QED  BY ImportInit, ImportStep, PTL DEF Spec

\* Every press of the button leaves a table that is complete, whatever file was
\* read and whatever rows were deleted.
THEOREM InterpolationCorrect == Spec => InterpolationComplete
<1>1. ImportInv /\ [Next]_vars =>
        [Interpolate /\ Len(rows) >= 2 => Complete(GapLimit, rows, rows', StampColumn)]_vars
  <2> SUFFICES ASSUME ImportInv, Interpolate, Len(rows) >= 2
               PROVE  Complete(GapLimit, rows, rows', StampColumn)
    OBVIOUS
  <2>1. StampColumn \in Columns
        /\ rows' = Interpolated(rows, Columns, StampColumn, {CoordinateColumn})
    BY DEF Interpolate
  <2>2. rows \in Seq([Columns -> Cells])  BY DEF ImportInv
  <2> QED  BY <2>1, <2>2, InterpolatedComplete
<1> QED  BY <1>1, ImportCorrect, PTL DEF Spec, InterpolationComplete

LEMMA TextIsRead == ImportInv => TextShown
<1> SUFFICES ASSUME ImportInv, presses = 1, file.kind = "text", file.content # Unreadable
             PROVE  TextShown
  BY DEF TextShown
<1> DEFINE lines == file.content
           hasHeaders == file.hasHeaders
           res == TextRead(lines, hasHeaders)
           all == All(lines)
           w == Width(lines)
           shown == ShownOf(all, hasHeaders, w)
<1>1. file \in Files /\ result = WhatIsRead
      /\ rows = IF result.valid THEN Table(result) ELSE <<>>
  BY DEF ImportInv
<1>2. IsLines(lines, hasHeaders) /\ ReadText(lines, hasHeaders) = res
  BY <1>1, TextRows
<1>3. result = res  BY <1>1, <1>2 DEF WhatIsRead
<1>4. res.valid = TRUE  BY DEF TextRead, Result
<1>5. rows = Table(res)  BY <1>1, <1>3, <1>4
<1>6. res.error = "Warning" <=> \E i \in 1..Len(all) : Len(all[i]) # w
  BY <1>2, WarnedOf
<1>7. /\ Len(Table(res)) = Len(shown)
      /\ \A r \in 1..Len(Table(res)) : \A c \in 1..w :
           \/ (hasHeaders /\ ~IsInjective(res.headers))
           \/ Table(res)[r][c] = shown[r][c]
           \/ /\ ~hasHeaders /\ r = 1
              /\ Table(res)[r][c] = IF c < w THEN shown[r][c + 1] ELSE Blank
  BY <1>2, TextIsShown
<1> HIDE DEF res
<1>8. /\ Len(rows) = Len(shown)
      /\ result.error = "Warning" <=> \E i \in 1..Len(all) : Len(all[i]) # w
      /\ \A r \in 1..Len(rows) : \A c \in 1..w :
           \/ (hasHeaders /\ ~IsInjective(result.headers))
           \/ rows[r][c] = shown[r][c]
           \/ /\ ~hasHeaders /\ r = 1
              /\ rows[r][c] = IF c < w THEN shown[r][c + 1] ELSE Blank
  BY <1>3, <1>5, <1>6, <1>7, Zenon
<1> QED  BY <1>8, Zenon DEF TextShown, All, Width, ShownOf

\* The table shows of every text what it should.
THEOREM TextCorrect == Spec => []TextShown
<1> QED  BY ImportCorrect, TextIsRead, PTL

LEMMA PointsAreRead == ImportInv => PointsShown
<1> SUFFICES ASSUME ImportInv, presses = 1, file.kind = "gpx", file.content # Unreadable
             PROVE  PointsShown
  BY DEF PointsShown
<1> DEFINE d == file.content
           feature == file.feature
           res == ReadGpx(d, feature)
           points == PointsOf(d, feature)
<1>1. file \in Files /\ result = WhatIsRead /\ file.kind # "text"
      /\ rows = IF result.valid THEN Table(result) ELSE <<>>
  BY DEF ImportInv
<1>2. feature \in {"WayPoints", "Routes", "Tracks"} /\ d \in Documents
  BY <1>1, FileKinds DEF IsGpx
<1>3. result = res  BY <1>1 DEF WhatIsRead
<1>4. res.valid = TRUE  BY DEF ReadGpx, Result
<1>5. rows = Table(res)  BY <1>1, <1>3, <1>4
<1>6. Len(Table(res)) = Len(points)
  <2>1. Reads(res) /\ Len(res.records) = Len(points)  BY <1>2, GpxReads, GpxRecords
  <2> HIDE DEF res
  <2> QED  BY <2>1, TableTyped
<1>7. ASSUME NEW r \in 1..Len(points)
      PROVE  /\ \A h \in {"Latitude", "Longitude"} :
                  Table(res)[r][ColumnIn(res.headers, h)] =
                    IF h \in DOMAIN points[r].node THEN points[r].node[h] ELSE Blank
             /\ feature = "Tracks" =>
                  Table(res)[r][ColumnIn(res.headers, "Track Name")] = points[r].name
  BY <1>2, GpxIsShown
<1>8. \A h : ColumnOf(h) = ColumnIn(res.headers, h)  BY <1>3 DEF ColumnOf, ColumnIn
<1> HIDE DEF res, points
<1>9. /\ Len(rows) = Len(points)
      /\ \A r \in 1..Len(rows) :
           /\ \A h \in {"Latitude", "Longitude"} :
                rows[r][ColumnOf(h)] =
                  IF h \in DOMAIN points[r].node THEN points[r].node[h] ELSE Blank
           /\ feature = "Tracks" => rows[r][ColumnOf("Track Name")] = points[r].name
  BY <1>5, <1>6, <1>7, <1>8, Zenon
<1> QED  BY <1>9, Zenon DEF PointsShown, points, PointsOf, LabelledFeatures, Labelled, Features

\* The table shows of every document what it should.
THEOREM PointsCorrect == Spec => []PointsShown
<1> QED  BY ImportCorrect, PointsAreRead, PTL
=============================================================================
