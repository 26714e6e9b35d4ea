-------------------- MODULE DetectorConstruction_proofs --------------------
(* Proofs about the constructors of the detectors: whatever one of them    *)
(* makes of a compact description, of any number of layers, modules and    *)
(* slices. The inductive invariant is that the detector is what some       *)
(* constructor has made of a description it accepts; each invariant then   *)
(* is shown of the products of each family of constructors.                *)
EXTENDS DetectorConstruction, WellFoundedInduction, FiniteSetTheorems, TLAPS

-----------------------------------------------------------------------------
(* Induction, and what running sums are.                                   *)

LEMMA LeastNumber ==
  ASSUME NEW S, S \subseteq Nat, S # {}
  PROVE  \E m \in S : \A n \in S : m <= n
<1>1. \E R : IsWellFoundedOn(R, Nat) /\ \A n, m \in Nat : n < m => <<n, m>> \in R
  <2>1. IsWellFoundedOn(OpToRel(<, Nat), Nat)
    BY NatLessThanWellFounded
  <2>2. \A n, m \in Nat : n < m => <<n, m>> \in OpToRel(<, Nat)
    BY DEF OpToRel
  <2> QED
    BY <2>1, <2>2
<1>2. PICK R : IsWellFoundedOn(R, Nat) /\ \A n, m \in Nat : n < m => <<n, m>> \in R
  BY <1>1
<1>3. PICK m \in S : \A n \in S : ~(<<n, m>> \in R)
  <2>1. IsWellFoundedOn(R, Nat)
    BY <1>2
  <2>2. \A T : T \subseteq Nat /\ T # {} => \E m \in T : \A n \in T : ~(<<n, m>> \in R)
    BY ONLY <2>1, WFMin, Zenon
  <2> QED
    BY <2>2, Zenon
<1>4. \A n \in S : m <= n
  <2> SUFFICES ASSUME NEW n \in S PROVE m <= n
    OBVIOUS
  <2>1. n \in Nat /\ m \in Nat
    OBVIOUS
  <2>2. ~(n < m)
    BY <1>2, <1>3, <2>1, Zenon
  <2> QED
    BY <2>1, <2>2
<1> QED
  BY <1>4

\* What holds up to a number goes on to hold: induction over a set of numbers.
LEMMA UpTo ==
  ASSUME NEW n \in Nat, NEW S, 0 \in S, \A i \in 1..n : i - 1 \in S => i \in S
  PROVE  \A i \in 0..n : i \in S
<1> DEFINE Bad == {i \in 0..n : i \notin S}
<1> SUFFICES ASSUME Bad # {} PROVE FALSE
  OBVIOUS
<1>0. Bad \subseteq Nat
  OBVIOUS
<1>1. PICK m \in Bad : \A k \in Bad : m <= k
  <2> HIDE DEF Bad
  <2> QED
    BY <1>0, LeastNumber, Zenon
<1>2. m \in 1..n
  OBVIOUS
<1>3. m - 1 \in 0..n /\ ~(m <= m - 1)
  BY <1>2
<1>4. m - 1 \in S
  BY <1>1, <1>3
<1> QED
  BY <1>2, <1>4

LEMMA RunningSumExists ==
  ASSUME NEW n \in Nat, NEW t
  PROVE  \E h : h = [i \in 0..n |-> IF i = 0 THEN 0 ELSE h[i - 1] + t[i]]
<1> DEFINE Bad == {k \in Nat : ~\E h : h = [i \in 0..k |-> IF i = 0 THEN 0 ELSE h[i - 1] + t[i]]}
<1> SUFFICES ASSUME Bad # {} PROVE FALSE
  BY Zenon
<1>1. PICK m \in Bad : \A k \in Bad : m <= k
  BY LeastNumber, Zenon
<1>2. m # 0
  <2> SUFFICES ASSUME m = 0 PROVE FALSE
    OBVIOUS
  <2> DEFINE h == [i \in 0..0 |-> 0]
  <2>1. h = [i \in 0..0 |-> IF i = 0 THEN 0 ELSE h[i - 1] + t[i]]
    OBVIOUS
  <2> QED
    BY <2>1, Zenon
<1>3. PICK h : h = [i \in 0..(m - 1) |-> IF i = 0 THEN 0 ELSE h[i - 1] + t[i]]
  <2>1. m - 1 \in Nat /\ ~(m <= m - 1)
    BY <1>2
  <2>2. m - 1 \notin Bad
    BY <1>1, <2>1
  <2> QED
    BY <2>1, <2>2
<1> DEFINE g == [i \in 0..m |-> IF i = m THEN h[m - 1] + t[m] ELSE h[i]]
<1>4. \A i \in 0..m : g[i] = IF i = 0 THEN 0 ELSE g[i - 1] + t[i]
  BY <1>2, <1>3
<1>5. g = [i \in 0..m |-> IF i = 0 THEN 0 ELSE g[i - 1] + t[i]]
  <2>1. g = [i \in 0..m |-> g[i]]
    OBVIOUS
  <2> HIDE DEF g
  <2> QED
    BY <1>4, <2>1, Zenon
<1> QED
  BY <1>5, Zenon

LEMMA SumsAre ==
  ASSUME NEW t, Len(t) \in Nat
  PROVE  /\ DOMAIN Sums(t) = 0..Len(t)
         /\ Sums(t)[0] = 0
         /\ \A i \in 1..Len(t) : Sums(t)[i] = Sums(t)[i - 1] + t[i]
<1> DEFINE Is(h) == h = [i \in 0..Len(t) |-> IF i = 0 THEN 0 ELSE h[i - 1] + t[i]]
<1>1. \E h : Is(h)
  BY RunningSumExists
<1>2. Sums(t) = CHOOSE h : Is(h)
  BY DEF Sums
<1>3. Is(Sums(t))
  BY <1>1, <1>2, Zenon
<1> QED
  BY <1>3

\* A row of numbers: as many as a row of slices has, and none of them negative.
LEMMA SumsGrow ==
  ASSUME NEW t, Len(t) \in Nat, \A i \in 1..Len(t) : t[i] \in Nat
  PROVE  /\ \A i \in 0..Len(t) : Sums(t)[i] \in Nat
         /\ \A i, j \in 0..Len(t) : i <= j => Sums(t)[i] <= Sums(t)[j]
         /\ \A i, j \in 1..Len(t) : i < j => Sums(t)[i - 1] + t[i] <= Sums(t)[j - 1]
<1>1. \A i \in 0..Len(t) : Sums(t)[i] \in Nat
  <2> DEFINE S == {i \in 0..Len(t) : Sums(t)[i] \in Nat}
  <2>1. 0 \in S
    BY SumsAre
  <2>2. \A i \in 1..Len(t) : i - 1 \in S => i \in S
    BY SumsAre
  <2>3. \A i \in 0..Len(t) : i \in S
    <3> HIDE DEF S
    <3> QED
      BY <2>1, <2>2, UpTo, Zenon
  <2> QED
    BY <2>3
<1>2. \A i, j \in 0..Len(t) : i <= j => Sums(t)[i] <= Sums(t)[j]
  <2> SUFFICES ASSUME NEW i \in 0..Len(t) PROVE \A j \in 0..Len(t) : i <= j => Sums(t)[i] <= Sums(t)[j]
    OBVIOUS
  <2> DEFINE S == {j \in 0..Len(t) : i <= j => Sums(t)[i] <= Sums(t)[j]}
  <2>1. 0 \in S
    BY <1>1
  <2>2. \A j \in 1..Len(t) : j - 1 \in S => j \in S
    <3> SUFFICES ASSUME NEW j \in 1..Len(t), j - 1 \in S, i <= j PROVE Sums(t)[i] <= Sums(t)[j]
      OBVIOUS
    <3>1. Sums(t)[j] = Sums(t)[j - 1] + t[j] /\ Sums(t)[j - 1] \in Nat /\ Sums(t)[i] \in Nat
      BY <1>1, SumsAre
    <3>2. CASE i = j
      BY <3>1, <3>2
    <3>3. CASE i <= j - 1
      BY <3>1, <3>3
    <3> QED
      BY <3>2, <3>3
  <2>3. \A j \in 0..Len(t) : j \in S
    <3> HIDE DEF S
    <3> QED
      BY <2>1, <2>2, UpTo, Zenon
  <2> QED
    BY <2>3
<1>3. ASSUME NEW i \in 1..Len(t), NEW j \in 1..Len(t), i < j
      PROVE  Sums(t)[i - 1] + t[i] <= Sums(t)[j - 1]
  <2>1. Sums(t)[i] = Sums(t)[i - 1] + t[i]
    BY SumsAre
  <2>2. i \in 0..Len(t) /\ j - 1 \in 0..Len(t) /\ i <= j - 1
    BY <1>3
  <2> QED
    BY <1>2, <2>1, <2>2
<1> QED
  BY <1>1, <1>2, <1>3

\* The sum of the first terms only.
LEMMA SumOfFirst ==
  ASSUME NEW t, Len(t) \in Nat, NEW n \in 0..Len(t),
         NEW u, DOMAIN u = 1..n, \A i \in 1..n : u[i] = t[i]
  PROVE  Total(u) = Sums(t)[n]
<1>1. n \in Nat /\ Len(u) = n
  OBVIOUS
<1> DEFINE S == {i \in 0..n : Sums(u)[i] = Sums(t)[i]}
<1>2. 0 \in S
  BY <1>1, SumsAre
<1>3. \A i \in 1..n : i - 1 \in S => i \in S
  <2> SUFFICES ASSUME NEW i \in 1..n, i - 1 \in S PROVE Sums(u)[i] = Sums(t)[i]
    OBVIOUS
  <2>1. i \in 1..Len(t) /\ i \in 1..Len(u)
    BY <1>1
  <2> QED
    BY <1>1, <2>1, SumsAre
<1>4. \A i \in 0..n : i \in S
  <2> HIDE DEF S
  <2> QED
    BY <1>1, <1>2, <1>3, UpTo, Zenon
<1>5. Sums(u)[n] = Sums(t)[n]
  BY <1>1, <1>4
<1> QED
  BY <1>1, <1>5 DEF Total

\* Things of several sizes one after the other, each with places from 0: a number
\* that goes on through all of them says in which a place is, and where.
LEMMA NumberedOn ==
  ASSUME NEW t, Len(t) \in Nat, \A i \in 1..Len(t) : t[i] \in Nat,
         NEW i \in 1..Len(t), NEW j \in 1..Len(t),
         NEW k \in Nat, NEW m \in Nat, k < t[i], m < t[j],
         Sums(t)[i - 1] + k = Sums(t)[j - 1] + m
  PROVE  i = j /\ k = m
<1>1. /\ t[i] \in Nat /\ t[j] \in Nat
      /\ i - 1 \in 0..Len(t) /\ j - 1 \in 0..Len(t)
  OBVIOUS
<1>2. Sums(t)[i - 1] \in Nat /\ Sums(t)[j - 1] \in Nat
  BY <1>1, SumsGrow, Zenon
<1>3. CASE i < j
  <2>1. Sums(t)[i - 1] + t[i] <= Sums(t)[j - 1]
    BY <1>3, SumsGrow, Zenon
  <2> DEFINE a == Sums(t)[i - 1]
             b == Sums(t)[j - 1]
             g == t[i]
             h == t[j]
  <2>2. /\ a \in Nat /\ b \in Nat /\ g \in Nat /\ h \in Nat
        /\ k < g /\ m < h /\ a + k = b + m
    BY <1>1, <1>2
  <2>3. a + g <= b
    BY <2>1
  <2> HIDE DEF a, b, g, h
  <2> QED
    BY <2>2, <2>3
<1>4. CASE j < i
  <2>1. Sums(t)[j - 1] + t[j] <= Sums(t)[i - 1]
    BY <1>4, SumsGrow
  <2> DEFINE a == Sums(t)[i - 1]
             b == Sums(t)[j - 1]
             g == t[i]
             h == t[j]
  <2>2. /\ a \in Nat /\ b \in Nat /\ g \in Nat /\ h \in Nat
        /\ k < g /\ m < h /\ a + k = b + m
    BY <1>1, <1>2
  <2>3. b + h <= a
    BY <2>1
  <2> HIDE DEF a, b, g, h
  <2> QED
    BY <2>2, <2>3
<1>5. CASE i = j
  BY <1>1, <1>2, <1>5
<1> QED
  BY <1>3, <1>4, <1>5

-----------------------------------------------------------------------------
(* Lists, slices and what is counted.                                      *)

LEMMA Lists ==
  ASSUME NEW s, IsList(s)
  PROVE  Len(s) \in Nat /\ DOMAIN s = 1..Len(s)
BY DEF IsList

LEMMA LenOfRow ==
  ASSUME NEW n \in Nat, NEW s, DOMAIN s = 1..n
  PROVE  Len(s) = n
OBVIOUS

LEMMA FewerIn ==
  ASSUME NEW S, NEW T, IsFiniteSet(S), T \subseteq S, NEW x \in S, x \notin T
  PROVE  /\ Cardinality(T) \in Nat /\ Cardinality(S) \in Nat
         /\ Cardinality(T) < Cardinality(S)
<1>1. T \in SUBSET S /\ T # S
  OBVIOUS
<1>2. IsFiniteSet(T) /\ Cardinality(T) <= Cardinality(S) /\ Cardinality(S) # Cardinality(T)
  BY <1>1, FS_Subset
<1>3. Cardinality(T) \in Nat /\ Cardinality(S) \in Nat
  BY <1>2, FS_CardinalityType
<1> QED
  BY <1>2, <1>3

LEMMA Stacks ==
  ASSUME NEW slices, IsStack(slices)
  PROVE  /\ Len(slices) \in Nat /\ DOMAIN slices = 1..Len(slices)
         /\ \A i \in DOMAIN slices : slices[i].thickness \in Nat
         /\ SensitiveOf(slices) \subseteq 1..Len(slices)
         /\ IsFiniteSet(SensitiveOf(slices))
<1>1. Len(slices) \in Nat /\ DOMAIN slices = 1..Len(slices)
  BY Lists DEF IsStack
<1>2. SensitiveOf(slices) \subseteq 1..Len(slices)
  BY <1>1 DEF SensitiveOf
<1>3. IsFiniteSet(1..Len(slices))
  BY <1>1, FS_Interval
<1>4. IsFiniteSet(SensitiveOf(slices))
  BY <1>2, <1>3, FS_Subset
<1> QED
  BY <1>1, <1>2, <1>4 DEF IsStack

\* The numbers of the sensitive slices of a stack tell them apart.
LEMMA SensitiveNumbersDiffer ==
  ASSUME NEW slices, IsStack(slices),
         NEW i \in SensitiveOf(slices), NEW j \in SensitiveOf(slices), i # j
  PROVE  SensitiveNumber(slices, i) # SensitiveNumber(slices, j)
<1>1. i \in Nat /\ j \in Nat
  BY Stacks
<1>2. ASSUME NEW a \in SensitiveOf(slices), NEW b \in SensitiveOf(slices), a < b
      PROVE  SensitiveNumber(slices, a) # SensitiveNumber(slices, b)
  <2> DEFINE S == {k \in SensitiveOf(slices) : k <= b}
             T == {k \in SensitiveOf(slices) : k <= a}
  <2>1. S \subseteq SensitiveOf(slices) /\ IsFiniteSet(SensitiveOf(slices))
    BY Stacks
  <2>2. IsFiniteSet(S)
    <3> HIDE DEF S
    <3> QED
      BY <2>1, FS_Subset
  <2>3. SensitiveOf(slices) \subseteq Nat
    BY Stacks
  <2>4. T \subseteq S /\ b \in S /\ b \notin T
    BY <1>2, <2>3
  <2>5. Cardinality(T) < Cardinality(S) /\ Cardinality(T) \in Nat /\ Cardinality(S) \in Nat
    <3> HIDE DEF S, T
    <3> QED
      BY <2>2, <2>4, FewerIn
  <2> QED
    BY <2>5 DEF SensitiveNumber
<1> QED
  BY <1>1, <1>2

\* A stack with one sensitive slice.
LEMMA TheSensitiveSlice ==
  ASSUME NEW slices, IsStack(slices), Cardinality(SensitiveOf(slices)) <= 1,
         NEW i \in SensitiveOf(slices), NEW j \in SensitiveOf(slices)
  PROVE  i = j
<1> SUFFICES ASSUME i # j PROVE FALSE
  OBVIOUS
<1>1. IsFiniteSet(SensitiveOf(slices))
  BY Stacks
<1>2. Cardinality({i}) = 1
  BY FS_Singleton, Zenon
<1>3. {i} \subseteq SensitiveOf(slices) /\ j \notin {i}
  OBVIOUS
<1>4. Cardinality({i}) < Cardinality(SensitiveOf(slices)) /\ Cardinality(SensitiveOf(slices)) \in Nat
  BY <1>1, <1>3, FewerIn
<1> QED
  BY <1>2, <1>4

LEMMA JoinedFields ==
  ASSUME NEW r, NEW s
  PROVE  /\ DOMAIN Joined(r, s) = DOMAIN r \cup DOMAIN s
         /\ \A f \in DOMAIN r : Joined(r, s)[f] = r[f]
         /\ \A f \in (DOMAIN s) \ (DOMAIN r) : Joined(r, s)[f] = s[f]
BY DEF Joined

LEMMA StackedIs ==
  ASSUME NEW slices, IsStack(slices)
  PROVE  /\ DOMAIN Stacked(slices) = DOMAIN slices
         /\ Thickness(slices) \in Nat
         /\ \A i \in DOMAIN slices :
              /\ Below(slices, i) \in Nat
              /\ Stacked(slices)[i].middle = 2 * Below(slices, i) + slices[i].thickness - Thickness(slices)
              /\ Stacked(slices)[i].middle \in Int
              /\ Stacked(slices)[i].thickness = slices[i].thickness
<1> DEFINE t == Thicknesses(slices)
<1>1. Len(slices) \in Nat /\ DOMAIN slices = 1..Len(slices)
  BY Stacks
<1>2. DOMAIN t = 1..Len(slices) /\ \A i \in 1..Len(slices) : t[i] = slices[i].thickness
  BY <1>1 DEF Thicknesses
<1>3. Len(t) = Len(slices)
  <2> HIDE DEF t
  <2> QED
    BY <1>1, <1>2
<1>4. \A i \in 1..Len(t) : t[i] \in Nat
  BY <1>1, <1>2, <1>3, Stacks
<1>5. \A i \in 0..Len(t) : Sums(t)[i] \in Nat
  <2> HIDE DEF t
  <2> QED
    BY <1>1, <1>3, <1>4, SumsGrow
<1>6. Thickness(slices) \in Nat
  BY <1>1, <1>3, <1>5 DEF Thickness, Total
<1>7. \A i \in 1..Len(slices) : Below(slices, i) \in Nat
  BY <1>1, <1>3, <1>5 DEF Below
<1>8. \A i \in DOMAIN slices : slices[i].thickness \in Nat
  BY Stacks
<1> QED
  BY <1>1, <1>6, <1>7, <1>8 DEF Stacked, Placed

\* A row of rows, one after the other.
LEMMA RowsOf ==
  ASSUME NEW S, NEW n \in Nat, NEW f \in [1..n -> S]
  PROVE  f \in Seq(S)
OBVIOUS

\* The rows are put behind one another one by one.
LEMMA FlattenedOneByOne ==
  ASSUME NEW S, NEW rows \in Seq(Seq(S)), Len(rows) # 0
  PROVE  \E f : /\ FlattenSeq(rows) = f[Len(rows)]
                /\ \A i \in 1..Len(rows) : f[i] = IF i = 1 THEN rows[i] ELSE f[i - 1] \o rows[i]
<1> DEFINE Is(h, n) == h = [i \in 1..n |-> IF i = 1 THEN rows[i] ELSE h[i - 1] \o rows[i]]
<1>1. Len(rows) \in Nat /\ Len(rows) \in 1..Len(rows)
  OBVIOUS
<1>2. \E h : Is(h, Len(rows))
  <2> DEFINE Bad == {k \in Nat : ~\E h : Is(h, k)}
  <2> SUFFICES ASSUME Bad # {} PROVE FALSE
    BY <1>1, Zenon
  <2>1. PICK m \in Bad : \A k \in Bad : m <= k
    BY LeastNumber, Zenon
  <2>2. m # 0
    <3> SUFFICES ASSUME m = 0 PROVE FALSE
      BY Zenon
    <3> DEFINE h == [i \in 1..0 |-> rows[i]]
    <3>1. Is(h, 0)
      OBVIOUS
    <3> QED
      BY <3>1, Zenon
  <2>3. PICK h : Is(h, m - 1)
    <3>1. m - 1 \in Nat /\ ~(m <= m - 1)
      BY <2>2
    <3> QED
      BY <2>1, <3>1, Zenon
  <2> DEFINE last == IF m = 1 THEN rows[1] ELSE h[m - 1] \o rows[m]
             g == [i \in 1..m |-> IF i = m THEN last ELSE h[i]]
  <2>4. \A i \in 1..m : g[i] = IF i = 1 THEN rows[i] ELSE g[i - 1] \o rows[i]
    <3> SUFFICES ASSUME NEW i \in 1..m
                 PROVE  g[i] = IF i = 1 THEN rows[i] ELSE g[i - 1] \o rows[i]
      BY Zenon
    <3>1. CASE i = m
      <4>1. g[i] = last /\ (i # 1 => i - 1 \in 1..m /\ g[i - 1] = h[i - 1])
        <5> HIDE DEF last
        <5> QED
          BY <2>2, <3>1
      <4> QED
        BY <3>1, <4>1, Zenon
    <3>2. CASE i # m
      <4>1. i \in 1..(m - 1) /\ g[i] = h[i] /\ (i # 1 => g[i - 1] = h[i - 1])
        <5> HIDE DEF last
        <5> QED
          BY <2>2, <3>2
      <4>2. h[i] = IF i = 1 THEN rows[i] ELSE h[i - 1] \o rows[i]
        BY <2>3, <4>1, Zenon
      <4> HIDE DEF g
      <4> QED
        BY <4>1, <4>2, Zenon
    <3> QED
      BY <3>1, <3>2, Zenon
  <2>5. Is(g, m)
    <3>1. g = [i \in 1..m |-> g[i]]
      BY Zenon
    <3> HIDE DEF g
    <3> QED
      BY <2>4, <3>1, Zenon
  <2> HIDE DEF g
  <2> QED
    BY <2>5, Zenon
<1> DEFINE f == CHOOSE h : Is(h, Len(rows))
<1>3. Is(f, Len(rows))
  BY <1>2
<1>4. FlattenSeq(rows) = f[Len(rows)]
  BY DEF FlattenSeq
<1>5. \A i \in 1..Len(rows) : f[i] = IF i = 1 THEN rows[i] ELSE f[i - 1] \o rows[i]
  <2> HIDE DEF f
  <2> QED
    BY <1>3, Zenon
<1> HIDE DEF f
<1> QED
  BY <1>4, <1>5

LEMMA Flattened ==
  ASSUME NEW S, NEW rows \in Seq(Seq(S))
  PROVE  FlattenSeq(rows) \in Seq(S)
<1>1. CASE Len(rows) = 0
  <2>1. rows = <<>>
    BY <1>1
  <2> QED
    BY <1>1, <2>1 DEF FlattenSeq
<1>2. CASE Len(rows) # 0
  <2>1. Len(rows) \in Nat /\ Len(rows) \in 1..Len(rows)
    BY <1>2
  <2>2. PICK f : /\ FlattenSeq(rows) = f[Len(rows)]
                 /\ \A i \in 1..Len(rows) : f[i] = IF i = 1 THEN rows[i] ELSE f[i - 1] \o rows[i]
    BY <1>2, FlattenedOneByOne, Zenon
  <2>4. FlattenSeq(rows) = f[Len(rows)]
    BY <2>2
  <2>5. \A i \in 1..Len(rows) : f[i] = IF i = 1 THEN rows[i] ELSE f[i - 1] \o rows[i]
    BY <2>2
  <2> DEFINE T == {i \in 0..Len(rows) : i = 0 \/ f[i] \in Seq(S)}
  <2>6. 0 \in T
    BY <2>1
  <2>7. \A i \in 1..Len(rows) : i - 1 \in T => i \in T
    <3> SUFFICES ASSUME NEW i \in 1..Len(rows), i - 1 \in T PROVE f[i] \in Seq(S)
      OBVIOUS
    <3>1. rows[i] \in Seq(S)
      OBVIOUS
    <3>2. CASE i = 1
      BY <2>5, <3>1, <3>2
    <3>3. CASE i # 1
      <4>1. f[i - 1] \in Seq(S)
        BY <3>3
      <4>2. \A a, b \in Seq(S) : a \o b \in Seq(S)
        OBVIOUS
      <4>3. f[i] = f[i - 1] \o rows[i]
        BY <2>5, <3>3, Zenon
      <4>4. f[i - 1] \o rows[i] \in Seq(S)
        BY <3>1, <4>1, <4>2
      <4> QED
        BY <4>3, <4>4, Zenon
    <3> QED
      BY <3>2, <3>3
  <2>8. \A i \in 0..Len(rows) : i \in T
    <3> HIDE DEF T
    <3> QED
      BY <2>1, <2>6, <2>7, UpTo, Zenon
  <2> QED
    BY <2>1, <2>4, <2>8
<1> QED
  BY <1>1, <1>2

\* The place of a volume goes on from that of the volume it is in.
LEMMA OneThenTwo ==
  ASSUME NEW a, NEW b, NEW d
  PROVE  <<a>> \o <<b, d>> = <<a, b, d>>
<1> DEFINE x == <<a>> \o <<b, d>>
<1>1. <<a>> \in Seq({a, b, d}) /\ <<b, d>> \in Seq({a, b, d})
  OBVIOUS
<1>2. Len(x) = 3
  OBVIOUS
<1>3. x[1] = a /\ x[2] = b /\ x[3] = d
  OBVIOUS
<1>4. x \in Seq({a, b, d})
  BY <1>1
<1>5. x = [i \in 1..3 |-> x[i]]
  BY <1>2, <1>4
<1>6. <<a, b, d>> = [i \in 1..3 |-> <<a, b, d>>[i]]
  OBVIOUS
<1> HIDE DEF x
<1>7. \A i \in 1..3 : x[i] = <<a, b, d>>[i]
  BY <1>3
<1>8. [i \in 1..3 |-> x[i]] = [i \in 1..3 |-> <<a, b, d>>[i]]
  BY <1>7
<1> QED
  BY <1>5, <1>6, <1>8, Zenon DEF x

LEMMA ThreeThenTwo ==
  ASSUME NEW a, NEW b, NEW d, NEW e, NEW f
  PROVE  <<a, b, d>> \o <<e, f>> = <<a, b, d, e, f>>
<1> DEFINE x == <<a, b, d>> \o <<e, f>>
<1>1. <<a, b, d>> \in Seq({a, b, d, e, f}) /\ <<e, f>> \in Seq({a, b, d, e, f})
  OBVIOUS
<1>2. Len(x) = 5
  OBVIOUS
<1>3. x[1] = a /\ x[2] = b /\ x[3] = d /\ x[4] = e /\ x[5] = f
  OBVIOUS
<1>4. x \in Seq({a, b, d, e, f})
  BY <1>1
<1>5. x = [i \in 1..5 |-> x[i]]
  BY <1>2, <1>4
<1>6. <<a, b, d, e, f>> = [i \in 1..5 |-> <<a, b, d, e, f>>[i]]
  OBVIOUS
<1> HIDE DEF x
<1>7. \A i \in 1..5 : x[i] = <<a, b, d, e, f>>[i]
  BY <1>3
<1>8. [i \in 1..5 |-> x[i]] = [i \in 1..5 |-> <<a, b, d, e, f>>[i]]
  BY <1>7
<1> QED
  BY <1>5, <1>6, <1>8, Zenon DEF x

LEMMA OneThenFour ==
  ASSUME NEW a, NEW b, NEW d, NEW e, NEW f
  PROVE  <<a>> \o <<b, d, e, f>> = <<a, b, d, e, f>>
<1> DEFINE x == <<a>> \o <<b, d, e, f>>
<1>1. <<a>> \in Seq({a, b, d, e, f}) /\ <<b, d, e, f>> \in Seq({a, b, d, e, f})
  OBVIOUS
<1>2. Len(x) = 5
  OBVIOUS
<1>3. x[1] = a /\ x[2] = b /\ x[3] = d /\ x[4] = e /\ x[5] = f
  OBVIOUS
<1>4. x \in Seq({a, b, d, e, f})
  BY <1>1
<1>5. x = [i \in 1..5 |-> x[i]]
  BY <1>2, <1>4
<1>6. <<a, b, d, e, f>> = [i \in 1..5 |-> <<a, b, d, e, f>>[i]]
  OBVIOUS
<1> HIDE DEF x
<1>7. \A i \in 1..5 : x[i] = <<a, b, d, e, f>>[i]
  BY <1>3
<1>8. [i \in 1..5 |-> x[i]] = [i \in 1..5 |-> <<a, b, d, e, f>>[i]]
  BY <1>7
<1> QED
  BY <1>5, <1>6, <1>8, Zenon DEF x

LEMMA TwoThenThree ==
  ASSUME NEW a, NEW b, NEW d, NEW e, NEW f
  PROVE  <<a, b>> \o <<d, e, f>> = <<a, b, d, e, f>>
<1> DEFINE x == <<a, b>> \o <<d, e, f>>
<1>1. <<a, b>> \in Seq({a, b, d, e, f}) /\ <<d, e, f>> \in Seq({a, b, d, e, f})
  OBVIOUS
<1>2. Len(x) = 5
  OBVIOUS
<1>3. x[1] = a /\ x[2] = b /\ x[3] = d /\ x[4] = e /\ x[5] = f
  OBVIOUS
<1>4. x \in Seq({a, b, d, e, f})
  BY <1>1
<1>5. x = [i \in 1..5 |-> x[i]]
  BY <1>2, <1>4
<1>6. <<a, b, d, e, f>> = [i \in 1..5 |-> <<a, b, d, e, f>>[i]]
  OBVIOUS
<1> HIDE DEF x
<1>7. \A i \in 1..5 : x[i] = <<a, b, d, e, f>>[i]
  BY <1>3
<1>8. [i \in 1..5 |-> x[i]] = [i \in 1..5 |-> <<a, b, d, e, f>>[i]]
  BY <1>7
<1> QED
  BY <1>5, <1>6, <1>8, Zenon DEF x

-----------------------------------------------------------------------------
(* Silicon discs.                                                          *)

EndcapTypes ==
  {"TrackerEndcap_o1_v01", "TrackerEndcap_o1_v02", "TrackerEndcap_o1_v03",
   "TrackerEndcap_o1_v04", "TrackerEndcap_o1_v05", "TrackerEndcap_o2_v04",
   "TrackerEndcap_o2_v05", "TrackerEndcap_o2_v06", "TrackerEndcap_o2_v07",
   "SiTrackerEndcap_o2_v01", "SiTrackerEndcap_o2_v02", "SiTrackerEndcap_o2_v03",
   "SiTrackerEndcap_o2_v01ext", "SiTrackerEndcap_o2_v02ext",
   "VertexEndcap_o1_v01", "VertexEndcap_o1_v02", "VertexEndcap_o1_v03",
   "VertexEndcap_o1_v04", "VertexEndcap_o1_v05", "VertexEndcap_o1_v06",
   "VertexEndcap_o1_v07"}

\* What the variants of the constructors have in common.
EndcapMakes(type, c, v) ==
  /\ type \in EndcapTypes
  /\ v.side \in {BarrelId, BarrelAndSide, SideId}
  /\ v.numbering \in {"modules", "rings", "rings and slices", "modules of all layers"}
  /\ v.stagger \in {"alternating", "spiral", "spiral back"}
  /\ v.stagger = "spiral back" => v.numbering = "rings"
  /\ v.numbering = "rings" => OneInEachModule(c) \/ v.most = 1
  /\ v.up[1] \in {1, -1}
  /\ type \notin NotTurned => v.up[-1] = 0 - v.up[1]
  /\ v.record \in {"none", "ring", "the only ring", "disk"}
  /\ type \notin WrongRecords =>
       \/ v.centre = "r" /\ v.extent = "half length"
       \/ v.centre = "inner edge" /\ v.extent = "length"

LEMMA EndcapPlacesAre ==
  ASSUME NEW c \in EndcapFiles, NEW p \in EndcapPlaces(c)
  PROVE  LET ring == c.layers[p[2]].rings[p[3]]
             slices == c.modules[ring.module].slices
         IN /\ p = <<p[1], p[2], p[3], p[4], p[5]>>
            /\ p[1] \in {1, -1}
            /\ Len(c.layers) \in Nat /\ DOMAIN c.layers = 1..Len(c.layers)
            /\ p[2] \in DOMAIN c.layers
            /\ Len(c.layers[p[2]].rings) \in Nat
            /\ DOMAIN c.layers[p[2]].rings = 1..Len(c.layers[p[2]].rings)
            /\ p[3] \in DOMAIN c.layers[p[2]].rings
            /\ ring.nmodules \in Nat
            /\ p[4] \in 0..(ring.nmodules - 1)
            /\ ring.module \in DOMAIN c.modules
            /\ IsStack(slices)
            /\ p[5] \in SensitiveOf(slices)
<1>1. IsEndcapFile(c)
  BY EndcapFilesAssumption
<1>2. PICK li \in RingsOf(c) :
        \E side \in Sides(c), k \in 0..(Ring(c, li[1], li[2]).nmodules - 1),
           s \in SensitiveOf(RingModule(c, li[1], li[2]).slices) :
          p = <<side, li[1], li[2], k, s>>
  BY DEF EndcapPlaces
<1>3. li[1] \in DOMAIN c.layers /\ li[2] \in DOMAIN c.layers[li[1]].rings
  BY DEF RingsOf
<1>4. /\ p = <<p[1], li[1], li[2], p[4], p[5]>> /\ p[1] \in Sides(c)
      /\ p[2] = li[1] /\ p[3] = li[2]
      /\ p[4] \in 0..(Ring(c, li[1], li[2]).nmodules - 1)
      /\ p[5] \in SensitiveOf(RingModule(c, li[1], li[2]).slices)
  BY <1>2
<1>5. p[1] \in {1, -1}
  BY <1>1, <1>4 DEF Sides, IsEndcapFile
<1>6. IsList(c.layers) /\ IsList(c.layers[p[2]].rings)
  BY <1>1, <1>3, <1>4 DEF IsEndcapFile
<1>7. c.layers[p[2]].rings[p[3]].nmodules \in Nat /\ c.layers[p[2]].rings[p[3]].module \in DOMAIN c.modules
  BY <1>1, <1>3, <1>4 DEF IsEndcapFile
<1>8. IsStack(c.modules[c.layers[p[2]].rings[p[3]].module].slices)
  BY <1>1, <1>7 DEF IsEndcapFile
<1> QED
  BY <1>3, <1>4, <1>5, <1>6, <1>7, <1>8, Lists DEF Ring, RingModule

\* The side in the ids: in fields of its own, the same on both sides, and different there.
LEMMA SidesDiffer ==
  ASSUME NEW type, NEW c, NEW v, EndcapMakes(type, c, v)
  PROVE  /\ \A side \in {1, -1} :
              /\ DOMAIN v.side[side] \in {{"barrel"}, {"side"}, {"barrel", "side"}}
              /\ DOMAIN v.side[side] = DOMAIN v.side[1]
         /\ \A f \in DOMAIN v.side[1] : v.side[1][f] # v.side[-1][f]
<1>1. v.side \in {BarrelId, BarrelAndSide, SideId}
  BY DEF EndcapMakes
<1>2. CASE v.side = BarrelId
  BY <1>2 DEF BarrelId
<1>3. CASE v.side = BarrelAndSide
  BY <1>3 DEF BarrelAndSide
<1>4. CASE v.side = SideId
  BY <1>4 DEF SideId
<1> QED
  BY <1>1, <1>2, <1>3, <1>4

\* What the ids of a place are besides.
EndcapNumbers(c, v, p) ==
  LET nr == SensitiveNumber(RingModule(c, p[2], p[3]).slices, p[5])
      n == Ring(c, p[2], p[3]).nmodules
      last == IF v.stagger = "spiral back" /\ p[1] = -1 THEN n - 1 - p[4] ELSE p[4]
  IN CASE v.numbering = "modules" ->
            [layer |-> c.layers[p[2]].id, module |-> ModuleNumber(c, p[2], p[3], p[4]),
             sensor |-> nr]
       [] v.numbering = "rings" ->
            [layer |-> c.layers[p[2]].id, module |-> p[3] - 1, sensor |-> last]
       [] v.numbering = "rings and slices" ->
            [layer |-> c.layers[p[2]].id, module |-> p[3] - 1, sensor |-> last,
             slice |-> nr]
       [] v.numbering = "modules of all layers" ->
            [layer |-> p[3] - 1, module |-> ModuleCount(c, p[2], p[3]) + p[4],
             sensor |-> nr]

EndcapIdsOf(c, v, p) == EndcapIds(c, v, p[1], p[2], p[3], p[4], p[5])

EndcapIdsKnown(c, v, p) ==
  /\ DOMAIN EndcapIdsOf(c, v, p) = DOMAIN v.side[1] \cup DOMAIN EndcapNumbers(c, v, p)
  /\ \A f \in DOMAIN v.side[1] : EndcapIdsOf(c, v, p)[f] = v.side[p[1]][f]
  /\ \A f \in DOMAIN EndcapNumbers(c, v, p) : EndcapIdsOf(c, v, p)[f] = EndcapNumbers(c, v, p)[f]
  /\ DOMAIN EndcapNumbers(c, v, p) \subseteq {"layer", "module", "sensor", "slice"}

LEMMA EndcapIdsAre ==
  ASSUME NEW type, NEW c, NEW v, EndcapMakes(type, c, v), NEW p, p[1] \in {1, -1}
  PROVE  EndcapIdsKnown(c, v, p)
<1>1. v.numbering \in {"modules", "rings", "rings and slices", "modules of all layers"}
  BY DEF EndcapMakes
<1>2. EndcapIdsOf(c, v, p) = Joined(v.side[p[1]], EndcapNumbers(c, v, p))
  BY DEF EndcapIdsOf, EndcapNumbers, EndcapIds
<1>3. DOMAIN EndcapNumbers(c, v, p) \subseteq {"layer", "module", "sensor", "slice"}
  BY <1>1 DEF EndcapNumbers
<1>4. /\ DOMAIN v.side[p[1]] \in {{"barrel"}, {"side"}, {"barrel", "side"}}
      /\ DOMAIN v.side[p[1]] = DOMAIN v.side[1]
  BY SidesDiffer
<1>5. DOMAIN v.side[p[1]] \cap DOMAIN EndcapNumbers(c, v, p) = {}
  BY <1>3, <1>4
<1>6. /\ DOMAIN EndcapIdsOf(c, v, p) = DOMAIN v.side[p[1]] \cup DOMAIN EndcapNumbers(c, v, p)
      /\ \A f \in DOMAIN v.side[p[1]] : EndcapIdsOf(c, v, p)[f] = v.side[p[1]][f]
      /\ \A f \in DOMAIN EndcapNumbers(c, v, p) : EndcapIdsOf(c, v, p)[f] = EndcapNumbers(c, v, p)[f]
  <2> DEFINE r == v.side[p[1]]
             s == EndcapNumbers(c, v, p)
             x == EndcapIdsOf(c, v, p)
  <2>1. x = Joined(r, s) /\ DOMAIN r \cap DOMAIN s = {}
    BY <1>2, <1>5
  <2> HIDE DEF r, s, x
  <2>2. /\ DOMAIN x = DOMAIN r \cup DOMAIN s
        /\ \A f \in DOMAIN r : x[f] = r[f]
        /\ \A f \in DOMAIN s : x[f] = s[f]
    BY <2>1, JoinedFields
  <2> QED
    BY <2>2 DEF r, s, x
<1> QED
  BY <1>3, <1>4, <1>6 DEF EndcapIdsKnown

\* The number of a module as a sum.
RingSizes(c, l) == [i \in 1..Len(c.layers[l].rings) |-> c.layers[l].rings[i].nmodules]

LEMMA RingSizesAre ==
  ASSUME NEW c \in EndcapFiles, NEW l \in DOMAIN c.layers
  PROVE  /\ Len(c.layers[l].rings) \in Nat
         /\ DOMAIN c.layers[l].rings = 1..Len(c.layers[l].rings)
         /\ Len(RingSizes(c, l)) = Len(c.layers[l].rings)
         /\ \A i \in 1..Len(c.layers[l].rings) :
              /\ RingSizes(c, l)[i] = c.layers[l].rings[i].nmodules
              /\ c.layers[l].rings[i].nmodules \in Nat
<1>1. IsEndcapFile(c)
  BY EndcapFilesAssumption
<1>2. IsList(c.layers[l].rings)
  BY <1>1 DEF IsEndcapFile
<1>3. Len(c.layers[l].rings) \in Nat /\ DOMAIN c.layers[l].rings = 1..Len(c.layers[l].rings)
  BY <1>2, Lists
<1>4. \A i \in 1..Len(c.layers[l].rings) : c.layers[l].rings[i].nmodules \in Nat
  BY <1>1, <1>3 DEF IsEndcapFile
<1>5. DOMAIN RingSizes(c, l) = 1..Len(c.layers[l].rings)
  BY DEF RingSizes
<1>6. Len(RingSizes(c, l)) = Len(c.layers[l].rings)
  BY <1>3, <1>5, LenOfRow
<1> QED
  BY <1>3, <1>4, <1>6 DEF RingSizes

LEMMA ModuleNumberIs ==
  ASSUME NEW c \in EndcapFiles, NEW l \in DOMAIN c.layers, NEW i \in DOMAIN c.layers[l].rings, NEW k
  PROVE  ModuleNumber(c, l, i, k) = 1 + Sums(RingSizes(c, l))[i - 1] + k
<1> DEFINE u == [j \in 1..(i - 1) |-> Ring(c, l, j).nmodules]
<1>1. Len(RingSizes(c, l)) \in Nat /\ i - 1 \in 0..Len(RingSizes(c, l)) /\ i - 1 \in Nat
  BY RingSizesAre
<1>2. DOMAIN u = 1..(i - 1) /\ \A j \in 1..(i - 1) : u[j] = RingSizes(c, l)[j]
  BY <1>1, RingSizesAre DEF Ring
<1>3. Total(u) = Sums(RingSizes(c, l))[i - 1]
  <2> HIDE DEF u
  <2> QED
    BY <1>1, <1>2, SumOfFirst
<1>4. ModuleNumber(c, l, i, k) = 1 + Total(u) + k
  BY DEF ModuleNumber, Sum
<1> QED
  BY <1>3, <1>4

\* The modules of a ring in each layer, none where there is no such ring.
LayerSizes(c, i) ==
  [l \in 1..Len(c.layers) |->
     IF i \in DOMAIN c.layers[l].rings THEN c.layers[l].rings[i].nmodules ELSE 0]

LEMMA LayerSizesAre ==
  ASSUME NEW c \in EndcapFiles, NEW i
  PROVE  /\ Len(c.layers) \in Nat /\ DOMAIN c.layers = 1..Len(c.layers)
         /\ Len(LayerSizes(c, i)) = Len(c.layers)
         /\ \A l \in 1..Len(c.layers) :
              /\ LayerSizes(c, i)[l] \in Nat
              /\ LayerSizes(c, i)[l] = IF i \in DOMAIN c.layers[l].rings THEN c.layers[l].rings[i].nmodules ELSE 0
<1>1. IsEndcapFile(c)
  BY EndcapFilesAssumption
<1>2. IsList(c.layers)
  BY <1>1 DEF IsEndcapFile
<1>3. Len(c.layers) \in Nat /\ DOMAIN c.layers = 1..Len(c.layers)
  BY <1>2, Lists
<1>4. \A l \in 1..Len(c.layers) : i \in DOMAIN c.layers[l].rings => c.layers[l].rings[i].nmodules \in Nat
  BY <1>1, <1>3 DEF IsEndcapFile
<1>5. DOMAIN LayerSizes(c, i) = 1..Len(c.layers)
  BY DEF LayerSizes
<1>6. Len(LayerSizes(c, i)) = Len(c.layers)
  BY <1>3, <1>5, LenOfRow
<1> QED
  BY <1>3, <1>4, <1>6 DEF LayerSizes

LEMMA ModuleCountIs ==
  ASSUME NEW c \in EndcapFiles, NEW l \in DOMAIN c.layers, NEW i
  PROVE  ModuleCount(c, l, i) = Sums(LayerSizes(c, i))[l - 1]
<1> DEFINE u == [m \in 1..(l - 1) |-> IF i \in DOMAIN c.layers[m].rings
                                      THEN Ring(c, m, i).nmodules ELSE 0]
<1>1. Len(LayerSizes(c, i)) \in Nat /\ l - 1 \in 0..Len(LayerSizes(c, i)) /\ l - 1 \in Nat
  BY LayerSizesAre
<1>2. DOMAIN u = 1..(l - 1) /\ \A j \in 1..(l - 1) : u[j] = LayerSizes(c, i)[j]
  BY <1>1, LayerSizesAre DEF Ring
<1>3. Total(u) = Sums(LayerSizes(c, i))[l - 1]
  <2> HIDE DEF u
  <2> QED
    BY <1>1, <1>2, SumOfFirst
<1>4. ModuleCount(c, l, i) = Total(u)
  BY DEF ModuleCount, Sum
<1> QED
  BY <1>3, <1>4

LEMMA ModulesNumberedOn ==
  ASSUME NEW c \in EndcapFiles, NEW l \in DOMAIN c.layers,
         NEW i \in DOMAIN c.layers[l].rings, NEW j \in DOMAIN c.layers[l].rings,
         NEW k \in 0..(c.layers[l].rings[i].nmodules - 1),
         NEW m \in 0..(c.layers[l].rings[j].nmodules - 1),
         ModuleNumber(c, l, i, k) = ModuleNumber(c, l, j, m)
  PROVE  i = j /\ k = m
<1> DEFINE t == RingSizes(c, l)
<1>1. /\ Len(t) = Len(c.layers[l].rings) /\ Len(t) \in Nat
      /\ DOMAIN c.layers[l].rings = 1..Len(t)
      /\ \A x \in 1..Len(t) : t[x] = c.layers[l].rings[x].nmodules /\ t[x] \in Nat
  BY RingSizesAre
<1>2. /\ ModuleNumber(c, l, i, k) = 1 + Sums(t)[i - 1] + k
      /\ ModuleNumber(c, l, j, m) = 1 + Sums(t)[j - 1] + m
  BY ModuleNumberIs
<1> HIDE DEF t
<1>3. i \in 1..Len(t) /\ j \in 1..Len(t)
  BY <1>1
<1>9. /\ i - 1 \in 0..Len(t) /\ j - 1 \in 0..Len(t)
      /\ k \in Nat /\ m \in Nat /\ k < t[i] /\ m < t[j]
  <2>1. i - 1 \in 0..Len(t) /\ j - 1 \in 0..Len(t)
    BY <1>1, <1>3
  <2>2. t[i] \in Nat /\ t[i] = c.layers[l].rings[i].nmodules
    BY <1>1, <1>3, Zenon
  <2>3. t[j] \in Nat /\ t[j] = c.layers[l].rings[j].nmodules
    BY <1>1, <1>3
  <2>4. k \in Nat /\ k < t[i]
    BY <2>2
  <2>5. m \in Nat /\ m < t[j]
    BY <2>3
  <2> QED
    BY <2>1, <2>4, <2>5
<1>4. Sums(t)[i - 1] \in Nat /\ Sums(t)[j - 1] \in Nat
  BY <1>1, <1>9, SumsGrow, Zenon
<1>5. 1 + Sums(t)[i - 1] + k = 1 + Sums(t)[j - 1] + m
  BY <1>2, Zenon
<1>6. Sums(t)[i - 1] + k = Sums(t)[j - 1] + m
  <2>1. PICK a \in Nat : a = Sums(t)[i - 1]
    BY <1>4
  <2>2. PICK b \in Nat : b = Sums(t)[j - 1]
    BY <1>4
  <2>3. 1 + a + k = 1 + b + m
    BY <1>5, <2>1, <2>2
  <2>4. k \in Nat /\ m \in Nat
    BY <1>9
  <2>5. a + k = b + m
    BY <2>3, <2>4
  <2> QED
    BY <2>1, <2>2, <2>5
<1>7. Len(t) \in Nat /\ \A x \in 1..Len(t) : t[x] \in Nat
  BY <1>1
<1>8. i \in 1..Len(t) /\ j \in 1..Len(t) /\ k \in Nat /\ m \in Nat /\ k < t[i] /\ m < t[j]
  BY <1>3, <1>9
<1> QED
  BY <1>6, <1>7, <1>8, NumberedOn, Zenon

LEMMA ModulesCountedOn ==
  ASSUME NEW c \in EndcapFiles, NEW l \in DOMAIN c.layers, NEW m \in DOMAIN c.layers,
         NEW i, i \in DOMAIN c.layers[l].rings, i \in DOMAIN c.layers[m].rings,
         NEW j \in 0..(c.layers[l].rings[i].nmodules - 1),
         NEW k \in 0..(c.layers[m].rings[i].nmodules - 1),
         ModuleCount(c, l, i) + j = ModuleCount(c, m, i) + k
  PROVE  l = m /\ j = k
<1> DEFINE t == LayerSizes(c, i)
<1>1. /\ Len(t) = Len(c.layers) /\ Len(t) \in Nat
      /\ DOMAIN c.layers = 1..Len(t)
      /\ \A x \in 1..Len(t) : t[x] \in Nat
  BY LayerSizesAre, Zenon
<1>2. t[l] = c.layers[l].rings[i].nmodules /\ t[m] = c.layers[m].rings[i].nmodules
  BY <1>1, LayerSizesAre, Zenon
<1>3. /\ ModuleCount(c, l, i) = Sums(t)[l - 1]
      /\ ModuleCount(c, m, i) = Sums(t)[m - 1]
  BY ModuleCountIs
<1> HIDE DEF t
<1>4. /\ l \in 1..Len(t) /\ m \in 1..Len(t)
      /\ j \in Nat /\ k \in Nat /\ j < t[l] /\ k < t[m]
  BY <1>1, <1>2
<1>5. Sums(t)[l - 1] + j = Sums(t)[m - 1] + k
  BY <1>3
<1> QED
  BY <1>1, <1>4, <1>5, NumberedOn, Zenon

EndcapLast(c, v, p) ==
  IF v.stagger = "spiral back" /\ p[1] = -1
  THEN c.layers[p[2]].rings[p[3]].nmodules - 1 - p[4] ELSE p[4]

\* The ids but for the side tell all of a place but the side.
LEMMA EndcapNumbersTell ==
  ASSUME NEW type, NEW c \in EndcapFiles, NEW v, EndcapMakes(type, c, v),
         \/ v.numbering # "rings"
         \/ \A m \in DOMAIN c.modules : Cardinality(SensitiveOf(c.modules[m].slices)) <= 1,
         NEW p \in EndcapPlaces(c), NEW q \in EndcapPlaces(c),
         \A f \in DOMAIN EndcapNumbers(c, v, p) : EndcapNumbers(c, v, p)[f] = EndcapNumbers(c, v, q)[f]
  PROVE  p[2] = q[2] /\ p[3] = q[3] /\ p[5] = q[5] /\ EndcapLast(c, v, p) = EndcapLast(c, v, q)
<1> DEFINE slices(x) == c.modules[c.layers[x[2]].rings[x[3]].module].slices
           nr(x) == SensitiveNumber(slices(x), x[5])
<1>1. /\ v.numbering \in {"modules", "rings", "rings and slices", "modules of all layers"}
      /\ v.stagger = "spiral back" => v.numbering = "rings"
  BY DEF EndcapMakes
<1>2. /\ p[2] \in DOMAIN c.layers /\ p[3] \in DOMAIN c.layers[p[2]].rings
      /\ q[2] \in DOMAIN c.layers /\ q[3] \in DOMAIN c.layers[q[2]].rings
  BY EndcapPlacesAre
<1>11. /\ p[4] \in 0..(c.layers[p[2]].rings[p[3]].nmodules - 1)
       /\ q[4] \in 0..(c.layers[q[2]].rings[q[3]].nmodules - 1)
  BY EndcapPlacesAre
<1>12. p[3] \in Nat /\ q[3] \in Nat
  <2>1. /\ DOMAIN c.layers[p[2]].rings = 1..Len(c.layers[p[2]].rings)
        /\ DOMAIN c.layers[q[2]].rings = 1..Len(c.layers[q[2]].rings)
        /\ Len(c.layers[p[2]].rings) \in Nat /\ Len(c.layers[q[2]].rings) \in Nat
    BY EndcapPlacesAre
  <2> QED
    BY <1>2, <2>1
<1>13. /\ IsStack(slices(p)) /\ p[5] \in SensitiveOf(slices(p))
       /\ IsStack(slices(q)) /\ q[5] \in SensitiveOf(slices(q))
  BY EndcapPlacesAre
<1>14. c.layers[p[2]].rings[p[3]].module \in DOMAIN c.modules
  BY EndcapPlacesAre
<1>3. IsEndcapFile(c)
  BY EndcapFilesAssumption
<1>4. \A l, m \in DOMAIN c.layers : c.layers[l].id = c.layers[m].id => l = m
  BY <1>3 DEF IsEndcapFile, DistinctIds
<1>5. \A x \in {p, q} : SensitiveNumber(RingModule(c, x[2], x[3]).slices, x[5]) = nr(x)
  BY DEF RingModule, Ring
<1>6. CASE v.numbering = "modules"
  <2>1. c.layers[p[2]].id = c.layers[q[2]].id
    BY <1>6 DEF EndcapNumbers
  <2>2. p[2] = q[2]
    BY <1>2, <1>4, <2>1
  <2>3. ModuleNumber(c, p[2], p[3], p[4]) = ModuleNumber(c, q[2], q[3], q[4])
    BY <1>6 DEF EndcapNumbers
  <2>4. ModuleNumber(c, p[2], p[3], p[4]) = ModuleNumber(c, p[2], q[3], q[4])
    BY <2>2, <2>3
  <2>5. p[3] \in DOMAIN c.layers[p[2]].rings /\ q[3] \in DOMAIN c.layers[p[2]].rings
    BY <1>2, <2>2
  <2>6. /\ p[4] \in 0..(c.layers[p[2]].rings[p[3]].nmodules - 1)
        /\ q[4] \in 0..(c.layers[p[2]].rings[q[3]].nmodules - 1)
    BY <1>11, <2>2
  <2> DEFINE l == p[2]
             i == p[3]
             j == q[3]
             m == p[4]
             k == q[4]
  <2>7. /\ l \in DOMAIN c.layers
        /\ i \in DOMAIN c.layers[l].rings /\ j \in DOMAIN c.layers[l].rings
        /\ m \in 0..(c.layers[l].rings[i].nmodules - 1)
        /\ k \in 0..(c.layers[l].rings[j].nmodules - 1)
        /\ ModuleNumber(c, l, i, m) = ModuleNumber(c, l, j, k)
    BY <1>2, <2>4, <2>5, <2>6
  <2>8. p[3] = q[3] /\ p[4] = q[4]
    <3> HIDE DEF l, i, j, m, k
    <3>1. i = j /\ m = k
      BY <2>7, ModulesNumberedOn
    <3> QED
      BY <3>1 DEF i, j, m, k
  <2>9. nr(p) = nr(q)
    BY <1>5, <1>6 DEF EndcapNumbers
  <2>10. p[5] = q[5]
    <3>1. slices(p) = slices(q)
      BY <2>2, <2>8
    <3> HIDE DEF slices
    <3> QED
      BY <1>13, <2>9, <3>1, SensitiveNumbersDiffer
  <2> QED
    BY <1>1, <1>6, <2>2, <2>8, <2>10 DEF EndcapLast
<1>7. CASE v.numbering = "modules of all layers"
  <2>1. p[3] - 1 = q[3] - 1
    BY <1>7 DEF EndcapNumbers
  <2>2. p[3] = q[3]
    BY <1>12, <2>1
  <2>3. ModuleCount(c, p[2], p[3]) + p[4] = ModuleCount(c, q[2], q[3]) + q[4]
    BY <1>7 DEF EndcapNumbers
  <2>4. ModuleCount(c, p[2], p[3]) + p[4] = ModuleCount(c, q[2], p[3]) + q[4]
    BY <2>2, <2>3
  <2>5. p[3] \in DOMAIN c.layers[p[2]].rings /\ p[3] \in DOMAIN c.layers[q[2]].rings
    BY <1>2, <2>2
  <2>9. /\ p[4] \in 0..(c.layers[p[2]].rings[p[3]].nmodules - 1)
        /\ q[4] \in 0..(c.layers[q[2]].rings[p[3]].nmodules - 1)
    BY <1>11, <2>2
  <2>6. p[2] = q[2] /\ p[4] = q[4]
    BY <1>2, <2>4, <2>5, <2>9, ModulesCountedOn
  <2>7. nr(p) = nr(q)
    BY <1>5, <1>7 DEF EndcapNumbers
  <2>8. p[5] = q[5]
    <3>1. slices(p) = slices(q)
      BY <2>2, <2>6
    <3> HIDE DEF slices
    <3> QED
      BY <1>13, <2>7, <3>1, SensitiveNumbersDiffer
  <2> QED
    BY <1>1, <1>7, <2>2, <2>6, <2>8 DEF EndcapLast
<1>8. CASE v.numbering \in {"rings", "rings and slices"}
  <2>1. c.layers[p[2]].id = c.layers[q[2]].id /\ p[3] - 1 = q[3] - 1
    BY <1>8 DEF EndcapNumbers
  <2>2. p[2] = q[2] /\ p[3] = q[3]
    BY <1>2, <1>4, <1>12, <2>1
  <2>6. slices(p) = slices(q)
    BY <2>2
  <2>3. EndcapLast(c, v, p) = EndcapLast(c, v, q)
    BY <1>8 DEF EndcapNumbers, EndcapLast, Ring
  <2>4. CASE v.numbering = "rings and slices"
    <3>1. nr(p) = nr(q)
      BY <1>5, <2>4 DEF EndcapNumbers
    <3>2. p[5] = q[5]
      <4> HIDE DEF slices
      <4> QED
        BY <1>13, <2>6, <3>1, SensitiveNumbersDiffer
    <3> QED
      BY <2>2, <2>3, <3>2
  <2>5. CASE v.numbering = "rings"
    <3>1. Cardinality(SensitiveOf(slices(p))) <= 1
      BY <1>14, <2>5
    <3>2. p[5] = q[5]
      <4> HIDE DEF slices
      <4> QED
        BY <1>13, <2>6, <3>1, TheSensitiveSlice
    <3> QED
      BY <2>2, <2>3, <3>2
  <2> QED
    BY <1>8, <2>4, <2>5
<1> QED
  BY <1>1, <1>6, <1>7, <1>8

EndcapIsOf(s, c, v, p) == s = EndcapSensor(c, v, p[1], p[2], p[3], p[4], p[5])

LEMMA EndcapSensors ==
  ASSUME NEW type, NEW c \in EndcapFiles, NEW v, EndcapMakes(type, c, v),
         NEW s \in Endcap(c, v).sensors
  PROVE  /\ \E p \in EndcapPlaces(c) : EndcapIsOf(s, c, v, p)
         /\ (v.numbering # "rings" \/ \A m \in DOMAIN c.modules : Cardinality(SensitiveOf(c.modules[m].slices)) <= 1)
<1>1. s \notin Thrown.sensors
  BY DEF Thrown
<1>2. Endcap(c, v) # Thrown
  BY <1>1
<1>3. ~ \E m \in DOMAIN c.modules : Cardinality(SensitiveOf(c.modules[m].slices)) > v.most
  BY <1>2 DEF Endcap
<1>4. s \in {EndcapSensor(c, v, p[1], p[2], p[3], p[4], p[5]) : p \in EndcapPlaces(c)}
  BY <1>2 DEF Endcap
<1>5. \E p \in EndcapPlaces(c) : EndcapIsOf(s, c, v, p)
  BY <1>4 DEF EndcapIsOf
<1>6. \A m \in DOMAIN c.modules : Cardinality(SensitiveOf(c.modules[m].slices)) \in Nat
  <2> TAKE m \in DOMAIN c.modules
  <2>1. IsStack(c.modules[m].slices)
    BY EndcapFilesAssumption DEF IsEndcapFile
  <2> QED
    BY <2>1, Stacks, FS_CardinalityType
<1>7. CASE v.numbering = "rings"
  <2>1. OneInEachModule(c) \/ v.most = 1
    BY <1>7 DEF EndcapMakes
  <2>2. CASE OneInEachModule(c)
    <3>1. \A m \in DOMAIN c.modules : Cardinality(SensitiveOf(c.modules[m].slices)) = 1
      BY <2>2 DEF OneInEachModule
    <3> QED
      BY <1>5, <3>1
  <2>3. CASE v.most = 1
    BY <1>3, <1>5, <1>6, <2>3
  <2> QED
    BY <2>1, <2>2, <2>3
<1> QED
  BY <1>5, <1>7

LEMMA EndcapCellIds ==
  ASSUME NEW type, NEW c \in EndcapFiles, NEW v, EndcapMakes(type, c, v),
         NEW s \in Endcap(c, v).sensors, NEW t \in Endcap(c, v).sensors, s.ids = t.ids
  PROVE  s = t
<1>1. PICK p \in EndcapPlaces(c) : EndcapIsOf(s, c, v, p)
  BY EndcapSensors, Zenon
<1>2. PICK q \in EndcapPlaces(c) : EndcapIsOf(t, c, v, q)
  BY EndcapSensors, Zenon
<1>3. EndcapIdsOf(c, v, p) = EndcapIdsOf(c, v, q)
  BY <1>1, <1>2 DEF EndcapIsOf, EndcapSensor, EndcapIdsOf
<1>4. p[1] \in {1, -1} /\ q[1] \in {1, -1}
  BY EndcapPlacesAre
<1>40. EndcapIdsKnown(c, v, p) /\ EndcapIdsKnown(c, v, q)
  BY <1>4, EndcapIdsAre
<1>41. /\ \A f \in DOMAIN v.side[1] : EndcapIdsOf(c, v, p)[f] = v.side[p[1]][f]
       /\ \A f \in DOMAIN EndcapNumbers(c, v, p) : EndcapIdsOf(c, v, p)[f] = EndcapNumbers(c, v, p)[f]
  BY <1>40 DEF EndcapIdsKnown
<1>42. /\ \A f \in DOMAIN v.side[1] : EndcapIdsOf(c, v, q)[f] = v.side[q[1]][f]
       /\ \A f \in DOMAIN EndcapNumbers(c, v, q) : EndcapIdsOf(c, v, q)[f] = EndcapNumbers(c, v, q)[f]
  BY <1>40 DEF EndcapIdsKnown
<1>5. p[1] = q[1]
  <2>1. \A f \in DOMAIN v.side[1] : v.side[1][f] # v.side[-1][f]
    BY SidesDiffer
  <2>2. PICK f \in DOMAIN v.side[1] : TRUE
    BY SidesDiffer
  <2>3. v.side[p[1]][f] = v.side[q[1]][f]
    BY <1>3, <1>41, <1>42, <2>2
  <2> QED
    BY <1>4, <2>1, <2>2, <2>3
<1>6. \A f \in DOMAIN EndcapNumbers(c, v, p) : EndcapNumbers(c, v, p)[f] = EndcapNumbers(c, v, q)[f]
  <2>1. DOMAIN EndcapNumbers(c, v, p) = DOMAIN EndcapNumbers(c, v, q)
    <3>1. v.numbering \in {"modules", "rings", "rings and slices", "modules of all layers"}
      BY DEF EndcapMakes
    <3> QED
      BY <3>1 DEF EndcapNumbers
  <2> QED
    BY <1>3, <1>41, <1>42, <2>1
<1>7. v.numbering # "rings" \/ \A m \in DOMAIN c.modules : Cardinality(SensitiveOf(c.modules[m].slices)) <= 1
  BY EndcapSensors, Zenon
<1>8. p[2] = q[2] /\ p[3] = q[3] /\ p[5] = q[5] /\ EndcapLast(c, v, p) = EndcapLast(c, v, q)
  BY <1>6, <1>7, EndcapNumbersTell
<1>9. p[4] = q[4]
  <2>1. /\ c.layers[p[2]].rings[p[3]].nmodules \in Nat
        /\ p[4] \in 0..(c.layers[p[2]].rings[p[3]].nmodules - 1)
    BY EndcapPlacesAre
  <2>2. q[4] \in 0..(c.layers[q[2]].rings[q[3]].nmodules - 1)
    BY EndcapPlacesAre
  <2> DEFINE n == c.layers[p[2]].rings[p[3]].nmodules
  <2>3. c.layers[q[2]].rings[q[3]].nmodules = n
    BY <1>8
  <2>4. \/ p[4] = q[4]
        \/ n - 1 - p[4] = n - 1 - q[4]
    BY <1>5, <1>8, <2>3 DEF EndcapLast
  <2>5. n \in Nat /\ p[4] \in Int /\ q[4] \in Int
    BY <2>1, <2>2, <2>3
  <2> HIDE DEF n
  <2> QED
    BY <2>4, <2>5
<1> QED
  BY <1>1, <1>2, <1>5, <1>8, <1>9 DEF EndcapIsOf

LEMMA Opposite ==
  ASSUME NEW x \in Int, NEW m \in Int, NEW a \in {1, -1}, NEW u \in {1, -1}, NEW s, NEW t,
         s = a * 2 * x + u * m, t = (0 - a) * 2 * x + (0 - u) * m
  PROVE  t = -s
<1>1. CASE a = 1 /\ u = 1
  BY <1>1
<1>2. CASE a = 1 /\ u = -1
  BY <1>2
<1>3. CASE a = -1 /\ u = 1
  BY <1>3
<1>4. CASE a = -1 /\ u = -1
  BY <1>4
<1> QED
  BY <1>1, <1>2, <1>3, <1>4

\* The same place on the other side.
LEMMA EndcapOpposite ==
  ASSUME NEW type, NEW c \in EndcapFiles, NEW v, EndcapMakes(type, c, v), type \notin NotTurned,
         NEW p \in EndcapPlaces(c), NEW q \in EndcapPlaces(c), p[1] # q[1],
         p[2] = q[2], p[3] = q[3], p[5] = q[5], EndcapLast(c, v, p) = EndcapLast(c, v, q),
         NEW s, EndcapIsOf(s, c, v, p), NEW t, EndcapIsOf(t, c, v, q)
  PROVE  t.pos = -s.pos
<1> DEFINE ring == c.layers[p[2]].rings[p[3]]
           slices == c.modules[ring.module].slices
           n == ring.nmodules
           m == Stacked(slices)[p[5]].middle
           x == ring.zstart + Shift(v, p[1], ring, p[4])
           y == ring.zstart + Shift(v, q[1], ring, q[4])
<1>1. p[1] \in {1, -1} /\ q[1] \in {1, -1} /\ n \in Nat /\ p[4] \in 0..(n - 1)
  BY EndcapPlacesAre
<1>2. q[4] \in 0..(n - 1)
  BY EndcapPlacesAre
<1>3. ring.zstart \in Int /\ ring.dz \in Int
  <2>1. p[2] \in DOMAIN c.layers /\ p[3] \in DOMAIN c.layers[p[2]].rings
    BY EndcapPlacesAre
  <2> QED
    BY <2>1, EndcapFilesAssumption DEF IsEndcapFile
<1>4. m \in Int
  <2>1. IsStack(slices) /\ p[5] \in SensitiveOf(slices)
    BY EndcapPlacesAre
  <2> HIDE DEF slices
  <2> QED
    BY <2>1, StackedIs DEF SensitiveOf
<1>5. v.stagger \in {"alternating", "spiral", "spiral back"} /\ v.up[1] \in {1, -1} /\ v.up[-1] = 0 - v.up[1]
  BY DEF EndcapMakes
<1>6. Shift(v, p[1], ring, p[4]) = Shift(v, q[1], ring, q[4]) /\ Shift(v, p[1], ring, p[4]) \in Int
  <2> HIDE DEF ring
  <2>0. p[4] \in Nat /\ q[4] \in Nat /\ ring.nmodules \in Nat
    BY <1>1, <1>2
  <2>1. CASE v.stagger = "alternating"
    <3>1. p[4] = q[4]
      BY <2>1 DEF EndcapLast
    <3> QED
      BY <1>3, <2>0, <2>1, <3>1 DEF Shift
  <2>3. CASE v.stagger = "spiral"
    <3>1. p[4] = q[4]
      BY <2>3 DEF EndcapLast
    <3>2. Shift(v, p[1], ring, p[4]) = ring.dz * p[4] /\ Shift(v, q[1], ring, q[4]) = ring.dz * p[4]
      BY <2>3, <3>1 DEF Shift
    <3> QED
      BY <1>3, <2>0, <3>2
  <2>2. CASE v.stagger = "spiral back"
    <3>1. /\ EndcapLast(c, v, p) = IF p[1] = -1 THEN ring.nmodules - 1 - p[4] ELSE p[4]
          /\ EndcapLast(c, v, q) = IF q[1] = -1 THEN ring.nmodules - 1 - q[4] ELSE q[4]
      BY <2>2 DEF EndcapLast, ring
    <3>2. /\ Shift(v, p[1], ring, p[4]) = ring.dz * (IF p[1] = 1 THEN p[4] ELSE ring.nmodules - 1 - p[4])
          /\ Shift(v, q[1], ring, q[4]) = ring.dz * (IF q[1] = 1 THEN q[4] ELSE ring.nmodules - 1 - q[4])
      BY <2>2 DEF Shift
    <3>3. CASE p[1] = 1
      <4>1. q[1] = -1 /\ p[4] = ring.nmodules - 1 - q[4]
        BY <1>1, <3>1, <3>3, Zenon
      <4>2. Shift(v, p[1], ring, p[4]) = ring.dz * p[4] /\ Shift(v, q[1], ring, q[4]) = ring.dz * p[4]
        BY <3>2, <3>3, <4>1
      <4> QED
        BY <1>3, <2>0, <4>2
    <3>4. CASE p[1] = -1
      <4>1. q[1] = 1 /\ q[4] = ring.nmodules - 1 - p[4]
        BY <1>1, <3>1, <3>4, Zenon
      <4>2. Shift(v, p[1], ring, p[4]) = ring.dz * q[4] /\ Shift(v, q[1], ring, q[4]) = ring.dz * q[4]
        BY <3>2, <3>4, <4>1
      <4> QED
        BY <1>3, <2>0, <4>2
    <3> QED
      BY <1>1, <3>3, <3>4
  <2> QED
    BY <1>5, <2>1, <2>2, <2>3
<1>7. x = y /\ x \in Int
  BY <1>3, <1>6
<1>8. s.pos = p[1] * 2 * x + v.up[p[1]] * m
  BY DEF EndcapIsOf, EndcapSensor, Ring, RingModule
<1>9. t.pos = q[1] * 2 * y + v.up[q[1]] * m
  BY DEF EndcapIsOf, EndcapSensor, Ring, RingModule
<1>18. v.up[1] \in {1, -1} /\ v.up[-1] = 0 - v.up[1]
  BY <1>5
<1>19. (p[1] = 1 /\ q[1] = -1) \/ (p[1] = -1 /\ q[1] = 1)
  BY <1>1
<1>20. q[1] = 0 - p[1]
  BY <1>19
<1>21. v.up[p[1]] \in {1, -1}
  BY <1>18, <1>19
<1>22. v.up[q[1]] = 0 - v.up[p[1]]
  BY <1>18, <1>19
<1> HIDE DEF x, y, m, n, ring
<1>13. s.pos = p[1] * 2 * x + v.up[p[1]] * m /\ t.pos = (0 - p[1]) * 2 * x + (0 - v.up[p[1]]) * m
  BY <1>7, <1>8, <1>9, <1>20, <1>22
<1>14. x \in Int
  BY <1>7
<1>15. PICK a \in {1, -1} : a = p[1]
  BY <1>1
<1>16. PICK u \in {1, -1} : u = v.up[p[1]]
  BY <1>21
<1>17. s.pos = a * 2 * x + u * m /\ t.pos = (0 - a) * 2 * x + (0 - u) * m
  BY <1>13, <1>15, <1>16
<1> QED
  BY <1>4, <1>14, <1>17, Opposite

LEMMA EndcapOtherSide ==
  ASSUME NEW c \in EndcapFiles, NEW v, EndcapMakes(built, c, v), detector = Endcap(c, v)
  PROVE  OtherSideIsMirrored
<1> DEFINE side == {"side", "barrel", "posneg", "subsystem"}
<1>1. built \in EndcapTypes
  BY DEF EndcapMakes
<1>2. built # "CaloThreePartsEndcap_o1_v02"
  BY <1>1 DEF EndcapTypes
<1>3. ASSUME built \notin NotTurned, NEW s \in detector.sensors, NEW t \in detector.sensors,
             \A f \in DOMAIN s.ids : f \in side <=> s.ids[f] # t.ids[f]
      PROVE  t.pos = -s.pos
  <2>1. PICK p \in EndcapPlaces(c) : EndcapIsOf(s, c, v, p)
    BY EndcapSensors, Zenon
  <2>2. PICK q \in EndcapPlaces(c) : EndcapIsOf(t, c, v, q)
    BY EndcapSensors
  <2>3. p[1] \in {1, -1} /\ q[1] \in {1, -1}
    BY EndcapPlacesAre
  <2>4. EndcapIdsKnown(c, v, p) /\ EndcapIdsKnown(c, v, q)
    BY <2>3, EndcapIdsAre
  <2>5. s.ids = EndcapIdsOf(c, v, p) /\ t.ids = EndcapIdsOf(c, v, q)
    BY <2>1, <2>2 DEF EndcapIsOf, EndcapSensor, EndcapIdsOf
  <2>6. p[1] # q[1]
    <3>1. PICK f \in DOMAIN v.side[1] : f \in side
      BY SidesDiffer
    <3>2. f \in DOMAIN s.ids
      BY <2>4, <2>5, <3>1 DEF EndcapIdsKnown
    <3>3. s.ids[f] # t.ids[f]
      BY <1>3, <3>1, <3>2
    <3>4. s.ids[f] = v.side[p[1]][f] /\ t.ids[f] = v.side[q[1]][f]
      BY <2>4, <2>5, <3>1 DEF EndcapIdsKnown
    <3> QED
      BY <3>3, <3>4
  <2>7. \A f \in DOMAIN EndcapNumbers(c, v, p) : EndcapNumbers(c, v, p)[f] = EndcapNumbers(c, v, q)[f]
    <3> SUFFICES ASSUME NEW f \in DOMAIN EndcapNumbers(c, v, p)
                 PROVE  EndcapNumbers(c, v, p)[f] = EndcapNumbers(c, v, q)[f]
      OBVIOUS
    <3>1. f \in DOMAIN s.ids /\ f \notin side /\ s.ids[f] = EndcapNumbers(c, v, p)[f]
      BY <2>4, <2>5 DEF EndcapIdsKnown
    <3>2. DOMAIN EndcapNumbers(c, v, p) = DOMAIN EndcapNumbers(c, v, q)
      <4>1. v.numbering \in {"modules", "rings", "rings and slices", "modules of all layers"}
        BY DEF EndcapMakes
      <4> QED
        BY <4>1 DEF EndcapNumbers
    <3>3. t.ids[f] = EndcapNumbers(c, v, q)[f]
      BY <2>4, <2>5, <3>2 DEF EndcapIdsKnown
    <3>4. s.ids[f] = t.ids[f]
      BY <1>3, <3>1
    <3> QED
      BY <3>1, <3>3, <3>4
  <2>8. v.numbering # "rings" \/ \A m \in DOMAIN c.modules : Cardinality(SensitiveOf(c.modules[m].slices)) <= 1
    BY EndcapSensors, Zenon
  <2>9. p[2] = q[2] /\ p[3] = q[3] /\ p[5] = q[5] /\ EndcapLast(c, v, p) = EndcapLast(c, v, q)
    BY <2>7, <2>8, EndcapNumbersTell
  <2> QED
    BY <1>3, <2>1, <2>2, <2>6, <2>9, EndcapOpposite
<1>4. OtherSideIsMirrored <=>
        (built \notin NotTurned /\ ~OuterWallIsATube =>
           \A s, t \in detector.sensors :
             (/\ DOMAIN s.ids \cap side # {}
              /\ \A f \in DOMAIN s.ids : f \in side <=> s.ids[f] # t.ids[f]
              /\ ~InADisc(s)) => t.pos = -s.pos)
  BY <1>2 DEF OtherSideIsMirrored
<1> QED
  BY <1>3, <1>4

LEMMA EndsIn ==
  UpperEndIn[1] = -1 /\ UpperEndIn[-1] = 1
<1>1. \A x \in {1, -1} : UpperEndIn[x] = -x
  BY DEF UpperEndIn
<1> QED
  BY <1>1

\* One constructor after the other.
EndcapMade ==
  \E c \in EndcapFiles : \E v : EndcapMakes(built, c, v) /\ detector = Endcap(c, v)

LEMMA TrackerEndcap_o1_v01_Makes ==
  ASSUME NEW c \in EndcapFiles, Build("TrackerEndcap_o1_v01", TrackerEndcap_o1_v01(c))
  PROVE  EndcapMade'
<1> DEFINE v == [Variant(BarrelId, "modules", UpperEndIn, "ring") EXCEPT !.most = 2]
<1>1. EndcapMakes("TrackerEndcap_o1_v01", c, v)
  BY EndsIn DEF EndcapMakes, EndcapTypes, NotTurned, WrongRecords, Variant, BarrelId, NoLimit
<1>2. built' = "TrackerEndcap_o1_v01" /\ detector' = Endcap(c, v)
  BY DEF Build, TrackerEndcap_o1_v01
<1> HIDE DEF v
<1> QED
  BY <1>1, <1>2 DEF EndcapMade

LEMMA TrackerEndcap_o1_v02_Makes ==
  ASSUME NEW c \in EndcapFiles, OneInEachModule(c), Build("TrackerEndcap_o1_v02", TrackerEndcap_o1_v02(c))
  PROVE  EndcapMade'
<1> DEFINE v == Variant(BarrelAndSide, "rings", UpperEndIn, "ring")
<1>1. EndcapMakes("TrackerEndcap_o1_v02", c, v)
  BY EndsIn DEF EndcapMakes, EndcapTypes, NotTurned, WrongRecords, Variant, BarrelAndSide, NoLimit
<1>2. built' = "TrackerEndcap_o1_v02" /\ detector' = Endcap(c, v)
  BY DEF Build, TrackerEndcap_o1_v02
<1> HIDE DEF v
<1> QED
  BY <1>1, <1>2 DEF EndcapMade

LEMMA TrackerEndcap_o1_v03_Makes ==
  ASSUME NEW c \in EndcapFiles, OneInEachModule(c), Build("TrackerEndcap_o1_v03", TrackerEndcap_o1_v03(c))
  PROVE  EndcapMade'
<1> DEFINE v == Variant(BarrelAndSide, "rings", UpperEndOut, "ring")
<1>1. EndcapMakes("TrackerEndcap_o1_v03", c, v)
  BY DEF EndcapMakes, EndcapTypes, NotTurned, WrongRecords, Variant, BarrelAndSide, UpperEndOut, NoLimit
<1>2. built' = "TrackerEndcap_o1_v03" /\ detector' = Endcap(c, v)
  BY DEF Build, TrackerEndcap_o1_v03
<1> HIDE DEF v
<1> QED
  BY <1>1, <1>2 DEF EndcapMade

LEMMA TrackerEndcap_o1_v04_Makes ==
  ASSUME NEW c \in EndcapFiles, OneInEachModule(c), Build("TrackerEndcap_o1_v04", TrackerEndcap_o1_v04(c))
  PROVE  EndcapMade'
<1> DEFINE v == Variant(BarrelAndSide, "rings", UpperEndOut, "disk")
<1>1. EndcapMakes("TrackerEndcap_o1_v04", c, v)
  BY DEF EndcapMakes, EndcapTypes, NotTurned, WrongRecords, Variant, BarrelAndSide, UpperEndOut, NoLimit
<1>2. built' = "TrackerEndcap_o1_v04" /\ detector' = Endcap(c, v)
  BY DEF Build, TrackerEndcap_o1_v04
<1> HIDE DEF v
<1> QED
  BY <1>1, <1>2 DEF EndcapMade

LEMMA TrackerEndcap_o1_v05_Makes ==
  ASSUME NEW c \in EndcapFiles, OneInEachModule(c), Build("TrackerEndcap_o1_v05", TrackerEndcap_o1_v05(c))
  PROVE  EndcapMade'
<1> DEFINE v == [Variant(SideId, "rings", UpperEndOut, "disk") EXCEPT !.neighbours = TRUE]
<1>1. EndcapMakes("TrackerEndcap_o1_v05", c, v)
  BY DEF EndcapMakes, EndcapTypes, NotTurned, WrongRecords, Variant, SideId, UpperEndOut, NoLimit
<1>2. built' = "TrackerEndcap_o1_v05" /\ detector' = Endcap(c, v)
  BY DEF Build, TrackerEndcap_o1_v05
<1> HIDE DEF v
<1> QED
  BY <1>1, <1>2 DEF EndcapMade

LEMMA TrackerEndcap_o2_v04_Makes ==
  ASSUME NEW c \in EndcapFiles, OneInEachModule(c), Build("TrackerEndcap_o2_v04", TrackerEndcap_o2_v04(c))
  PROVE  EndcapMade'
<1> DEFINE v == [Variant(BarrelAndSide, "rings", UpperEndOut, "disk") EXCEPT !.centre =
                  "inner edge", !.extent = "half thickness"]
<1>1. EndcapMakes("TrackerEndcap_o2_v04", c, v)
  BY DEF EndcapMakes, EndcapTypes, NotTurned, WrongRecords, Variant, BarrelAndSide, UpperEndOut, NoLimit
<1>2. built' = "TrackerEndcap_o2_v04" /\ detector' = Endcap(c, v)
  BY DEF Build, TrackerEndcap_o2_v04
<1> HIDE DEF v
<1> QED
  BY <1>1, <1>2 DEF EndcapMade

LEMMA TrackerEndcap_o2_v05_Makes ==
  ASSUME NEW c \in EndcapFiles, OneInEachModule(c), Build("TrackerEndcap_o2_v05", TrackerEndcap_o2_v05(c))
  PROVE  EndcapMade'
<1> DEFINE v == [Variant(SideId, "rings", UpperEndOut, "disk") EXCEPT !.centre = "inner edge",
                  !.extent = "half thickness", !.neighbours = TRUE]
<1>1. EndcapMakes("TrackerEndcap_o2_v05", c, v)
  BY DEF EndcapMakes, EndcapTypes, NotTurned, WrongRecords, Variant, SideId, UpperEndOut, NoLimit
<1>2. built' = "TrackerEndcap_o2_v05" /\ detector' = Endcap(c, v)
  BY DEF Build, TrackerEndcap_o2_v05
<1> HIDE DEF v
<1> QED
  BY <1>1, <1>2 DEF EndcapMade

LEMMA TrackerEndcap_o2_v06_Makes ==
  ASSUME NEW c \in EndcapFiles, OneInEachModule(c), Build("TrackerEndcap_o2_v06", TrackerEndcap_o2_v06(c))
  PROVE  EndcapMade'
<1> DEFINE v == [Variant(SideId, "rings", UpperEndOut, "disk") EXCEPT !.centre = "inner edge",
                  !.extent = "length", !.neighbours = TRUE]
<1>1. EndcapMakes("TrackerEndcap_o2_v06", c, v)
  BY DEF EndcapMakes, EndcapTypes, NotTurned, WrongRecords, Variant, SideId, UpperEndOut, NoLimit
<1>2. built' = "TrackerEndcap_o2_v06" /\ detector' = Endcap(c, v)
  BY DEF Build, TrackerEndcap_o2_v06
<1> HIDE DEF v
<1> QED
  BY <1>1, <1>2 DEF EndcapMade

LEMMA TrackerEndcap_o2_v07_Makes ==
  ASSUME NEW c \in EndcapFiles, OneInEachModule(c), Build("TrackerEndcap_o2_v07", TrackerEndcap_o2_v07(c))
  PROVE  EndcapMade'
<1> DEFINE v == [Variant(SideId, "rings", UpperEndOut, "disk") EXCEPT !.centre = "inner edge",
                  !.extent = "length", !.neighbours = TRUE, !.layerElements =
                  TRUE]
<1>1. EndcapMakes("TrackerEndcap_o2_v07", c, v)
  BY DEF EndcapMakes, EndcapTypes, NotTurned, WrongRecords, Variant, SideId, UpperEndOut, NoLimit
<1>2. built' = "TrackerEndcap_o2_v07" /\ detector' = Endcap(c, v)
  BY DEF Build, TrackerEndcap_o2_v07
<1> HIDE DEF v
<1> QED
  BY <1>1, <1>2 DEF EndcapMade

LEMMA SiTrackerEndcap_o2_v01_Makes ==
  ASSUME NEW c \in EndcapFiles, Build("SiTrackerEndcap_o2_v01", SiTrackerEndcap_o2_v01(c))
  PROVE  EndcapMade'
<1> DEFINE v == [Variant(SideId, "modules", UpperEndIn, "none") EXCEPT !.most = 2]
<1>1. EndcapMakes("SiTrackerEndcap_o2_v01", c, v)
  BY EndsIn DEF EndcapMakes, EndcapTypes, NotTurned, WrongRecords, Variant, SideId, NoLimit
<1>2. built' = "SiTrackerEndcap_o2_v01" /\ detector' = Endcap(c, v)
  BY DEF Build, SiTrackerEndcap_o2_v01
<1> HIDE DEF v
<1> QED
  BY <1>1, <1>2 DEF EndcapMade

LEMMA SiTrackerEndcap_o2_v01ext_Makes ==
  ASSUME NEW c \in EndcapFiles, OneInEachModule(c), Build("SiTrackerEndcap_o2_v01ext", SiTrackerEndcap_o2_v01ext(c))
  PROVE  EndcapMade'
<1> DEFINE v == [Variant(SideId, "rings", UpperEndIn, "disk") EXCEPT !.centre =
                  "half thickness"]
<1>1. EndcapMakes("SiTrackerEndcap_o2_v01ext", c, v)
  BY EndsIn DEF EndcapMakes, EndcapTypes, NotTurned, WrongRecords, Variant, SideId, NoLimit
<1>2. built' = "SiTrackerEndcap_o2_v01ext" /\ detector' = Endcap(c, v)
  BY DEF Build, SiTrackerEndcap_o2_v01ext
<1> HIDE DEF v
<1> QED
  BY <1>1, <1>2 DEF EndcapMade

LEMMA SiTrackerEndcap_o2_v02_Makes ==
  ASSUME NEW c \in EndcapFiles, Build("SiTrackerEndcap_o2_v02", SiTrackerEndcap_o2_v02(c))
  PROVE  EndcapMade'
<1> DEFINE v == [Variant(SideId, "rings and slices", NotMirrored, "none") EXCEPT !.most = 2]
<1>1. EndcapMakes("SiTrackerEndcap_o2_v02", c, v)
  BY DEF EndcapMakes, EndcapTypes, NotTurned, WrongRecords, Variant, SideId, NotMirrored, NoLimit
<1>2. built' = "SiTrackerEndcap_o2_v02" /\ detector' = Endcap(c, v)
  BY DEF Build, SiTrackerEndcap_o2_v02
<1> HIDE DEF v
<1> QED
  BY <1>1, <1>2 DEF EndcapMade

LEMMA SiTrackerEndcap_o2_v02ext_Makes ==
  ASSUME NEW c \in EndcapFiles, OneInEachModule(c), Build("SiTrackerEndcap_o2_v02ext", SiTrackerEndcap_o2_v02ext(c))
  PROVE  EndcapMade'
<1> DEFINE v == [Variant(SideId, "rings", UpperEndIn, "disk") EXCEPT !.centre =
                  "half thickness", !.neighbours = TRUE]
<1>1. EndcapMakes("SiTrackerEndcap_o2_v02ext", c, v)
  BY EndsIn DEF EndcapMakes, EndcapTypes, NotTurned, WrongRecords, Variant, SideId, NoLimit
<1>2. built' = "SiTrackerEndcap_o2_v02ext" /\ detector' = Endcap(c, v)
  BY DEF Build, SiTrackerEndcap_o2_v02ext
<1> HIDE DEF v
<1> QED
  BY <1>1, <1>2 DEF EndcapMade

LEMMA SiTrackerEndcap_o2_v03_Makes ==
  ASSUME NEW c \in EndcapFiles, Build("SiTrackerEndcap_o2_v03", SiTrackerEndcap_o2_v03(c))
  PROVE  EndcapMade'
<1> DEFINE v == [Variant(SideId, "modules of all layers", NotMirrored, "none") EXCEPT !.most =
                  2]
<1>1. EndcapMakes("SiTrackerEndcap_o2_v03", c, v)
  BY DEF EndcapMakes, EndcapTypes, NotTurned, WrongRecords, Variant, SideId, NotMirrored, NoLimit
<1>2. built' = "SiTrackerEndcap_o2_v03" /\ detector' = Endcap(c, v)
  BY DEF Build, SiTrackerEndcap_o2_v03
<1> HIDE DEF v
<1> QED
  BY <1>1, <1>2 DEF EndcapMade

LEMMA VertexEndcap_o1_v01_Makes ==
  ASSUME NEW c \in EndcapFiles, Build("VertexEndcap_o1_v01", VertexEndcap_o1_v01(c))
  PROVE  EndcapMade'
<1> DEFINE v == [Variant(BarrelId, "modules", UpperEndIn, "none") EXCEPT !.stagger = "spiral",
                  !.most = 2]
<1>1. EndcapMakes("VertexEndcap_o1_v01", c, v)
  BY EndsIn DEF EndcapMakes, EndcapTypes, NotTurned, WrongRecords, Variant, BarrelId, NoLimit
<1>2. built' = "VertexEndcap_o1_v01" /\ detector' = Endcap(c, v)
  BY DEF Build, VertexEndcap_o1_v01
<1> HIDE DEF v
<1> QED
  BY <1>1, <1>2 DEF EndcapMade

LEMMA VertexEndcap_o1_v02_Makes ==
  ASSUME NEW c \in EndcapFiles, Build("VertexEndcap_o1_v02", VertexEndcap_o1_v02(c))
  PROVE  EndcapMade'
<1> DEFINE v == [Variant(BarrelAndSide, "rings", UpperEndIn, "none") EXCEPT !.stagger =
                  "spiral", !.most = 1]
<1>1. EndcapMakes("VertexEndcap_o1_v02", c, v)
  BY EndsIn DEF EndcapMakes, EndcapTypes, NotTurned, WrongRecords, Variant, BarrelAndSide, NoLimit
<1>2. built' = "VertexEndcap_o1_v02" /\ detector' = Endcap(c, v)
  BY DEF Build, VertexEndcap_o1_v02
<1> HIDE DEF v
<1> QED
  BY <1>1, <1>2 DEF EndcapMade

LEMMA VertexEndcap_o1_v03_Makes ==
  ASSUME NEW c \in EndcapFiles, Build("VertexEndcap_o1_v03", VertexEndcap_o1_v03(c))
  PROVE  EndcapMade'
<1> DEFINE v == [Variant(BarrelAndSide, "rings", UpperEndOut, "none") EXCEPT !.stagger =
                  "spiral", !.most = 1]
<1>1. EndcapMakes("VertexEndcap_o1_v03", c, v)
  BY DEF EndcapMakes, EndcapTypes, NotTurned, WrongRecords, Variant, BarrelAndSide, UpperEndOut, NoLimit
<1>2. built' = "VertexEndcap_o1_v03" /\ detector' = Endcap(c, v)
  BY DEF Build, VertexEndcap_o1_v03
<1> HIDE DEF v
<1> QED
  BY <1>1, <1>2 DEF EndcapMade

LEMMA VertexEndcap_o1_v04_Makes ==
  ASSUME NEW c \in EndcapFiles, Build("VertexEndcap_o1_v04", VertexEndcap_o1_v04(c))
  PROVE  EndcapMade'
<1> DEFINE v == [Variant(BarrelAndSide, "rings", UpperEndOut, "the only ring") EXCEPT !.stagger
                  = "spiral", !.most = 1]
<1>1. EndcapMakes("VertexEndcap_o1_v04", c, v)
  BY DEF EndcapMakes, EndcapTypes, NotTurned, WrongRecords, Variant, BarrelAndSide, UpperEndOut, NoLimit
<1>2. built' = "VertexEndcap_o1_v04" /\ detector' = Endcap(c, v)
  BY DEF Build, VertexEndcap_o1_v04
<1> HIDE DEF v
<1> QED
  BY <1>1, <1>2 DEF EndcapMade

LEMMA VertexEndcap_o1_v05_Makes ==
  ASSUME NEW c \in EndcapFiles, Build("VertexEndcap_o1_v05", VertexEndcap_o1_v05(c))
  PROVE  EndcapMade'
<1> DEFINE v == [Variant(SideId, "rings", UpperEndOut, "the only ring") EXCEPT !.stagger =
                  "spiral", !.most = 1, !.neighbours = TRUE]
<1>1. EndcapMakes("VertexEndcap_o1_v05", c, v)
  BY DEF EndcapMakes, EndcapTypes, NotTurned, WrongRecords, Variant, SideId, UpperEndOut, NoLimit
<1>2. built' = "VertexEndcap_o1_v05" /\ detector' = Endcap(c, v)
  BY DEF Build, VertexEndcap_o1_v05
<1> HIDE DEF v
<1> QED
  BY <1>1, <1>2 DEF EndcapMade

LEMMA VertexEndcap_o1_v06_Makes ==
  ASSUME NEW c \in EndcapFiles, Build("VertexEndcap_o1_v06", VertexEndcap_o1_v06(c))
  PROVE  EndcapMade'
<1> DEFINE v == [Variant(SideId, "rings", UpperEndOut, "the only ring") EXCEPT !.stagger =
                  "spiral back", !.most = 1]
<1>1. EndcapMakes("VertexEndcap_o1_v06", c, v)
  BY DEF EndcapMakes, EndcapTypes, NotTurned, WrongRecords, Variant, SideId, UpperEndOut, NoLimit
<1>2. built' = "VertexEndcap_o1_v06" /\ detector' = Endcap(c, v)
  BY DEF Build, VertexEndcap_o1_v06
<1> HIDE DEF v
<1> QED
  BY <1>1, <1>2 DEF EndcapMade

LEMMA VertexEndcap_o1_v07_Makes ==
  ASSUME NEW c \in EndcapFiles, Build("VertexEndcap_o1_v07", VertexEndcap_o1_v07(c))
  PROVE  EndcapMade'
<1> DEFINE v == [Variant(SideId, "rings", UpperEndOut, "the only ring") EXCEPT !.stagger =
                  "spiral back", !.most = 1, !.layerElements = TRUE]
<1>1. EndcapMakes("VertexEndcap_o1_v07", c, v)
  BY DEF EndcapMakes, EndcapTypes, NotTurned, WrongRecords, Variant, SideId, UpperEndOut, NoLimit
<1>2. built' = "VertexEndcap_o1_v07" /\ detector' = Endcap(c, v)
  BY DEF Build, VertexEndcap_o1_v07
<1> HIDE DEF v
<1> QED
  BY <1>1, <1>2 DEF EndcapMade

LEMMA BuildTrackerEndcapMakes ==
  ASSUME BuildTrackerEndcap
  PROVE  EndcapMade'
BY TrackerEndcap_o1_v01_Makes, TrackerEndcap_o1_v02_Makes, TrackerEndcap_o1_v03_Makes,
    TrackerEndcap_o1_v04_Makes, TrackerEndcap_o1_v05_Makes, TrackerEndcap_o2_v04_Makes,
    TrackerEndcap_o2_v05_Makes, TrackerEndcap_o2_v06_Makes, TrackerEndcap_o2_v07_Makes DEF
    BuildTrackerEndcap

LEMMA BuildSiTrackerEndcapMakes ==
  ASSUME BuildSiTrackerEndcap
  PROVE  EndcapMade'
BY SiTrackerEndcap_o2_v01_Makes, SiTrackerEndcap_o2_v01ext_Makes, SiTrackerEndcap_o2_v02_Makes,
    SiTrackerEndcap_o2_v02ext_Makes, SiTrackerEndcap_o2_v03_Makes DEF BuildSiTrackerEndcap

LEMMA BuildVertexEndcapMakes ==
  ASSUME BuildVertexEndcap
  PROVE  EndcapMade'
BY VertexEndcap_o1_v01_Makes, VertexEndcap_o1_v02_Makes, VertexEndcap_o1_v03_Makes,
    VertexEndcap_o1_v04_Makes, VertexEndcap_o1_v05_Makes, VertexEndcap_o1_v06_Makes,
    VertexEndcap_o1_v07_Makes DEF BuildVertexEndcap

SideFields == {"side", "barrel", "posneg", "subsystem"}

\* The usual fields for the side, and the middle for what is to be mirrored.
LEMMA SideIsMirrored ==
  ASSUME built # "CaloThreePartsEndcap_o1_v02",
         built \notin NotTurned =>
           \A s, t \in detector.sensors :
             (/\ DOMAIN s.ids \cap SideFields # {}
              /\ \A f \in DOMAIN s.ids : f \in SideFields <=> s.ids[f] # t.ids[f]
              /\ ~InADisc(s)) => t.pos = -s.pos
  PROVE  OtherSideIsMirrored
<1> DEFINE side == {"side", "barrel", "posneg", "subsystem"}
<1>1. OtherSideIsMirrored <=>
        (built \notin NotTurned /\ ~OuterWallIsATube =>
           \A s, t \in detector.sensors :
             (/\ DOMAIN s.ids \cap side # {}
              /\ \A f \in DOMAIN s.ids : f \in side <=> s.ids[f] # t.ids[f]
              /\ ~InADisc(s)) => t.pos = -s.pos)
  BY DEF OtherSideIsMirrored
<1> QED
  BY <1>1, Zenon DEF SideFields

LEMMA NoSides ==
  ASSUME built # "CaloThreePartsEndcap_o1_v02",
         \A s \in detector.sensors : DOMAIN s.ids \cap SideFields = {}
  PROVE  OtherSideIsMirrored
<1>1. \A s, t \in detector.sensors :
        (/\ DOMAIN s.ids \cap SideFields # {}
         /\ \A f \in DOMAIN s.ids : f \in SideFields <=> s.ids[f] # t.ids[f]
         /\ ~InADisc(s)) => t.pos = -s.pos
  OBVIOUS
<1> QED
  BY <1>1, SideIsMirrored, Zenon

\* Things in rows of n: the row and the place in it from their number.
LEMMA InRowsOf ==
  ASSUME NEW n \in Nat, NEW i \in Nat, NEW k \in Nat, NEW j \in 0..(n - 1), NEW m \in 0..(n - 1),
         i * n + j = k * n + m
  PROVE  i = k /\ j = m
<1>1. \A a, b \in Nat : a < b => a * n + n <= b * n
  <2> SUFFICES ASSUME NEW a \in Nat, NEW b \in Nat, a < b PROVE a * n + n <= b * n
    OBVIOUS
  <2>1. PICK d \in Nat : b = a + 1 + d
    <3>1. b - a - 1 \in Nat /\ b = a + 1 + (b - a - 1)
      OBVIOUS
    <3> QED
      BY <3>1
  <2>2. b * n = a * n + n + d * n
    BY <2>1
  <2>3. d * n \in Nat /\ a * n \in Nat
    OBVIOUS
  <2> QED
    BY <2>2, <2>3
<1>2. i * n \in Nat /\ k * n \in Nat /\ j \in Nat /\ m \in Nat /\ j < n /\ m < n
  OBVIOUS
<1>3. ~(i < k)
  BY <1>1, <1>2
<1>4. ~(k < i)
  BY <1>1, <1>2
<1>5. i = k
  BY <1>3, <1>4
<1> QED
  BY <1>2, <1>5

-----------------------------------------------------------------------------
(* Silicon barrels.                                                        *)

BarrelTypes ==
  {"VertexBarrel_o1_v01", "TrackerBarrel_o1_v01", "TrackerBarrel_o1_v02", "TrackerBarrel_o1_v03",
   "TrackerBarrel_o1_v04", "TrackerBarrel_o1_v05", "TrackerBarrel_o1_v06"}

BarrelMakes(type, c, v) ==
  /\ type \in BarrelTypes
  /\ v.numbering \in {"modules", "staves"}
  /\ v.numbering = "staves" => OneInEachModule(c)
  /\ type \in BarrelsWithNeighbours => v.neighbours /\ v.numbering = "staves"
  /\ type \notin WrongRecords => v.record = "stave" /\ v.numbering = "staves"

BarrelIsOf(s, c, v, p) == s = BarrelSensor(c, v, p[1], p[2], p[3], p[4])

LEMMA BarrelPlacesAre ==
  ASSUME NEW c \in BarrelFiles, NEW p \in BarrelPlaces(c)
  PROVE  /\ p = <<p[1], p[2], p[3], p[4]>>
         /\ p[1] \in DOMAIN c.layers
         /\ c.layers[p[1]].nphi \in Nat /\ c.layers[p[1]].nphi > 1
         /\ c.layers[p[1]].nz \in Nat /\ c.layers[p[1]].nz > 0
         /\ p[2] \in 0..(c.layers[p[1]].nphi - 1)
         /\ p[3] \in 0..(c.layers[p[1]].nz - 1)
         /\ c.layers[p[1]].module \in DOMAIN c.modules
         /\ IsStack(c.modules[c.layers[p[1]].module].slices)
         /\ p[4] \in SensitiveOf(c.modules[c.layers[p[1]].module].slices)
<1>1. IsBarrelFile(c)
  BY BarrelFilesAssumption
<1>2. PICK l \in DOMAIN c.layers :
        \E ii \in 0..(Layer(c, l).nphi - 1), j \in 0..(Layer(c, l).nz - 1),
           s \in SensitiveOf(LayerModule(c, l).slices) : p = <<l, ii, j, s>>
  BY DEF BarrelPlaces
<1>3. /\ p = <<l, p[2], p[3], p[4]>> /\ p[1] = l
      /\ p[2] \in 0..(Layer(c, l).nphi - 1) /\ p[3] \in 0..(Layer(c, l).nz - 1)
      /\ p[4] \in SensitiveOf(LayerModule(c, l).slices)
  BY <1>2
<1>4. /\ c.layers[l].nphi \in Nat /\ c.layers[l].nphi > 1
      /\ c.layers[l].nz \in Nat /\ c.layers[l].nz > 0
  BY <1>1 DEF IsBarrelFile
<1>5. c.layers[l].module \in DOMAIN c.modules
  BY <1>1 DEF IsBarrelFile
<1>6. IsStack(c.modules[c.layers[l].module].slices)
  BY <1>1, <1>5 DEF IsBarrelFile
<1> QED
  BY <1>3, <1>4, <1>5, <1>6 DEF Layer, LayerModule

LEMMA BarrelCellIds ==
  ASSUME NEW type, NEW c \in BarrelFiles, NEW v, BarrelMakes(type, c, v),
         NEW s \in Barrel(c, v).sensors, NEW t \in Barrel(c, v).sensors, s.ids = t.ids
  PROVE  s = t
<1>1. PICK p \in BarrelPlaces(c) : BarrelIsOf(s, c, v, p)
  BY DEF Barrel, BarrelIsOf
<1>2. PICK q \in BarrelPlaces(c) : BarrelIsOf(t, c, v, q)
  BY DEF Barrel, BarrelIsOf
<1>3. BarrelIds(c, v, p[1], p[2], p[3], p[4]) = BarrelIds(c, v, q[1], q[2], q[3], q[4])
  BY <1>1, <1>2 DEF BarrelIsOf, BarrelSensor
<1>4. v.numbering \in {"modules", "staves"} /\ (v.numbering = "staves" => OneInEachModule(c))
  BY DEF BarrelMakes
<1>5. c.layers[p[1]].id = c.layers[q[1]].id
  BY <1>3, <1>4 DEF BarrelIds, Layer
<1>6. p[1] = q[1]
  <2>1. p[1] \in DOMAIN c.layers /\ q[1] \in DOMAIN c.layers
    BY BarrelPlacesAre
  <2> QED
    BY <1>5, <2>1, BarrelFilesAssumption DEF IsBarrelFile, DistinctIds
<1> DEFINE slices == c.modules[c.layers[p[1]].module].slices
<1>7. IsStack(slices) /\ p[4] \in SensitiveOf(slices)
  BY BarrelPlacesAre
<1>8. q[4] \in SensitiveOf(slices)
  BY <1>6, BarrelPlacesAre
<1>9. p[2] = q[2] /\ p[3] = q[3]
  <2> DEFINE n == c.layers[p[1]].nz
  <2>1. n \in Nat /\ p[2] \in Nat /\ p[3] \in 0..(n - 1)
    BY BarrelPlacesAre
  <2>2. q[2] \in Nat /\ q[3] \in 0..(n - 1)
    BY <1>6, BarrelPlacesAre
  <2>3. CASE v.numbering = "staves"
    BY <1>3, <2>3 DEF BarrelIds
  <2>4. CASE v.numbering = "modules"
    <3>1. 1 + p[2] * n + p[3] = 1 + q[2] * n + q[3]
      BY <1>3, <1>6, <2>4 DEF BarrelIds, Layer
    <3> HIDE DEF n
    <3> DEFINE a == p[2] * n
               b == q[2] * n
    <3>2. a \in Nat /\ b \in Nat /\ p[3] \in Nat /\ q[3] \in Nat
      BY <2>1, <2>2
    <3>4. 1 + a + p[3] = 1 + b + q[3]
      BY <3>1
    <3>5. \A e, f, g, h \in Nat : 1 + e + f = 1 + g + h => e + f = g + h
      OBVIOUS
    <3>3. p[2] * n + p[3] = q[2] * n + q[3]
      BY <3>2, <3>4, <3>5
    <3> DEFINE i == p[2]
               k == q[2]
               j == p[3]
               m == q[3]
    <3>6. /\ i \in Nat /\ k \in Nat /\ j \in 0..(n - 1) /\ m \in 0..(n - 1)
          /\ i * n + j = k * n + m
      BY <2>1, <2>2, <3>3
    <3>7. i = k /\ j = m
      <4> HIDE DEF i, k, j, m
      <4>1. n \in Nat
        BY <2>1 DEF n
      <4> QED
        BY <3>6, <4>1, InRowsOf
    <3> QED
      BY <3>7 DEF i, k, j, m
  <2> QED
    BY <1>4, <2>3, <2>4
<1>10. p[4] = q[4]
  <2>1. CASE v.numbering = "modules"
    <3>1. SensitiveNumber(slices, p[4]) = SensitiveNumber(slices, q[4])
      BY <1>3, <1>6, <2>1 DEF BarrelIds, Layer, LayerModule
    <3> HIDE DEF slices
    <3> QED
      BY <1>7, <1>8, <3>1, SensitiveNumbersDiffer
  <2>2. CASE v.numbering = "staves"
    <3>1. c.layers[p[1]].module \in DOMAIN c.modules
      BY BarrelPlacesAre
    <3>2. Cardinality(SensitiveOf(slices)) = 1
      BY <1>4, <2>2, <3>1 DEF OneInEachModule
    <3> HIDE DEF slices
    <3>3. Cardinality(SensitiveOf(slices)) <= 1
      BY <3>2
    <3> QED
      BY <1>7, <1>8, <3>3, TheSensitiveSlice
  <2> QED
    BY <1>4, <2>1, <2>2
<1> QED
  BY <1>1, <1>2, <1>6, <1>9, <1>10 DEF BarrelIsOf

LEMMA BarrelOtherSide ==
  ASSUME NEW c \in BarrelFiles, NEW v, BarrelMakes(built, c, v), detector = Barrel(c, v)
  PROVE  OtherSideIsMirrored
<1>1. built \in BarrelTypes /\ v.numbering \in {"modules", "staves"}
  BY DEF BarrelMakes
<1>2. built # "CaloThreePartsEndcap_o1_v02"
  BY <1>1 DEF BarrelTypes
<1>3. \A s \in detector.sensors : DOMAIN s.ids \cap SideFields = {}
  BY <1>1 DEF Barrel, BarrelSensor, BarrelIds, SideFields
<1> QED
  BY <1>2, <1>3, NoSides

\* The remainder of what is less than twice the divisor.
LEMMA OneRound ==
  ASSUME NEW n \in Nat, n > 0, NEW x \in 0..(2 * n - 1)
  PROVE  x % n = IF x < n THEN x ELSE x - n
<1> DEFINE q == x \div n
           r == x % n
<1>1. x \in Int /\ n \in Nat \ {0}
  OBVIOUS
<1>2. q \in Int /\ r \in Int /\ 0 <= r /\ r < n /\ x = n * q + r
  <2>1. q \in Int
    BY <1>1
  <2>2. r \in Int /\ 0 <= r /\ r < n
    BY <1>1
  <2>3. x = n * q + r
    BY <1>1
  <2> QED
    BY <2>1, <2>2, <2>3
<1> HIDE DEF q, r
<1>3. n * q \in Int
  BY <1>2
<1>4. ~(q >= 2)
  <2> SUFFICES ASSUME q >= 2 PROVE FALSE
    OBVIOUS
  <2>1. n * q >= 2 * n
    <3>1. PICK d \in Nat : q = 2 + d
      <4>1. q - 2 \in Nat /\ q = 2 + (q - 2)
        BY <1>2
      <4> QED
        BY <4>1
    <3>2. n * q = 2 * n + n * d /\ n * d \in Nat
      BY <3>1
    <3> QED
      BY <3>2
  <2> QED
    BY <1>2, <1>3, <2>1
<1>5. ~(q <= -1)
  <2> SUFFICES ASSUME q <= -1 PROVE FALSE
    OBVIOUS
  <2>1. n * q <= 0 - n
    <3>1. PICK d \in Nat : q = -1 - d
      <4>1. -1 - q \in Nat /\ q = -1 - (-1 - q)
        BY <1>2
      <4> QED
        BY <4>1
    <3>2. n * q = 0 - n - n * d /\ n * d \in Nat
      BY <3>1
    <3> QED
      BY <3>2
  <2> QED
    BY <1>2, <1>3, <2>1
<1>6. q = 0 \/ q = 1
  BY <1>2, <1>4, <1>5
<1>7. CASE q = 0
  <2>1. x = r
    BY <1>2, <1>7
  <2> QED
    BY <1>2, <2>1 DEF r
<1>8. CASE q = 1
  <2>1. r = x - n
    BY <1>2, <1>8
  <2> QED
    BY <1>2, <2>1 DEF r
<1> QED
  BY <1>6, <1>7, <1>8

\* Around the beam there are the stave itself and the ones beside it.
LEMMA NextStaves ==
  ASSUME NEW n \in Nat, n > 1, NEW i \in 0..(n - 1), NEW k \in 0..(n - 1)
  PROVE  (i - k + n) % n \in {0, 1, n - 1}
           <=> \E d \in -1..1 : k = IF i + d < 0 THEN n + (i + d)
                                    ELSE IF i + d >= n THEN i + d - n ELSE i + d
<1> DEFINE x == i - k + n
<1>1. x \in 0..(2 * n - 1) /\ n > 0
  OBVIOUS
<1>2. x % n = IF x < n THEN x ELSE x - n
  <2> HIDE DEF x
  <2> QED
    BY <1>1, OneRound
<1>3. x % n = IF i < k THEN i - k + n ELSE i - k
  BY <1>2
<1>4. (\E d \in -1..1 : k = IF i + d < 0 THEN n + (i + d)
                            ELSE IF i + d >= n THEN i + d - n ELSE i + d)
      <=> (\/ k = i
           \/ k = IF i + 1 >= n THEN i + 1 - n ELSE i + 1
           \/ k = IF i - 1 < 0 THEN n + (i - 1) ELSE i - 1)
  <2>1. \A d : d \in -1..1 <=> d = -1 \/ d = 0 \/ d = 1
    OBVIOUS
  <2> QED
    BY <2>1
<1> QED
  BY <1>3, <1>4

LEMMA GreatestIs ==
  ASSUME NEW S, S \subseteq Int, NEW m \in S, \A y \in S : y <= m
  PROVE  Max(S) = m
<1>1. \A x \in S : (\A y \in S : x >= y) <=> x = m
  OBVIOUS
<1>2. Max(S) = CHOOSE x \in S : \A y \in S : x >= y
  BY DEF Max
<1>3. \A y \in S : m >= y
  OBVIOUS
<1>4. Max(S) \in S /\ \A y \in S : Max(S) >= y
  BY <1>2, <1>3, Zenon
<1> QED
  BY <1>1, <1>4, Zenon

\* In a barrel of staves with one sensitive slice in each module there is one sensor
\* at each place in each stave.
LEMMA StaveSensors ==
  ASSUME NEW c \in BarrelFiles, NEW v, v.numbering = "staves", OneInEachModule(c)
  PROVE  /\ \A a \in Barrel(c, v).sensors :
              /\ a.at[1] \in DOMAIN c.layers
              /\ a.at[2] \in 0..(c.layers[a.at[1]].nphi - 1)
              /\ a.at[3] \in 0..(c.layers[a.at[1]].nz - 1)
              /\ a.ids = BarrelCell(c.layers[a.at[1]].id, a.at[2], a.at[3])
         /\ \A a, b \in Barrel(c, v).sensors :
              a.at[1] = b.at[1] /\ a.at[2] = b.at[2] /\ a.at[3] = b.at[3] => a = b
         /\ \A l \in DOMAIN c.layers :
              \A i \in 0..(c.layers[l].nphi - 1), j \in 0..(c.layers[l].nz - 1) :
                \E a \in Barrel(c, v).sensors : a.at[1] = l /\ a.at[2] = i /\ a.at[3] = j
<1>1. \A a \in Barrel(c, v).sensors : \E p \in BarrelPlaces(c) : BarrelIsOf(a, c, v, p)
  BY DEF Barrel, BarrelIsOf
<1>2. ASSUME NEW a \in Barrel(c, v).sensors, NEW p \in BarrelPlaces(c), BarrelIsOf(a, c, v, p)
      PROVE  /\ a.at[1] = p[1] /\ a.at[2] = p[2] /\ a.at[3] = p[3]
             /\ a.ids = BarrelCell(c.layers[p[1]].id, p[2], p[3])
  BY <1>2 DEF BarrelIsOf, BarrelSensor, BarrelIds, BarrelCell, Layer
<1>3. ASSUME NEW a \in Barrel(c, v).sensors
      PROVE  /\ a.at[1] \in DOMAIN c.layers
             /\ a.at[2] \in 0..(c.layers[a.at[1]].nphi - 1)
             /\ a.at[3] \in 0..(c.layers[a.at[1]].nz - 1)
             /\ a.ids = BarrelCell(c.layers[a.at[1]].id, a.at[2], a.at[3])
  <2>1. PICK p \in BarrelPlaces(c) : BarrelIsOf(a, c, v, p)
    BY <1>1
  <2>2. /\ p[1] \in DOMAIN c.layers
        /\ p[2] \in 0..(c.layers[p[1]].nphi - 1) /\ p[3] \in 0..(c.layers[p[1]].nz - 1)
    BY BarrelPlacesAre
  <2> QED
    BY <1>2, <2>1, <2>2
<1>4. ASSUME NEW a \in Barrel(c, v).sensors, NEW b \in Barrel(c, v).sensors,
             a.at[1] = b.at[1], a.at[2] = b.at[2], a.at[3] = b.at[3]
      PROVE  a = b
  <2>1. PICK p \in BarrelPlaces(c) : BarrelIsOf(a, c, v, p)
    BY <1>1
  <2>2. PICK q \in BarrelPlaces(c) : BarrelIsOf(b, c, v, q)
    BY <1>1
  <2>3. p[1] = q[1] /\ p[2] = q[2] /\ p[3] = q[3]
    BY <1>2, <1>4, <2>1, <2>2
  <2> DEFINE slices == c.modules[c.layers[p[1]].module].slices
  <2>4. IsStack(slices) /\ p[4] \in SensitiveOf(slices) /\ c.layers[p[1]].module \in DOMAIN c.modules
    BY BarrelPlacesAre
  <2>5. q[4] \in SensitiveOf(slices)
    BY <2>3, BarrelPlacesAre
  <2>6. Cardinality(SensitiveOf(slices)) = 1
    BY <2>4 DEF OneInEachModule
  <2>7. p[4] = q[4]
    <3> HIDE DEF slices
    <3>1. Cardinality(SensitiveOf(slices)) <= 1
      BY <2>6
    <3> QED
      BY <2>4, <2>5, <3>1, TheSensitiveSlice
  <2> QED
    BY <2>1, <2>2, <2>3, <2>7 DEF BarrelIsOf
<1>5. ASSUME NEW l \in DOMAIN c.layers, NEW i \in 0..(c.layers[l].nphi - 1),
             NEW j \in 0..(c.layers[l].nz - 1)
      PROVE  \E a \in Barrel(c, v).sensors : a.at[1] = l /\ a.at[2] = i /\ a.at[3] = j
  <2> DEFINE slices == c.modules[c.layers[l].module].slices
  <2>1. c.layers[l].module \in DOMAIN c.modules
    BY BarrelFilesAssumption DEF IsBarrelFile
  <2>2. Cardinality(SensitiveOf(slices)) = 1
    BY <2>1 DEF OneInEachModule
  <2>3. PICK s : s \in SensitiveOf(slices)
    <3> HIDE DEF slices
    <3>1. SensitiveOf(slices) # {}
      BY <2>2, FS_EmptySet
    <3> QED
      BY <3>1
  <2> DEFINE p == <<l, i, j, s>>
             a == BarrelSensor(c, v, l, i, j, s)
  <2>4. p \in BarrelPlaces(c)
    BY <2>3 DEF BarrelPlaces, Layer, LayerModule
  <2>5. a \in Barrel(c, v).sensors
    <3>1. a = BarrelSensor(c, v, p[1], p[2], p[3], p[4])
      OBVIOUS
    <3> HIDE DEF a, p
    <3> QED
      BY <2>4, <3>1 DEF Barrel
  <2>6. a.at = <<l, i, j, s>>
    BY DEF BarrelSensor
  <2> HIDE DEF a
  <2> QED
    BY <2>5, <2>6
<1> QED
  BY <1>3, <1>4, <1>5

LEMMA StavesOfLayer ==
  ASSUME NEW c \in BarrelFiles, NEW v, v.numbering = "staves", OneInEachModule(c),
         NEW a \in Barrel(c, v).sensors
  PROVE  1 + Max({s.at[2] : s \in {t \in Barrel(c, v).sensors : t.at[1] = a.at[1]}})
           = c.layers[a.at[1]].nphi
<1> DEFINE l == a.at[1]
           n == c.layers[l].nphi
           S == {s.at[2] : s \in {t \in Barrel(c, v).sensors : t.at[1] = l}}
<1>1. l \in DOMAIN c.layers
  BY StaveSensors
<1>2. n \in Nat /\ n > 1 /\ c.layers[l].nz \in Nat /\ c.layers[l].nz > 0
  BY <1>1, BarrelFilesAssumption DEF IsBarrelFile
<1>3. S \subseteq 0..(n - 1)
  BY StaveSensors
<1>4. n - 1 \in S
  <2>1. n - 1 \in 0..(n - 1) /\ 0 \in 0..(c.layers[l].nz - 1)
    BY <1>2
  <2>3. \A i \in 0..(n - 1), j \in 0..(c.layers[l].nz - 1) :
          \E s \in Barrel(c, v).sensors : s.at[1] = l /\ s.at[2] = i /\ s.at[3] = j
    <3> HIDE DEF l
    <3> QED
      BY <1>1, StaveSensors
  <2>2. PICK s \in Barrel(c, v).sensors : s.at[1] = l /\ s.at[2] = n - 1
    BY <2>1, <2>3
  <2> QED
    BY <2>2
<1> HIDE DEF S
<1>5. S \subseteq Int /\ \A y \in S : y <= n - 1
  BY <1>2, <1>3
<1>6. Max(S) = n - 1
  BY <1>2, <1>4, <1>5, GreatestIs, Zenon
<1>7. 1 + Max(S) = n
  BY <1>2, <1>6
<1> QED
  BY <1>7 DEF S

\* Beside one another in a layer of n staves: as the invariant has it.
Beside(n, a, b) ==
  /\ a.at[1] = b.at[1]
  /\ (a.at[2] - b.at[2] + n) % n \in {0, 1, n - 1}
  /\ a.at[3] - b.at[3] \in -1..1

\* And as the constructor has it.
LEMMA NeighboursEntered ==
  ASSUME NEW c \in BarrelFiles, NEW l \in DOMAIN c.layers,
         NEW i \in 0..(c.layers[l].nphi - 1), NEW j \in 0..(c.layers[l].nz - 1),
         NEW k \in 0..(c.layers[l].nphi - 1), NEW m \in 0..(c.layers[l].nz - 1),
         (i - k + c.layers[l].nphi) % c.layers[l].nphi \in {0, 1, c.layers[l].nphi - 1},
         j - m \in -1..1, i # k \/ j # m
  PROVE  <<BarrelCell(c.layers[l].id, i, j), BarrelCell(c.layers[l].id, k, m)>>
           \in BarrelNeighbours(c.layers[l], i, j)
<1> DEFINE n == c.layers[l].nphi
           z == c.layers[l].nz
           module(x) == IF x < 0 THEN n + x ELSE IF x >= n THEN x - n ELSE x
<1>1. n \in Nat /\ n > 1 /\ z \in Nat /\ z > 0
  BY BarrelFilesAssumption DEF IsBarrelFile
<1>2. i \in 0..(n - 1) /\ k \in 0..(n - 1) /\ (i - k + n) % n \in {0, 1, n - 1}
  OBVIOUS
<1>3. PICK d \in -1..1 : k = module(i + d)
  <2> HIDE DEF n
  <2> QED
    BY <1>1, <1>2, NextStaves
<1>4. j \in 0..(z - 1) /\ m \in 0..(z - 1) /\ j \in Int /\ m \in Int /\ i \in Int
  BY <1>1
<1> DEFINE e == m - j
<1>5. e \in -1..1 /\ m = j + e
  BY <1>4
<1>6. ~(d = 0 /\ e = 0)
  <2> SUFFICES ASSUME d = 0, e = 0 PROVE FALSE
    OBVIOUS
  <2>1. m = j
    BY <1>4
  <2>2. k = i
    BY <1>1, <1>2, <1>3
  <2> QED
    BY <2>1, <2>2
<1> DEFINE step == <<d, e>>
<1>7. step \in ((-1..1) \X (-1..1)) \ {<<0, 0>>} /\ j + step[2] \in 0..(z - 1)
  BY <1>3, <1>4, <1>5, <1>6
<1>8. k = module(i + step[1]) /\ m = j + step[2]
  BY <1>3, <1>5
<1> HIDE DEF step, n, z
<1> QED
  BY <1>7, <1>8 DEF BarrelNeighbours, n, z

LEMMA NeighboursAreBeside ==
  ASSUME NEW c \in BarrelFiles, NEW l \in DOMAIN c.layers,
         NEW i \in 0..(c.layers[l].nphi - 1), NEW j \in 0..(c.layers[l].nz - 1),
         NEW x \in BarrelNeighbours(c.layers[l], i, j)
  PROVE  \E k \in 0..(c.layers[l].nphi - 1), m \in 0..(c.layers[l].nz - 1) :
           /\ (i - k + c.layers[l].nphi) % c.layers[l].nphi \in {0, 1, c.layers[l].nphi - 1}
           /\ j - m \in -1..1
           /\ i # k \/ j # m
           /\ x = <<BarrelCell(c.layers[l].id, i, j), BarrelCell(c.layers[l].id, k, m)>>
<1> DEFINE n == c.layers[l].nphi
           z == c.layers[l].nz
           module(y) == IF y < 0 THEN n + y ELSE IF y >= n THEN y - n ELSE y
<1>1. n \in Nat /\ n > 1 /\ z \in Nat /\ z > 0
  BY BarrelFilesAssumption DEF IsBarrelFile
<1>2. i \in 0..(n - 1) /\ j \in 0..(z - 1) /\ i \in Int /\ j \in Int
  BY <1>1
<1>3. PICK step \in ((-1..1) \X (-1..1)) \ {<<0, 0>>} :
        /\ j + step[2] \in 0..(z - 1)
        /\ x = <<BarrelCell(c.layers[l].id, i, j), BarrelCell(c.layers[l].id, module(i + step[1]), j + step[2])>>
  BY DEF BarrelNeighbours
<1>4. PICK d \in -1..1 : d = step[1]
  BY <1>3
<1>5. PICK e \in -1..1 : e = step[2]
  BY <1>3
<1>6. ~(d = 0 /\ e = 0)
  BY <1>3, <1>4, <1>5
<1> DEFINE k == module(i + d)
           m == j + e
<1>7. x = <<BarrelCell(c.layers[l].id, i, j), BarrelCell(c.layers[l].id, k, m)>>
  BY <1>3, <1>4, <1>5
<1>8. m \in 0..(z - 1) /\ j - m \in -1..1
  BY <1>2, <1>3, <1>5
<1>9. k \in 0..(n - 1)
  BY <1>1, <1>2
<1>10. (i - k + n) % n \in {0, 1, n - 1}
  <2>1. i \in Int /\ d \in Int /\ n \in Int
    BY <1>1, <1>2
  <2>2. k = IF i + d < 0 THEN n + (i + d) ELSE IF i + d >= n THEN i + d - n ELSE i + d
    BY <2>1
  <2> HIDE DEF k, n
  <2> QED
    BY <1>1, <1>2, <1>9, <2>2, NextStaves
<1>11. i # k \/ j # m
  BY <1>1, <1>2, <1>4, <1>5, <1>6
<1> HIDE DEF k, m
<1> QED
  BY <1>7, <1>8, <1>9, <1>10, <1>11

LEMMA BarrelNeighboursTouch ==
  ASSUME NEW c \in BarrelFiles, NEW v, BarrelMakes(built, c, v), detector = Barrel(c, v)
  PROVE  NeighboursAreNextToEachOther
<1> SUFFICES ASSUME built \in BarrelsWithNeighbours PROVE NeighboursAreNextToEachOther
  BY Zenon DEF NeighboursAreNextToEachOther
<1>1. v.neighbours /\ v.numbering = "staves" /\ OneInEachModule(c)
  BY DEF BarrelMakes
<1> DEFINE sensors == Barrel(c, v).sensors
           n(a) == c.layers[a.at[1]].nphi
           pairs == {q \in sensors \X sensors : q[1] # q[2] /\ Beside(n(q[1]), q[1], q[2])}
           ids == {<<p[1].ids, p[2].ids>> : p \in pairs}
           entered == UNION {UNION {BarrelNeighbours(Layer(c, l), ii, j) :
                                      ii \in 0..(Layer(c, l).nphi - 1),
                                      j \in 0..(Layer(c, l).nz - 1)} : l \in DOMAIN c.layers}
<1>2. detector.neighbours = entered
  BY <1>1 DEF Barrel
<1>3. ASSUME NEW a \in sensors, NEW b \in sensors, a # b, Beside(n(a), a, b)
      PROVE  <<a.ids, b.ids>> \in entered
  <2> DEFINE l == a.at[1]
  <2>1. /\ l \in DOMAIN c.layers
        /\ a.at[2] \in 0..(c.layers[l].nphi - 1) /\ a.at[3] \in 0..(c.layers[l].nz - 1)
        /\ a.ids = BarrelCell(c.layers[l].id, a.at[2], a.at[3])
    BY <1>1, StaveSensors
  <2>2. b.at[1] = l
    BY <1>3 DEF Beside
  <2>3. /\ b.at[2] \in 0..(c.layers[l].nphi - 1) /\ b.at[3] \in 0..(c.layers[l].nz - 1)
        /\ b.ids = BarrelCell(c.layers[l].id, b.at[2], b.at[3])
    BY <1>1, <2>2, StaveSensors
  <2>4. a.at[2] # b.at[2] \/ a.at[3] # b.at[3]
    BY <1>1, <1>3, <2>2, StaveSensors
  <2>5. /\ (a.at[2] - b.at[2] + c.layers[l].nphi) % c.layers[l].nphi \in {0, 1, c.layers[l].nphi - 1}
        /\ a.at[3] - b.at[3] \in -1..1
    BY <1>3 DEF Beside
  <2>6. <<a.ids, b.ids>> \in BarrelNeighbours(c.layers[l], a.at[2], a.at[3])
    <3> HIDE DEF l
    <3> QED
      BY <2>1, <2>3, <2>4, <2>5, NeighboursEntered
  <2> HIDE DEF l
  <2> QED
    BY <2>1, <2>6 DEF Layer
<1>4. ASSUME NEW x \in entered
      PROVE  \E a, b \in sensors : a # b /\ Beside(n(a), a, b) /\ x = <<a.ids, b.ids>>
  <2>1. PICK l \in DOMAIN c.layers :
          \E ii \in 0..(c.layers[l].nphi - 1), j \in 0..(c.layers[l].nz - 1) :
            x \in BarrelNeighbours(c.layers[l], ii, j)
    BY <1>4 DEF Layer
  <2>2. PICK i \in 0..(c.layers[l].nphi - 1), j \in 0..(c.layers[l].nz - 1) :
          x \in BarrelNeighbours(c.layers[l], i, j)
    BY <2>1
  <2>3. PICK k \in 0..(c.layers[l].nphi - 1), m \in 0..(c.layers[l].nz - 1) :
           /\ (i - k + c.layers[l].nphi) % c.layers[l].nphi \in {0, 1, c.layers[l].nphi - 1}
           /\ j - m \in -1..1
           /\ i # k \/ j # m
           /\ x = <<BarrelCell(c.layers[l].id, i, j), BarrelCell(c.layers[l].id, k, m)>>
    BY <2>2, NeighboursAreBeside
  <2>4. PICK a \in sensors : a.at[1] = l /\ a.at[2] = i /\ a.at[3] = j
    BY <1>1, StaveSensors
  <2>5. PICK b \in sensors : b.at[1] = l /\ b.at[2] = k /\ b.at[3] = m
    BY <1>1, StaveSensors
  <2>6. a.ids = BarrelCell(c.layers[l].id, i, j) /\ b.ids = BarrelCell(c.layers[l].id, k, m)
    BY <1>1, <2>4, <2>5, StaveSensors
  <2>7. a # b
    BY <2>3, <2>4, <2>5
  <2>8. Beside(n(a), a, b)
    BY <2>3, <2>4, <2>5 DEF Beside
  <2> QED
    BY <2>3, <2>6, <2>7, <2>8
<1>5. ids = entered
  <2> HIDE DEF sensors, n, entered
  <2>1. ASSUME NEW x \in ids PROVE x \in entered
    <3>1. PICK p \in pairs : x = <<p[1].ids, p[2].ids>>
      BY <2>1
    <3>2. p[1] \in sensors /\ p[2] \in sensors /\ p[1] # p[2] /\ Beside(n(p[1]), p[1], p[2])
      OBVIOUS
    <3> QED
      BY <1>3, <3>1, <3>2
  <2>2. ASSUME NEW x \in entered PROVE x \in ids
    <3>1. PICK a \in sensors, b \in sensors : a # b /\ Beside(n(a), a, b) /\ x = <<a.ids, b.ids>>
      BY <1>4, <2>2
    <3> DEFINE p == <<a, b>>
    <3>2. p \in pairs
      BY <3>1
    <3>3. x = <<p[1].ids, p[2].ids>>
      BY <3>1
    <3> HIDE DEF p, pairs
    <3> QED
      BY <3>2, <3>3
  <2> QED
    BY <2>1, <2>2
<1>6. \A a \in sensors : 1 + Max({s.at[2] : s \in {t \in sensors : t.at[1] = a.at[1]}}) = n(a)
  BY <1>1, StavesOfLayer, Zenon
<1> DEFINE next(a, b) ==
             /\ a.at[1] = b.at[1]
             /\ LET k == 1 + Max({s.at[2] : s \in {t \in sensors : t.at[1] = a.at[1]}})
                IN (a.at[2] - b.at[2] + k) % k \in {0, 1, k - 1}
             /\ a.at[3] - b.at[3] \in -1..1
<1>7. \A a, b \in sensors : next(a, b) <=> Beside(n(a), a, b)
  <2> SUFFICES ASSUME NEW a \in sensors, NEW b \in sensors PROVE next(a, b) <=> Beside(n(a), a, b)
    OBVIOUS
  <2>1. 1 + Max({s.at[2] : s \in {t \in sensors : t.at[1] = a.at[1]}}) = n(a)
    BY <1>6, Zenon
  <2> QED
    BY <2>1 DEF Beside
<1>8. {q \in sensors \X sensors : q[1] # q[2] /\ next(q[1], q[2])} = pairs
  <2> HIDE DEF next, n, sensors
  <2> QED
    BY <1>7
<1>9. detector.sensors = sensors
  OBVIOUS
<1> DEFINE beside == {q \in sensors \X sensors : q[1] # q[2] /\ next(q[1], q[2])}
<1>10. NeighboursAreNextToEachOther
         <=> detector.neighbours = {<<p[1].ids, p[2].ids>> : p \in beside}
  BY <1>9 DEF NeighboursAreNextToEachOther
<1>11. beside = pairs
  BY <1>8
<1> HIDE DEF beside, pairs, entered
<1>12. {<<p[1].ids, p[2].ids>> : p \in beside} = ids
  BY <1>11
<1> HIDE DEF ids
<1> QED
  BY <1>2, <1>5, <1>10, <1>12

\* One constructor after the other.
BarrelMade ==
  \E c \in BarrelFiles : \E v : BarrelMakes(built, c, v) /\ detector = Barrel(c, v)

LEMMA VertexBarrel_o1_v01_Makes ==
  ASSUME NEW c \in BarrelFiles,
         Build("VertexBarrel_o1_v01", VertexBarrel_o1_v01(c))
  PROVE  BarrelMade'
<1> DEFINE v == BarrelVariant("given", "modules", "sensor", FALSE)
<1>1. BarrelMakes("VertexBarrel_o1_v01", c, v)
  BY DEF BarrelMakes, BarrelTypes, BarrelsWithNeighbours, WrongRecords, BarrelVariant
<1>2. built' = "VertexBarrel_o1_v01" /\ detector' = Barrel(c, v)
  BY Zenon DEF Build, VertexBarrel_o1_v01
<1> HIDE DEF v
<1> QED
  BY <1>1, <1>2 DEF BarrelMade

LEMMA TrackerBarrel_o1_v01_Makes ==
  ASSUME NEW c \in BarrelFiles, OneInEachModule(c),
         Build("TrackerBarrel_o1_v01", TrackerBarrel_o1_v01(c))
  PROVE  BarrelMade'
<1> DEFINE v == BarrelVariant("given", "staves", "stave", FALSE)
<1>1. BarrelMakes("TrackerBarrel_o1_v01", c, v)
  BY DEF BarrelMakes, BarrelTypes, BarrelsWithNeighbours, WrongRecords, BarrelVariant
<1>2. built' = "TrackerBarrel_o1_v01" /\ detector' = Barrel(c, v)
  BY Zenon DEF Build, TrackerBarrel_o1_v01
<1> HIDE DEF v
<1> QED
  BY <1>1, <1>2 DEF BarrelMade

LEMMA TrackerBarrel_o1_v02_Makes ==
  ASSUME NEW c \in BarrelFiles, OneInEachModule(c),
         Build("TrackerBarrel_o1_v02", TrackerBarrel_o1_v02(c))
  PROVE  BarrelMade'
<1> DEFINE v == BarrelVariant("first outermost", "staves", "stave", FALSE)
<1>1. BarrelMakes("TrackerBarrel_o1_v02", c, v)
  BY DEF BarrelMakes, BarrelTypes, BarrelsWithNeighbours, WrongRecords, BarrelVariant
<1>2. built' = "TrackerBarrel_o1_v02" /\ detector' = Barrel(c, v)
  BY DEF Build, TrackerBarrel_o1_v02
<1> HIDE DEF v
<1> QED
  BY <1>1, <1>2 DEF BarrelMade

LEMMA TrackerBarrel_o1_v03_Makes ==
  ASSUME NEW c \in BarrelFiles, OneInEachModule(c),
         Build("TrackerBarrel_o1_v03", TrackerBarrel_o1_v03(c))
  PROVE  BarrelMade'
<1> DEFINE v == BarrelVariant("first innermost", "staves", "stave", TRUE)
<1>1. BarrelMakes("TrackerBarrel_o1_v03", c, v)
  BY DEF BarrelMakes, BarrelTypes, BarrelsWithNeighbours, WrongRecords, BarrelVariant
<1>2. built' = "TrackerBarrel_o1_v03" /\ detector' = Barrel(c, v)
  BY DEF Build, TrackerBarrel_o1_v03
<1> HIDE DEF v
<1> QED
  BY <1>1, <1>2 DEF BarrelMade

LEMMA TrackerBarrel_o1_v04_Makes ==
  ASSUME NEW c \in BarrelFiles, OneInEachModule(c),
         Build("TrackerBarrel_o1_v04", TrackerBarrel_o1_v04(c))
  PROVE  BarrelMade'
<1> DEFINE v == BarrelVariant("first innermost", "staves", "stave", TRUE)
<1>1. BarrelMakes("TrackerBarrel_o1_v04", c, v)
  BY DEF BarrelMakes, BarrelTypes, BarrelsWithNeighbours, WrongRecords, BarrelVariant
<1>2. built' = "TrackerBarrel_o1_v04" /\ detector' = Barrel(c, v)
  BY DEF Build, TrackerBarrel_o1_v04
<1> HIDE DEF v
<1> QED
  BY <1>1, <1>2 DEF BarrelMade

LEMMA TrackerBarrel_o1_v05_Makes ==
  ASSUME NEW c \in BarrelFiles, OneInEachModule(c),
         Build("TrackerBarrel_o1_v05", TrackerBarrel_o1_v05(c))
  PROVE  BarrelMade'
<1> DEFINE v == BarrelVariant("first innermost", "staves", "stave", TRUE)
<1>1. BarrelMakes("TrackerBarrel_o1_v05", c, v)
  BY DEF BarrelMakes, BarrelTypes, BarrelsWithNeighbours, WrongRecords, BarrelVariant
<1>2. built' = "TrackerBarrel_o1_v05" /\ detector' = Barrel(c, v)
  BY DEF Build, TrackerBarrel_o1_v05
<1> HIDE DEF v
<1> QED
  BY <1>1, <1>2 DEF BarrelMade

LEMMA TrackerBarrel_o1_v06_Makes ==
  ASSUME NEW c \in BarrelFiles, OneInEachModule(c),
         Build("TrackerBarrel_o1_v06", TrackerBarrel_o1_v06(c))
  PROVE  BarrelMade'
<1> DEFINE v == BarrelVariant("first innermost", "staves", "stave", FALSE)
<1>1. BarrelMakes("TrackerBarrel_o1_v06", c, v)
  BY DEF BarrelMakes, BarrelTypes, BarrelsWithNeighbours, WrongRecords, BarrelVariant
<1>2. built' = "TrackerBarrel_o1_v06" /\ detector' = Barrel(c, v)
  BY DEF Build, TrackerBarrel_o1_v06
<1> HIDE DEF v
<1> QED
  BY <1>1, <1>2 DEF BarrelMade

LEMMA BuildTrackerBarrelMakes ==
  ASSUME BuildTrackerBarrel
  PROVE  BarrelMade'
BY VertexBarrel_o1_v01_Makes, TrackerBarrel_o1_v01_Makes, TrackerBarrel_o1_v02_Makes,
    TrackerBarrel_o1_v03_Makes, TrackerBarrel_o1_v04_Makes, TrackerBarrel_o1_v05_Makes,
    TrackerBarrel_o1_v06_Makes DEF BuildTrackerBarrel

\* Barrels of staves and of towers.
StavesMakes(type, c, v) ==
  /\ type \in {"GenericCalBarrel_o1_v01", "HCalBarrel_o1_v01", "ECalBarrel_o2_v01",
              "YokeBarrel_o1_v01"}
  /\ v.first.stave \in Nat /\ v.first.layer \in Nat
  /\ v.submodule \in BOOLEAN
  /\ ~v.submodule => OneSensitive(c)

StavesMade ==
  \E c \in StaveFiles : \E v : StavesMakes(built, c, v) /\ detector = StaveBarrel(c, v)

LEMMA GenericCalBarrel_o1_v01_Makes ==
  ASSUME NEW c \in StaveFiles, OneSensitive(c), Build("GenericCalBarrel_o1_v01",
      GenericCalBarrel_o1_v01(c))
  PROVE  StavesMade'
<1> DEFINE v == CaloVariant(0, 0, FALSE, "front of the layer", "halves")
<1>1. StavesMakes("GenericCalBarrel_o1_v01", c, v)
  BY DEF StavesMakes, CaloVariant
<1>2. built' = "GenericCalBarrel_o1_v01" /\ detector' = StaveBarrel(c, v)
  BY DEF Build, GenericCalBarrel_o1_v01
<1> HIDE DEF v
<1> QED
  BY <1>1, <1>2 DEF StavesMade

LEMMA HCalBarrel_o1_v01_Makes ==
  ASSUME NEW c \in StaveFiles, OneSensitive(c), Build("HCalBarrel_o1_v01", HCalBarrel_o1_v01(c))
  PROVE  StavesMade'
<1> DEFINE v == CaloVariant(1, 1, FALSE, "sensitive slice", "split")
<1>1. StavesMakes("HCalBarrel_o1_v01", c, v)
  BY DEF StavesMakes, CaloVariant
<1>2. built' = "HCalBarrel_o1_v01" /\ detector' = StaveBarrel(c, v)
  BY DEF Build, HCalBarrel_o1_v01
<1> HIDE DEF v
<1> QED
  BY <1>1, <1>2 DEF StavesMade

LEMMA ECalBarrel_o2_v01_Makes ==
  ASSUME NEW c \in StaveFiles, OneSensitive(c), Build("ECalBarrel_o2_v01", ECalBarrel_o2_v01(c))
  PROVE  StavesMade'
<1> DEFINE v == CaloVariant(1, 1, FALSE, "middle of the layer", "split")
<1>1. StavesMakes("ECalBarrel_o2_v01", c, v)
  BY DEF StavesMakes, CaloVariant
<1>2. built' = "ECalBarrel_o2_v01" /\ detector' = StaveBarrel(c, v)
  BY DEF Build, ECalBarrel_o2_v01
<1> HIDE DEF v
<1> QED
  BY <1>1, <1>2 DEF StavesMade

LEMMA YokeBarrel_o1_v01_Makes ==
  ASSUME NEW c \in StaveFiles, Build("YokeBarrel_o1_v01", YokeBarrel_o1_v01(c))
  PROVE  StavesMade'
<1> DEFINE v == CaloVariant(1, 1, TRUE, "middle of the layer", "none")
<1>1. StavesMakes("YokeBarrel_o1_v01", c, v)
  BY DEF StavesMakes, CaloVariant
<1>2. built' = "YokeBarrel_o1_v01" /\ detector' = StaveBarrel(c, v)
  BY DEF Build, YokeBarrel_o1_v01
<1> HIDE DEF v
<1> QED
  BY <1>1, <1>2 DEF StavesMade

SteppedMade ==
  \E c \in StaveFiles :
    /\ OneSensitive(c) /\ Len(c.groups) = 1
    /\ built = "SteppedMuonBarrel_o2_v02" /\ detector = SteppedMuonBarrel_o2_v02(c)

TowersMakes(type, c, v) ==
  /\ type \in {"ECalBarrel_o1_v01", "ECalBarrel_o1_v02", "ECalBarrel_o1_v03",
              "ECalBarrel_o2_v03", "ECalBarrel_o2_v04"}
  /\ v.first.layer \in Nat
  /\ v.numbering \in {"staves", "modules"}
  /\ v.numbering = "modules" => c.ntowers = 1 /\ c.nstacks = 1

TowersMade ==
  \E c \in TowerFiles : \E v : TowersMakes(built, c, v) /\ detector = TowerBarrel(c, v)

LEMMA ECalBarrel_o1_v01_Makes ==
  ASSUME NEW c \in TowerFiles, Build("ECalBarrel_o1_v01", ECalBarrel_o1_v01(c))
  PROVE  TowersMade'
<1> DEFINE v == TowerVariant(1, "staves", "split")
<1>1. TowersMakes("ECalBarrel_o1_v01", c, v)
  BY DEF TowersMakes, TowerVariant, CaloVariant, Joined
<1>2. built' = "ECalBarrel_o1_v01" /\ detector' = TowerBarrel(c, v)
  BY DEF Build, ECalBarrel_o1_v01
<1> HIDE DEF v
<1> QED
  BY <1>1, <1>2 DEF TowersMade

LEMMA ECalBarrel_o1_v02_Makes ==
  ASSUME NEW c \in TowerFiles, Build("ECalBarrel_o1_v02", ECalBarrel_o1_v02(c))
  PROVE  TowersMade'
<1> DEFINE v == TowerVariant(1, "staves", "halves")
<1>1. TowersMakes("ECalBarrel_o1_v02", c, v)
  BY DEF TowersMakes, TowerVariant, CaloVariant, Joined
<1>2. built' = "ECalBarrel_o1_v02" /\ detector' = TowerBarrel(c, v)
  BY DEF Build, ECalBarrel_o1_v02
<1> HIDE DEF v
<1> QED
  BY <1>1, <1>2 DEF TowersMade

LEMMA ECalBarrel_o1_v03_Makes ==
  ASSUME NEW c \in TowerFiles, c.ntowers = 1, c.nstacks = 1, Build("ECalBarrel_o1_v03",
      ECalBarrel_o1_v03(c))
  PROVE  TowersMade'
<1> DEFINE v == TowerVariant(0, "modules", "halves")
<1>1. TowersMakes("ECalBarrel_o1_v03", c, v)
  BY DEF TowersMakes, TowerVariant, CaloVariant, Joined
<1>2. built' = "ECalBarrel_o1_v03" /\ detector' = TowerBarrel(c, v)
  BY DEF Build, ECalBarrel_o1_v03
<1> HIDE DEF v
<1> QED
  BY <1>1, <1>2 DEF TowersMade

LEMMA ECalBarrel_o2_v03_Makes ==
  ASSUME NEW c \in TowerFiles, c.ntowers = 1, c.nstacks = 1, Build("ECalBarrel_o2_v03",
      ECalBarrel_o2_v03(c))
  PROVE  TowersMade'
<1> DEFINE v == TowerVariant(0, "modules", "halves")
<1>1. TowersMakes("ECalBarrel_o2_v03", c, v)
  BY DEF TowersMakes, TowerVariant, CaloVariant, Joined
<1>2. built' = "ECalBarrel_o2_v03" /\ detector' = TowerBarrel(c, v)
  BY DEF Build, ECalBarrel_o2_v03, ECalBarrel_o1_v03
<1> HIDE DEF v
<1> QED
  BY <1>1, <1>2 DEF TowersMade

LEMMA ECalBarrel_o2_v04_Makes ==
  ASSUME NEW c \in TowerFiles, c.ntowers = 1, c.nstacks = 1, Build("ECalBarrel_o2_v04",
      ECalBarrel_o2_v04(c))
  PROVE  TowersMade'
<1> DEFINE v == TowerVariant(0, "modules", "halves")
<1>1. TowersMakes("ECalBarrel_o2_v04", c, v)
  BY DEF TowersMakes, TowerVariant, CaloVariant, Joined
<1>2. built' = "ECalBarrel_o2_v04" /\ detector' = TowerBarrel(c, v)
  BY DEF Build, ECalBarrel_o2_v04, ECalBarrel_o1_v03
<1> HIDE DEF v
<1> QED
  BY <1>1, <1>2 DEF TowersMade

LEMMA BuildCalorimeterBarrelMakes ==
  ASSUME BuildCalorimeterBarrel
  PROVE  (StavesMade \/ SteppedMade \/ TowersMade)'
<1>1. (\E c \in StaveFiles : /\ OneSensitive(c) /\ Len(c.groups) = 1
                              /\ Build("SteppedMuonBarrel_o2_v02", SteppedMuonBarrel_o2_v02(c)))
      => SteppedMade'
  BY DEF Build, SteppedMade
<1> QED
  BY <1>1, GenericCalBarrel_o1_v01_Makes, HCalBarrel_o1_v01_Makes, ECalBarrel_o2_v01_Makes,
      YokeBarrel_o1_v01_Makes, ECalBarrel_o1_v01_Makes, ECalBarrel_o1_v02_Makes,
      ECalBarrel_o1_v03_Makes, ECalBarrel_o2_v03_Makes, ECalBarrel_o2_v04_Makes DEF
      BuildCalorimeterBarrel

\* Polygons and panels of an endcap.
PolygonsMakes(type, c, v, other) ==
  /\ type \in {"GenericCalEndcap_o1_v01", "HCalEndcap_o1_v01", "ECalEndcap_o2_v01",
              "YokeEndcap_o1_v01", "SteppedMuonEndcap_o2_v02"}
  /\ v.first.layer \in Nat
  /\ v.submodule \in BOOLEAN
  /\ ~v.submodule => OneSensitive(c)
  /\ other \in {2, -1}

PolygonsMade ==
  \E c \in PolygonFiles : \E v, other, inTree :
    /\ PolygonsMakes(built, c, v, other)
    /\ built \notin NotInTheTree => inTree = {1, other}
    /\ detector = PolygonEndcap(c, v, other, inTree)

LEMMA GenericCalEndcap_o1_v01_Makes ==
  ASSUME NEW c \in PolygonFiles, OneSensitive(c), Build("GenericCalEndcap_o1_v01",
      GenericCalEndcap_o1_v01(c))
  PROVE  PolygonsMade'
<1> DEFINE v == CaloVariant(0, 0, FALSE, "front of the layer", "halves")
           other == 2
           inTree == {1, 2}
<1>1. PolygonsMakes("GenericCalEndcap_o1_v01", c, v, other)
  BY DEF PolygonsMakes, CaloVariant
<1>2. built' = "GenericCalEndcap_o1_v01" /\ detector' = PolygonEndcap(c, v, other, inTree)
  BY DEF Build, GenericCalEndcap_o1_v01
<1>3. inTree = {1, other}
  OBVIOUS
<1> HIDE DEF v, other, inTree
<1> QED
  BY <1>1, <1>2, <1>3 DEF PolygonsMade

LEMMA HCalEndcap_o1_v01_Makes ==
  ASSUME NEW c \in PolygonFiles, OneSensitive(c), Build("HCalEndcap_o1_v01",
      HCalEndcap_o1_v01(c))
  PROVE  PolygonsMade'
<1> DEFINE v == CaloVariant(0, 1, FALSE, "sensitive slice", "split")
           other == 2
           inTree == {1, 2}
<1>1. PolygonsMakes("HCalEndcap_o1_v01", c, v, other)
  BY DEF PolygonsMakes, CaloVariant
<1>2. built' = "HCalEndcap_o1_v01" /\ detector' = PolygonEndcap(c, v, other, inTree)
  BY DEF Build, HCalEndcap_o1_v01
<1>3. inTree = {1, other}
  OBVIOUS
<1> HIDE DEF v, other, inTree
<1> QED
  BY <1>1, <1>2, <1>3 DEF PolygonsMade

LEMMA ECalEndcap_o2_v01_Makes ==
  ASSUME NEW c \in PolygonFiles, OneSensitive(c), Build("ECalEndcap_o2_v01",
      ECalEndcap_o2_v01(c))
  PROVE  PolygonsMade'
<1> DEFINE v == CaloVariant(0, 1, FALSE, "middle of the layer", "split")
           other == 2
           inTree == {1, 2}
<1>1. PolygonsMakes("ECalEndcap_o2_v01", c, v, other)
  BY DEF PolygonsMakes, CaloVariant
<1>2. built' = "ECalEndcap_o2_v01" /\ detector' = PolygonEndcap(c, v, other, inTree)
  BY DEF Build, ECalEndcap_o2_v01
<1>3. inTree = {1, other}
  OBVIOUS
<1> HIDE DEF v, other, inTree
<1> QED
  BY <1>1, <1>2, <1>3 DEF PolygonsMade

LEMMA YokeEndcap_o1_v01_Makes ==
  ASSUME NEW c \in PolygonFiles, Build("YokeEndcap_o1_v01", YokeEndcap_o1_v01(c))
  PROVE  PolygonsMade'
<1> DEFINE v == CaloVariant(0, 1, TRUE, "middle of the layer", "none")
           other == 2
           inTree == {1, 2}
<1>1. PolygonsMakes("YokeEndcap_o1_v01", c, v, other)
  BY DEF PolygonsMakes, CaloVariant
<1>2. built' = "YokeEndcap_o1_v01" /\ detector' = PolygonEndcap(c, v, other, inTree)
  BY DEF Build, YokeEndcap_o1_v01
<1>3. inTree = {1, other}
  OBVIOUS
<1> HIDE DEF v, other, inTree
<1> QED
  BY <1>1, <1>2, <1>3 DEF PolygonsMade

LEMMA SteppedMuonEndcap_o2_v02_Makes ==
  ASSUME NEW c \in PolygonFiles, OneSensitive(c), Build("SteppedMuonEndcap_o2_v02",
      SteppedMuonEndcap_o2_v02(c))
  PROVE  PolygonsMade'
<1> DEFINE v == CaloVariant(0, 0, TRUE, "front of the layer", "halves")
           other == -1
           inTree == {1}
<1>1. PolygonsMakes("SteppedMuonEndcap_o2_v02", c, v, other)
  BY DEF PolygonsMakes, CaloVariant
<1>2. built' = "SteppedMuonEndcap_o2_v02" /\ detector' = PolygonEndcap(c, v, other, inTree)
  BY DEF Build, SteppedMuonEndcap_o2_v02
<1>3. "SteppedMuonEndcap_o2_v02" \in NotInTheTree
  BY DEF NotInTheTree
<1> HIDE DEF v, other, inTree
<1> QED
  BY <1>1, <1>2, <1>3 DEF PolygonsMade

PanelsMade ==
  \E c \in PanelFiles :
    /\ built \in {"ECalEndcap_o1_v01", "SECalEndcap_o1_v01"}
    /\ detector = PanelEndcap(c)

LEMMA BuildCalorimeterEndcapMakes ==
  ASSUME BuildCalorimeterEndcap
  PROVE  (PolygonsMade \/ PanelsMade \/ detector = Thrown)'
<1>1. ASSUME NEW c \in PanelFiles, Build("ECalEndcap_o1_v01", ECalEndcap_o1_v01(c))
      PROVE  PanelsMade' \/ (detector = Thrown)'
  BY <1>1 DEF Build, ECalEndcap_o1_v01, PanelsMade
<1>2. ASSUME NEW c \in PanelFiles, Build("SECalEndcap_o1_v01", SECalEndcap_o1_v01(c))
      PROVE  PanelsMade' \/ (detector = Thrown)'
  BY <1>2 DEF Build, SECalEndcap_o1_v01, PanelsMade
<1> QED
  BY <1>1, <1>2, GenericCalEndcap_o1_v01_Makes, HCalEndcap_o1_v01_Makes,
      ECalEndcap_o2_v01_Makes, YokeEndcap_o1_v01_Makes, SteppedMuonEndcap_o2_v02_Makes DEF
      BuildCalorimeterEndcap

\* Halves of the calorimeters around the beam pipe, and prototypes.
ForwardTypes ==
  {"LumiCal_o1_v01", "LumiCal_o1_v03", "BeamCal_o1_v01", "BeamCal_o1_v02", "LHCal", "LHCal_v01"}

ForwardMakes(type, v) ==
  /\ type \in ForwardTypes
  /\ v.number.first.layer \in Nat
  /\ v.sliceIds \in BOOLEAN
  /\ v.halves \in {{}, {1, 2}}

ForwardMade ==
  \E c \in ForwardFiles : \E v :
    ForwardMakes(built, v) /\ detector = ForwardCalorimeter(c, v)

LEMMA ForwardVariantsAre ==
  ASSUME NEW type \in ForwardTypes, NEW reach, NEW layer \in Nat, NEW sliceIds \in BOOLEAN,
         NEW halves \in {{}, {1, 2}}
  PROVE  ForwardMakes(type, ForwardVariant(reach, layer, sliceIds, halves))
BY DEF ForwardMakes, ForwardVariant, CaloVariant

LEMMA BuildForwardMakes ==
  ASSUME BuildForward
  PROVE  ForwardMade'
<1>1. PICK c \in ForwardFiles :
        \/ Build("LumiCal_o1_v01", LumiCal_o1_v01(c))
        \/ Build("LumiCal_o1_v03", LumiCal_o1_v03(c))
        \/ Build("BeamCal_o1_v01", BeamCal_o1_v01(c))
        \/ Build("BeamCal_o1_v02", BeamCal_o1_v02(c))
        \/ Build("LHCal", LHCal(c))
        \/ Build("LHCal_v01", LHCal_v01(c))
  BY DEF BuildForward
<1>2. ASSUME NEW type \in ForwardTypes, NEW reach, NEW layer \in Nat, NEW sliceIds \in BOOLEAN,
             NEW halves \in {{}, {1, 2}},
             Build(type, ForwardCalorimeter(c, ForwardVariant(reach, layer, sliceIds, halves)))
      PROVE  ForwardMade'
  <2> DEFINE v == ForwardVariant(reach, layer, sliceIds, halves)
  <2>1. ForwardMakes(type, v)
    BY <1>2, ForwardVariantsAre
  <2>2. built' = type /\ detector' = ForwardCalorimeter(c, v)
    BY <1>2 DEF Build
  <2> HIDE DEF v
  <2> QED
    BY <2>1, <2>2 DEF ForwardMade
<1>3. CASE Build("LumiCal_o1_v01", LumiCal_o1_v01(c))
  BY <1>2, <1>3, Zenon DEF LumiCal_o1_v01, ForwardTypes
<1>4. CASE Build("LumiCal_o1_v03", LumiCal_o1_v03(c))
  BY <1>2, <1>4, Zenon DEF LumiCal_o1_v03, ForwardTypes
<1>5. CASE Build("BeamCal_o1_v01", BeamCal_o1_v01(c))
  BY <1>2, <1>5, Zenon DEF BeamCal_o1_v01, ForwardTypes
<1>6. CASE Build("BeamCal_o1_v02", BeamCal_o1_v02(c))
  BY <1>2, <1>6, Zenon DEF BeamCal_o1_v02, BeamCal_o1_v01, ForwardTypes
<1>7. CASE Build("LHCal", LHCal(c))
  BY <1>2, <1>7, Zenon DEF LHCal, ForwardTypes
<1>8. CASE Build("LHCal_v01", LHCal_v01(c))
  BY <1>2, <1>8, Zenon DEF LHCal_v01, LHCal, ForwardTypes
<1> QED
  BY <1>1, <1>3, <1>4, <1>5, <1>6, <1>7, <1>8

PrototypeTypes ==
  {"CaloPrototype_v01", "CaloPrototype_v02", "CaloPrototype_v03", "TBecal4d", "TBhcal4d"}

PrototypesMade ==
  \E c \in PrototypeFiles : \E v :
    built \in PrototypeTypes /\ v.sliceIds \in BOOLEAN /\ detector = Prototype(c, v)

LEMMA BuildPrototypeMakes ==
  ASSUME BuildPrototype
  PROVE  PrototypesMade'
<1>1. PICK c \in PrototypeFiles :
        \/ Build("CaloPrototype_v01", CaloPrototype_v01(c))
        \/ Build("CaloPrototype_v02", CaloPrototype_v02(c))
        \/ Build("CaloPrototype_v03", CaloPrototype_v03(c))
        \/ Build("TBecal4d", TBecal4d(c))
        \/ Build("TBhcal4d", TBhcal4d(c))
  BY DEF BuildPrototype
<1>2. ASSUME NEW type \in PrototypeTypes, NEW sliceIds \in BOOLEAN, NEW narrow, NEW absorbers,
             Build(type, Prototype(c, [sliceIds |-> sliceIds, narrow |-> narrow,
                                       absorbersFirst |-> absorbers]))
      PROVE  PrototypesMade'
  <2> DEFINE v == [sliceIds |-> sliceIds, narrow |-> narrow, absorbersFirst |-> absorbers]
  <2>1. v.sliceIds \in BOOLEAN
    OBVIOUS
  <2>2. built' = type /\ detector' = Prototype(c, v)
    BY <1>2 DEF Build
  <2> HIDE DEF v
  <2> QED
    BY <2>1, <2>2 DEF PrototypesMade
<1>3. CASE Build("CaloPrototype_v01", CaloPrototype_v01(c))
  BY <1>2, <1>3, Zenon DEF CaloPrototype_v01, PrototypeTypes
<1>4. CASE Build("CaloPrototype_v02", CaloPrototype_v02(c))
  BY <1>2, <1>4, Zenon DEF CaloPrototype_v02, CaloPrototype_v01, PrototypeTypes
<1>5. CASE Build("CaloPrototype_v03", CaloPrototype_v03(c))
  BY <1>2, <1>5, Zenon DEF CaloPrototype_v03, CaloPrototype_v01, PrototypeTypes
<1>6. CASE Build("TBecal4d", TBecal4d(c))
  BY <1>2, <1>6, Zenon DEF TBecal4d, PrototypeTypes
<1>7. CASE Build("TBhcal4d", TBhcal4d(c))
  BY <1>2, <1>7, Zenon DEF TBhcal4d, PrototypeTypes
<1> QED
  BY <1>1, <1>3, <1>4, <1>5, <1>6, <1>7

\* Ladders.
LaddersMakes(type, c, nz) ==
  /\ type \in {"ZPlanarTracker", "ZSegmentedPlanarTracker"}
  /\ DOMAIN nz = DOMAIN c.layers
  /\ \A l \in DOMAIN nz :
       nz[l] \in Nat /\ nz[l] > 0 /\ (4 * c.layers[l].sensitive.zhalf) % nz[l] = 0

LaddersMade ==
  \E c \in LadderFiles : \E nz, neighbours :
    LaddersMakes(built, c, nz) /\ detector = Ladders(c, nz, neighbours)

LEMMA ZPlanarTracker_Makes ==
  ASSUME NEW c \in LadderFiles, Build("ZPlanarTracker", ZPlanarTracker(c))
  PROVE  LaddersMade'
<1> DEFINE nz == [l \in DOMAIN c.layers |-> 1]
           neighbours == UNION {LadderNeighbours(Layer(c, l)) : l \in DOMAIN c.layers}
<1>1. LaddersMakes("ZPlanarTracker", c, nz)
  <2>1. \A n \in Nat : n % 1 = 0
    OBVIOUS
  <2>2. \A l \in DOMAIN c.layers : 4 * c.layers[l].sensitive.zhalf \in Nat
    BY LadderFilesAssumption DEF IsLadderFile
  <2> QED
    BY <2>1, <2>2 DEF LaddersMakes
<1>2. built' = "ZPlanarTracker" /\ detector' = Ladders(c, nz, neighbours)
  BY DEF Build, ZPlanarTracker
<1> HIDE DEF nz, neighbours
<1> QED
  BY <1>1, <1>2 DEF LaddersMade

LEMMA ZSegmentedPlanarTracker_Makes ==
  ASSUME NEW c \in LadderFiles, Build("ZSegmentedPlanarTracker", ZSegmentedPlanarTracker(c))
  PROVE  LaddersMade'
<1> DEFINE nz == [l \in DOMAIN c.layers |-> Layer(c, l).nz]
           neighbours == {}
<1>1. LaddersMakes("ZSegmentedPlanarTracker", c, nz)
  BY LadderFilesAssumption DEF LaddersMakes, Layer, IsLadderFile
<1>2. built' = "ZSegmentedPlanarTracker" /\ detector' = Ladders(c, nz, neighbours)
  BY DEF Build, ZSegmentedPlanarTracker
<1> HIDE DEF nz, neighbours
<1> QED
  BY <1>1, <1>2 DEF LaddersMade

LEMMA BuildLaddersMakes ==
  ASSUME BuildLadders
  PROVE  LaddersMade'
BY ZPlanarTracker_Makes, ZSegmentedPlanarTracker_Makes DEF BuildLadders

RodsMade ==
  \E c \in RodFiles : /\ built = "TkLayoutTrackerBarrel_o1_v01"
                       /\ detector = TkLayoutTrackerBarrel_o1_v01(c)

DiscsMade ==
  \E c \in DiscFiles : /\ built = "TkLayoutTrackerEndcap_o1_v01"
                        /\ detector = TkLayoutTrackerEndcap_o1_v01(c)

LEMMA BuildTkLayoutMakes ==
  ASSUME BuildTkLayout
  PROVE  (RodsMade \/ DiscsMade)'
BY DEF BuildTkLayout, Build, RodsMade, DiscsMade

DetailedBarrelMakes(type, c, v) ==
  /\ type \in {"VertexBarrel_detailed_o1_v01", "VertexBarrel_detailed_o1_v02",
              "VertexBarrel_detailed_o1_v03"}
  /\ \/ v = "ladder" /\ PlainStaves(c) /\ DistinctIds(c.layers)
     \/ v = "detector" /\ PlainStaves(c) /\ DistinctOnEachSide(c.layers)
     \/ v = "group" /\ LayersAlike(c)

DetailedBarrelMade ==
  \E c \in DetailedBarrelFiles : \E v :
    DetailedBarrelMakes(built, c, v) /\ detector = DetailedBarrel(c, v)

DetailedEndcapMakes(type, c, v) ==
  /\ type \in {"VertexDisks_detailed_o1_v01", "VertexEndcap_detailed_o1_v02",
              "VertexEndcap_detailed_o1_v03"}
  /\ \/ v \in {"petal", "disk"} /\ PlainDisks(c)
     \/ v = "group" /\ DisksAlike(c)

DetailedEndcapMade ==
  \E c \in DetailedEndcapFiles : \E v :
    DetailedEndcapMakes(built, c, v) /\ detector = DetailedEndcap(c, v)

LEMMA BuildDetailedVertexMakes ==
  ASSUME BuildDetailedVertex
  PROVE  (DetailedBarrelMade \/ DetailedEndcapMade)'
<1>1. ASSUME NEW c \in DetailedBarrelFiles, NEW v, NEW type,
             DetailedBarrelMakes(type, c, v), Build(type, DetailedBarrel(c, v))
      PROVE  DetailedBarrelMade'
  <2>1. built' = type /\ detector' = DetailedBarrel(c, v)
    BY <1>1 DEF Build
  <2> QED
    BY <1>1, <2>1 DEF DetailedBarrelMade, DetailedBarrelMakes
<1>2. ASSUME NEW c \in DetailedEndcapFiles, NEW v, NEW type,
             DetailedEndcapMakes(type, c, v), Build(type, DetailedEndcap(c, v))
      PROVE  DetailedEndcapMade'
  <2>1. built' = type /\ detector' = DetailedEndcap(c, v)
    BY <1>2 DEF Build
  <2> QED
    BY <1>2, <2>1 DEF DetailedEndcapMade, DetailedEndcapMakes
<1>3. ASSUME NEW c \in DetailedBarrelFiles,
             \/ PlainStaves(c) /\ DistinctIds(c.layers)
                /\ Build("VertexBarrel_detailed_o1_v01", VertexBarrel_detailed_o1_v01(c))
             \/ PlainStaves(c) /\ DistinctOnEachSide(c.layers)
                /\ Build("VertexBarrel_detailed_o1_v02", VertexBarrel_detailed_o1_v02(c))
             \/ LayersAlike(c)
                /\ Build("VertexBarrel_detailed_o1_v03", VertexBarrel_detailed_o1_v03(c))
      PROVE  DetailedBarrelMade'
  <2>1. \E v, type : DetailedBarrelMakes(type, c, v) /\ Build(type, DetailedBarrel(c, v))
    BY <1>3 DEF VertexBarrel_detailed_o1_v01, VertexBarrel_detailed_o1_v02,
       VertexBarrel_detailed_o1_v03, DetailedBarrelMakes
  <2> QED
    BY <1>1, <2>1
<1>4. ASSUME NEW c \in DetailedEndcapFiles,
             \/ PlainDisks(c)
                /\ Build("VertexDisks_detailed_o1_v01", VertexDisks_detailed_o1_v01(c))
             \/ PlainDisks(c)
                /\ Build("VertexEndcap_detailed_o1_v02", VertexEndcap_detailed_o1_v02(c))
             \/ DisksAlike(c)
                /\ Build("VertexEndcap_detailed_o1_v03", VertexEndcap_detailed_o1_v03(c))
      PROVE  DetailedEndcapMade'
  <2>1. \E v, type : DetailedEndcapMakes(type, c, v) /\ Build(type, DetailedEndcap(c, v))
    BY <1>4 DEF VertexDisks_detailed_o1_v01, VertexEndcap_detailed_o1_v02,
       VertexEndcap_detailed_o1_v03, DetailedEndcapMakes
  <2> QED
    BY <1>2, <2>1
<1> QED
  BY <1>3, <1>4 DEF BuildDetailedVertex

PlanarMakes(type, c, layers) ==
  /\ type \in {"SIT_Simple_Pixel", "SIT_Simple_Planar", "SET_Simple_Planar"}
  /\ DOMAIN layers = DOMAIN c.layers
  /\ \A l \in DOMAIN layers :
       \E radius, n : /\ n \in Nat /\ n > 0 /\ radius \in Int
                      /\ layers[l] = Built(c, l, radius, n)

PlanarMade ==
  \E c \in AroundTPCFiles : \E layers :
    PlanarMakes(built, c, layers) /\ detector = SimplePlanar(c, layers)

\* What is at least as long as one sensor holds one.
LEMMA LengthOfOne ==
  ASSUME NEW a \in Nat, NEW b \in Nat, b > 0, a >= b
  PROVE  a \div b \in Nat /\ a \div b > 0
<1> DEFINE q == a \div b
           r == a % b
<1>1. q \in Int /\ r \in 0..(b - 1) /\ a = b * q + r
  OBVIOUS
<1> HIDE DEF q, r
<1>2. SUFFICES ASSUME q <= 0 PROVE FALSE
  BY <1>1 DEF q
<1>3. b * q <= 0
  BY <1>1, <1>2
<1> QED
  BY <1>1, <1>3

LEMMA SIT_Simple_Pixel_Makes ==
  ASSUME NEW c \in AroundTPCFiles, Build("SIT_Simple_Pixel", SIT_Simple_Pixel(c))
  PROVE  PlanarMade'
<1> DEFINE radius(l) == c.layers[l].distance
           n(l) == c.layers[l].nsensors
           layers == [l \in DOMAIN c.layers |-> Built(c, l, radius(l), n(l))]
<1>1. \A l \in DOMAIN c.layers : n(l) \in Nat /\ n(l) > 0 /\ radius(l) \in Int
  BY AroundTPCFilesAssumption DEF IsAroundTPCFile
<1>2. PlanarMakes("SIT_Simple_Pixel", c, layers)
  <2> HIDE DEF radius, n
  <2> QED
    BY <1>1 DEF PlanarMakes
<1>3. built' = "SIT_Simple_Pixel" /\ detector' = SimplePlanar(c, layers)
  BY DEF Build, SIT_Simple_Pixel
<1> HIDE DEF layers
<1> QED
  BY <1>2, <1>3 DEF PlanarMade

LEMMA SIT_Simple_Planar_Makes ==
  ASSUME NEW c \in AroundTPCFiles, Build("SIT_Simple_Planar", SIT_Simple_Planar(c))
  PROVE  PlanarMade'
<1> DEFINE radius(l) == c.layers[l].distance
           n(l) == c.layers[l].nsensors
           layers == [l \in DOMAIN c.layers |-> Built(c, l, radius(l), n(l))]
<1>1. \A l \in DOMAIN c.layers : n(l) \in Nat /\ n(l) > 0 /\ radius(l) \in Int
  BY AroundTPCFilesAssumption DEF IsAroundTPCFile
<1>2. PlanarMakes("SIT_Simple_Planar", c, layers)
  <2> HIDE DEF radius, n
  <2> QED
    BY <1>1 DEF PlanarMakes
<1>3. built' = "SIT_Simple_Planar" /\ detector' = SimplePlanar(c, layers)
  BY DEF Build, SIT_Simple_Planar
<1> HIDE DEF layers
<1> QED
  BY <1>2, <1>3 DEF PlanarMade

LEMMA SET_Simple_Planar_Makes ==
  ASSUME NEW c \in AroundTPCFiles, Build("SET_Simple_Planar", SET_Simple_Planar(c))
  PROVE  PlanarMade'
<1> DEFINE radius(l) == c.tpcRadius + c.layers[l].distance
           n(l) == 2 * (c.layers[l].covered \div c.sensorLength)
           layers == [l \in DOMAIN c.layers |-> Built(c, l, radius(l), n(l))]
<1>1. \A l \in DOMAIN c.layers : n(l) \in Nat /\ n(l) > 0 /\ radius(l) \in Int
  <2>1. \A a, b \in Nat : b > 0 /\ a >= b => a \div b \in Nat /\ a \div b > 0
    BY LengthOfOne
  <2>2. /\ c.sensorLength \in Nat /\ c.sensorLength > 0 /\ c.tpcRadius \in Nat
        /\ \A l \in DOMAIN c.layers :
             /\ c.layers[l].covered \in Nat /\ c.layers[l].covered >= c.sensorLength
             /\ c.layers[l].distance \in Nat
    BY AroundTPCFilesAssumption DEF IsAroundTPCFile
  <2>3. \A l \in DOMAIN c.layers :
          /\ c.layers[l].covered \div c.sensorLength \in Nat
          /\ c.layers[l].covered \div c.sensorLength > 0
    BY <2>1, <2>2
  <2> QED
    BY <2>2, <2>3
<1>2. PlanarMakes("SET_Simple_Planar", c, layers)
  <2> HIDE DEF radius, n
  <2> QED
    BY <1>1 DEF PlanarMakes
<1>3. built' = "SET_Simple_Planar" /\ detector' = SimplePlanar(c, layers)
  BY DEF Build, SET_Simple_Planar
<1> HIDE DEF layers
<1> QED
  BY <1>2, <1>3 DEF PlanarMade

LEMMA BuildSimplePlanarMakes ==
  ASSUME BuildSimplePlanar
  PROVE  PlanarMade'
BY SIT_Simple_Pixel_Makes, SIT_Simple_Planar_Makes, SET_Simple_Planar_Makes DEF BuildSimplePlanar

\* Yokes.
YokeBarrelMade ==
  \E c \in YokeBarrelFiles : built = "Yoke05_Barrel" /\ detector = Yoke05_Barrel(c)

YokeEndcapsMade ==
  \E c \in YokeEndcapFiles :
    built \in {"Yoke05_Endcaps", "Yoke06_Endcaps"} /\ detector = YokeEndcaps(c)

LEMMA BuildYokeMakes ==
  ASSUME BuildYoke
  PROVE  (YokeBarrelMade \/ YokeEndcapsMade)'
BY DEF BuildYoke, Build, YokeBarrelMade, YokeEndcapsMade, Yoke05_Endcaps, Yoke06_Endcaps

\* Hadron calorimeters of chambers.
ChamberBarrelMade ==
  \E c \in ChamberBarrelFiles :
    \/ /\ OneOf(c) /\ InThe(c, c.chamber)
       /\ \/ built = "SHcalSc04_Barrel_v01" /\ detector = SHcalSc04_Barrel_v01(c)
          \/ built = "SHcalSc04_Barrel_v03" /\ detector = SHcalSc04_Barrel_v03(c)
          \/ built = "Hcal_Barrel_SD_v01" /\ detector = Hcal_Barrel_SD_v01(c)
          \/ built = "Hcal_Barrel_SD_v02" /\ detector = Hcal_Barrel_SD_v02(c)
    \/ /\ InThe(c, c.chamber)
       /\ built = "SHcalSc04_Barrel_v04" /\ detector = SHcalSc04_Barrel_v04(c)
    \/ /\ OneOf(c) /\ InThe(c, c.radiator + c.chamber)
       /\ built = "SHcalSc04_Barrel_v02" /\ detector = SHcalSc04_Barrel_v02(c)

LEMMA BuildChamberBarrelMakes ==
  ASSUME BuildChamberBarrel
  PROVE  (ChamberBarrelMade \/ detector = Thrown)'
BY DEF BuildChamberBarrel, Build, ChamberBarrelMade, Hcal_BarrelSD_v00

ChamberEndcapMade ==
  \E c \in ChamberEndcapFiles :
    \/ /\ OneOf(c)
       /\ \/ built = "SHcalSc04_Endcaps" /\ detector = SHcalSc04_Endcaps(c)
          \/ built = "SHcalSc04_EndcapRing" /\ detector = SHcalSc04_EndcapRing(c)
          \/ built = "Hcal_Endcaps_SD_v01" /\ detector = Hcal_Endcaps_SD_v01(c)
          \/ built = "Hcal_Endcaps_SD_v02" /\ detector = Hcal_Endcaps_SD_v02(c)
          \/ built = "Hcal_EndcapRing_SD_v01" /\ detector = Hcal_EndcapRing_SD_v01(c)
    \/ built = "SHcalSc04_Endcaps_v01" /\ detector = SHcalSc04_Endcaps_v01(c)
    \/ built = "SHcalSc04_EndcapRing_v01" /\ detector = SHcalSc04_EndcapRing_v01(c)

LEMMA BuildChamberEndcapMakes ==
  ASSUME BuildChamberEndcap
  PROVE  ChamberEndcapMade'
BY DEF BuildChamberEndcap, Build, ChamberEndcapMade

\* Turbines.
TurbineMakes(type, c, v) ==
  /\ type \in {"ECalEndcap_Turbine_o1_v01", "ECalEndcap_Turbine_o1_v02",
              "ECalEndcap_Turbine_o1_v03"}
  /\ {v.own, v.free, v.centred} \subseteq BOOLEAN
  /\ v.free => type # "ECalEndcap_Turbine_o1_v01"
  /\ v.modules \in {"least common multiple", "one"}
  /\ type # "ECalEndcap_Turbine_o1_v01" => v.readout = 2
  /\ type \notin FirstTurbines => v.own /\ v.subtypes = <<0, 2, 1>>

TurbineMade ==
  \E c \in TurbineFiles : \E v, stacks :
    TurbineMakes(built, c, v) /\ detector = Turbine(c, v, stacks)

LEMMA ECalEndcap_Turbine_o1_v01_Makes ==
  ASSUME NEW c \in TurbineFiles, Build("ECalEndcap_Turbine_o1_v01", ECalEndcap_Turbine_o1_v01(c))
  PROVE  TurbineMade'
<1> DEFINE v == [subtypes |-> <<2, 1, 0>>, readout |-> 0, own |-> FALSE, wheels |-> "any",
                 modules |-> "least common multiple", tubeRoom |-> FALSE, shifted |-> TRUE,
                 free |-> FALSE, centred |-> FALSE, tree |-> FALSE]
<1>1. TurbineMakes("ECalEndcap_Turbine_o1_v01", c, v)
  BY DEF TurbineMakes, FirstTurbines
<1>2. built' = "ECalEndcap_Turbine_o1_v01" /\ detector' = Turbine(c, v, {})
  BY DEF Build, ECalEndcap_Turbine_o1_v01
<1> HIDE DEF v
<1> QED
  BY <1>1, <1>2 DEF TurbineMade

LEMMA ECalEndcap_Turbine_o1_v02_Makes ==
  ASSUME NEW c \in TurbineFiles, Build("ECalEndcap_Turbine_o1_v02", ECalEndcap_Turbine_o1_v02(c))
  PROVE  TurbineMade'
<1> DEFINE v == [subtypes |-> <<3, 2, 1>>, readout |-> 2, own |-> FALSE, wheels |-> "three",
                 modules |-> "one", tubeRoom |-> FALSE, shifted |-> FALSE,
                 free |-> TRUE, centred |-> FALSE, tree |-> TRUE]
<1>1. TurbineMakes("ECalEndcap_Turbine_o1_v02", c, v)
  BY DEF TurbineMakes, FirstTurbines
<1>2. built' = "ECalEndcap_Turbine_o1_v02" /\ detector' = Turbine(c, v, {})
  BY DEF Build, ECalEndcap_Turbine_o1_v02
<1> HIDE DEF v
<1> QED
  BY <1>1, <1>2 DEF TurbineMade

LEMMA ECalEndcap_Turbine_o1_v03_Makes ==
  ASSUME NEW c \in TurbineFiles, Build("ECalEndcap_Turbine_o1_v03", ECalEndcap_Turbine_o1_v03(c))
  PROVE  TurbineMade'
<1> DEFINE v == [subtypes |-> <<0, 2, 1>>, readout |-> 2, own |-> TRUE, wheels |-> "three",
                 modules |-> "one", tubeRoom |-> TRUE, shifted |-> FALSE,
                 free |-> TRUE, centred |-> TRUE, tree |-> TRUE]
<1>1. TurbineMakes("ECalEndcap_Turbine_o1_v03", c, v)
  BY DEF TurbineMakes
<1>2. built' = "ECalEndcap_Turbine_o1_v03" /\ detector' = Turbine(c, v, {MechanicalSupport(c, v)})
  BY DEF Build, ECalEndcap_Turbine_o1_v03
<1> HIDE DEF v
<1> QED
  BY <1>1, <1>2 DEF TurbineMade

LEMMA BuildTurbineMakes ==
  ASSUME BuildTurbine
  PROVE  TurbineMade'
BY ECalEndcap_Turbine_o1_v01_Makes, ECalEndcap_Turbine_o1_v02_Makes,
   ECalEndcap_Turbine_o1_v03_Makes DEF BuildTurbine

\* Plates and discs in noble liquid.
PlatesMakes(type, c, v) ==
  /\ type \in {"ECalBarrel_NobleLiquid_InclinedTrapezoids_o1_v01",
              "ECalBarrel_NobleLiquid_InclinedTrapezoids_o1_v02",
              "ECalBarrel_NobleLiquid_InclinedTrapezoids_o1_v03"}
  /\ {v.counts, v.strict, v.bath, v.grown} \subseteq BOOLEAN
  /\ type \notin HeightNotSummed => v.grown

PlatesMade ==
  \E c \in PlateFiles : \E v :
    PlatesMakes(built, c, v) /\ detector = ECalBarrelInclined(c, v)

LEMMA ECalBarrel_NobleLiquid_InclinedTrapezoids_o1_v01_Makes ==
  ASSUME NEW c \in PlateFiles,
         Build("ECalBarrel_NobleLiquid_InclinedTrapezoids_o1_v01",
               ECalBarrel_NobleLiquid_InclinedTrapezoids_o1_v01(c))
  PROVE  PlatesMade'
<1> DEFINE v == [counts |-> FALSE, strict |-> FALSE, bath |-> FALSE, face |-> "outer", grown |-> TRUE]
<1>1. PlatesMakes("ECalBarrel_NobleLiquid_InclinedTrapezoids_o1_v01", c, v)
  BY DEF PlatesMakes
<1>2. /\ built' = "ECalBarrel_NobleLiquid_InclinedTrapezoids_o1_v01"
      /\ detector' = ECalBarrelInclined(c, v)
  BY DEF Build, ECalBarrel_NobleLiquid_InclinedTrapezoids_o1_v01
<1> HIDE DEF v
<1> QED
  BY <1>1, <1>2 DEF PlatesMade

LEMMA ECalBarrel_NobleLiquid_InclinedTrapezoids_o1_v02_Makes ==
  ASSUME NEW c \in PlateFiles,
         Build("ECalBarrel_NobleLiquid_InclinedTrapezoids_o1_v02",
               ECalBarrel_NobleLiquid_InclinedTrapezoids_o1_v02(c))
  PROVE  PlatesMade'
<1> DEFINE v == [counts |-> TRUE, strict |-> FALSE, bath |-> TRUE, face |-> "outer", grown |-> TRUE]
<1>1. PlatesMakes("ECalBarrel_NobleLiquid_InclinedTrapezoids_o1_v02", c, v)
  BY DEF PlatesMakes
<1>2. /\ built' = "ECalBarrel_NobleLiquid_InclinedTrapezoids_o1_v02"
      /\ detector' = ECalBarrelInclined(c, v)
  BY DEF Build, ECalBarrel_NobleLiquid_InclinedTrapezoids_o1_v02
<1> HIDE DEF v
<1> QED
  BY <1>1, <1>2 DEF PlatesMade

LEMMA ECalBarrel_NobleLiquid_InclinedTrapezoids_o1_v03_Makes ==
  ASSUME NEW c \in PlateFiles,
         Build("ECalBarrel_NobleLiquid_InclinedTrapezoids_o1_v03",
               ECalBarrel_NobleLiquid_InclinedTrapezoids_o1_v03(c))
  PROVE  PlatesMade'
<1> DEFINE v == [counts |-> TRUE, strict |-> TRUE, bath |-> TRUE, face |-> "inner", grown |-> FALSE]
<1>1. PlatesMakes("ECalBarrel_NobleLiquid_InclinedTrapezoids_o1_v03", c, v)
  BY DEF PlatesMakes, HeightNotSummed
<1>2. /\ built' = "ECalBarrel_NobleLiquid_InclinedTrapezoids_o1_v03"
      /\ detector' = ECalBarrelInclined(c, v)
  BY DEF Build, ECalBarrel_NobleLiquid_InclinedTrapezoids_o1_v03
<1> HIDE DEF v
<1> QED
  BY <1>1, <1>2 DEF PlatesMade

UprightDiscsMade ==
  \E c \in UprightDiscFiles : built = "CaloDiscs_o1_v01" /\ detector = CaloDiscs_o1_v01(c)

LEMMA BuildNobleLiquidMakes ==
  ASSUME BuildNobleLiquid
  PROVE  (PlatesMade \/ UprightDiscsMade)'
<1>1. (\E c \in UprightDiscFiles : Build("CaloDiscs_o1_v01", CaloDiscs_o1_v01(c)))
      => UprightDiscsMade'
  BY DEF Build, UprightDiscsMade
<1> QED
  BY <1>1, ECalBarrel_NobleLiquid_InclinedTrapezoids_o1_v01_Makes,
     ECalBarrel_NobleLiquid_InclinedTrapezoids_o1_v02_Makes,
     ECalBarrel_NobleLiquid_InclinedTrapezoids_o1_v03_Makes DEF BuildNobleLiquid

\* Calorimeters of tiles.
TileBarrelMakes(type, v) ==
  \/ type = "HCalTileBarrel_o1_v01" /\ v = [counted |-> TRUE, behindPlate |-> FALSE]
  \/ type = "HCalTileBarrel_o1_v02" /\ v = [counted |-> FALSE, behindPlate |-> TRUE]

TileBarrelMade ==
  \E c \in TileBarrelFiles : \E v :
    OneTile(c) /\ TileBarrelMakes(built, v) /\ detector = TileBarrel(c, v)

TilePartsMakes(type, c, v) ==
  \/ /\ type = "HCalTileExtBarrel_o1_v01" /\ Len(c.parts) = 2
     /\ v = [plated |-> {1, 2}, mirrored |-> FALSE]
  \/ /\ type = "CaloThreePartsEndcap_o1_v01" /\ Len(c.parts) = 3
     /\ v = [plated |-> {1, 3}, mirrored |-> FALSE]
  \/ type = "CaloThreePartsEndcap_o1_v02" /\ Len(c.parts) = 3 /\ v = Mirrored

TilePartsRecords(type, c) ==
  IF type = "CaloThreePartsEndcap_o1_v02"
  THEN (IF c.readout \in ByTheta THEN EndcapRecords(c) ELSE PseudoLayers(c)) \o <<EndcapExtent(c)>>
  ELSE <<>>

TilePartsMade ==
  \E c \in TilePartsFiles : \E v :
    /\ OneTile(c) /\ TilePartsMakes(built, c, v)
    /\ detector = TileParts(c, v, TilePartsRecords(built, c))

LEMMA HCalTileExtBarrel_o1_v01_Makes ==
  ASSUME NEW c \in TilePartsFiles, OneTile(c), Len(c.parts) = 2,
         Build("HCalTileExtBarrel_o1_v01", HCalTileExtBarrel_o1_v01(c))
  PROVE  TilePartsMade'
<1> DEFINE v == [plated |-> {1, 2}, mirrored |-> FALSE]
<1>1. TilePartsMakes("HCalTileExtBarrel_o1_v01", c, v)
  BY DEF TilePartsMakes
<1>2. TilePartsRecords("HCalTileExtBarrel_o1_v01", c) = <<>>
  BY DEF TilePartsRecords
<1>3. built' = "HCalTileExtBarrel_o1_v01" /\ detector' = TileParts(c, v, <<>>)
  BY DEF Build, HCalTileExtBarrel_o1_v01
<1> HIDE DEF v
<1> QED
  BY <1>1, <1>2, <1>3 DEF TilePartsMade

LEMMA CaloThreePartsEndcap_o1_v01_Makes ==
  ASSUME NEW c \in TilePartsFiles, OneTile(c), Len(c.parts) = 3,
         Build("CaloThreePartsEndcap_o1_v01", HCalThreePartsEndcap_o1_v01(c))
  PROVE  TilePartsMade'
<1> DEFINE v == [plated |-> {1, 3}, mirrored |-> FALSE]
<1>1. TilePartsMakes("CaloThreePartsEndcap_o1_v01", c, v)
  BY DEF TilePartsMakes
<1>2. TilePartsRecords("CaloThreePartsEndcap_o1_v01", c) = <<>>
  BY DEF TilePartsRecords
<1>3. built' = "CaloThreePartsEndcap_o1_v01" /\ detector' = TileParts(c, v, <<>>)
  BY DEF Build, HCalThreePartsEndcap_o1_v01
<1> HIDE DEF v
<1> QED
  BY <1>1, <1>2, <1>3 DEF TilePartsMade

LEMMA CaloThreePartsEndcap_o1_v02_Makes ==
  ASSUME NEW c \in TilePartsFiles, OneTile(c), Len(c.parts) = 3,
         Build("CaloThreePartsEndcap_o1_v02", HCalThreePartsEndcap_o1_v02(c))
  PROVE  (TilePartsMade \/ detector = Thrown)'
<1>1. TilePartsMakes("CaloThreePartsEndcap_o1_v02", c, Mirrored)
  BY DEF TilePartsMakes
<1> DEFINE records == TilePartsRecords("CaloThreePartsEndcap_o1_v02", c)
<1>2. HCalThreePartsEndcap_o1_v02(c) \in {Thrown, TileParts(c, Mirrored, records)}
  BY Zenon DEF HCalThreePartsEndcap_o1_v02, TilePartsRecords
<1>3. /\ built' = "CaloThreePartsEndcap_o1_v02"
      /\ detector' \in {Thrown, TileParts(c, Mirrored, records)}
  BY <1>2 DEF Build
<1> HIDE DEF records
<1> QED
  BY <1>1, <1>3 DEF TilePartsMade, records

LEMMA BuildTilesMakes ==
  ASSUME BuildTiles
  PROVE  (TileBarrelMade \/ TilePartsMade \/ detector = Thrown)'
<1>1. ASSUME NEW c \in TileBarrelFiles, OneTile(c),
             \/ Build("HCalTileBarrel_o1_v01", HCalTileBarrel_o1_v01(c))
             \/ Build("HCalTileBarrel_o1_v02", HCalTileBarrel_o1_v02(c))
      PROVE  TileBarrelMade'
  BY <1>1 DEF Build, HCalTileBarrel_o1_v01, HCalTileBarrel_o1_v02, TileBarrelMade, TileBarrelMakes
<1> QED
  BY <1>1, HCalTileExtBarrel_o1_v01_Makes, CaloThreePartsEndcap_o1_v01_Makes,
     CaloThreePartsEndcap_o1_v02_Makes DEF BuildTiles

-----------------------------------------------------------------------------
(* The inductive invariant.                                                *)

Constructed ==
  \/ detector = Thrown
  \/ EndcapMade \/ BarrelMade \/ LaddersMade \/ RodsMade \/ DiscsMade \/ PlanarMade
  \/ StavesMade \/ SteppedMade \/ TowersMade \/ PolygonsMade \/ PanelsMade
  \/ ChamberBarrelMade \/ ChamberEndcapMade \/ YokeBarrelMade \/ YokeEndcapsMade
  \/ TurbineMade \/ PlatesMade \/ UprightDiscsMade \/ TileBarrelMade \/ TilePartsMade
  \/ ForwardMade \/ PrototypesMade \/ DetailedBarrelMade \/ DetailedEndcapMade

LEMMA NextMakes ==
  ASSUME Next
  PROVE  Constructed'
BY BuildTrackerEndcapMakes, BuildSiTrackerEndcapMakes, BuildVertexEndcapMakes,
   BuildTrackerBarrelMakes, BuildLaddersMakes, BuildTkLayoutMakes, BuildSimplePlanarMakes,
   BuildCalorimeterBarrelMakes, BuildCalorimeterEndcapMakes, BuildChamberBarrelMakes,
   BuildChamberEndcapMakes, BuildYokeMakes, BuildTurbineMakes, BuildNobleLiquidMakes,
   BuildTilesMakes, BuildForwardMakes, BuildPrototypeMakes, BuildDetailedVertexMakes
   DEF Next, Constructed

\* Whatever there is has been made by one of the constructors from a description it
\* accepts, or nothing has been built: what a constructor leaves behind is never
\* changed by a later one.
THEOREM ConstructorsMakeWhatThereIs ==
  Spec => []Constructed
<1>1. Init => Constructed
  BY DEF Init, Constructed
<1>2. ASSUME Constructed, [Next]_vars
      PROVE  Constructed'
  <2>1. CASE Next
    BY <2>1, NextMakes
  <2>2. CASE UNCHANGED vars
    <3>1. built' = built /\ detector' = detector
      BY <2>2 DEF vars
    <3> QED
      BY <1>2, <3>1 DEF Constructed, EndcapMade, BarrelMade, LaddersMade, RodsMade, DiscsMade,
         PlanarMade, StavesMade, SteppedMade, TowersMade, PolygonsMade, PanelsMade,
         ChamberBarrelMade, ChamberEndcapMade, YokeBarrelMade, YokeEndcapsMade, TurbineMade,
         PlatesMade, UprightDiscsMade, TileBarrelMade, TilePartsMade, ForwardMade,
         PrototypesMade, DetailedBarrelMade, DetailedEndcapMade
  <2> QED
    BY <1>2, <2>1, <2>2
<1> QED
  BY <1>1, <1>2, PTL DEF Spec

-----------------------------------------------------------------------------
(* Neighbours.                                                             *)

LEMMA OthersHaveNoNeighbours ==
  ASSUME Constructed, ~BarrelMade, detector # Thrown
  PROVE  built \notin BarrelsWithNeighbours
<1>1. EndcapMade \/ LaddersMade \/ RodsMade \/ DiscsMade \/ PlanarMade
      => built \notin BarrelsWithNeighbours
  BY DEF EndcapMade, EndcapMakes, EndcapTypes, LaddersMade, LaddersMakes, RodsMade, DiscsMade,
     PlanarMade, PlanarMakes, BarrelsWithNeighbours
<1>2. StavesMade \/ SteppedMade \/ TowersMade \/ PolygonsMade \/ PanelsMade
      => built \notin BarrelsWithNeighbours
  BY DEF StavesMade, StavesMakes, SteppedMade, TowersMade, TowersMakes, PolygonsMade,
     PolygonsMakes, PanelsMade, BarrelsWithNeighbours
<1>3. ChamberBarrelMade \/ ChamberEndcapMade \/ YokeBarrelMade \/ YokeEndcapsMade
      => built \notin BarrelsWithNeighbours
  BY DEF ChamberBarrelMade, ChamberEndcapMade, YokeBarrelMade, YokeEndcapsMade,
     BarrelsWithNeighbours
<1>4. TurbineMade \/ PlatesMade \/ UprightDiscsMade \/ TileBarrelMade \/ TilePartsMade
      => built \notin BarrelsWithNeighbours
  BY DEF TurbineMade, TurbineMakes, PlatesMade, PlatesMakes, UprightDiscsMade, TileBarrelMade,
     TileBarrelMakes, TilePartsMade, TilePartsMakes, BarrelsWithNeighbours
<1>5. ForwardMade \/ PrototypesMade => built \notin BarrelsWithNeighbours
  BY DEF ForwardMade, ForwardMakes, ForwardTypes, PrototypesMade, PrototypeTypes,
     BarrelsWithNeighbours
<1>6. DetailedBarrelMade \/ DetailedEndcapMade => built \notin BarrelsWithNeighbours
  BY DEF DetailedBarrelMade, DetailedBarrelMakes, DetailedEndcapMade, DetailedEndcapMakes,
     BarrelsWithNeighbours
<1> QED
  BY <1>1, <1>2, <1>3, <1>4, <1>5, <1>6 DEF Constructed

LEMMA NeighboursTouch ==
  ASSUME Constructed
  PROVE  NeighboursAreNextToEachOther
<1>1. CASE BarrelMade
  BY <1>1, BarrelNeighboursTouch DEF BarrelMade
<1>2. CASE detector = Thrown
  BY <1>2 DEF Thrown, NeighboursAreNextToEachOther
<1>3. CASE ~BarrelMade /\ detector # Thrown
  BY <1>3, OthersHaveNoNeighbours DEF NeighboursAreNextToEachOther
<1> QED
  BY <1>1, <1>2, <1>3

\* In every barrel, whatever its layers, the neighbours entered for a surface are the
\* other surfaces of its layer in this or the next stave around the beam that touch it
\* along the stave, and it is theirs.
THEOREM NeighboursAreEntered ==
  Spec => []NeighboursAreNextToEachOther
BY ConstructorsMakeWhatThereIs, NeighboursTouch, PTL

-----------------------------------------------------------------------------
(* Absorbers in the shape of a wedge.                                      *)

LEMMA RepeatedLayers ==
  ASSUME NEW c \in PlateFiles
  PROVE  Repeated(c.layers) \in Seq(Nat)
<1> DEFINE rows == [i \in DOMAIN c.layers |->
                      [j \in 1..c.layers[i].repeat |-> c.layers[i].thickness]]
<1>1. IsPlateFile(c)
  BY PlateFilesAssumption
<1>2. Len(c.layers) \in Nat /\ DOMAIN c.layers = 1..Len(c.layers)
  BY <1>1, Lists DEF IsPlateFile
<1>3. \A i \in DOMAIN c.layers :
        [j \in 1..c.layers[i].repeat |-> c.layers[i].thickness] \in Seq(Nat)
  <2> SUFFICES ASSUME NEW i \in DOMAIN c.layers
               PROVE  [j \in 1..c.layers[i].repeat |-> c.layers[i].thickness] \in Seq(Nat)
    OBVIOUS
  <2>1. c.layers[i].repeat \in Nat /\ c.layers[i].thickness \in Nat
    BY <1>1 DEF IsPlateFile
  <2>2. [j \in 1..c.layers[i].repeat |-> c.layers[i].thickness] \in [1..c.layers[i].repeat -> Nat]
    BY <2>1
  <2> QED
    BY <2>1, <2>2, RowsOf
<1>4. rows \in [1..Len(c.layers) -> Seq(Nat)]
  BY <1>2, <1>3
<1>5. rows \in Seq(Seq(Nat))
  <2> HIDE DEF rows
  <2> QED
    BY <1>2, <1>4, RowsOf
<1>6. FlattenSeq(rows) \in Seq(Nat)
  <2> HIDE DEF rows
  <2> QED
    BY <1>5, Flattened
<1> QED
  BY <1>6 DEF Repeated

LEMMA Divides ==
  ASSUME NEW a \in Int, NEW n \in Nat, n > 0
  PROVE  /\ (a * n) \div n = a
         /\ a \div n \in Int
         /\ a % n = 0 => (a \div n) * n = a
<1> DEFINE d == a \div n
           e == (a * n) \div n
<1>1. a = n * d + (a % n) /\ d \in Int
  OBVIOUS
<1>2. a * n = n * e + ((a * n) % n) /\ e \in Int /\ (a * n) % n \in 0..(n - 1)
  OBVIOUS
<1>3. n * (a - e) \in 0..(n - 1)
  <2> HIDE DEF e
  <2> QED
    BY <1>2
<1>4. a - e = 0
  <2> DEFINE f == a - e
  <2>1. f \in Int /\ n * f \in 0..(n - 1)
    <3> HIDE DEF e
    <3> QED
      BY <1>2, <1>3
  <2> HIDE DEF f
  <2>2. ~(f > 0)
    BY <2>1
  <2>3. ~(f < 0)
    BY <2>1
  <2>4. f = 0
    BY <2>1, <2>2, <2>3
  <2> QED
    BY <2>4 DEF f
<1>5. e = a
  <2> HIDE DEF e
  <2> QED
    BY <1>2, <1>4
<1>6. a % n = 0 => d * n = a
  <2> HIDE DEF d
  <2> QED
    BY <1>1
<1> QED
  BY <1>1, <1>5, <1>6

\* The heights of the layers along the plate.
LEMMA HeightsAre ==
  ASSUME NEW c \in PlateFiles
  PROVE  /\ Len(LayerHeights(c)) \in Nat
         /\ LayerHeights(c) \in Seq(Int)
         /\ DOMAIN LayerHeights(c) = 1..Len(Repeated(c.layers))
         /\ c.innerMax # c.inner => LayerHeights(c) = Repeated(c.layers)
<1> DEFINE t == Repeated(c.layers)
           L == PlaneLength(c)
<1>1. t \in Seq(Nat)
  BY RepeatedLayers
<1>2. IsPlateFile(c)
  BY PlateFilesAssumption
<1>3. L \in Nat /\ L > 0
  BY <1>2 DEF IsPlateFile, PlaneLength
<1>4. Len(t) \in Nat /\ DOMAIN t = 1..Len(t) /\ (\A i \in 1..Len(t) : t[i] \in Nat)
  <2> HIDE DEF t
  <2> QED
    BY <1>1
<1>5. Total(t) \in Nat /\ Total(t) > 0
  <2>1. Total(t) > 0
    BY <1>2 DEF IsPlateFile
  <2>2. \A i \in 0..Len(t) : Sums(t)[i] \in Nat
    <3> HIDE DEF t
    <3> QED
      BY <1>4, SumsGrow
  <2>3. Len(t) \in 0..Len(t)
    <3> HIDE DEF t
    <3> QED
      BY <1>4
  <2> QED
    BY <2>1, <2>2, <2>3 DEF Total
<1>6. LayerHeights(c) = [i \in 1..Len(t) |-> (t[i] * L) \div Total(t)]
  BY <1>4 DEF LayerHeights
<1>7. \A i \in 1..Len(t) : (t[i] * L) \div Total(t) \in Int
  <2> SUFFICES ASSUME NEW i \in 1..Len(t) PROVE (t[i] * L) \div Total(t) \in Int
    OBVIOUS
  <2> DEFINE a == t[i] * L
             b == Total(t)
  <2>1. a \in Int
    BY <1>3, <1>4
  <2> HIDE DEF a
  <2>2. b \in Nat /\ b > 0
    BY <1>5
  <2> HIDE DEF b
  <2>3. a \div b \in Int
    BY <2>1, <2>2
  <2> QED
    BY <2>3 DEF a, b
<1>8. LayerHeights(c) \in [1..Len(t) -> Int]
  BY <1>6, <1>7
<1>9. LayerHeights(c) \in Seq(Int)
  BY <1>4, <1>8, RowsOf
<1>10. ASSUME c.innerMax # c.inner
       PROVE  LayerHeights(c) = t
  <2>1. Total(t) = L
    BY <1>2, <1>10 DEF IsPlateFile, AreExtents
  <2>2. \A i \in 1..Len(t) : (t[i] * L) \div L = t[i]
    <3> HIDE DEF t, L
    <3> QED
      BY <1>3, <1>4, Divides
  <2>3. LayerHeights(c) = [i \in 1..Len(t) |-> t[i]]
    BY <1>6, <2>1, <2>2
  <2> QED
    BY <1>1, <1>4, <2>3
<1> QED
  BY <1>8, <1>9, <1>10

\* How thick the absorber is behind i layers.
LEMMA ThicknessBehind ==
  ASSUME NEW c \in PlateFiles, NEW v, v.grown, NEW i \in 0..Len(Repeated(c.layers))
  PROVE  /\ Sums(LayerHeights(c))[i] \in Int
         /\ (PassiveInnerThickness(c, v, i) - c.inner) * PlaneLength(c)
              = (c.innerMax - c.inner) * Sums(LayerHeights(c))[i]
<1> DEFINE t == Repeated(c.layers)
           L == PlaneLength(c)
           D == c.innerMax - c.inner
           S == Sums(t)[i]
<1>1. t \in Seq(Nat)
  BY RepeatedLayers
<1>2. IsPlateFile(c)
  BY PlateFilesAssumption
<1>3. L \in Nat /\ L > 0 /\ D \in Int /\ c.inner \in Nat /\ c.innerMax \in Nat
  <2>1. c.inner \in Nat /\ c.innerMax \in Nat
    BY <1>2 DEF IsPlateFile
  <2>2. L \in Nat /\ L > 0
    BY <1>2 DEF IsPlateFile, PlaneLength
  <2> HIDE DEF L
  <2> QED
    BY <2>1, <2>2
<1>4. Len(t) \in Nat /\ (\A j \in 1..Len(t) : t[j] \in Nat) /\ i \in 0..Len(t)
  <2>1. i \in 0..Len(t)
    OBVIOUS
  <2> HIDE DEF t
  <2> QED
    BY <1>1, <2>1
<1>5. S \in Nat
  <2> HIDE DEF t
  <2> QED
    BY <1>4, SumsGrow
<1>6. PassiveInnerThickness(c, v, i) = c.inner + ((D * S) \div L)
  BY DEF PassiveInnerThickness
<1>7. Sums(LayerHeights(c))[i] \in Int
  <2> DEFINE h == LayerHeights(c)
             T == {j \in 0..Len(h) : Sums(h)[j] \in Int}
  <2>1. Len(h) \in Nat /\ (\A j \in 1..Len(h) : h[j] \in Int)
    <3>1. h \in Seq(Int)
      BY HeightsAre
    <3> HIDE DEF h
    <3> QED
      BY <3>1
  <2>2. Len(h) = Len(t)
    <3>1. DOMAIN h = 1..Len(t) /\ h \in Seq(Int)
      BY HeightsAre
    <3> HIDE DEF h, t
    <3> QED
      BY <1>4, <3>1
  <2> HIDE DEF h
  <2>3. 0 \in T
    BY <2>1, SumsAre
  <2>4. \A j \in 1..Len(h) : j - 1 \in T => j \in T
    BY <2>1, SumsAre
  <2>5. \A j \in 0..Len(h) : j \in T
    <3> HIDE DEF T
    <3> QED
      BY <2>1, <2>3, <2>4, UpTo, Zenon
  <2>6. i \in 0..Len(h)
    BY <2>2
  <2> QED
    BY <2>5, <2>6 DEF h
<1>8. CASE c.innerMax = c.inner
  <2>1. D = 0
    BY <1>3, <1>8
  <2>2. D * S = 0 /\ D * Sums(LayerHeights(c))[i] = 0
    <3> HIDE DEF D, S
    <3> QED
      BY <1>5, <1>7, <2>1
  <2>3. (D * S) \div L = 0
    <3> DEFINE a == D * S
    <3> HIDE DEF L, a
    <3>1. a = 0
      BY <2>2 DEF a
    <3>2. a \div L = 0
      BY <1>3, <3>1
    <3> QED
      BY <3>2 DEF a
  <2>4. PassiveInnerThickness(c, v, i) - c.inner = 0
    <3> DEFINE e == (D * S) \div L
    <3>1. PassiveInnerThickness(c, v, i) = c.inner + e /\ e = 0
      BY <1>6, <2>3
    <3> HIDE DEF e
    <3> QED
      BY <1>3, <3>1
  <2>5. 0 * L = 0
    BY <1>3
  <2> QED
    BY <1>7, <2>2, <2>4, <2>5
<1>9. CASE c.innerMax # c.inner
  <2>1. LayerHeights(c) = t
    BY <1>9, HeightsAre
  <2>2. (D * S) % L = 0
    <3>1. CASE i = 0
      <4>1. S = 0
        <5> HIDE DEF t
        <5> QED
          BY <1>4, <3>1, SumsAre
      <4>2. D * S = 0
        <5> HIDE DEF D, S
        <5> QED
          BY <1>3, <4>1
      <4>3. 0 % L = 0
        <5> HIDE DEF L
        <5> QED
          BY <1>3
      <4> QED
        BY <4>2, <4>3
    <3>2. CASE i # 0
      <4>1. i \in DOMAIN t
        <5> HIDE DEF t
        <5> QED
          BY <1>1, <1>4, <3>2
      <4> QED
        BY <1>2, <1>9, <4>1 DEF IsPlateFile, AreExtents
    <3> QED
      BY <3>1, <3>2
  <2>3. D * S \in Int
    <3> HIDE DEF D, S
    <3> QED
      BY <1>3, <1>5
  <2>4. ((D * S) \div L) * L = D * S /\ (D * S) \div L \in Int
    <3> HIDE DEF D, S, L
    <3> QED
      BY <1>3, <2>2, <2>3, Divides, Zenon
  <2>5. PassiveInnerThickness(c, v, i) - c.inner = (D * S) \div L
    <3> DEFINE e == (D * S) \div L
    <3>1. PassiveInnerThickness(c, v, i) = c.inner + e /\ e \in Int
      BY <1>6, <2>4
    <3> HIDE DEF e
    <3>2. \A a, b \in Int : (a + b) - a = b
      OBVIOUS
    <3>3. (c.inner + e) - c.inner = e
      BY <1>3, <3>1, <3>2
    <3> QED
      BY <3>1, <3>3 DEF e
  <2> QED
    BY <1>7, <2>1, <2>4, <2>5
<1> QED
  BY <1>8, <1>9

\* There is one layer at least.
LEMMA ThereAreLayers ==
  ASSUME NEW c \in PlateFiles
  PROVE  LET n == Len(LayerHeights(c))
         IN n = Len(Repeated(c.layers)) /\ n \in Nat /\ n > 0
<1> DEFINE t == Repeated(c.layers)
           h == LayerHeights(c)
<1>1. DOMAIN h = 1..Len(t) /\ h \in Seq(Int) /\ t \in Seq(Nat)
  BY HeightsAre, RepeatedLayers
<1>2. Total(t) > 0
  BY PlateFilesAssumption DEF IsPlateFile
<1>3. Len(h) = Len(t) /\ Len(t) \in Nat
  <2> HIDE DEF h, t
  <2> QED
    BY <1>1
<1>4. Len(t) # 0
  <2> SUFFICES ASSUME Len(t) = 0 PROVE FALSE
    OBVIOUS
  <2>1. Sums(t)[0] = 0
    <3> HIDE DEF t
    <3> QED
      BY <1>3, SumsAre
  <2> QED
    BY <1>2, <2>1 DEF Total
<1> HIDE DEF h, t
<1>5. Len(h) \in Nat /\ Len(h) > 0
  BY <1>3, <1>4
<1> QED
  BY <1>3, <1>5 DEF h, t

LEMMA WedgeGrows ==
  ASSUME NEW c \in PlateFiles, NEW v, v.grown, NEW p \in Wedge(c, v).pieces
  PROVE  /\ (p.near - c.inner) * PlaneLength(c) = (c.innerMax - c.inner) * p.from
         /\ (p.far - c.inner) * PlaneLength(c) = (c.innerMax - c.inner) * p.to
<1> DEFINE n == Len(LayerHeights(c))
           reach(i) == Sums(LayerHeights(c))[i]
           thick(i) == PassiveInnerThickness(c, v, i)
           Right(t, x) == (t - c.inner) * PlaneLength(c) = (c.innerMax - c.inner) * x
<1>1. IsPlateFile(c)
  BY PlateFilesAssumption
<1>2. /\ PlaneLength(c) \in Nat /\ PlaneLength(c) > 0
      /\ c.inner \in Nat /\ c.innerMax \in Nat
  BY <1>1 DEF IsPlateFile, PlaneLength
<1>3. n = Len(Repeated(c.layers)) /\ n \in Nat /\ n > 0
  BY ThereAreLayers
<1>4. \A i \in 0..n : Right(thick(i), reach(i))
  BY <1>3, ThicknessBehind
<1>5. Right(c.inner, reach(0))
  <2>1. reach(0) = 0
    BY <1>3, SumsAre
  <2>2. c.inner - c.inner = 0 /\ c.innerMax - c.inner \in Int
    BY <1>2
  <2>3. 0 * PlaneLength(c) = 0 /\ (c.innerMax - c.inner) * 0 = 0
    BY <1>2, <2>2
  <2> QED
    BY <2>1, <2>2, <2>3
<1>6. Right(c.innerMax, reach(n))
  <2>1. CASE c.innerMax = c.inner
    <3>1. c.innerMax - c.inner = 0 /\ reach(n) \in Int
      <4>1. n \in 0..n
        BY <1>3
      <4>2. reach(n) \in Int
        BY <1>3, <4>1, ThicknessBehind
      <4>3. c.innerMax - c.inner = 0
        BY <1>2, <2>1
      <4> QED
        BY <4>2, <4>3
    <3>2. 0 * PlaneLength(c) = 0 /\ 0 * reach(n) = 0
      <4> HIDE DEF n, reach
      <4> QED
        BY <1>2, <3>1
    <3> QED
      BY <3>1, <3>2
  <2>2. CASE c.innerMax # c.inner
    <3>1. LayerHeights(c) = Repeated(c.layers) /\ Total(Repeated(c.layers)) = PlaneLength(c)
      BY <1>1, <2>2, HeightsAre DEF IsPlateFile, AreExtents
    <3>2. reach(n) = PlaneLength(c)
      BY <3>1 DEF Total
    <3> QED
      BY <3>2
  <2> QED
    BY <2>1, <2>2
<1> DEFINE piece(i, j, near, far) == [from |-> reach(i), to |-> reach(j), near |-> near, far |-> far]
<1>7. \/ p = piece(0, 1, c.inner, thick(1))
      \/ p = piece(1, n, thick(1), c.innerMax)
      \/ \E i \in 2..n : p = piece(i - 1, i, thick(i - 1), thick(i))
  <2>1. Wedge(c, v).pieces =
          {piece(0, 1, c.inner, thick(1)), piece(1, n, thick(1), c.innerMax)}
            \cup {piece(i - 1, i, thick(i - 1), thick(i)) :
                    i \in IF "inner" \in c.sensitive THEN 2..n ELSE {}}
    BY DEF Wedge
  <2> HIDE DEF reach, thick, piece, n
  <2> QED
    BY <2>1
<1>8. Right(p.near, p.from) /\ Right(p.far, p.to)
  <2>1. 1 \in 0..n /\ \A i \in 2..n : i \in 0..n /\ i - 1 \in 0..n
    <3> HIDE DEF n
    <3> QED
      BY <1>3
  <2> HIDE DEF reach, thick, n, Right
  <2> QED
    BY <1>4, <1>5, <1>6, <1>7, <2>1
<1> QED
  BY <1>8

LEMMA FiveFields ==
  \A a, b, d, e, f :
    "wedge" \notin DOMAIN [sensors |-> a, elements |-> b, stacks |-> d, neighbours |-> e, layers |-> f]
OBVIOUS

LEMMA OthersHaveNoWedge ==
  ASSUME Constructed, ~PlatesMade
  PROVE  "wedge" \notin DOMAIN detector

<1>1. \A c, v : "wedge" \notin DOMAIN Endcap(c, v)
  BY DEF Endcap, Thrown
<1>2. \A c, v : "wedge" \notin DOMAIN Barrel(c, v)
  BY DEF Barrel
<1>3. \A c, nz, n : "wedge" \notin DOMAIN Ladders(c, nz, n)
  BY FiveFields, Zenon DEF Ladders
<1>4. \A c : "wedge" \notin DOMAIN TkLayoutTrackerBarrel_o1_v01(c)
  BY FiveFields, Zenon DEF TkLayoutTrackerBarrel_o1_v01
<1>5. \A c : "wedge" \notin DOMAIN TkLayoutTrackerEndcap_o1_v01(c)
  BY DEF TkLayoutTrackerEndcap_o1_v01
<1>6. \A c, layers : "wedge" \notin DOMAIN SimplePlanar(c, layers)
  BY FiveFields, Zenon DEF SimplePlanar
<1>7. \A c, v : "wedge" \notin DOMAIN StaveBarrel(c, v)
  BY FiveFields, Zenon DEF StaveBarrel
<1>8. \A c : "wedge" \notin DOMAIN SteppedMuonBarrel_o2_v02(c)
  BY FiveFields, Zenon DEF SteppedMuonBarrel_o2_v02
<1>9. \A c, v : "wedge" \notin DOMAIN TowerBarrel(c, v)
  BY FiveFields, Zenon DEF TowerBarrel
<1>10. \A c, v, other, t : "wedge" \notin DOMAIN PolygonEndcap(c, v, other, t)
  BY FiveFields, Zenon DEF PolygonEndcap, Thrown
<1>11. \A c : "wedge" \notin DOMAIN PanelEndcap(c)
  BY FiveFields, Zenon DEF PanelEndcap, Thrown
<1>12. \A c : "wedge" \notin DOMAIN Yoke05_Barrel(c)
  BY DEF Yoke05_Barrel
<1>13. \A c : "wedge" \notin DOMAIN YokeEndcaps(c)
  BY FiveFields, Zenon DEF YokeEndcaps
<1>14. \A c, v, stacks : "wedge" \notin DOMAIN Turbine(c, v, stacks)
  BY FiveFields, Zenon DEF Turbine
<1>15. \A c : "wedge" \notin DOMAIN CaloDiscs_o1_v01(c)
  BY FiveFields, Zenon DEF CaloDiscs_o1_v01
<1>16. \A c, v : "wedge" \notin DOMAIN TileBarrel(c, v)
  BY FiveFields, Zenon DEF TileBarrel, Thrown
<1>17. \A c, v, r : "wedge" \notin DOMAIN TileParts(c, v, r)
  BY DEF TileParts
<1>18. \A c : "wedge" \notin DOMAIN SHcalSc04_Endcaps(c)
  BY FiveFields, Zenon DEF SHcalSc04_Endcaps, BoxEndcap, ChamberEndcap
<1>19. \A c : "wedge" \notin DOMAIN SHcalSc04_Endcaps_v01(c)
  BY FiveFields, Zenon DEF SHcalSc04_Endcaps_v01, BoxEndcap, ChamberEndcap
<1>20. \A c : "wedge" \notin DOMAIN SHcalSc04_EndcapRing(c)
  BY FiveFields, Zenon DEF SHcalSc04_EndcapRing, EndcapRing, PolygonBody, ChamberEndcap
<1>21. \A c : "wedge" \notin DOMAIN SHcalSc04_EndcapRing_v01(c)
  BY FiveFields, Zenon DEF SHcalSc04_EndcapRing_v01, EndcapRing, PolygonBody, ChamberEndcap
<1>22. \A c : "wedge" \notin DOMAIN Hcal_Endcaps_SD_v01(c)
  BY FiveFields, Zenon DEF Hcal_Endcaps_SD_v01, PolygonBody, ChamberEndcap
<1>23. \A c : "wedge" \notin DOMAIN Hcal_Endcaps_SD_v02(c)
  BY FiveFields, Zenon DEF Hcal_Endcaps_SD_v02, BoxEndcap, ChamberEndcap
<1>24. \A c : "wedge" \notin DOMAIN Hcal_EndcapRing_SD_v01(c)
  BY FiveFields, Zenon DEF Hcal_EndcapRing_SD_v01, PolygonBody, ChamberEndcap
<1>25. \A c : "wedge" \notin DOMAIN SHcalSc04_Barrel_v01(c)
  BY FiveFields DEF SHcalSc04_Barrel_v01, ValidatedBarrel, ChamberBarrel, Thrown
<1>26. \A c : "wedge" \notin DOMAIN SHcalSc04_Barrel_v04(c)
  BY FiveFields DEF SHcalSc04_Barrel_v04, ValidatedBarrel, ChamberBarrel, Thrown
<1>27. \A c : "wedge" \notin DOMAIN SHcalSc04_Barrel_v02(c)
  BY FiveFields DEF SHcalSc04_Barrel_v02, ChamberBarrel
<1>28. \A c : "wedge" \notin DOMAIN SHcalSc04_Barrel_v03(c)
  BY FiveFields, Zenon DEF SHcalSc04_Barrel_v03, ChamberBarrel
<1>29. \A c : "wedge" \notin DOMAIN Hcal_Barrel_SD_v01(c)
  BY FiveFields, Zenon DEF Hcal_Barrel_SD_v01, SDBarrel, ChamberBarrel
<1>30. \A c : "wedge" \notin DOMAIN Hcal_Barrel_SD_v02(c)
  BY FiveFields, Zenon DEF Hcal_Barrel_SD_v02, SDBarrel, ChamberBarrel
<1>31. "wedge" \notin DOMAIN Thrown
  BY DEF Thrown
<1>32. \A c, v : "wedge" \notin DOMAIN ForwardCalorimeter(c, v)
  BY FiveFields, Zenon DEF ForwardCalorimeter
<1>33. \A c, v : "wedge" \notin DOMAIN Prototype(c, v)
  BY FiveFields, Zenon DEF Prototype
<1>34. \A c, v : "wedge" \notin DOMAIN DetailedBarrel(c, v)
  BY FiveFields, Zenon DEF DetailedBarrel
<1>35. \A c, v : "wedge" \notin DOMAIN DetailedEndcap(c, v)
  BY FiveFields, Zenon DEF DetailedEndcap
<1> QED
  BY <1>1, <1>2, <1>3, <1>4, <1>5, <1>6, <1>7, <1>8, <1>9, <1>10, <1>11, <1>12, <1>13, <1>14, <1>15, <1>16, <1>17, <1>18, <1>19, <1>20, <1>21, <1>22, <1>23, <1>24, <1>25, <1>26, <1>27, <1>28, <1>29, <1>30, <1>31, <1>32, <1>33,
     <1>34, <1>35, Zenon
     DEF Constructed, EndcapMade, BarrelMade, LaddersMade, RodsMade, DiscsMade, PlanarMade,
     StavesMade, SteppedMade, TowersMade, PolygonsMade, PanelsMade, ChamberBarrelMade,
     ChamberEndcapMade, YokeBarrelMade, YokeEndcapsMade, TurbineMade, UprightDiscsMade,
     TileBarrelMade, TilePartsMade, ForwardMade, PrototypesMade, DetailedBarrelMade,
     DetailedEndcapMade

LEMMA WedgesGrow ==
  ASSUME Constructed
  PROVE  AbsorberGrowsEvenly
<1>1. CASE ~PlatesMade
  BY <1>1, OthersHaveNoWedge DEF AbsorberGrowsEvenly
<1>2. CASE PlatesMade
  <2>1. PICK c \in PlateFiles : \E v : PlatesMakes(built, c, v) /\ detector = ECalBarrelInclined(c, v)
    BY <1>2 DEF PlatesMade
  <2>0. PICK v : PlatesMakes(built, c, v) /\ detector = ECalBarrelInclined(c, v)
    BY <2>1
  <2>2. CASE detector = Thrown
    BY <2>2 DEF Thrown, AbsorberGrowsEvenly
  <2>3. CASE detector # Thrown
    <3>1. detector.wedge = Wedge(c, v)
      BY <2>0, <2>3 DEF ECalBarrelInclined
    <3>2. /\ Wedge(c, v).length = PlaneLength(c)
          /\ Wedge(c, v).near = c.inner /\ Wedge(c, v).far = c.innerMax
      BY DEF Wedge
    <3>3. built \notin HeightNotSummed => v.grown
      BY <2>0 DEF PlatesMakes
    <3>4. v.grown => \A p \in Wedge(c, v).pieces :
            /\ (p.near - c.inner) * PlaneLength(c) = (c.innerMax - c.inner) * p.from
            /\ (p.far - c.inner) * PlaneLength(c) = (c.innerMax - c.inner) * p.to
      BY WedgeGrows
    <3> QED
      BY <3>1, <3>2, <3>3, <3>4 DEF AbsorberGrowsEvenly
  <2> QED
    BY <2>2, <2>3
<1> QED
  BY <1>1, <1>2

\* In the barrel of inclined plates, whatever its layers, each piece of an absorber in the
\* shape of a wedge is, at either end, as thick as an absorber is there that grows
\* evenly from one end of the plate to the other.
THEOREM AbsorbersGrowEvenly ==
  Spec => []AbsorberGrowsEvenly
BY ConstructorsMakeWhatThereIs, WedgesGrow, PTL

\* Sensors that are told apart by their places, which their ids tell.
LEMMA NameOneSensor ==
  ASSUME \A s, t \in detector.sensors : s.ids = t.ids => s = t
  PROVE  CellIdsNameOneSensor
BY DEF CellIdsNameOneSensor

-----------------------------------------------------------------------------
(* Ladders.                                                                *)

LadderIsOf(s, c, nz, p) == s = LadderSensor(c, nz, p[1], p[2], p[3])

LEMMA LadderPlacesAre ==
  ASSUME NEW c, NEW nz, NEW p \in LadderPlaces(c, nz)
  PROVE  p[1] \in DOMAIN c.layers
BY DEF LadderPlaces

LEMMA LadderCellIds ==
  ASSUME LaddersMade
  PROVE  CellIdsNameOneSensor
<1>1. PICK c \in LadderFiles :
        \E nz, neighbours : LaddersMakes(built, c, nz) /\ detector = Ladders(c, nz, neighbours)
  BY DEF LaddersMade
<1>2. PICK nz, neighbours :
        LaddersMakes(built, c, nz) /\ detector = Ladders(c, nz, neighbours)
  BY <1>1
<1> SUFFICES ASSUME NEW s \in detector.sensors, NEW t \in detector.sensors, s.ids = t.ids
             PROVE  s = t
  BY NameOneSensor
<1>3. PICK p \in LadderPlaces(c, nz) : LadderIsOf(s, c, nz, p)
  BY <1>2 DEF Ladders, LadderIsOf
<1>4. PICK q \in LadderPlaces(c, nz) : LadderIsOf(t, c, nz, q)
  BY <1>2 DEF Ladders, LadderIsOf
<1>5. c.layers[p[1]].id = c.layers[q[1]].id /\ p[2] = q[2] /\ p[3] = q[3]
  BY <1>3, <1>4 DEF LadderIsOf, LadderSensor, BarrelCell, Layer
<1>6. p[1] = q[1]
  BY <1>5, LadderPlacesAre, LadderFilesAssumption DEF IsLadderFile, DistinctIds
<1> QED
  BY <1>3, <1>4, <1>5, <1>6 DEF LadderIsOf

LEMMA LadderOtherSide ==
  ASSUME LaddersMade
  PROVE  OtherSideIsMirrored
<1>1. PICK c \in LadderFiles :
        \E nz, neighbours : LaddersMakes(built, c, nz) /\ detector = Ladders(c, nz, neighbours)
  BY DEF LaddersMade
<1>2. PICK nz, neighbours :
        LaddersMakes(built, c, nz) /\ detector = Ladders(c, nz, neighbours)
  BY <1>1
<1>3. \A s \in detector.sensors : DOMAIN s.ids \cap SideFields = {}
  BY <1>2 DEF Ladders, LadderSensor, BarrelCell, SideFields
<1> QED
  BY <1>2, <1>3, NoSides DEF LaddersMakes

-----------------------------------------------------------------------------
(* Ladders around the TPC.                                                 *)

LEMMA PlanarCellIds ==
  ASSUME PlanarMade
  PROVE  CellIdsNameOneSensor
<1>1. PICK c \in AroundTPCFiles :
        \E layers : PlanarMakes(built, c, layers) /\ detector = SimplePlanar(c, layers)
  BY DEF PlanarMade
<1>2. PICK layers : PlanarMakes(built, c, layers) /\ detector = SimplePlanar(c, layers)
  BY <1>1
<1> SUFFICES ASSUME NEW s \in detector.sensors, NEW t \in detector.sensors, s.ids = t.ids
             PROVE  s = t
  BY NameOneSensor
<1>3. PICK p \in PlanarPlaces(layers) : s = PlanarSensor(c, layers[p[1]], p)
  BY <1>2 DEF SimplePlanar
<1>4. PICK q \in PlanarPlaces(layers) : t = PlanarSensor(c, layers[q[1]], q)
  BY <1>2 DEF SimplePlanar
<1>5. layers[p[1]].id = layers[q[1]].id /\ p[2] = q[2] /\ p[3] = q[3]
  BY <1>3, <1>4 DEF PlanarSensor
<1>6. p[1] \in DOMAIN c.layers /\ q[1] \in DOMAIN c.layers
  BY <1>2 DEF PlanarPlaces, PlanarMakes
<1>7. \A l \in DOMAIN c.layers : layers[l].id = c.layers[l].id
  <2> SUFFICES ASSUME NEW l \in DOMAIN c.layers PROVE layers[l].id = c.layers[l].id
    OBVIOUS
  <2>1. PICK radius, n : layers[l] = Built(c, l, radius, n)
    BY <1>2 DEF PlanarMakes
  <2> QED
    BY <2>1 DEF Built
<1>8. p[1] = q[1]
  BY <1>5, <1>6, <1>7, AroundTPCFilesAssumption DEF IsAroundTPCFile, DistinctIds
<1>9. p = <<p[1], p[2], p[3]>> /\ q = <<q[1], q[2], q[3]>>
  BY DEF PlanarPlaces
<1> QED
  BY <1>3, <1>4, <1>5, <1>8, <1>9

LEMMA PlanarOtherSide ==
  ASSUME PlanarMade
  PROVE  OtherSideIsMirrored
<1>1. PICK c \in AroundTPCFiles :
        \E layers : PlanarMakes(built, c, layers) /\ detector = SimplePlanar(c, layers)
  BY DEF PlanarMade
<1>2. PICK layers : PlanarMakes(built, c, layers) /\ detector = SimplePlanar(c, layers)
  BY <1>1
<1>3. \A s \in detector.sensors : DOMAIN s.ids \cap SideFields = {}
  BY <1>2 DEF SimplePlanar, PlanarSensor, SideFields
<1> QED
  BY <1>2, <1>3, NoSides DEF PlanarMakes

-----------------------------------------------------------------------------
(* Hadron calorimeters of chambers.                                        *)

\* The sensors of a barrel of chambers, each with what there is along the beam.
ChamberSensors(d, c, v, layers, z) ==
  d.sensors = {ChamberBarrelSensor(c, v, p, z[p]) : p \in ChamberBarrelPlaces(c, v, layers)}

\* A slice is numbered, or the only one.
Numbered(c, v) == v.sliceIds \in BOOLEAN /\ (~v.sliceIds => OneOf(c))

LEMMA SliceIs ==
  ASSUME NEW c, IsStack(c.slices), NEW v, Numbered(c, v),
         NEW s \in SensitiveOf(c.slices), NEW t \in SensitiveOf(c.slices),
         v.sliceIds => s = t
  PROVE  s = t
<1>1. CASE ~v.sliceIds
  <2>1. Cardinality(SensitiveOf(c.slices)) <= 1
    BY <1>1 DEF Numbered, OneOf, Sensitive, SensitiveOf
  <2> QED
    BY <2>1, TheSensitiveSlice
<1> QED
  BY <1>1 DEF Numbered

LEMMA SliceIds ==
  ASSUME NEW v, v.sliceIds \in BOOLEAN, NEW s
  PROVE  /\ v.sliceIds => DOMAIN SliceId(v, s) = {"slice"} /\ SliceId(v, s).slice = s - 1
         /\ ~v.sliceIds => DOMAIN SliceId(v, s) = {}
BY DEF SliceId

\* What the ids of a barrel of chambers say.
ChamberIdsSay(ids, v, p) ==
  /\ DOMAIN ids \subseteq {"stave", "module", "layer", "tower", "slice"}
  /\ ids.stave = p[1] /\ ids.module = p[2] /\ ids.layer = p[4]
  /\ v.halves # {0} => ids.tower = p[3]
  /\ v.sliceIds => ids.slice = p[5] - 1

LEMMA ChamberIds ==
  ASSUME NEW c, NEW v, v.sliceIds \in BOOLEAN, NEW p, NEW z
  PROVE  ChamberIdsSay(ChamberBarrelSensor(c, v, p, z).ids, v, p)
<1> DEFINE first == [stave |-> p[1], module |-> p[2], layer |-> p[4]]
           half == IF v.halves = {0} THEN <<>> ELSE [tower |-> p[3]]
           ids == Joined(Joined(first, half), SliceId(v, p[5]))
<1>1. ChamberBarrelSensor(c, v, p, z).ids = ids
  BY DEF ChamberBarrelSensor
<1>2. /\ DOMAIN first = {"stave", "module", "layer"}
      /\ first.stave = p[1] /\ first.module = p[2] /\ first.layer = p[4]
  OBVIOUS
<1>3. /\ v.halves = {0} => DOMAIN half = {}
      /\ v.halves # {0} => DOMAIN half = {"tower"} /\ half.tower = p[3]
  OBVIOUS
<1> HIDE DEF first, half
<1>4. /\ DOMAIN Joined(first, half) = DOMAIN first \cup DOMAIN half
      /\ \A f \in DOMAIN first : Joined(first, half)[f] = first[f]
      /\ \A f \in (DOMAIN half) \ (DOMAIN first) : Joined(first, half)[f] = half[f]
  BY JoinedFields, Zenon
<1>5. /\ DOMAIN ids = DOMAIN Joined(first, half) \cup DOMAIN SliceId(v, p[5])
      /\ \A f \in DOMAIN Joined(first, half) : ids[f] = Joined(first, half)[f]
      /\ \A f \in (DOMAIN SliceId(v, p[5])) \ (DOMAIN Joined(first, half)) :
           ids[f] = SliceId(v, p[5])[f]
  BY JoinedFields, Zenon
<1>6. /\ DOMAIN SliceId(v, p[5]) \subseteq {"slice"}
      /\ v.sliceIds => DOMAIN SliceId(v, p[5]) = {"slice"} /\ SliceId(v, p[5]).slice = p[5] - 1
  BY SliceIds
<1> HIDE DEF ids
<1>7. /\ DOMAIN ids \subseteq {"stave", "module", "layer", "tower", "slice"}
      /\ ids.stave = p[1] /\ ids.module = p[2] /\ ids.layer = p[4]
  BY <1>2, <1>3, <1>4, <1>5, <1>6
<1>8. v.halves # {0} => ids.tower = p[3]
  BY <1>2, <1>3, <1>4, <1>5
<1>9. v.sliceIds => ids.slice = p[5] - 1
  BY <1>2, <1>3, <1>4, <1>5, <1>6
<1> QED
  BY <1>1, <1>7, <1>8, <1>9 DEF ChamberIdsSay

LEMMA ChamberSensorsDiffer ==
  ASSUME NEW c, IsStack(c.slices), NEW v, Numbered(c, v), NEW layers, NEW z,
         ChamberSensors(detector, c, v, layers, z)
  PROVE  /\ \A s, t \in detector.sensors : s.ids = t.ids => s = t
         /\ \A s \in detector.sensors : DOMAIN s.ids \cap SideFields = {}
<1>0. v.sliceIds \in BOOLEAN
  BY DEF Numbered
<1>1. ASSUME NEW s \in detector.sensors, NEW t \in detector.sensors, s.ids = t.ids
      PROVE  s = t
  <2>1. PICK p \in ChamberBarrelPlaces(c, v, layers) : s = ChamberBarrelSensor(c, v, p, z[p])
    BY DEF ChamberSensors
  <2>2. PICK q \in ChamberBarrelPlaces(c, v, layers) : t = ChamberBarrelSensor(c, v, q, z[q])
    BY DEF ChamberSensors
  <2>3. /\ p[1] = q[1] /\ p[2] = q[2] /\ p[4] = q[4]
        /\ v.halves # {0} => p[3] = q[3]
        /\ v.sliceIds => p[5] - 1 = q[5] - 1
    <3>1. ChamberIdsSay(s.ids, v, p) /\ ChamberIdsSay(t.ids, v, q)
      BY <1>0, <2>1, <2>2, ChamberIds
    <3> QED
      BY <1>1, <3>1 DEF ChamberIdsSay
  <2>4. p[3] \in v.halves /\ q[3] \in v.halves
    BY DEF ChamberBarrelPlaces
  <2>5. p[5] \in SensitiveOf(c.slices) /\ q[5] \in SensitiveOf(c.slices)
    BY DEF ChamberBarrelPlaces
  <2>6. p[5] \in Int /\ q[5] \in Int
    BY <2>5, Stacks
  <2>7. p[5] = q[5]
    <3>1. v.sliceIds => p[5] = q[5]
      BY <2>3, <2>6
    <3> QED
      BY <2>5, <3>1, SliceIs, Zenon
  <2>8. p[3] = q[3]
    BY <2>3, <2>4
  <2>9. p = <<p[1], p[2], p[3], p[4], p[5]>> /\ q = <<q[1], q[2], q[3], q[4], q[5]>>
    BY DEF ChamberBarrelPlaces
  <2> QED
    BY <2>1, <2>2, <2>3, <2>7, <2>8, <2>9
<1>2. ASSUME NEW s \in detector.sensors
      PROVE  DOMAIN s.ids \cap SideFields = {}
  <2>1. PICK p \in ChamberBarrelPlaces(c, v, layers) : s = ChamberBarrelSensor(c, v, p, z[p])
    BY DEF ChamberSensors
  <2>2. DOMAIN s.ids \subseteq {"stave", "module", "layer", "tower", "slice"}
    <3>1. ChamberIdsSay(s.ids, v, p)
      BY <1>0, <2>1, ChamberIds
    <3> QED
      BY <3>1 DEF ChamberIdsSay
  <2> QED
    BY <2>2 DEF SideFields
<1> QED
  BY <1>1, <1>2

\* A barrel of chambers of which the slices are numbered, or one is sensitive.
ChambersHere ==
  \/ detector.sensors = {}
  \/ \E c, v, layers, z :
       IsStack(c.slices) /\ Numbered(c, v) /\ ChamberSensors(detector, c, v, layers, z)

LEMMA ChambersAreHere ==
  ASSUME NEW c, IsStack(c.slices), NEW v, Numbered(c, v), NEW layers, NEW z,
         detector.sensors = {ChamberBarrelSensor(c, v, p, z[p]) :
                               p \in ChamberBarrelPlaces(c, v, layers)}
  PROVE  ChambersHere
BY DEF ChambersHere, ChamberSensors

LEMMA ValidatedBarrelSensors ==
  ASSUME NEW c \in ChamberBarrelFiles, NEW sliceIds \in BOOLEAN, ~sliceIds => OneOf(c),
         detector = ValidatedBarrel(c, AHcalVariant(c, sliceIds))
  PROVE  ChambersHere
<1> DEFINE v == AHcalVariant(c, sliceIds)
           places == ChamberBarrelPlaces(c, v, 1..c.nlayers)
           z == [p \in places |-> TwoModules(c, p)]
           sensors == {ChamberBarrelSensor(c, v, p, z[p]) : p \in places}
<1>1. IsStack(c.slices)
  BY ChamberBarrelFilesAssumption DEF IsChamberBarrelFile, IsChamberFile
<1>2. v.sliceIds = sliceIds
  BY DEF AHcalVariant
<1>3. Numbered(c, v)
  BY <1>2 DEF Numbered
<1> HIDE DEF v
<1>4. sensors = {ChamberBarrelSensor(c, v, p, TwoModules(c, p)) : p \in places}
  BY Zenon
<1>5. detector.sensors \in {{}, {ChamberBarrelSensor(c, v, p, TwoModules(c, p)) : p \in places}}
  BY DEF ValidatedBarrel, ChamberBarrel, Thrown, v
<1>6. CASE detector.sensors = {}
  BY <1>6 DEF ChambersHere
<1>7. CASE detector.sensors = sensors
  <2> HIDE DEF z
  <2> QED
    BY <1>1, <1>3, <1>7, ChambersAreHere
<1> HIDE DEF sensors
<1> QED
  BY <1>4, <1>5, <1>6, <1>7

LEMMA Hcal_Barrel_SD_v01_Sensors ==
  ASSUME NEW c \in ChamberBarrelFiles, OneOf(c), detector = Hcal_Barrel_SD_v01(c)
  PROVE  ChambersHere
<1> DEFINE v == SDVariant(c, {0}, FALSE)
           places == ChamberBarrelPlaces(c, v, c.fits)
           z == [p \in places |-> SDModules(c, p)]
<1>1. IsStack(c.slices)
  BY ChamberBarrelFilesAssumption DEF IsChamberBarrelFile, IsChamberFile
<1>2. Numbered(c, v)
  BY DEF Numbered, AHcalVariant, SDVariant
<1> HIDE DEF v
<1>3. detector.sensors = {ChamberBarrelSensor(c, v, p, SDModules(c, p)) : p \in places}
  BY Zenon DEF Hcal_Barrel_SD_v01, SDBarrel, ChamberBarrel, v
<1>4. detector.sensors = {ChamberBarrelSensor(c, v, p, z[p]) : p \in places}
  BY <1>3, Zenon
<1> HIDE DEF z
<1> QED
  BY <1>1, <1>2, <1>4, ChambersAreHere

LEMMA Hcal_Barrel_SD_v02_Sensors ==
  ASSUME NEW c \in ChamberBarrelFiles, detector = Hcal_Barrel_SD_v02(c)
  PROVE  ChambersHere
<1> DEFINE v == SDVariant(c, {0, 1}, TRUE)
           places == ChamberBarrelPlaces(c, v, 1..c.nlayers)
           z == [p \in places |-> SDModules(c, p)]
<1>1. IsStack(c.slices)
  BY ChamberBarrelFilesAssumption DEF IsChamberBarrelFile, IsChamberFile
<1>2. Numbered(c, v)
  BY DEF Numbered, AHcalVariant, SDVariant
<1> HIDE DEF v
<1>3. detector.sensors = {ChamberBarrelSensor(c, v, p, SDModules(c, p)) : p \in places}
  BY Zenon DEF Hcal_Barrel_SD_v02, SDBarrel, ChamberBarrel, v
<1>4. detector.sensors = {ChamberBarrelSensor(c, v, p, z[p]) : p \in places}
  BY <1>3, Zenon
<1> HIDE DEF z
<1> QED
  BY <1>1, <1>2, <1>4, ChambersAreHere

LEMMA SHcalSc04_Barrel_v03_Sensors ==
  ASSUME NEW c \in ChamberBarrelFiles, OneOf(c), detector = SHcalSc04_Barrel_v03(c)
  PROVE  ChambersHere
<1> DEFINE v == AHcalVariant(c, FALSE)
           places == ChamberBarrelPlaces(c, v, 1..c.nlayers)
           third(l) == IF l <= c.nlayers \div 3 THEN 1
                       ELSE IF l > (c.nlayers \div 3) * 2 THEN -1 ELSE 0
           z(p) == LET two == TwoModules(c, p)
                       stair == third(p[4]) * c.stair
                   IN [middle |-> two.middle + stair,
                       length |-> two.length + (IF p[2] = 1 THEN stair ELSE -stair)]
           along == [p \in places |-> z(p)]
<1>1. IsStack(c.slices)
  BY ChamberBarrelFilesAssumption DEF IsChamberBarrelFile, IsChamberFile
<1>2. Numbered(c, v)
  BY DEF Numbered, AHcalVariant
<1> HIDE DEF v
<1>3. detector.sensors = {ChamberBarrelSensor(c, v, p, z(p)) : p \in places}
  BY Zenon DEF SHcalSc04_Barrel_v03, ChamberBarrel, v
<1> HIDE DEF z
<1>4. detector.sensors = {ChamberBarrelSensor(c, v, p, along[p]) : p \in places}
  BY <1>3, Zenon
<1> HIDE DEF along
<1> QED
  BY <1>1, <1>2, <1>4, ChambersAreHere

\* Here the layer is the volume that holds its slices.
LEMMA SHcalSc04_Barrel_v02_Sensors ==
  ASSUME NEW c \in ChamberBarrelFiles, OneOf(c), detector = SHcalSc04_Barrel_v02(c)
  PROVE  ChambersHere
<1> DEFINE v == [AHcalVariant(c, FALSE) EXCEPT !.halves = {-1}, !.lead = 0]
           d == [c EXCEPT !.chamber = v.period]
           places == ChamberBarrelPlaces(d, v, c.fits)
           along == [p \in places |-> TwoModules(c, p)]
<1>1. IsStack(c.slices) /\ {"slices", "chamber"} \subseteq DOMAIN c
  BY ChamberBarrelFilesAssumption DEF IsChamberBarrelFile, IsChamberFile
<1>2. d.slices = c.slices
  BY <1>1
<1>3. v.sliceIds = FALSE
  BY DEF AHcalVariant
<1>4. Numbered(d, v)
  BY <1>2, <1>3, Zenon DEF Numbered, OneOf, Sensitive
<1> HIDE DEF v, d
<1>5. detector.sensors = {ChamberBarrelSensor(d, v, p, TwoModules(c, p)) : p \in places}
  BY DEF SHcalSc04_Barrel_v02, ChamberBarrel, v, d
<1>6. detector.sensors = {ChamberBarrelSensor(d, v, p, along[p]) : p \in places}
  BY <1>5, Zenon
<1> HIDE DEF along
<1> QED
  BY <1>1, <1>2, <1>4, <1>6, ChambersAreHere

LEMMA ChamberBarrelSensorsDiffer ==
  ASSUME ChamberBarrelMade
  PROVE  CellIdsNameOneSensor /\ OtherSideIsMirrored
<1>1. ChambersHere
  <2>1. PICK c \in ChamberBarrelFiles :
          \/ /\ OneOf(c) /\ InThe(c, c.chamber)
             /\ \/ built = "SHcalSc04_Barrel_v01" /\ detector = SHcalSc04_Barrel_v01(c)
                \/ built = "SHcalSc04_Barrel_v03" /\ detector = SHcalSc04_Barrel_v03(c)
                \/ built = "Hcal_Barrel_SD_v01" /\ detector = Hcal_Barrel_SD_v01(c)
                \/ built = "Hcal_Barrel_SD_v02" /\ detector = Hcal_Barrel_SD_v02(c)
          \/ /\ InThe(c, c.chamber)
             /\ built = "SHcalSc04_Barrel_v04" /\ detector = SHcalSc04_Barrel_v04(c)
          \/ /\ OneOf(c) /\ InThe(c, c.radiator + c.chamber)
             /\ built = "SHcalSc04_Barrel_v02" /\ detector = SHcalSc04_Barrel_v02(c)
    BY DEF ChamberBarrelMade
  <2>2. \/ OneOf(c) /\ detector = ValidatedBarrel(c, AHcalVariant(c, FALSE))
        \/ OneOf(c) /\ detector = SHcalSc04_Barrel_v03(c)
        \/ OneOf(c) /\ detector = Hcal_Barrel_SD_v01(c)
        \/ detector = Hcal_Barrel_SD_v02(c)
        \/ detector = ValidatedBarrel(c, AHcalVariant(c, TRUE))
        \/ OneOf(c) /\ detector = SHcalSc04_Barrel_v02(c)
    BY <2>1, Zenon DEF SHcalSc04_Barrel_v01, SHcalSc04_Barrel_v04
  <2> QED
    BY <2>2, ValidatedBarrelSensors, SHcalSc04_Barrel_v02_Sensors, SHcalSc04_Barrel_v03_Sensors,
       Hcal_Barrel_SD_v01_Sensors, Hcal_Barrel_SD_v02_Sensors, Zenon
<1>2. /\ \A s, t \in detector.sensors : s.ids = t.ids => s = t
      /\ \A s \in detector.sensors : DOMAIN s.ids \cap SideFields = {}
  <2>1. CASE detector.sensors = {}
    BY <2>1
  <2>2. CASE \E c, v, layers, z :
               IsStack(c.slices) /\ Numbered(c, v) /\ ChamberSensors(detector, c, v, layers, z)
    <3>1. PICK c, v, layers, z :
            IsStack(c.slices) /\ Numbered(c, v) /\ ChamberSensors(detector, c, v, layers, z)
      BY <2>2
    <3> QED
      BY <3>1, ChamberSensorsDiffer
  <2> QED
    BY <1>1, <2>1, <2>2 DEF ChambersHere
<1>3. built # "CaloThreePartsEndcap_o1_v02"
  BY DEF ChamberBarrelMade
<1> QED
  BY <1>2, <1>3, NameOneSensor, NoSides

\* The sensors of endcaps of chambers, each with the radii it reaches to.
EndcapChambers(d, c, v, places, front, r) ==
  d.sensors = {ChamberEndcapSensor(c, v, front, r[p], p) : p \in places}

EndcapChambersHere ==
  \E c, v, ntowers, staves, n, front, r :
    /\ IsStack(c.slices) /\ Numbered(c, v)
    /\ EndcapChambers(detector, c, v, ChamberEndcapPlaces(c, ntowers, staves, n), front, r)

LEMMA EndcapChamberIds ==
  ASSUME NEW c, NEW v, v.sliceIds \in BOOLEAN, NEW p, NEW front, NEW r
  PROVE  LET ids == ChamberEndcapSensor(c, v, front, r, p).ids
         IN /\ DOMAIN ids \subseteq {"tower", "stave", "module", "layer", "slice"}
            /\ ids.tower = p[1] /\ ids.stave = p[2] /\ ids.module = p[3] /\ ids.layer = p[4]
            /\ v.sliceIds => ids.slice = p[5] - 1
<1> DEFINE first == [tower |-> p[1], stave |-> p[2], module |-> p[3], layer |-> p[4]]
           ids == Joined(first, SliceId(v, p[5]))
<1>1. ChamberEndcapSensor(c, v, front, r, p).ids = ids
  BY DEF ChamberEndcapSensor
<1>2. /\ DOMAIN first = {"tower", "stave", "module", "layer"}
      /\ first.tower = p[1] /\ first.stave = p[2] /\ first.module = p[3] /\ first.layer = p[4]
  OBVIOUS
<1> HIDE DEF first
<1>3. /\ DOMAIN ids = DOMAIN first \cup DOMAIN SliceId(v, p[5])
      /\ \A f \in DOMAIN first : ids[f] = first[f]
      /\ \A f \in (DOMAIN SliceId(v, p[5])) \ (DOMAIN first) : ids[f] = SliceId(v, p[5])[f]
  BY JoinedFields, Zenon
<1>4. /\ DOMAIN SliceId(v, p[5]) \subseteq {"slice"}
      /\ v.sliceIds => DOMAIN SliceId(v, p[5]) = {"slice"} /\ SliceId(v, p[5]).slice = p[5] - 1
  BY SliceIds
<1> HIDE DEF ids
<1>5. /\ DOMAIN ids \subseteq {"tower", "stave", "module", "layer", "slice"}
      /\ ids.tower = p[1] /\ ids.stave = p[2] /\ ids.module = p[3] /\ ids.layer = p[4]
  BY <1>2, <1>3, <1>4
<1>6. v.sliceIds => ids.slice = p[5] - 1
  BY <1>2, <1>3, <1>4
<1> QED
  BY <1>1, <1>5, <1>6

LEMMA EndcapChambersDiffer ==
  ASSUME EndcapChambersHere
  PROVE  /\ \A s, t \in detector.sensors : s.ids = t.ids => s = t
         /\ \A s \in detector.sensors : DOMAIN s.ids \cap SideFields = {}
<1>1. PICK c, v, ntowers, staves, n, front, r :
        /\ IsStack(c.slices) /\ Numbered(c, v)
        /\ EndcapChambers(detector, c, v, ChamberEndcapPlaces(c, ntowers, staves, n), front, r)
  BY DEF EndcapChambersHere
<1> DEFINE places == ChamberEndcapPlaces(c, ntowers, staves, n)
<1>2. v.sliceIds \in BOOLEAN
  BY <1>1 DEF Numbered
<1>3. ASSUME NEW s \in detector.sensors
      PROVE  \E p \in places : /\ s = ChamberEndcapSensor(c, v, front, r[p], p)
                               /\ DOMAIN s.ids \subseteq {"tower", "stave", "module", "layer", "slice"}
                               /\ s.ids.tower = p[1] /\ s.ids.stave = p[2]
                               /\ s.ids.module = p[3] /\ s.ids.layer = p[4]
                               /\ v.sliceIds => s.ids.slice = p[5] - 1
  <2>1. PICK p \in places : s = ChamberEndcapSensor(c, v, front, r[p], p)
    BY <1>1 DEF EndcapChambers
  <2> QED
    BY <1>2, <2>1, EndcapChamberIds
<1>4. ASSUME NEW s \in detector.sensors, NEW t \in detector.sensors, s.ids = t.ids
      PROVE  s = t
  <2>1. PICK p \in places : /\ s = ChamberEndcapSensor(c, v, front, r[p], p)
                            /\ s.ids.tower = p[1] /\ s.ids.stave = p[2]
                            /\ s.ids.module = p[3] /\ s.ids.layer = p[4]
                            /\ v.sliceIds => s.ids.slice = p[5] - 1
    BY <1>3
  <2>2. PICK q \in places : /\ t = ChamberEndcapSensor(c, v, front, r[q], q)
                            /\ t.ids.tower = q[1] /\ t.ids.stave = q[2]
                            /\ t.ids.module = q[3] /\ t.ids.layer = q[4]
                            /\ v.sliceIds => t.ids.slice = q[5] - 1
    BY <1>3
  <2>3. /\ p[1] = q[1] /\ p[2] = q[2] /\ p[3] = q[3] /\ p[4] = q[4]
        /\ v.sliceIds => p[5] - 1 = q[5] - 1
    BY <1>4, <2>1, <2>2
  <2>4. p[5] \in SensitiveOf(c.slices) /\ q[5] \in SensitiveOf(c.slices)
    BY DEF ChamberEndcapPlaces
  <2>5. p[5] \in Int /\ q[5] \in Int
    BY <1>1, <2>4, Stacks
  <2>6. p[5] = q[5]
    <3>1. v.sliceIds => p[5] = q[5]
      BY <2>3, <2>5
    <3> QED
      BY <1>1, <2>4, <3>1, SliceIs
  <2>7. p = <<p[1], p[2], p[3], p[4], p[5]>> /\ q = <<q[1], q[2], q[3], q[4], q[5]>>
    BY DEF ChamberEndcapPlaces
  <2> QED
    BY <2>1, <2>2, <2>3, <2>6, <2>7
<1>5. ASSUME NEW s \in detector.sensors
      PROVE  DOMAIN s.ids \cap SideFields = {}
  BY <1>3 DEF SideFields
<1> QED
  BY <1>4, <1>5

LEMMA BoxEndcapSensors ==
  ASSUME NEW c \in ChamberEndcapFiles, NEW v, Numbered(c, v), NEW staves, NEW n, NEW radiator,
         detector = BoxEndcap(c, v, staves, n, radiator)
  PROVE  EndcapChambersHere
<1> DEFINE places == ChamberEndcapPlaces(c, Len(c.boxes), staves, n)
           r == [p \in places |-> c.boxes[p[1] + 1]]
<1>1. IsStack(c.slices)
  BY ChamberEndcapFilesAssumption DEF IsChamberEndcapFile, IsChamberFile
<1>2. detector.sensors = {ChamberEndcapSensor(c, v, c.zmin, c.boxes[p[1] + 1], p) : p \in places}
  BY DEF BoxEndcap, ChamberEndcap
<1>3. detector.sensors = {ChamberEndcapSensor(c, v, c.zmin, r[p], p) : p \in places}
  BY <1>2, Zenon
<1> HIDE DEF r
<1>4. EndcapChambers(detector, c, v, places, c.zmin, r)
  BY <1>3 DEF EndcapChambers
<1> QED
  BY <1>1, <1>4 DEF EndcapChambersHere

LEMMA PolygonBodySensors ==
  ASSUME NEW c \in ChamberEndcapFiles, NEW v, Numbered(c, v), NEW staves, NEW n, NEW front,
         NEW z, NEW from, NEW radiator,
         detector = PolygonBody(c, v, staves, n, front, z, from, radiator)
  PROVE  EndcapChambersHere
<1> DEFINE places == ChamberEndcapPlaces(c, 1, staves, n)
           r == [p \in places |-> <<c.rmin, c.rmax>>]
<1>1. IsStack(c.slices)
  BY ChamberEndcapFilesAssumption DEF IsChamberEndcapFile, IsChamberFile
<1>2. detector.sensors = {ChamberEndcapSensor(c, v, front, <<c.rmin, c.rmax>>, p) : p \in places}
  BY DEF PolygonBody, ChamberEndcap
<1>3. detector.sensors = {ChamberEndcapSensor(c, v, front, r[p], p) : p \in places}
  BY <1>2, Zenon
<1> HIDE DEF r
<1>4. EndcapChambers(detector, c, v, places, front, r)
  BY <1>3 DEF EndcapChambers
<1> QED
  BY <1>1, <1>4 DEF EndcapChambersHere

LEMMA ChamberEndcapSensorsDiffer ==
  ASSUME ChamberEndcapMade
  PROVE  CellIdsNameOneSensor /\ OtherSideIsMirrored
<1>1. EndcapChambersHere
  <2>1. PICK c \in ChamberEndcapFiles :
          \/ /\ OneOf(c)
             /\ \/ built = "SHcalSc04_Endcaps" /\ detector = SHcalSc04_Endcaps(c)
                \/ built = "SHcalSc04_EndcapRing" /\ detector = SHcalSc04_EndcapRing(c)
                \/ built = "Hcal_Endcaps_SD_v01" /\ detector = Hcal_Endcaps_SD_v01(c)
                \/ built = "Hcal_Endcaps_SD_v02" /\ detector = Hcal_Endcaps_SD_v02(c)
                \/ built = "Hcal_EndcapRing_SD_v01" /\ detector = Hcal_EndcapRing_SD_v01(c)
          \/ built = "SHcalSc04_Endcaps_v01" /\ detector = SHcalSc04_Endcaps_v01(c)
          \/ built = "SHcalSc04_EndcapRing_v01" /\ detector = SHcalSc04_EndcapRing_v01(c)
    BY DEF ChamberEndcapMade
  <2>2. /\ \A lead : Numbered(c, EndcapVariant(c, lead, TRUE))
        /\ OneOf(c) => \A lead : Numbered(c, EndcapVariant(c, lead, FALSE))
    BY DEF Numbered, EndcapVariant
  <2>3. CASE OneOf(c) /\ detector = SHcalSc04_Endcaps(c)
    BY <2>2, <2>3, BoxEndcapSensors, Zenon DEF SHcalSc04_Endcaps
  <2>4. CASE OneOf(c) /\ detector = SHcalSc04_EndcapRing(c)
    BY <2>2, <2>4, PolygonBodySensors, Zenon DEF SHcalSc04_EndcapRing, EndcapRing
  <2>5. CASE OneOf(c) /\ detector = Hcal_Endcaps_SD_v01(c)
    BY <2>2, <2>5, PolygonBodySensors, Zenon DEF Hcal_Endcaps_SD_v01
  <2>6. CASE OneOf(c) /\ detector = Hcal_Endcaps_SD_v02(c)
    BY <2>2, <2>6, BoxEndcapSensors, Zenon DEF Hcal_Endcaps_SD_v02
  <2>7. CASE OneOf(c) /\ detector = Hcal_EndcapRing_SD_v01(c)
    BY <2>2, <2>7, PolygonBodySensors, Zenon DEF Hcal_EndcapRing_SD_v01
  <2>8. CASE detector = SHcalSc04_Endcaps_v01(c)
    BY <2>2, <2>8, BoxEndcapSensors, Zenon DEF SHcalSc04_Endcaps_v01
  <2>9. CASE detector = SHcalSc04_EndcapRing_v01(c)
    BY <2>2, <2>9, PolygonBodySensors, Zenon DEF SHcalSc04_EndcapRing_v01, EndcapRing
  <2> QED
    BY <2>1, <2>3, <2>4, <2>5, <2>6, <2>7, <2>8, <2>9
<1>2. built # "CaloThreePartsEndcap_o1_v02"
  BY DEF ChamberEndcapMade
<1> QED
  BY <1>1, <1>2, EndcapChambersDiffer, NameOneSensor, NoSides

-----------------------------------------------------------------------------
(* Yokes.                                                                  *)

LEMMA YokeSlice ==
  ASSUME NEW c, IsYokeFile(c), NEW s \in SensitiveOf(c.slices), NEW t \in SensitiveOf(c.slices)
  PROVE  s = t
<1>1. IsStack(c.slices) /\ Cardinality(SensitiveOf(c.slices)) <= 1
  BY DEF IsYokeFile
<1> QED
  BY <1>1, TheSensitiveSlice

LEMMA YokeBarrelSensorsDiffer ==
  ASSUME YokeBarrelMade
  PROVE  CellIdsNameOneSensor /\ OtherSideIsMirrored
<1>1. PICK c \in YokeBarrelFiles : built = "Yoke05_Barrel" /\ detector = Yoke05_Barrel(c)
  BY DEF YokeBarrelMade
<1>2. detector.sensors = {YokeBarrelSensor(c, p) : p \in YokeBarrelPlaces(c)}
  BY <1>1 DEF Yoke05_Barrel
<1>3. ASSUME NEW s \in detector.sensors, NEW t \in detector.sensors, s.ids = t.ids
      PROVE  s = t
  <2>1. PICK p \in YokeBarrelPlaces(c) : s = YokeBarrelSensor(c, p)
    BY <1>2
  <2>2. PICK q \in YokeBarrelPlaces(c) : t = YokeBarrelSensor(c, q)
    BY <1>2
  <2>3. p[1] = q[1] /\ Number(p[2]) = Number(q[2]) /\ p[3] + 1 = q[3] + 1
    BY <1>3, <2>1, <2>2 DEF YokeBarrelSensor
  <2>4. /\ p = <<p[1], p[2], p[3], p[4]>> /\ p[2] \in Int /\ p[3] \in Int
        /\ p[4] \in SensitiveOf(c.slices)
    BY DEF YokeBarrelPlaces
  <2>5. /\ q = <<q[1], q[2], q[3], q[4]>> /\ q[2] \in Int /\ q[3] \in Int
        /\ q[4] \in SensitiveOf(c.slices)
    BY DEF YokeBarrelPlaces
  <2>6. p[4] = q[4]
    BY <2>4, <2>5, YokeSlice, YokeBarrelFilesAssumption
       DEF IsYokeBarrelFile
  <2>7. p[2] = q[2] /\ p[3] = q[3]
    BY <2>3, <2>4, <2>5 DEF Number
  <2> QED
    BY <2>1, <2>2, <2>3, <2>4, <2>5, <2>6, <2>7
<1>4. \A s \in detector.sensors : DOMAIN s.ids \cap SideFields = {}
  BY <1>2 DEF YokeBarrelSensor, SideFields
<1> QED
  BY <1>1, <1>3, <1>4, NameOneSensor, NoSides

LEMMA YokeEndcapSensorsDiffer ==
  ASSUME YokeEndcapsMade
  PROVE  CellIdsNameOneSensor /\ OtherSideIsMirrored
<1>1. PICK c \in YokeEndcapFiles :
        built \in {"Yoke05_Endcaps", "Yoke06_Endcaps"} /\ detector = YokeEndcaps(c)
  BY DEF YokeEndcapsMade
<1>2. detector.sensors = {YokeEndcapSensor(c, p) : p \in YokeEndcapPlaces(c)}
  BY <1>1 DEF YokeEndcaps
<1>3. ASSUME NEW s \in detector.sensors, NEW t \in detector.sensors, s.ids = t.ids
      PROVE  s = t
  <2>1. PICK p \in YokeEndcapPlaces(c) : s = YokeEndcapSensor(c, p)
    BY <1>2
  <2>2. PICK q \in YokeEndcapPlaces(c) : t = YokeEndcapSensor(c, q)
    BY <1>2
  <2>3. p[1] = q[1] /\ Number(p[2]) = Number(q[2])
    BY <1>3, <2>1, <2>2 DEF YokeEndcapSensor
  <2>4. p = <<p[1], p[2], p[3]>> /\ p[2] \in Int /\ p[3] \in SensitiveOf(c.slices)
    BY DEF YokeEndcapPlaces
  <2>5. q = <<q[1], q[2], q[3]>> /\ q[2] \in Int /\ q[3] \in SensitiveOf(c.slices)
    BY DEF YokeEndcapPlaces
  <2>6. p[3] = q[3]
    BY <2>4, <2>5, YokeSlice, YokeEndcapFilesAssumption
  <2>7. p[2] = q[2]
    BY <2>3, <2>4, <2>5 DEF Number
  <2> QED
    BY <2>1, <2>2, <2>3, <2>4, <2>5, <2>6, <2>7
<1>4. \A s \in detector.sensors : DOMAIN s.ids \cap SideFields = {}
  BY <1>2 DEF YokeEndcapSensor, SideFields
<1> QED
  BY <1>1, <1>3, <1>4, NameOneSensor, NoSides

-----------------------------------------------------------------------------
(* Calorimeters and yokes of layers.                                       *)

LEMMA LayersAre ==
  ASSUME NEW c, IsLayered(c)
  PROVE  /\ LayersOf(c) \in Seq({c.groups[g].slices : g \in DOMAIN c.groups})
         /\ Len(LayersOf(c)) \in Nat /\ DOMAIN LayersOf(c) = 1..Len(LayersOf(c))
         /\ \A l \in DOMAIN LayersOf(c) :
              \E g \in DOMAIN c.groups : LayersOf(c)[l] = c.groups[g].slices
         /\ \A l \in DOMAIN LayersOf(c) : IsStack(LayersOf(c)[l])
<1> DEFINE S == {c.groups[g].slices : g \in DOMAIN c.groups}
           row(g) == [j \in 1..c.groups[g].repeat |-> c.groups[g].slices]
           rows == [g \in DOMAIN c.groups |-> row(g)]
<1>1. Len(c.groups) \in Nat /\ DOMAIN c.groups = 1..Len(c.groups)
  BY Lists DEF IsLayered
<1>2. ASSUME NEW g \in DOMAIN c.groups
      PROVE  row(g) \in Seq(S)
  <2>1. c.groups[g].repeat \in Nat
    BY DEF IsLayered
  <2>2. row(g) \in [1..c.groups[g].repeat -> S]
    OBVIOUS
  <2> HIDE DEF S, row
  <2> QED
    BY <2>1, <2>2, RowsOf
<1>3. rows \in [1..Len(c.groups) -> Seq(S)]
  <2> HIDE DEF row, S
  <2> QED
    BY <1>1, <1>2
<1>4. rows \in Seq(Seq(S))
  <2> HIDE DEF rows, S
  <2> QED
    BY <1>1, <1>3, RowsOf
<1>5. LayersOf(c) = FlattenSeq(rows)
  BY DEF LayersOf
<1>6. LayersOf(c) \in Seq(S)
  <2> HIDE DEF rows, S
  <2> QED
    BY <1>4, <1>5, Flattened
<1>7. Len(LayersOf(c)) \in Nat /\ DOMAIN LayersOf(c) = 1..Len(LayersOf(c))
  BY <1>6
<1>8. \A l \in DOMAIN LayersOf(c) : LayersOf(c)[l] \in S
  <2> HIDE DEF S
  <2> QED
    BY <1>6
<1>9. \A x \in S : \E g \in DOMAIN c.groups : x = c.groups[g].slices
  OBVIOUS
<1>10. \A x \in S : IsStack(x)
  BY DEF IsLayered
<1> QED
  BY <1>6, <1>7, <1>8, <1>9, <1>10

\* Layer and slice of a sensitive volume.
LEMMA LayerPlacesAre ==
  ASSUME NEW c, IsLayered(c), NEW ls \in Layers(c)
  PROVE  /\ ls = <<ls[1], ls[2]>>
         /\ ls[1] \in DOMAIN LayersOf(c) /\ ls[1] \in Nat
         /\ IsStack(LayersOf(c)[ls[1]])
         /\ ls[2] \in SensitiveOf(LayersOf(c)[ls[1]]) /\ ls[2] \in Nat
<1>1. /\ ls = <<ls[1], ls[2]>> /\ ls[1] \in DOMAIN LayersOf(c)
      /\ ls[2] \in SensitiveOf(LayersOf(c)[ls[1]])
  BY DEF Layers
<1>2. IsStack(LayersOf(c)[ls[1]]) /\ ls[1] \in Nat
  <2>1. Len(LayersOf(c)) \in Nat /\ DOMAIN LayersOf(c) = 1..Len(LayersOf(c))
    BY LayersAre
  <2>2. \A l \in DOMAIN LayersOf(c) : IsStack(LayersOf(c)[l])
    BY LayersAre, Zenon
  <2> QED
    BY <1>1, <2>1, <2>2
<1>3. ls[2] \in Nat
  BY <1>1, <1>2, Stacks
<1> QED
  BY <1>1, <1>2, <1>3

LEMMA OneInEachLayer ==
  ASSUME NEW c, IsLayered(c), OneSensitive(c), NEW l \in DOMAIN LayersOf(c),
         NEW s \in SensitiveOf(LayersOf(c)[l]), NEW t \in SensitiveOf(LayersOf(c)[l])
  PROVE  s = t
<1>1. PICK g \in DOMAIN c.groups : LayersOf(c)[l] = c.groups[g].slices
  BY LayersAre, Zenon
<1>2. Cardinality(SensitiveOf(c.groups[g].slices)) <= 1
  BY DEF OneSensitive, SensitiveOf
<1>3. IsStack(c.groups[g].slices)
  BY DEF IsLayered
<1> QED
  BY <1>1, <1>2, <1>3, TheSensitiveSlice

LEMMA SubmoduleIs ==
  ASSUME NEW c, NEW v, v.submodule \in BOOLEAN, NEW l, NEW s
  PROVE  /\ v.submodule => /\ DOMAIN Submodule(c, v, l, s) = {"submodule"}
                           /\ Submodule(c, v, l, s).submodule = SensitiveNumber(LayersOf(c)[l], s) - 1
         /\ ~v.submodule => DOMAIN Submodule(c, v, l, s) = {}
BY DEF Submodule

\* The slices of a layer are numbered, or one is sensitive.
LEMMA SubmodulesTell ==
  ASSUME NEW c, IsLayered(c), NEW v, v.submodule \in BOOLEAN, ~v.submodule => OneSensitive(c),
         NEW l \in DOMAIN LayersOf(c),
         NEW s \in SensitiveOf(LayersOf(c)[l]), NEW t \in SensitiveOf(LayersOf(c)[l]),
         v.submodule => SensitiveNumber(LayersOf(c)[l], s) = SensitiveNumber(LayersOf(c)[l], t)
  PROVE  s = t
<1>1. CASE v.submodule
  <2>1. IsStack(LayersOf(c)[l])
    BY LayersAre, Zenon
  <2> QED
    BY <1>1, <2>1, SensitiveNumbersDiffer
<1>2. CASE ~v.submodule
  BY <1>2, OneInEachLayer
<1> QED
  BY <1>1, <1>2

LEMMA NumbersAreNumbers ==
  ASSUME NEW slices, IsStack(slices), NEW s
  PROVE  SensitiveNumber(slices, s) \in Nat
<1>1. IsFiniteSet({j \in SensitiveOf(slices) : j <= s})
  BY Stacks, FS_Subset
<1> QED
  BY <1>1, FS_CardinalityType DEF SensitiveNumber

-----------------------------------------------------------------------------
(* Staves.                                                                 *)

LEMMA StavePlacesAre ==
  ASSUME NEW c, IsLayered(c), NEW v, NEW p \in StavePlaces(c, v)
  PROVE  /\ p = <<p[1], p[2], p[3]>> /\ p[1] \in Int
         /\ p[2] \in DOMAIN LayersOf(c) /\ p[2] \in Nat
         /\ IsStack(LayersOf(c)[p[2]])
         /\ p[3] \in SensitiveOf(LayersOf(c)[p[2]]) /\ p[3] \in Nat
<1>1. PICK m \in v.first.stave..(v.first.stave + c.nsides - 1), ls \in Layers(c) : p = <<m>> \o ls
  BY DEF StavePlaces
<1>2. /\ ls = <<ls[1], ls[2]>>
      /\ ls[1] \in DOMAIN LayersOf(c) /\ ls[1] \in Nat
      /\ IsStack(LayersOf(c)[ls[1]])
      /\ ls[2] \in SensitiveOf(LayersOf(c)[ls[1]]) /\ ls[2] \in Nat
  BY LayerPlacesAre
<1>3. p = <<m, ls[1], ls[2]>>
  BY <1>1, <1>2, OneThenTwo, Zenon
<1> QED
  BY <1>2, <1>3

\* What the ids of a stave's sensor say.
StaveIdsSay(ids, c, v, p) ==
  /\ DOMAIN ids \subseteq {"module", "layer", "submodule"}
  /\ ids.module = p[1] /\ ids.layer = LayerNumber(v, p[2])
  /\ v.submodule => ids.submodule = SensitiveNumber(LayersOf(c)[p[2]], p[3]) - 1

LEMMA StaveIds ==
  ASSUME NEW c, NEW v, v.submodule \in BOOLEAN, NEW p, NEW length
  PROVE  StaveIdsSay(StaveSensor(c, v, p, length).ids, c, v, p)
<1> DEFINE first == [module |-> p[1], layer |-> LayerNumber(v, p[2])]
           sub == Submodule(c, v, p[2], p[3])
           ids == Joined(first, sub)
<1>1. StaveSensor(c, v, p, length).ids = ids
  BY DEF StaveSensor
<1>2. DOMAIN first = {"module", "layer"} /\ first.module = p[1] /\ first.layer = LayerNumber(v, p[2])
  OBVIOUS
<1>3. /\ v.submodule => /\ DOMAIN sub = {"submodule"}
                        /\ sub.submodule = SensitiveNumber(LayersOf(c)[p[2]], p[3]) - 1
      /\ ~v.submodule => DOMAIN sub = {}
  BY DEF Submodule
<1> HIDE DEF first, sub
<1>4. /\ DOMAIN ids = DOMAIN first \cup DOMAIN sub
      /\ \A f \in DOMAIN first : ids[f] = first[f]
      /\ \A f \in (DOMAIN sub) \ (DOMAIN first) : ids[f] = sub[f]
  BY JoinedFields, Zenon
<1> HIDE DEF ids
<1>5. DOMAIN ids \subseteq {"module", "layer", "submodule"}
  BY <1>2, <1>3, <1>4
<1>6. ids.module = p[1] /\ ids.layer = LayerNumber(v, p[2])
  BY <1>2, <1>4
<1>7. v.submodule => ids.submodule = SensitiveNumber(LayersOf(c)[p[2]], p[3]) - 1
  BY <1>2, <1>3, <1>4
<1> QED
  BY <1>1, <1>5, <1>6, <1>7 DEF StaveIdsSay

\* Sensors of staves, each with its length.
LEMMA StaveSensorsDiffer ==
  ASSUME NEW c, IsLayered(c), NEW v, v.submodule \in BOOLEAN, ~v.submodule => OneSensitive(c),
         v.first.layer \in Nat, NEW length,
         detector.sensors = {StaveSensor(c, v, p, length[p[2]]) : p \in StavePlaces(c, v)}
  PROVE  /\ \A s, t \in detector.sensors : s.ids = t.ids => s = t
         /\ \A s \in detector.sensors : DOMAIN s.ids \cap SideFields = {}
<1>1. ASSUME NEW s \in detector.sensors, NEW t \in detector.sensors, s.ids = t.ids
      PROVE  s = t
  <2>1. PICK p \in StavePlaces(c, v) : s = StaveSensor(c, v, p, length[p[2]])
    OBVIOUS
  <2>2. PICK q \in StavePlaces(c, v) : t = StaveSensor(c, v, q, length[q[2]])
    OBVIOUS
  <2>3. StaveIdsSay(s.ids, c, v, p) /\ StaveIdsSay(t.ids, c, v, q)
    BY <2>1, <2>2, StaveIds
  <2>4. p[1] = q[1] /\ LayerNumber(v, p[2]) = LayerNumber(v, q[2])
    BY <1>1, <2>3 DEF StaveIdsSay
  <2>5. p[2] = q[2]
    BY <2>4, StavePlacesAre DEF LayerNumber
  <2> DEFINE slices == LayersOf(c)[p[2]]
  <2>6. v.submodule => SensitiveNumber(slices, p[3]) - 1 = SensitiveNumber(slices, q[3]) - 1
    BY <1>1, <2>3, <2>5 DEF StaveIdsSay
  <2>7. SensitiveNumber(slices, p[3]) \in Nat /\ SensitiveNumber(slices, q[3]) \in Nat
    BY StavePlacesAre, NumbersAreNumbers
  <2>8. v.submodule => SensitiveNumber(slices, p[3]) = SensitiveNumber(slices, q[3])
    BY <2>6, <2>7
  <2>9. p[3] \in SensitiveOf(slices) /\ q[3] \in SensitiveOf(slices) /\ p[2] \in DOMAIN LayersOf(c)
    BY <2>5, StavePlacesAre
  <2>10. p[3] = q[3]
    BY <2>8, <2>9, SubmodulesTell
  <2>11. p = <<p[1], p[2], p[3]>> /\ q = <<q[1], q[2], q[3]>>
    BY StavePlacesAre
  <2> QED
    BY <2>1, <2>2, <2>4, <2>5, <2>10, <2>11
<1>2. ASSUME NEW s \in detector.sensors
      PROVE  DOMAIN s.ids \cap SideFields = {}
  <2>1. PICK p \in StavePlaces(c, v) : s = StaveSensor(c, v, p, length[p[2]])
    OBVIOUS
  <2>2. StaveIdsSay(s.ids, c, v, p)
    BY <2>1, StaveIds
  <2> QED
    BY <2>2 DEF StaveIdsSay, SideFields
<1> QED
  BY <1>1, <1>2

LEMMA StavesDiffer ==
  ASSUME StavesMade
  PROVE  CellIdsNameOneSensor /\ OtherSideIsMirrored
<1>1. PICK c \in StaveFiles :
        \E v : StavesMakes(built, c, v) /\ detector = StaveBarrel(c, v)
  BY DEF StavesMade
<1>2. PICK v : StavesMakes(built, c, v) /\ detector = StaveBarrel(c, v)
  BY <1>1
<1>3. IsLayered(c)
  BY StaveFilesAssumption DEF IsStaveFile
<1> DEFINE length == [l \in DOMAIN LayersOf(c) |-> c.zhalf]
<1>4. detector.sensors = {StaveSensor(c, v, p, c.zhalf) : p \in StavePlaces(c, v)}
  BY <1>2 DEF StaveBarrel
<1>5. \A p \in StavePlaces(c, v) : length[p[2]] = c.zhalf
  BY <1>3, StavePlacesAre
<1> HIDE DEF length
<1>6. detector.sensors = {StaveSensor(c, v, p, length[p[2]]) : p \in StavePlaces(c, v)}
  BY <1>4, <1>5
<1>7. /\ v.submodule \in BOOLEAN /\ v.first.layer \in Nat
      /\ ~v.submodule => OneSensitive(c)
      /\ built # "CaloThreePartsEndcap_o1_v02"
  BY <1>2 DEF StavesMakes
<1>8. /\ \A s, t \in detector.sensors : s.ids = t.ids => s = t
      /\ \A s \in detector.sensors : DOMAIN s.ids \cap SideFields = {}
  BY <1>3, <1>6, <1>7, StaveSensorsDiffer
<1> QED
  BY <1>7, <1>8, NameOneSensor, NoSides

LEMMA SteppedDiffer ==
  ASSUME SteppedMade
  PROVE  CellIdsNameOneSensor /\ OtherSideIsMirrored
<1>1. PICK c \in StaveFiles :
        /\ OneSensitive(c) /\ Len(c.groups) = 1
        /\ built = "SteppedMuonBarrel_o2_v02" /\ detector = SteppedMuonBarrel_o2_v02(c)
  BY DEF SteppedMade
<1> DEFINE v == CaloVariant(0, 0, TRUE, "front of the layer", "halves")
           d == [c EXCEPT !.rmin = c.rmax - TotalThickness(c)]
           before(g) == Sum(g - 1, LAMBDA i : c.groups[i].repeat)
           group(l) == CHOOSE g \in DOMAIN c.groups : before(g) < l /\ l <= before(g + 1)
           steps(j) == (j + 1) \div 2
           long(l) == c.zhalf + steps(l - before(group(l)) - 1) * Thickness(LayersOf(c)[l])
           length == [l \in DOMAIN LayersOf(c) |-> long(l)]
<1>2. IsLayered(c) /\ {"rmin", "groups"} \subseteq DOMAIN c
  BY StaveFilesAssumption DEF IsStaveFile
<1>3. d.groups = c.groups /\ d.nsides = c.nsides
  BY <1>2
<1>4. IsLayered(d) /\ LayersOf(d) = LayersOf(c) /\ OneSensitive(d)
  BY <1>1, <1>2, <1>3 DEF IsLayered, LayersOf, OneSensitive
<1>5. StavePlaces(c, v) = StavePlaces(d, v)
  <2>1. Layers(c) = Layers(d)
    BY <1>4 DEF Layers
  <2> DEFINE places(n, layers) ==
               {<<m>> \o ls : m \in v.first.stave..(v.first.stave + n - 1), ls \in layers}
  <2>2. StavePlaces(c, v) = places(c.nsides, Layers(c))
    BY DEF StavePlaces
  <2>3. StavePlaces(d, v) = places(d.nsides, Layers(d))
    BY DEF StavePlaces
  <2> HIDE DEF places, d, v
  <2> QED
    BY <1>3, <2>1, <2>2, <2>3
<1>6. v.submodule = TRUE /\ v.first.layer = 0
  BY DEF CaloVariant
<1> HIDE DEF v, d
<1>7. detector.sensors = {StaveSensor(d, v, p, long(p[2])) : p \in StavePlaces(c, v)}
  BY <1>1, Zenon DEF SteppedMuonBarrel_o2_v02, v, d
<1> HIDE DEF long
<1>8. \A p \in StavePlaces(d, v) : length[p[2]] = long(p[2])
  BY <1>4, StavePlacesAre
<1> HIDE DEF length
<1>9. detector.sensors = {StaveSensor(d, v, p, length[p[2]]) : p \in StavePlaces(d, v)}
  BY <1>5, <1>7, <1>8
<1>10. /\ \A s, t \in detector.sensors : s.ids = t.ids => s = t
       /\ \A s \in detector.sensors : DOMAIN s.ids \cap SideFields = {}
  <2>1. v.submodule \in BOOLEAN /\ (~v.submodule => OneSensitive(d))
    BY <1>4, <1>6, Zenon
  <2>3. v.first.layer \in Nat
    BY <1>6
  <2>2. IsLayered(d)
    BY <1>4
  <2> QED
    BY <1>9, <2>1, <2>2, <2>3, StaveSensorsDiffer
<1> QED
  BY <1>1, <1>10, NameOneSensor, NoSides

\* Of the depths of layers.
LayerThicknesses(c) == [i \in 1..Len(LayersOf(c)) |-> Thickness(LayersOf(c)[i])]

LEMMA DepthIs ==
  ASSUME NEW c, IsLayered(c)
  PROVE  /\ DOMAIN LayerThicknesses(c) = 1..Len(LayersOf(c))
         /\ Len(LayerThicknesses(c)) = Len(LayersOf(c)) /\ Len(LayersOf(c)) \in Nat
         /\ \A i \in 1..Len(LayersOf(c)) : /\ LayerThicknesses(c)[i] = Thickness(LayersOf(c)[i])
                                           /\ LayerThicknesses(c)[i] \in Nat
         /\ \A l \in 1..(Len(LayersOf(c)) + 1) :
              Depth(c, l) = Sums(LayerThicknesses(c))[l - 1] /\ Depth(c, l) \in Nat
<1> DEFINE n == Len(LayersOf(c))
           t == LayerThicknesses(c)
<1>1. n \in Nat /\ DOMAIN LayersOf(c) = 1..n
  BY LayersAre
<1>2. \A i \in 1..n : IsStack(LayersOf(c)[i])
  BY <1>1, LayersAre, Zenon
<1>3. DOMAIN t = 1..n /\ \A i \in 1..n : t[i] = Thickness(LayersOf(c)[i])
  BY DEF LayerThicknesses
<1> HIDE DEF n, t
<1>4. Len(t) = n
  BY <1>1, <1>3, LenOfRow
<1>5. \A i \in 1..n : t[i] \in Nat
  BY <1>2, <1>3, StackedIs
<1>6. ASSUME NEW l \in 1..(n + 1)
      PROVE  Depth(c, l) = Sums(t)[l - 1] /\ Depth(c, l) \in Nat
  <2> DEFINE u == [i \in 1..(l - 1) |-> Thickness(LayersOf(c)[i])]
  <2>1. Depth(c, l) = Total(u)
    BY DEF Depth, Sum
  <2>2. l - 1 \in 0..n
    BY <1>1
  <2>3. DOMAIN u = 1..(l - 1) /\ \A i \in 1..(l - 1) : u[i] = t[i]
    BY <1>1, <1>3, <2>2
  <2> HIDE DEF u
  <2>4. Total(u) = Sums(t)[l - 1]
    BY <1>1, <1>4, <2>2, <2>3, SumOfFirst
  <2>5. Sums(t)[l - 1] \in Nat
    BY <1>1, <1>4, <1>5, <2>2, SumsGrow
  <2> QED
    BY <2>1, <2>4, <2>5
<1> QED
  BY <1>1, <1>3, <1>4, <1>5, <1>6 DEF n, t

LEMMA MiddleIs ==
  ASSUME NEW c, IsLayered(c), NEW l \in DOMAIN LayersOf(c), NEW s \in SensitiveOf(LayersOf(c)[l])
  PROVE  MiddleOf(c, l, s) \in Int
<1>1. IsStack(LayersOf(c)[l])
  BY LayersAre, Zenon
<1>2. Len(LayersOf(c)) \in Nat /\ DOMAIN LayersOf(c) = 1..Len(LayersOf(c))
  BY LayersAre
<1>3. Depth(c, l) \in Nat
  BY <1>2, DepthIs
<1>4. s \in DOMAIN LayersOf(c)[l]
  BY DEF SensitiveOf
<1>5. Thickness(LayersOf(c)[l]) \in Nat /\ Stacked(LayersOf(c)[l])[s].middle \in Int
  BY <1>1, <1>4, StackedIs
<1> QED
  BY <1>3, <1>5 DEF MiddleOf

-----------------------------------------------------------------------------
(* Towers.                                                                 *)

LEMMA TowerPlacesAre ==
  ASSUME NEW c, IsLayered(c), NEW p \in TowerPlaces(c)
  PROVE  /\ p = <<p[1], p[2], p[3], p[4], p[5]>>
         /\ p[2] \in 0..(c.ntowers - 1) /\ p[3] \in 0..(c.nstacks - 1)
         /\ p[4] \in DOMAIN LayersOf(c) /\ p[4] \in Nat
         /\ p[5] \in SensitiveOf(LayersOf(c)[p[4]])
<1>1. PICK i \in 0..(c.nsides - 1), t \in 0..(c.ntowers - 1), m \in 0..(c.nstacks - 1),
           ls \in Layers(c) : p = <<i, t, m, ls[1], ls[2]>>
  BY DEF TowerPlaces
<1>2. /\ ls = <<ls[1], ls[2]>>
      /\ ls[1] \in DOMAIN LayersOf(c) /\ ls[1] \in Nat
      /\ ls[2] \in SensitiveOf(LayersOf(c)[ls[1]])
  BY LayerPlacesAre
<1> QED
  BY <1>1, <1>2

LEMMA TowersDiffer ==
  ASSUME TowersMade
  PROVE  CellIdsNameOneSensor /\ OtherSideIsMirrored
<1>1. PICK c \in TowerFiles :
        \E v : TowersMakes(built, c, v) /\ detector = TowerBarrel(c, v)
  BY DEF TowersMade
<1>2. PICK v : TowersMakes(built, c, v) /\ detector = TowerBarrel(c, v)
  BY <1>1
<1>3. IsLayered(c) /\ OneSensitive(c)
  BY TowerFilesAssumption DEF IsTowerFile
<1>4. detector.sensors = {TowerSensor(c, v, p) : p \in TowerPlaces(c)}
  BY <1>2 DEF TowerBarrel
<1>5. v.first.layer \in Nat /\ v.numbering \in {"staves", "modules"}
      /\ (v.numbering = "modules" => c.ntowers = 1 /\ c.nstacks = 1)
      /\ built # "CaloThreePartsEndcap_o1_v02"
  BY <1>2 DEF TowersMakes
<1>6. ASSUME NEW p
      PROVE  TowerSensor(c, v, p).ids = TowerIds(v, p)
  BY DEF TowerSensor
<1>7. ASSUME NEW s \in detector.sensors, NEW t \in detector.sensors, s.ids = t.ids
      PROVE  s = t
  <2>1. PICK p \in TowerPlaces(c) : s = TowerSensor(c, v, p)
    BY <1>4
  <2>2. PICK q \in TowerPlaces(c) : t = TowerSensor(c, v, q)
    BY <1>4
  <2>3. TowerIds(v, p) = TowerIds(v, q)
    BY <1>6, <1>7, <2>1, <2>2
  <2>4. p[1] = q[1] /\ LayerNumber(v, p[4]) = LayerNumber(v, q[4])
    BY <1>5, <2>3 DEF TowerIds
  <2>5. p[4] = q[4]
    BY <1>3, <1>5, <2>4, TowerPlacesAre DEF LayerNumber
  <2>6. p[2] = q[2] /\ p[3] = q[3]
    <3>1. CASE v.numbering = "staves"
      BY <2>3, <3>1 DEF TowerIds
    <3>2. CASE v.numbering = "modules"
      <4>1. p[2] \in 0..0 /\ p[3] \in 0..0 /\ q[2] \in 0..0 /\ q[3] \in 0..0
        BY <1>3, <1>5, <3>2, TowerPlacesAre
      <4> QED
        BY <4>1
    <3> QED
      BY <1>5, <3>1, <3>2
  <2>7. /\ p[4] \in DOMAIN LayersOf(c) /\ p[5] \in SensitiveOf(LayersOf(c)[p[4]])
        /\ q[5] \in SensitiveOf(LayersOf(c)[p[4]])
    BY <1>3, <2>5, TowerPlacesAre
  <2>8. p[5] = q[5]
    BY <1>3, <2>7, OneInEachLayer
  <2>9. p = <<p[1], p[2], p[3], p[4], p[5]>> /\ q = <<q[1], q[2], q[3], q[4], q[5]>>
    BY <1>3, TowerPlacesAre
  <2> QED
    BY <2>1, <2>2, <2>4, <2>5, <2>6, <2>8, <2>9
<1>8. ASSUME NEW s \in detector.sensors, NEW t \in detector.sensors,
             DOMAIN s.ids \cap SideFields # {},
             \A f \in DOMAIN s.ids : f \in SideFields <=> s.ids[f] # t.ids[f]
      PROVE  FALSE
  <2>1. PICK p \in TowerPlaces(c) : s = TowerSensor(c, v, p)
    BY <1>4
  <2>2. PICK q \in TowerPlaces(c) : t = TowerSensor(c, v, q)
    BY <1>4
  <2>3. s.ids = TowerIds(v, p) /\ t.ids = TowerIds(v, q)
    BY <1>6, <2>1, <2>2
  <2>4. CASE v.numbering = "staves"
    <3>1. s.ids.side = 0 /\ t.ids.side = 0 /\ "side" \in DOMAIN s.ids
      BY <2>3, <2>4 DEF TowerIds
    <3> QED
      BY <1>8, <3>1 DEF SideFields
  <2>5. CASE v.numbering = "modules"
    <3>1. DOMAIN s.ids = {"module", "layer"}
      BY <2>3, <2>5 DEF TowerIds
    <3> QED
      BY <1>8, <3>1 DEF SideFields
  <2> QED
    BY <1>5, <2>4, <2>5
<1>9. CellIdsNameOneSensor
  BY <1>7, NameOneSensor
<1>10. OtherSideIsMirrored
  BY <1>5, <1>8, SideIsMirrored
<1> QED
  BY <1>9, <1>10

-----------------------------------------------------------------------------
(* Polygons.                                                               *)

LEMMA PolygonPlacesAre ==
  ASSUME NEW c, IsLayered(c), NEW other, NEW p \in PolygonPlaces(c, other)
  PROVE  /\ p = <<p[1], p[2], p[3]>> /\ p[1] \in {1, other}
         /\ p[2] \in DOMAIN LayersOf(c) /\ p[2] \in Nat
         /\ IsStack(LayersOf(c)[p[2]])
         /\ p[3] \in SensitiveOf(LayersOf(c)[p[2]]) /\ p[3] \in Nat
<1>1. PICK m \in {1, other}, ls \in Layers(c) : p = <<m>> \o ls
  BY DEF PolygonPlaces
<1>2. /\ ls = <<ls[1], ls[2]>>
      /\ ls[1] \in DOMAIN LayersOf(c) /\ ls[1] \in Nat
      /\ IsStack(LayersOf(c)[ls[1]])
      /\ ls[2] \in SensitiveOf(LayersOf(c)[ls[1]]) /\ ls[2] \in Nat
  BY LayerPlacesAre
<1>3. p = <<m, ls[1], ls[2]>>
  BY <1>1, <1>2, OneThenTwo, Zenon
<1> QED
  BY <1>2, <1>3

PolygonIdsSay(ids, c, v, p) ==
  /\ DOMAIN ids = {"side", "layer"} \cup (IF v.submodule THEN {"submodule"} ELSE {})
  /\ ids.side = p[1] /\ ids.layer = LayerNumber(v, p[2])
  /\ v.submodule => ids.submodule = SensitiveNumber(LayersOf(c)[p[2]], p[3]) - 1

LEMMA PolygonIds ==
  ASSUME NEW c, NEW v, v.submodule \in BOOLEAN, NEW other, NEW p
  PROVE  PolygonIdsSay(PolygonSensor(c, v, other, p).ids, c, v, p)
<1> DEFINE first == [side |-> p[1], layer |-> LayerNumber(v, p[2])]
           sub == Submodule(c, v, p[2], p[3])
           ids == Joined(first, sub)
<1>1. PolygonSensor(c, v, other, p).ids = ids
  BY DEF PolygonSensor
<1>2. DOMAIN first = {"side", "layer"} /\ first.side = p[1] /\ first.layer = LayerNumber(v, p[2])
  OBVIOUS
<1>3. /\ v.submodule => /\ DOMAIN sub = {"submodule"}
                        /\ sub.submodule = SensitiveNumber(LayersOf(c)[p[2]], p[3]) - 1
      /\ ~v.submodule => DOMAIN sub = {}
  BY DEF Submodule
<1> HIDE DEF first, sub
<1>4. /\ DOMAIN ids = DOMAIN first \cup DOMAIN sub
      /\ \A f \in DOMAIN first : ids[f] = first[f]
      /\ \A f \in (DOMAIN sub) \ (DOMAIN first) : ids[f] = sub[f]
  BY JoinedFields
<1> HIDE DEF ids
<1>5. DOMAIN ids = {"side", "layer"} \cup (IF v.submodule THEN {"submodule"} ELSE {})
  BY <1>2, <1>3, <1>4
<1>6. ids.side = p[1] /\ ids.layer = LayerNumber(v, p[2])
  BY <1>2, <1>4
<1>7. v.submodule => ids.submodule = SensitiveNumber(LayersOf(c)[p[2]], p[3]) - 1
  BY <1>2, <1>3, <1>4
<1> QED
  BY <1>1, <1>5, <1>6, <1>7 DEF PolygonIdsSay

\* Layer and slice are what the ids besides the side say.
LEMMA PolygonIdsTell ==
  ASSUME NEW c, IsLayered(c), NEW v, v.submodule \in BOOLEAN, ~v.submodule => OneSensitive(c),
         v.first.layer \in Nat, NEW other,
         NEW p \in PolygonPlaces(c, other), NEW q \in PolygonPlaces(c, other),
         LayerNumber(v, p[2]) = LayerNumber(v, q[2]),
         v.submodule => SensitiveNumber(LayersOf(c)[p[2]], p[3]) - 1
                          = SensitiveNumber(LayersOf(c)[q[2]], q[3]) - 1
  PROVE  p[2] = q[2] /\ p[3] = q[3]
<1>1. p[2] = q[2]
  BY PolygonPlacesAre DEF LayerNumber
<1> DEFINE slices == LayersOf(c)[p[2]]
<1>2. SensitiveNumber(slices, p[3]) \in Nat /\ SensitiveNumber(slices, q[3]) \in Nat
  BY PolygonPlacesAre, NumbersAreNumbers
<1>3. v.submodule => SensitiveNumber(slices, p[3]) = SensitiveNumber(slices, q[3])
  BY <1>1, <1>2
<1>4. p[3] \in SensitiveOf(slices) /\ q[3] \in SensitiveOf(slices) /\ p[2] \in DOMAIN LayersOf(c)
  BY <1>1, PolygonPlacesAre
<1>5. p[3] = q[3]
  BY <1>3, <1>4, SubmodulesTell
<1> QED
  BY <1>1, <1>5

LEMMA PolygonsDiffer ==
  ASSUME PolygonsMade, detector # Thrown
  PROVE  CellIdsNameOneSensor /\ OtherSideIsMirrored
<1>1. PICK c \in PolygonFiles : \E v, other, inTree :
        PolygonsMakes(built, c, v, other) /\ detector = PolygonEndcap(c, v, other, inTree)
  BY DEF PolygonsMade
<1>2. PICK v, other, inTree :
        PolygonsMakes(built, c, v, other) /\ detector = PolygonEndcap(c, v, other, inTree)
  BY <1>1
<1>3. IsLayered(c) /\ c.zmin \in Nat
  BY PolygonFilesAssumption DEF IsPolygonFile
<1>4. detector.sensors = {PolygonSensor(c, v, other, p) : p \in PolygonPlaces(c, other)}
  BY <1>2 DEF PolygonEndcap
<1>5. /\ v.first.layer \in Nat /\ v.submodule \in BOOLEAN /\ other \in {2, -1}
      /\ ~v.submodule => OneSensitive(c)
      /\ built # "CaloThreePartsEndcap_o1_v02"
  BY <1>2 DEF PolygonsMakes
<1>6. ASSUME NEW s \in detector.sensors
      PROVE  \E p \in PolygonPlaces(c, other) :
               s = PolygonSensor(c, v, other, p) /\ PolygonIdsSay(s.ids, c, v, p)
  <2>1. PICK p \in PolygonPlaces(c, other) : s = PolygonSensor(c, v, other, p)
    BY <1>4
  <2> QED
    BY <1>5, <2>1, PolygonIds
<1>7. ASSUME NEW s \in detector.sensors, NEW t \in detector.sensors, s.ids = t.ids
      PROVE  s = t
  <2>1. PICK p \in PolygonPlaces(c, other) :
          s = PolygonSensor(c, v, other, p) /\ PolygonIdsSay(s.ids, c, v, p)
    BY <1>6
  <2>2. PICK q \in PolygonPlaces(c, other) :
          t = PolygonSensor(c, v, other, q) /\ PolygonIdsSay(t.ids, c, v, q)
    BY <1>6
  <2>3. /\ p[1] = q[1] /\ LayerNumber(v, p[2]) = LayerNumber(v, q[2])
        /\ v.submodule => SensitiveNumber(LayersOf(c)[p[2]], p[3]) - 1
                            = SensitiveNumber(LayersOf(c)[q[2]], q[3]) - 1
    BY <1>7, <2>1, <2>2 DEF PolygonIdsSay
  <2>4. p[2] = q[2] /\ p[3] = q[3]
    BY <1>3, <1>5, <2>3, PolygonIdsTell
  <2>5. p = <<p[1], p[2], p[3]>> /\ q = <<q[1], q[2], q[3]>>
    BY <1>3, PolygonPlacesAre
  <2> QED
    BY <2>1, <2>2, <2>3, <2>4, <2>5
<1>8. ASSUME NEW s \in detector.sensors, NEW t \in detector.sensors,
             \A f \in DOMAIN s.ids : f \in SideFields <=> s.ids[f] # t.ids[f]
      PROVE  t.pos = -s.pos
  <2>1. PICK p \in PolygonPlaces(c, other) :
          s = PolygonSensor(c, v, other, p) /\ PolygonIdsSay(s.ids, c, v, p)
    BY <1>6
  <2>2. PICK q \in PolygonPlaces(c, other) :
          t = PolygonSensor(c, v, other, q) /\ PolygonIdsSay(t.ids, c, v, q)
    BY <1>6
  <2>3. "side" \in DOMAIN s.ids /\ "layer" \in DOMAIN s.ids
        /\ (v.submodule => "submodule" \in DOMAIN s.ids)
    BY <1>5, <2>1 DEF PolygonIdsSay
  <2>4. s.ids.side # t.ids.side /\ s.ids.layer = t.ids.layer
        /\ (v.submodule => s.ids.submodule = t.ids.submodule)
    BY <1>8, <2>3 DEF SideFields
  <2>5. /\ p[1] # q[1] /\ LayerNumber(v, p[2]) = LayerNumber(v, q[2])
        /\ v.submodule => SensitiveNumber(LayersOf(c)[p[2]], p[3]) - 1
                            = SensitiveNumber(LayersOf(c)[q[2]], q[3]) - 1
    BY <2>1, <2>2, <2>4 DEF PolygonIdsSay
  <2>6. p[2] = q[2] /\ p[3] = q[3]
    BY <1>3, <1>5, <2>5, PolygonIdsTell
  <2> DEFINE x == 2 * c.zmin + MiddleOf(c, p[2], p[3])
  <2>7. MiddleOf(c, p[2], p[3]) \in Int
    BY <1>3, PolygonPlacesAre, MiddleIs
  <2>8. x \in Int
    BY <1>3, <2>7
  <2>9. /\ s.pos = Other(other)[p[1]] * x /\ t.pos = Other(other)[q[1]] * x
    BY <2>1, <2>2, <2>6 DEF PolygonSensor
  <2>10. p[1] \in {1, other} /\ q[1] \in {1, other}
    BY <1>3, PolygonPlacesAre
  <2>11. Other(other)[1] = 1 /\ Other(other)[other] = -1
    BY <1>5 DEF Other
  <2> HIDE DEF x
  <2> QED
    BY <2>5, <2>8, <2>9, <2>10, <2>11
<1>9. CellIdsNameOneSensor
  BY <1>7, NameOneSensor
<1>10. OtherSideIsMirrored
  BY <1>5, <1>8, SideIsMirrored
<1> QED
  BY <1>9, <1>10

-----------------------------------------------------------------------------
(* Calorimeters around the beam pipe, and prototypes.                      *)

LEMMA SliceNumbers ==
  ASSUME NEW row, NEW v, v.sliceIds \in BOOLEAN, NEW s, NEW first,
         NEW ids, ids = Joined(row, SliceNumber(v, s, first))
  PROVE  /\ DOMAIN row \subseteq DOMAIN ids /\ DOMAIN ids \subseteq DOMAIN row \cup {"slice"}
         /\ \A f \in DOMAIN row : ids[f] = row[f]
<1> DEFINE sub == SliceNumber(v, s, first)
<1>1. DOMAIN sub \subseteq {"slice"}
  <2>1. CASE v.sliceIds
    BY <2>1 DEF SliceNumber
  <2>2. CASE ~v.sliceIds
    BY <2>2 DEF SliceNumber
  <2> QED
    BY <2>1, <2>2
<1>2. ids = Joined(row, sub)
  OBVIOUS
<1> HIDE DEF sub
<1>3. /\ DOMAIN ids = DOMAIN row \cup DOMAIN sub
      /\ \A f \in DOMAIN row : ids[f] = row[f]
  <2>1. /\ DOMAIN Joined(row, sub) = DOMAIN row \cup DOMAIN sub
        /\ \A f \in DOMAIN row : Joined(row, sub)[f] = row[f]
    BY JoinedFields
  <2> QED
    BY <1>2, <2>1
<1> QED
  BY <1>1, <1>3

ForwardIdsSay(ids, v, p) ==
  /\ DOMAIN ids \ {"slice"} = {"barrel", "layer"}
  /\ ids.barrel = p[1] /\ ids.layer = LayerNumber(v.number, p[2])

LEMMA ForwardIds ==
  ASSUME NEW c, NEW v, v.sliceIds \in BOOLEAN, NEW p
  PROVE  ForwardIdsSay(ForwardSensor(c, v, p).ids, v, p)
<1> DEFINE row == [barrel |-> p[1], layer |-> LayerNumber(v.number, p[2])]
           ids == ForwardSensor(c, v, p).ids
<1>1. ids = Joined(row, SliceNumber(v, p[3], 1))
  BY DEF ForwardSensor
<1>2. DOMAIN row = {"barrel", "layer"} /\ row.barrel = p[1]
      /\ row.layer = LayerNumber(v.number, p[2])
  OBVIOUS
<1> HIDE DEF row, ids
<1>3. /\ DOMAIN row \subseteq DOMAIN ids /\ DOMAIN ids \subseteq DOMAIN row \cup {"slice"}
      /\ \A f \in DOMAIN row : ids[f] = row[f]
  BY <1>1, SliceNumbers
<1>4. DOMAIN ids \ {"slice"} = {"barrel", "layer"}
  BY <1>2, <1>3
<1> QED
  BY <1>2, <1>3, <1>4 DEF ForwardIdsSay, ids

LEMMA ForwardsDiffer ==
  ASSUME ForwardMade
  PROVE  CellIdsNameOneSensor /\ OtherSideIsMirrored
<1>1. PICK c \in ForwardFiles : \E v :
        ForwardMakes(built, v) /\ detector = ForwardCalorimeter(c, v)
  BY DEF ForwardMade
<1>2. PICK v : ForwardMakes(built, v) /\ detector = ForwardCalorimeter(c, v)
  BY <1>1
<1>3. IsLayered(c) /\ c.zmin \in Nat /\ OneSensitive(c)
  BY ForwardFilesAssumption DEF IsForwardFile, IsPolygonFile
<1>4. detector.sensors = {ForwardSensor(c, v, p) : p \in PolygonPlaces(c, 2)}
  BY <1>2 DEF ForwardCalorimeter
<1>5. /\ v.number.first.layer \in Nat /\ v.sliceIds \in BOOLEAN
      /\ built # "CaloThreePartsEndcap_o1_v02"
  BY <1>2 DEF ForwardMakes, ForwardTypes
<1>6. ASSUME NEW s \in detector.sensors
      PROVE  \E p \in PolygonPlaces(c, 2) :
               s = ForwardSensor(c, v, p) /\ ForwardIdsSay(s.ids, v, p)
  <2>1. PICK p \in PolygonPlaces(c, 2) : s = ForwardSensor(c, v, p)
    BY <1>4
  <2> QED
    BY <1>5, <2>1, ForwardIds
<1>7. ASSUME NEW p \in PolygonPlaces(c, 2), NEW q \in PolygonPlaces(c, 2),
             LayerNumber(v.number, p[2]) = LayerNumber(v.number, q[2])
      PROVE  p[2] = q[2] /\ p[3] = q[3]
  <2>1. p[2] = q[2]
    BY <1>3, <1>5, <1>7, PolygonPlacesAre DEF LayerNumber
  <2>2. /\ p[2] \in DOMAIN LayersOf(c) /\ p[3] \in SensitiveOf(LayersOf(c)[p[2]])
        /\ q[3] \in SensitiveOf(LayersOf(c)[p[2]])
    BY <1>3, <2>1, PolygonPlacesAre
  <2> QED
    BY <1>3, <2>1, <2>2, OneInEachLayer
<1>8. ASSUME NEW s \in detector.sensors, NEW t \in detector.sensors, s.ids = t.ids
      PROVE  s = t
  <2>1. PICK p \in PolygonPlaces(c, 2) : s = ForwardSensor(c, v, p) /\ ForwardIdsSay(s.ids, v, p)
    BY <1>6
  <2>2. PICK q \in PolygonPlaces(c, 2) : t = ForwardSensor(c, v, q) /\ ForwardIdsSay(t.ids, v, q)
    BY <1>6
  <2>3. p[1] = q[1] /\ LayerNumber(v.number, p[2]) = LayerNumber(v.number, q[2])
    BY <1>8, <2>1, <2>2 DEF ForwardIdsSay
  <2>4. p[2] = q[2] /\ p[3] = q[3]
    BY <1>7, <2>3
  <2>5. p = <<p[1], p[2], p[3]>> /\ q = <<q[1], q[2], q[3]>>
    BY <1>3, PolygonPlacesAre
  <2> QED
    BY <2>1, <2>2, <2>3, <2>4, <2>5
<1>9. ASSUME NEW s \in detector.sensors, NEW t \in detector.sensors,
             \A f \in DOMAIN s.ids : f \in SideFields <=> s.ids[f] # t.ids[f]
      PROVE  t.pos = -s.pos
  <2>1. PICK p \in PolygonPlaces(c, 2) : s = ForwardSensor(c, v, p) /\ ForwardIdsSay(s.ids, v, p)
    BY <1>6
  <2>2. PICK q \in PolygonPlaces(c, 2) : t = ForwardSensor(c, v, q) /\ ForwardIdsSay(t.ids, v, q)
    BY <1>6
  <2>3. "barrel" \in DOMAIN s.ids /\ "layer" \in DOMAIN s.ids
    BY <2>1 DEF ForwardIdsSay
  <2>4. s.ids.barrel # t.ids.barrel /\ s.ids.layer = t.ids.layer
    BY <1>9, <2>3 DEF SideFields
  <2>5. p[1] # q[1] /\ LayerNumber(v.number, p[2]) = LayerNumber(v.number, q[2])
    BY <2>1, <2>2, <2>4 DEF ForwardIdsSay
  <2>6. p[2] = q[2] /\ p[3] = q[3]
    BY <1>7, <2>5
  <2> DEFINE x == 2 * c.zmin + MiddleOf(c, p[2], p[3])
  <2>7. MiddleOf(c, p[2], p[3]) \in Int
    BY <1>3, PolygonPlacesAre, MiddleIs
  <2>8. x \in Int
    BY <1>3, <2>7
  <2>9. /\ s.pos = Other(2)[p[1]] * x /\ t.pos = Other(2)[q[1]] * x
    BY <2>1, <2>2, <2>6 DEF ForwardSensor
  <2>10. p[1] \in {1, 2} /\ q[1] \in {1, 2}
    BY <1>3, PolygonPlacesAre
  <2>11. Other(2)[1] = 1 /\ Other(2)[2] = -1
    BY DEF Other
  <2> HIDE DEF x
  <2> QED
    BY <2>5, <2>8, <2>9, <2>10, <2>11
<1>10. CellIdsNameOneSensor
  BY <1>8, NameOneSensor
<1>11. OtherSideIsMirrored
  BY <1>5, <1>9, SideIsMirrored
<1> QED
  BY <1>10, <1>11

LEMMA PrototypesDiffer ==
  ASSUME PrototypesMade
  PROVE  CellIdsNameOneSensor /\ OtherSideIsMirrored
<1>1. PICK c \in PrototypeFiles : \E v :
        built \in PrototypeTypes /\ v.sliceIds \in BOOLEAN /\ detector = Prototype(c, v)
  BY DEF PrototypesMade
<1>2. PICK v : built \in PrototypeTypes /\ v.sliceIds \in BOOLEAN /\ detector = Prototype(c, v)
  BY <1>1
<1>3. IsLayered(c) /\ OneSensitive(c)
  BY PrototypeFilesAssumption DEF IsPrototypeFile
<1>4. ASSUME NEW s \in detector.sensors
      PROVE  \E p \in Layers(c) : s = PrototypeSensor(c, v, p)
  BY <1>2 DEF Prototype
<1>5. ASSUME NEW p
      PROVE  /\ DOMAIN PrototypeSensor(c, v, p).ids \subseteq {"layer", "slice"}
             /\ PrototypeSensor(c, v, p).ids.layer = p[1] - 1
  <2> DEFINE row == [layer |-> p[1] - 1]
             ids == PrototypeSensor(c, v, p).ids
  <2>1. ids = Joined(row, SliceNumber(v, p[2], 0))
    BY DEF PrototypeSensor
  <2>2. DOMAIN row = {"layer"} /\ row.layer = p[1] - 1
    OBVIOUS
  <2> HIDE DEF row, ids
  <2>3. /\ DOMAIN ids \subseteq DOMAIN row \cup {"slice"}
        /\ \A f \in DOMAIN row : ids[f] = row[f]
    BY <1>2, <2>1, SliceNumbers
  <2>4. DOMAIN ids \subseteq {"layer", "slice"} /\ ids.layer = p[1] - 1
    BY <2>2, <2>3
  <2> QED
    BY <2>4 DEF ids
<1>6. ASSUME NEW s \in detector.sensors, NEW t \in detector.sensors, s.ids = t.ids
      PROVE  s = t
  <2>1. PICK p \in Layers(c) : s = PrototypeSensor(c, v, p)
    BY <1>4
  <2>2. PICK q \in Layers(c) : t = PrototypeSensor(c, v, q)
    BY <1>4
  <2>3. p[1] - 1 = q[1] - 1
    BY <1>5, <1>6, <2>1, <2>2
  <2>4. /\ p = <<p[1], p[2]>> /\ p[1] \in DOMAIN LayersOf(c) /\ p[1] \in Nat
        /\ p[2] \in SensitiveOf(LayersOf(c)[p[1]])
        /\ q = <<q[1], q[2]>> /\ q[1] \in Nat /\ q[2] \in SensitiveOf(LayersOf(c)[q[1]])
    BY <1>3, LayerPlacesAre
  <2>5. p[1] = q[1]
    BY <2>3, <2>4
  <2>6. p[2] = q[2]
    BY <1>3, <2>4, <2>5, OneInEachLayer
  <2> QED
    BY <2>1, <2>2, <2>4, <2>5, <2>6
<1>7. \A s \in detector.sensors : DOMAIN s.ids \cap SideFields = {}
  BY <1>4, <1>5 DEF SideFields
<1>8. built # "CaloThreePartsEndcap_o1_v02"
  BY <1>2 DEF PrototypeTypes
<1> QED
  BY <1>6, <1>7, <1>8, NameOneSensor, NoSides

-----------------------------------------------------------------------------
(* Panels.                                                                 *)

LEMMA PanelPlacesAre ==
  ASSUME NEW c, IsLayered(c), NEW p \in PanelPlaces(c)
  PROVE  /\ p = <<p[1], p[2], p[3], p[4], p[5]>>
         /\ p[1] \in {-1, 1} /\ p[3] \in {1, 2}
         /\ p[4] \in DOMAIN LayersOf(c) /\ p[4] \in Nat
         /\ p[5] \in SensitiveOf(LayersOf(c)[p[4]])
<1>1. PICK j \in {-1, 1}, i \in 0..(c.insides - 1), m \in {1, 2}, ls \in Layers(c) :
        p = <<j, i, m, ls[1], ls[2]>>
  BY DEF PanelPlaces
<1>2. /\ ls = <<ls[1], ls[2]>>
      /\ ls[1] \in DOMAIN LayersOf(c) /\ ls[1] \in Nat
      /\ ls[2] \in SensitiveOf(LayersOf(c)[ls[1]])
  BY LayerPlacesAre
<1> QED
  BY <1>1, <1>2

LEMMA PanelsDiffer ==
  ASSUME PanelsMade, detector # Thrown
  PROVE  CellIdsNameOneSensor /\ OtherSideIsMirrored
<1>1. PICK c \in PanelFiles :
        built \in {"ECalEndcap_o1_v01", "SECalEndcap_o1_v01"} /\ detector = PanelEndcap(c)
  BY DEF PanelsMade
<1>2. IsLayered(c) /\ {c.zmin, c.zmax, c.tolerance} \subseteq Nat
  BY PanelFilesAssumption DEF IsPanelFile
<1>3. detector.sensors = {PanelSensor(c, p) : p \in PanelPlaces(c)}
  BY <1>1 DEF PanelEndcap
<1>4. ASSUME NEW s \in detector.sensors, NEW t \in detector.sensors, s.ids = t.ids
      PROVE  s = t
  <2>1. PICK p \in PanelPlaces(c) : s = PanelSensor(c, p)
    BY <1>3
  <2>2. PICK q \in PanelPlaces(c) : t = PanelSensor(c, q)
    BY <1>3
  <2>3. /\ p[1] = q[1] /\ p[2] = q[2] /\ p[3] = q[3] /\ p[5] = q[5]
        /\ 100 * p[3] + p[4] = 100 * q[3] + q[4]
    BY <1>4, <2>1, <2>2 DEF PanelSensor
  <2>4. p[4] = q[4]
    BY <1>2, <2>3, PanelPlacesAre
  <2>5. p = <<p[1], p[2], p[3], p[4], p[5]>> /\ q = <<q[1], q[2], q[3], q[4], q[5]>>
    BY <1>2, PanelPlacesAre
  <2> QED
    BY <2>1, <2>2, <2>3, <2>4, <2>5
<1>5. ASSUME NEW s \in detector.sensors, NEW t \in detector.sensors,
             \A f \in DOMAIN s.ids : f \in SideFields <=> s.ids[f] # t.ids[f]
      PROVE  t.pos = -s.pos
  <2>1. PICK p \in PanelPlaces(c) : s = PanelSensor(c, p)
    BY <1>3
  <2>2. PICK q \in PanelPlaces(c) : t = PanelSensor(c, q)
    BY <1>3
  <2>3. {"barrel", "panel", "layer", "slice"} \subseteq DOMAIN s.ids
    BY <2>1 DEF PanelSensor
  <2>4. /\ s.ids.barrel # t.ids.barrel /\ s.ids.panel = t.ids.panel
        /\ s.ids.layer = t.ids.layer /\ s.ids.slice = t.ids.slice
    BY <1>5, <2>3 DEF SideFields
  <2>5. /\ p[1] # q[1] /\ p[3] = q[3] /\ p[5] = q[5]
        /\ 100 * p[3] + p[4] = 100 * q[3] + q[4]
    BY <2>1, <2>2, <2>4 DEF PanelSensor
  <2>6. p[4] = q[4]
    BY <1>2, <2>5, PanelPlacesAre
  <2> DEFINE x == c.zmax + c.zmin - PanelDepth(c) + 2 * c.tolerance + MiddleOf(c, p[4], p[5])
  <2>7. MiddleOf(c, p[4], p[5]) \in Int
    BY <1>2, PanelPlacesAre, MiddleIs
  <2>8. PanelDepth(c) \in Int
    <3>1. Len(LayersOf(c)) + 1 \in 1..(Len(LayersOf(c)) + 1)
      BY <1>2, DepthIs
    <3>2. TotalThickness(c) \in Nat
      BY <1>2, <3>1, DepthIs DEF TotalThickness
    <3> QED
      BY <1>2, <3>2 DEF PanelDepth
  <2>9. x \in Int
    BY <1>2, <2>7, <2>8
  <2>10. s.pos = p[1] * x /\ t.pos = q[1] * x
    BY <2>1, <2>2, <2>5, <2>6 DEF PanelSensor
  <2>11. p[1] \in {-1, 1} /\ q[1] \in {-1, 1}
    BY <1>2, PanelPlacesAre
  <2> HIDE DEF x
  <2> QED
    BY <2>5, <2>9, <2>10, <2>11
<1>6. CellIdsNameOneSensor
  BY <1>4, NameOneSensor
<1>7. built # "CaloThreePartsEndcap_o1_v02"
  BY <1>1
<1>8. OtherSideIsMirrored
  BY <1>5, <1>7, SideIsMirrored
<1> QED
  BY <1>6, <1>8

-----------------------------------------------------------------------------
(* What tkLayout lays out: places in the order of the loops.               *)

\* Of the places of four loops, each over numbers up to a bound, there are finitely
\* many.
LEMMA FourLoops ==
  ASSUME NEW n \in Nat, NEW S,
         \A p \in S : p = <<p[1], p[2], p[3], p[4]>>
                      /\ {p[1], p[2], p[3], p[4]} \subseteq 0..n
  PROVE  IsFiniteSet(S)
<1> DEFINE two == (0..n) \X (0..n)
           T == two \X two
           f == [p \in S |-> <<<<p[1], p[2]>>, <<p[3], p[4]>>>>]
<1>1. IsFiniteSet(0..n)
  <2>1. 0 \in Int /\ n \in Int
    OBVIOUS
  <2> QED
    BY <2>1, FS_Interval, Zenon
<1>2. IsFiniteSet(two)
  <2> DEFINE I == 0..n
  <2> HIDE DEF I
  <2>1. IsFiniteSet(I \X I)
    BY <1>1, FS_Product DEF I
  <2> QED
    BY <2>1 DEF I
<1>3. IsFiniteSet(T)
  <2> HIDE DEF two
  <2> QED
    BY <1>2, FS_Product
<1>4. f \in Injection(S, T)
  <2>1. f \in [S -> T]
    OBVIOUS
  <2>2. ASSUME NEW p \in S, NEW q \in S, f[p] = f[q]
        PROVE  p = q
    <3>1. f[p] = <<<<p[1], p[2]>>, <<p[3], p[4]>>>> /\ f[q] = <<<<q[1], q[2]>>, <<q[3], q[4]>>>>
      OBVIOUS
    <3>2. p[1] = q[1] /\ p[2] = q[2] /\ p[3] = q[3] /\ p[4] = q[4]
      BY <2>2, <3>1
    <3> QED
      BY <3>2
  <2> HIDE DEF f, T
  <2>3. IsInjective(f)
    BY <2>1, <2>2 DEF IsInjective
  <2> QED
    BY <2>1, <2>3 DEF Injection
<1> HIDE DEF f, T
<1> QED
  BY <1>3, <1>4, FS_Injection

\* None of finitely many sizes is greater than all of them together.
LEMMA SizesAreBounded ==
  ASSUME NEW t, Len(t) \in Nat, \A i \in 1..Len(t) : t[i] \in Nat
  PROVE  \E n \in Nat : \A i \in 1..Len(t) : t[i] <= n
<1>1. \A i \in 0..Len(t) : Sums(t)[i] \in Nat
  BY SumsGrow
<1>2. \A i \in 1..Len(t) : Sums(t)[i] = Sums(t)[i - 1] + t[i]
  BY SumsAre
<1>3. \A i \in 0..Len(t) : Sums(t)[i] <= Sums(t)[Len(t)]
  BY SumsGrow
<1>4. ASSUME NEW i \in 1..Len(t)
      PROVE  t[i] <= Sums(t)[Len(t)]
  <2>1. Sums(t)[i - 1] \in Nat /\ Sums(t)[i] \in Nat /\ Sums(t)[Len(t)] \in Nat /\ t[i] \in Nat
    BY <1>1
  <2>2. Sums(t)[i] = Sums(t)[i - 1] + t[i] /\ Sums(t)[i] <= Sums(t)[Len(t)]
    BY <1>2, <1>3
  <2> QED
    BY <2>1, <2>2
<1>5. Sums(t)[Len(t)] \in Nat
  BY <1>1
<1> QED
  BY <1>4, <1>5, Zenon

IsPlace(p, n) ==
  /\ n \in {3, 4} /\ DOMAIN p = 1..n
  /\ \A i \in 1..n : p[i] \in Nat

LEMMA OneComesBefore ==
  ASSUME NEW n, NEW p, NEW q, IsPlace(p, n), IsPlace(q, n),
         \E i \in 1..n : p[i] # q[i]
  PROVE  Before(p, q) \/ Before(q, p)
<1> DEFINE D == {i \in 1..n : p[i] # q[i]}
<1>1. D \subseteq Nat /\ D # {}
  BY DEF IsPlace
<1>2. PICK i \in D : \A j \in D : i <= j
  <2> HIDE DEF D
  <2> QED
    BY <1>1, LeastNumber, Zenon
<1>3. i \in 1..n /\ p[i] # q[i]
  BY <1>2
<1>4. \A j \in 1..(i - 1) : p[j] = q[j]
  <2> SUFFICES ASSUME NEW j \in 1..(i - 1) PROVE p[j] = q[j]
    OBVIOUS
  <2>1. j \in 1..n /\ ~(i <= j)
    BY <1>3 DEF IsPlace
  <2> QED
    BY <1>2, <2>1
<1>5. p[i] < q[i] \/ q[i] < p[i]
  BY <1>3 DEF IsPlace
<1> QED
  BY <1>3, <1>4, <1>5, Zenon DEF Before, IsPlace

LEMMA BeforeIsAnOrder ==
  ASSUME NEW n, NEW p, NEW q, IsPlace(p, n), IsPlace(q, n)
  PROVE  /\ ~Before(p, p)
         /\ \A r : IsPlace(r, n) /\ Before(r, p) /\ Before(p, q) => Before(r, q)
<1>1. ~Before(p, p)
  BY DEF Before, IsPlace
<1>2. ASSUME NEW r, IsPlace(r, n), Before(r, p), Before(p, q)
      PROVE  Before(r, q)
  <2>1. PICK i \in 1..n : r[i] < p[i] /\ \A j \in 1..(i - 1) : r[j] = p[j]
    BY <1>2, Zenon DEF Before, IsPlace
  <2>2. PICK k \in 1..n : p[k] < q[k] /\ \A j \in 1..(k - 1) : p[j] = q[j]
    BY <1>2, Zenon DEF Before, IsPlace
  <2>3. CASE i < k
    <3>1. i \in 1..(k - 1) /\ i \in DOMAIN r
      BY <1>2, <2>3 DEF IsPlace
    <3>2. \A j \in 1..(i - 1) : j \in 1..(k - 1)
      BY <2>3 DEF IsPlace
    <3>3. r[i] < q[i] /\ \A j \in 1..(i - 1) : r[j] = q[j]
      BY <2>1, <2>2, <3>1, <3>2
    <3> QED
      BY <3>1, <3>3 DEF Before
  <2>4. CASE k < i
    <3>1. k \in 1..(i - 1) /\ k \in DOMAIN r
      BY <1>2, <2>4 DEF IsPlace
    <3>2. \A j \in 1..(k - 1) : j \in 1..(i - 1)
      BY <2>4 DEF IsPlace
    <3>3. r[k] < q[k] /\ \A j \in 1..(k - 1) : r[j] = q[j]
      BY <2>1, <2>2, <3>1, <3>2
    <3> QED
      BY <3>1, <3>3 DEF Before
  <2>5. CASE i = k
    <3>1. r[i] \in Nat /\ p[i] \in Nat /\ q[i] \in Nat /\ i \in DOMAIN r
      BY <1>2, <2>1 DEF IsPlace
    <3>2. r[i] < q[i] /\ \A j \in 1..(i - 1) : r[j] = q[j]
      BY <2>1, <2>2, <2>5, <3>1
    <3> QED
      BY <3>1, <3>2 DEF Before
  <2>6. i \in Nat /\ k \in Nat
    BY DEF IsPlace
  <2> QED
    BY <2>3, <2>4, <2>5, <2>6
<1> QED
  BY <1>1, <1>2

Ahead(S, p) == {r \in S : Before(r, p)}

\* How many places come before one is known of no other.
LEMMA CountedBefore ==
  ASSUME NEW n, NEW S, IsFiniteSet(S), \A p \in S : IsPlace(p, n),
         NEW p \in S, NEW q \in S,
         Cardinality(Ahead(S, p)) = Cardinality(Ahead(S, q))
  PROVE  \A i \in 1..n : p[i] = q[i]
<1> DEFINE ahead(x) == Ahead(S, x)
<1>1. ASSUME NEW x \in S, NEW y \in S, Before(x, y)
      PROVE  Cardinality(ahead(x)) < Cardinality(ahead(y))
             /\ Cardinality(ahead(x)) \in Nat /\ Cardinality(ahead(y)) \in Nat
  <2>1. ahead(x) \subseteq ahead(y)
    BY <1>1, BeforeIsAnOrder DEF Ahead
  <2>2. x \in ahead(y) /\ x \notin ahead(x)
    BY <1>1, BeforeIsAnOrder DEF Ahead
  <2>3. ahead(y) \in SUBSET S
    BY DEF Ahead
  <2> HIDE DEF ahead
  <2>4. IsFiniteSet(ahead(y))
    BY <2>3, FS_Subset
  <2> QED
    BY <2>1, <2>2, <2>4, FewerIn, Zenon
<1>2. SUFFICES ASSUME \E i \in 1..n : p[i] # q[i]
               PROVE  Cardinality(ahead(p)) # Cardinality(ahead(q))
  OBVIOUS
<1>3. Before(p, q) \/ Before(q, p)
  BY <1>2, OneComesBefore
<1> HIDE DEF ahead
<1> QED
  BY <1>1, <1>3

LEMMA RodPlacesAre ==
  ASSUME NEW c \in RodFiles, NEW l \in DOMAIN c.layers, NEW p \in RodPlaces(Layer(c, l))
  PROVE  /\ p = <<p[1], p[2], p[3], p[4]>> /\ IsPlace(p, 4)
         /\ p[1] \in 1..Len(c.layers[l].slices)
         /\ p[2] \in 0..(c.layers[l].nphi - 1)
         /\ p[3] \in 1..Len(c.layers[l].rods)
         /\ p[4] \in 1..Len(c.layers[l].rods[p[3]])
<1> DEFINE layer == c.layers[l]
<1>1. /\ IsStack(layer.slices) /\ layer.nphi \in Nat /\ IsList(layer.rods)
      /\ \A rod \in DOMAIN layer.rods : IsList(layer.rods[rod])
  BY RodFilesAssumption DEF IsRodFile
<1>2. Len(layer.slices) \in Nat /\ DOMAIN layer.slices = 1..Len(layer.slices)
  BY <1>1, Stacks
<1>3. Len(layer.rods) \in Nat /\ DOMAIN layer.rods = 1..Len(layer.rods)
  BY <1>1, Lists
<1>4. \A rod \in DOMAIN layer.rods :
        Len(layer.rods[rod]) \in Nat /\ DOMAIN layer.rods[rod] = 1..Len(layer.rods[rod])
  BY <1>1, Lists
<1>5. PICK rod \in DOMAIN layer.rods :
        p \in {<<s, phi, rod, m>> : s \in DOMAIN layer.slices,
                                    phi \in {k \in 0..(layer.nphi - 1) : k % 2 = 0},
                                    m \in DOMAIN layer.rods[rod]}
  BY DEF RodPlaces, Layer
<1>6. PICK s \in DOMAIN layer.slices, phi \in 0..(layer.nphi - 1),
           m \in DOMAIN layer.rods[rod] : p = <<s, phi, rod, m>>
  BY <1>5
<1>7. s \in Nat /\ phi \in Nat /\ rod \in Nat /\ m \in Nat
  <2>1. s \in Nat
    BY <1>2
  <2>2. phi \in Nat
    BY <1>1
  <2>3. rod \in Nat
    BY <1>3
  <2>4. m \in Nat
    BY <1>4
  <2> QED
    BY <2>1, <2>2, <2>3, <2>4
<1>8. IsPlace(p, 4)
  BY <1>6, <1>7 DEF IsPlace
<1> QED
  BY <1>2, <1>3, <1>4, <1>6, <1>8, Zenon

LEMMA RodPlacesFinite ==
  ASSUME NEW c \in RodFiles, NEW l \in DOMAIN c.layers
  PROVE  IsFiniteSet(RodPlaces(Layer(c, l)))
<1> DEFINE layer == c.layers[l]
           t == [i \in 1..Len(layer.rods) |-> Len(layer.rods[i])]
<1>1. /\ IsStack(layer.slices) /\ layer.nphi \in Nat /\ IsList(layer.rods)
      /\ \A rod \in DOMAIN layer.rods : IsList(layer.rods[rod])
  BY RodFilesAssumption DEF IsRodFile
<1>2. Len(layer.slices) \in Nat
  BY <1>1, Stacks
<1>3. Len(layer.rods) \in Nat /\ DOMAIN layer.rods = 1..Len(layer.rods)
  BY <1>1, Lists
<1>4. \A rod \in DOMAIN layer.rods : Len(layer.rods[rod]) \in Nat
  BY <1>1, Lists
<1>5. Len(t) = Len(layer.rods)
  BY <1>3, LenOfRow
<1>6. \A i \in 1..Len(t) : t[i] = Len(layer.rods[i]) /\ t[i] \in Nat
  <2> HIDE DEF layer
  <2> QED
    BY <1>3, <1>4, <1>5
<1>7. PICK k \in Nat : \A i \in 1..Len(t) : t[i] <= k
  <2> HIDE DEF t
  <2> QED
    BY <1>3, <1>5, <1>6, SizesAreBounded, Zenon
<1> DEFINE n == k + Len(layer.slices) + layer.nphi + Len(layer.rods)
<1>8. n \in Nat
  <2>1. layer.nphi \in Nat
    BY <1>1
  <2>2. Len(layer.slices) \in Nat /\ Len(layer.rods) \in Nat
    BY <1>2, <1>3
  <2>3. k \in Nat
    BY <1>7
  <2> HIDE DEF layer
  <2> QED
    BY <2>1, <2>2, <2>3
<1>9. ASSUME NEW p \in RodPlaces(Layer(c, l))
      PROVE  p = <<p[1], p[2], p[3], p[4]>> /\ {p[1], p[2], p[3], p[4]} \subseteq 0..n
  <2>1. /\ p = <<p[1], p[2], p[3], p[4]>>
        /\ p[1] \in 1..Len(layer.slices) /\ p[2] \in 0..(layer.nphi - 1)
        /\ p[3] \in 1..Len(layer.rods) /\ p[4] \in 1..Len(layer.rods[p[3]])
    BY RodPlacesAre
  <2>2. Len(layer.rods[p[3]]) \in Nat /\ Len(layer.rods[p[3]]) <= k
    <3> HIDE DEF layer, t
    <3> QED
      BY <1>3, <1>4, <1>5, <1>6, <1>7, <2>1
  <2>3. layer.nphi \in Nat
    BY <1>1
  <2> HIDE DEF layer, t
  <2> DEFINE f == Len(layer.slices)
             g == layer.nphi
             h == Len(layer.rods)
  <2>7. f \in Nat /\ g \in Nat /\ h \in Nat /\ k \in Nat
    BY <1>2, <1>3, <1>7, <2>3
  <2>4. /\ \A x \in 1..f : x \in 0..n
        /\ \A x \in 0..(g - 1) : x \in 0..n
        /\ \A x \in 1..h : x \in 0..n
        /\ \A x \in 0..k : x \in 0..n
    <3>1. n = k + f + g + h
      OBVIOUS
    <3> HIDE DEF f, g, h, n
    <3> QED
      BY <2>7, <3>1
  <2>5. p[4] \in 0..k
    BY <1>7, <2>1, <2>2
  <2> HIDE DEF n
  <2>6. {p[1], p[2], p[3], p[4]} \subseteq 0..n
    BY <2>1, <2>4, <2>5, Zenon
  <2> QED
    BY <2>1, <2>6
<1> HIDE DEF n
<1> QED
  BY <1>8, <1>9, FourLoops

LEMMA SensitiveRodPlacesAre ==
  ASSUME NEW c \in RodFiles, NEW p \in SensitiveRodPlaces(c)
  PROVE  /\ p = <<p[1], p[2], p[3], p[4], p[5]>> /\ p[1] \in DOMAIN c.layers /\ p[1] \in Nat
         /\ <<p[2], p[3], p[4], p[5]>> \in
              {q \in RodPlaces(Layer(c, p[1])) : Layer(c, p[1]).slices[q[1]].sensitive}
<1>1. PICK l \in DOMAIN c.layers :
        p \in {<<l, x[1], x[2], x[3], x[4]>> :
                 x \in {q \in RodPlaces(Layer(c, l)) : Layer(c, l).slices[q[1]].sensitive}}
  BY DEF SensitiveRodPlaces
<1>2. PICK x \in RodPlaces(Layer(c, l)) :
        Layer(c, l).slices[x[1]].sensitive /\ p = <<l, x[1], x[2], x[3], x[4]>>
  BY <1>1
<1>3. x = <<x[1], x[2], x[3], x[4]>>
  BY RodPlacesAre
<1>4. <<p[2], p[3], p[4], p[5]>> = x /\ p[1] = l
  BY <1>2, <1>3
<1>5. DOMAIN c.layers \subseteq Nat
  BY RodFilesAssumption, Lists DEF IsRodFile
<1> QED
  BY <1>2, <1>4, <1>5

\* The number of a module tells which of its layer it is.
LEMMA RodNumbersDiffer ==
  ASSUME NEW c \in RodFiles, NEW p \in SensitiveRodPlaces(c), NEW q \in SensitiveRodPlaces(c),
         p[1] - 1 = q[1] - 1, RodNumber(c, p) = RodNumber(c, q)
  PROVE  p = q
<1>1. p[1] = q[1]
  <2>1. p[1] \in Nat /\ q[1] \in Nat
    BY SensitiveRodPlacesAre, Zenon
  <2> QED
    BY <2>1
<1> DEFINE layer == Layer(c, p[1])
           S == {x \in RodPlaces(layer) : layer.slices[x[1]].sensitive}
           a == <<p[2], p[3], p[4], p[5]>>
           b == <<q[2], q[3], q[4], q[5]>>
<1>2. a \in S /\ b \in S
  BY <1>1, SensitiveRodPlacesAre
<1>3. \A x \in S : IsPlace(x, 4)
  BY SensitiveRodPlacesAre, RodPlacesAre, Zenon
<1>4. IsFiniteSet(S)
  <2>1. IsFiniteSet(RodPlaces(layer))
    BY SensitiveRodPlacesAre, RodPlacesFinite, Zenon
  <2>2. S \in SUBSET RodPlaces(layer)
    OBVIOUS
  <2> HIDE DEF S
  <2> QED
    BY <2>1, <2>2, FS_Subset
<1>5. Cardinality(Ahead(S, a)) = Cardinality(Ahead(S, b))
  <2>1. \A y : {x \in RodPlaces(layer) : layer.slices[x[1]].sensitive /\ Before(x, y)}
                 = Ahead(S, y)
    BY DEF Ahead
  <2>2. RodNumber(c, p) = Cardinality(Ahead(S, a))
    BY <2>1, Zenon DEF RodNumber, RodModule
  <2>3. RodNumber(c, q) = Cardinality(Ahead(S, b))
    BY <1>1, <2>1, Zenon DEF RodNumber, RodModule
  <2> QED
    BY <2>2, <2>3, Zenon
<1>6. \A i \in 1..4 : a[i] = b[i]
  <2> HIDE DEF S, a, b
  <2>1. \A n : (\A x \in S : IsPlace(x, n)) => \A i \in 1..n : a[i] = b[i]
    BY <1>2, <1>4, <1>5, CountedBefore
  <2> QED
    BY <1>3, <2>1
<1>7. p[2] = q[2] /\ p[3] = q[3] /\ p[4] = q[4] /\ p[5] = q[5]
  BY <1>6
<1>8. p = <<p[1], p[2], p[3], p[4], p[5]>> /\ q = <<q[1], q[2], q[3], q[4], q[5]>>
  BY SensitiveRodPlacesAre, Zenon
<1> QED
  BY <1>1, <1>7, <1>8

LEMMA RodSensorsDiffer ==
  ASSUME RodsMade
  PROVE  CellIdsNameOneSensor /\ OtherSideIsMirrored
<1>1. PICK c \in RodFiles : built = "TkLayoutTrackerBarrel_o1_v01"
                            /\ detector = TkLayoutTrackerBarrel_o1_v01(c)
  BY DEF RodsMade
<1>2. detector.sensors = {RodSensor(c, p) : p \in SensitiveRodPlaces(c)}
  BY <1>1 DEF TkLayoutTrackerBarrel_o1_v01
<1>3. ASSUME NEW s \in detector.sensors, NEW t \in detector.sensors, s.ids = t.ids
      PROVE  s = t
  <2>1. PICK p \in SensitiveRodPlaces(c) : s = RodSensor(c, p)
    BY <1>2
  <2>2. PICK q \in SensitiveRodPlaces(c) : t = RodSensor(c, q)
    BY <1>2
  <2>3. p[1] - 1 = q[1] - 1 /\ RodNumber(c, p) = RodNumber(c, q)
    BY <1>3, <2>1, <2>2 DEF RodSensor
  <2> QED
    BY <2>1, <2>2, <2>3, RodNumbersDiffer
<1>4. CellIdsNameOneSensor
  BY <1>3, NameOneSensor
<1>5. \A s \in detector.sensors : DOMAIN s.ids \cap SideFields = {}
  BY <1>2 DEF RodSensor, SideFields
<1>6. OtherSideIsMirrored
  BY <1>1, <1>5, NoSides
<1> QED
  BY <1>4, <1>6

-----------------------------------------------------------------------------
(* Discs of tkLayout.                                                      *)

LEMMA RingPlacesAre ==
  ASSUME NEW c \in DiscFiles, NEW d \in DOMAIN c.discs, NEW p \in RingPlaces(c.discs[d])
  PROVE  /\ p = <<p[1], p[2], p[3]>> /\ IsPlace(p, 3)
         /\ p[1] \in 1..Len(c.discs[d].rings) /\ p[1] \in DOMAIN c.discs[d].rings
         /\ p[2] \in SensitiveOf(c.discs[d].rings[p[1]].slices)
         /\ p[3] \in 0..(c.discs[d].rings[p[1]].nmodules - 1)
         /\ p[2] \in 1..Len(c.discs[d].rings[p[1]].slices)
<1> DEFINE rings == c.discs[d].rings
<1>1. /\ IsList(rings)
      /\ \A i \in DOMAIN rings : IsStack(rings[i].slices) /\ rings[i].nmodules \in Nat
  BY DiscFilesAssumption DEF IsDiscFile
<1>2. Len(rings) \in Nat /\ DOMAIN rings = 1..Len(rings)
  BY <1>1, Lists
<1>3. PICK i \in DOMAIN rings :
        p \in {<<i, s, k>> : s \in SensitiveOf(rings[i].slices), k \in 0..(rings[i].nmodules - 1)}
  BY DEF RingPlaces
<1>4. PICK s \in SensitiveOf(rings[i].slices), k \in 0..(rings[i].nmodules - 1) :
        p = <<i, s, k>>
  BY <1>3
<1>5. SensitiveOf(rings[i].slices) \subseteq 1..Len(rings[i].slices) /\ Len(rings[i].slices) \in Nat
  BY <1>1, Stacks
<1>6. i \in Nat /\ s \in Nat /\ k \in Nat
  BY <1>1, <1>2, <1>5
<1>7. IsPlace(p, 3)
  BY <1>4, <1>6 DEF IsPlace
<1> QED
  BY <1>2, <1>4, <1>5, <1>7

LEMMA RingPlacesFinite ==
  ASSUME NEW c \in DiscFiles, NEW d \in DOMAIN c.discs
  PROVE  IsFiniteSet(RingPlaces(c.discs[d]))
<1> DEFINE rings == c.discs[d].rings
           t == [i \in 1..Len(rings) |-> rings[i].nmodules + Len(rings[i].slices)]
<1>1. /\ IsList(rings)
      /\ \A i \in DOMAIN rings : IsStack(rings[i].slices) /\ rings[i].nmodules \in Nat
  BY DiscFilesAssumption DEF IsDiscFile
<1>2. Len(rings) \in Nat /\ DOMAIN rings = 1..Len(rings)
  BY <1>1, Lists
<1>3. \A i \in DOMAIN rings : Len(rings[i].slices) \in Nat
  BY <1>1, Stacks
<1>4. Len(t) = Len(rings)
  BY <1>2, LenOfRow
<1>5. \A i \in 1..Len(t) : t[i] \in Nat
  <2> SUFFICES ASSUME NEW i \in 1..Len(rings) PROVE t[i] \in Nat
    BY <1>4, Zenon
  <2>1. rings[i].nmodules \in Nat /\ Len(rings[i].slices) \in Nat
    BY <1>1, <1>2, <1>3
  <2>2. t[i] = rings[i].nmodules + Len(rings[i].slices)
    OBVIOUS
  <2> HIDE DEF t, rings
  <2> QED
    BY <2>1, <2>2
<1>6. PICK m \in Nat : \A i \in 1..Len(t) : t[i] <= m
  <2> HIDE DEF t
  <2> QED
    BY <1>2, <1>4, <1>5, SizesAreBounded, Zenon
<1> DEFINE n == m + Len(rings)
           S == {<<p[1], p[2], p[3], 0>> : p \in RingPlaces(c.discs[d])}
           f == [p \in RingPlaces(c.discs[d]) |-> <<p[1], p[2], p[3], 0>>]
<1>7. n \in Nat
  BY <1>2, <1>6
<1>8. ASSUME NEW p \in RingPlaces(c.discs[d])
      PROVE  p = <<p[1], p[2], p[3]>> /\ {p[1], p[2], p[3], 0} \subseteq 0..n
  <2>1. /\ p = <<p[1], p[2], p[3]>> /\ p[1] \in 1..Len(rings)
        /\ p[2] \in 1..Len(rings[p[1]].slices) /\ p[3] \in 0..(rings[p[1]].nmodules - 1)
    BY RingPlacesAre
  <2>2. /\ Len(rings[p[1]].slices) \in Nat /\ rings[p[1]].nmodules \in Nat
        /\ rings[p[1]].nmodules + Len(rings[p[1]].slices) <= m
    BY <1>1, <1>2, <1>3, <1>4, <1>6, <2>1, Zenon
  <2> HIDE DEF rings
  <2> DEFINE R == Len(rings)
             L == Len(rings[p[1]].slices)
             N == rings[p[1]].nmodules
             x == p[1]
             y == p[2]
             z == p[3]
  <2>3. R \in Nat /\ m \in Nat /\ n = m + R
    BY <1>2, <1>6
  <2>4. L \in Nat /\ N \in Nat /\ N + L <= m /\ x \in 1..R /\ y \in 1..L /\ z \in 0..(N - 1)
    BY <2>1, <2>2
  <2>5. x \in 0..n /\ y \in 0..n /\ z \in 0..n /\ 0 \in 0..n
    <3> HIDE DEF R, L, N, x, y, z, n
    <3> QED
      BY <2>3, <2>4
  <2> QED
    BY <2>1, <2>5
<1>9. \A x \in S : x = <<x[1], x[2], x[3], x[4]>> /\ {x[1], x[2], x[3], x[4]} \subseteq 0..n
  <2> HIDE DEF n
  <2> QED
    BY <1>8
<1>10. IsFiniteSet(S)
  <2> HIDE DEF n, S
  <2> QED
    BY <1>7, <1>9, FourLoops
<1>11. f \in Injection(RingPlaces(c.discs[d]), S)
  <2>1. f \in [RingPlaces(c.discs[d]) -> S]
    OBVIOUS
  <2>2. ASSUME NEW p \in RingPlaces(c.discs[d]), NEW q \in RingPlaces(c.discs[d]), f[p] = f[q]
        PROVE  p = q
    <3>1. p[1] = q[1] /\ p[2] = q[2] /\ p[3] = q[3]
      BY <2>2
    <3> QED
      BY <1>8, <3>1
  <2> HIDE DEF f, S
  <2>3. IsInjective(f)
    BY <2>1, <2>2 DEF IsInjective
  <2> QED
    BY <2>1, <2>3 DEF Injection
<1> HIDE DEF f, S
<1> QED
  BY <1>10, <1>11, FS_Injection

RingCounts(c, n) == [e \in 1..n |-> Cardinality(RingPlaces(c.discs[e]))]

LEMMA VolumesAre ==
  ASSUME NEW c \in DiscFiles, NEW d \in DOMAIN c.discs
  PROVE  /\ DiscVolume(c, d) \in DOMAIN c.discs
         /\ Total(RingCounts(c, DiscVolume(c, d) - 1)) \in Nat
<1>1. IsList(c.discs) /\ c.discs[1].rings # <<>>
  BY DiscFilesAssumption DEF IsDiscFile
<1>2. Len(c.discs) \in Nat /\ DOMAIN c.discs = 1..Len(c.discs)
  BY <1>1, Lists
<1> DEFINE S == {e \in 1..d : c.discs[e].rings # <<>>}
<1>3. 1 \in S /\ S \subseteq Nat /\ \A e \in S : e <= d
  BY <1>1, <1>2
<1>4. \E e \in S : \A x \in S : x <= e
  <2> DEFINE D == {d - e : e \in S}
  <2>1. D \subseteq Nat /\ D # {}
    BY <1>2, <1>3
  <2>2. PICK k \in D : \A x \in D : k <= x
    <3> HIDE DEF D
    <3> QED
      BY <2>1, LeastNumber, Zenon
  <2>3. PICK e \in S : k = d - e
    OBVIOUS
  <2>4. ASSUME NEW x \in S
        PROVE  x <= e
    <3>1. d - e <= d - x
      BY <2>2, <2>3
    <3> HIDE DEF S
    <3> QED
      BY <1>2, <1>3, <3>1
  <2> QED
    BY <2>4
<1>5. DiscVolume(c, d) \in S
  BY <1>4 DEF DiscVolume, Max
<1>6. DiscVolume(c, d) \in DOMAIN c.discs
  BY <1>2, <1>5
<1> DEFINE v == DiscVolume(c, d)
           t == RingCounts(c, v - 1)
<1>7. Len(t) = v - 1 /\ v - 1 \in Nat
  BY <1>2, <1>6 DEF RingCounts
<1>8. \A i \in 1..Len(t) : t[i] \in Nat
  BY <1>2, <1>6, <1>7, RingPlacesFinite, FS_CardinalityType DEF RingCounts
<1>9. Total(t) \in Nat
  <2> HIDE DEF t
  <2> QED
    BY <1>7, <1>8, SumsGrow DEF Total
<1> QED
  BY <1>6, <1>9

LEMMA DiscPlacesAre ==
  ASSUME NEW c \in DiscFiles, NEW p \in DiscPlaces(c)
  PROVE  /\ p = <<p[1], p[2], p[3], p[4], p[5]>>
         /\ p[1] \in {0, 1} /\ p[2] \in DOMAIN c.discs /\ p[2] \in Nat
         /\ <<p[3], p[4], p[5]>> \in RingPlaces(c.discs[DiscVolume(c, p[2])])
<1>1. PICK d \in DOMAIN c.discs :
        p \in {<<side, d, x[1], x[2], x[3]>> :
                 side \in {0, 1}, x \in RingPlaces(c.discs[DiscVolume(c, d)])}
  BY DEF DiscPlaces
<1>2. PICK side \in {0, 1}, x \in RingPlaces(c.discs[DiscVolume(c, d)]) :
        p = <<side, d, x[1], x[2], x[3]>>
  BY <1>1
<1>3. x = <<x[1], x[2], x[3]>>
  BY RingPlacesAre, VolumesAre
<1>4. <<p[3], p[4], p[5]>> = x /\ p[1] = side /\ p[2] = d
  BY <1>2, <1>3
<1>5. d \in Nat
  BY DiscFilesAssumption, Lists DEF IsDiscFile
<1> QED
  BY <1>2, <1>4, <1>5

\* In one disc the number of a component is that of one place.
LEMMA ComponentsAreCounted ==
  ASSUME NEW c \in DiscFiles, NEW p \in DiscPlaces(c), NEW q \in DiscPlaces(c),
         p[2] = q[2], DiscNumber(c, p) = DiscNumber(c, q)
  PROVE  p[3] = q[3] /\ p[4] = q[4] /\ p[5] = q[5]
<1> DEFINE d == DiscVolume(c, p[2])
           S == RingPlaces(c.discs[d])
           a == <<p[3], p[4], p[5]>>
           b == <<q[3], q[4], q[5]>>
           before == Total(RingCounts(c, d - 1))
<1>1. d \in DOMAIN c.discs /\ before \in Nat
  BY DiscPlacesAre, VolumesAre, Zenon
<1>2. a \in S /\ b \in S
  BY DiscPlacesAre
<1>3. \A x \in S : IsPlace(x, 3)
  BY <1>1, RingPlacesAre
<1>4. IsFiniteSet(S)
  BY <1>1, RingPlacesFinite
<1>5. Cardinality(Ahead(S, a)) \in Nat /\ Cardinality(Ahead(S, b)) \in Nat
  <2>1. Ahead(S, a) \in SUBSET S /\ Ahead(S, b) \in SUBSET S
    BY DEF Ahead
  <2> HIDE DEF S, a, b
  <2> QED
    BY <1>4, <2>1, FS_Subset, FS_CardinalityType
<1>6. \A x : Component(c, d, x) = before + Cardinality(Ahead(S, x))
  BY Zenon DEF Component, Sum, RingCounts, Ahead
<1>7. DiscNumber(c, p) = before + Cardinality(Ahead(S, a))
      /\ DiscNumber(c, q) = before + Cardinality(Ahead(S, b))
  BY <1>6 DEF DiscNumber
<1>8. Cardinality(Ahead(S, a)) = Cardinality(Ahead(S, b))
  <2>1. \A m, x, y \in Nat : m + x = m + y => x = y
    OBVIOUS
  <2>2. before + Cardinality(Ahead(S, a)) = before + Cardinality(Ahead(S, b))
    BY <1>7, Zenon
  <2> HIDE DEF S, a, b, before
  <2> QED
    BY <1>1, <1>5, <2>1, <2>2
<1>9. \A i \in 1..3 : a[i] = b[i]
  <2> HIDE DEF S, a, b
  <2>1. \A n : (\A x \in S : IsPlace(x, n)) => \A i \in 1..n : a[i] = b[i]
    BY <1>2, <1>4, <1>8, CountedBefore
  <2> QED
    BY <1>3, <2>1
<1> QED
  BY <1>9

\* The number of a component tells which of its disc it is.
LEMMA DiscNumbersDiffer ==
  ASSUME NEW c \in DiscFiles, NEW p \in DiscPlaces(c), NEW q \in DiscPlaces(c),
         p[2] - 1 = q[2] - 1, DiscNumber(c, p) = DiscNumber(c, q)
  PROVE  p[2] = q[2] /\ p[3] = q[3] /\ p[4] = q[4] /\ p[5] = q[5]
<1>1. p[2] \in Nat /\ q[2] \in Nat
  BY DiscPlacesAre, Zenon
<1>2. p[2] = q[2]
  BY <1>1
<1> QED
  BY <1>2, ComponentsAreCounted

LEMMA DiscSensorsDiffer ==
  ASSUME DiscsMade
  PROVE  CellIdsNameOneSensor /\ OtherSideIsMirrored
<1>1. PICK c \in DiscFiles : built = "TkLayoutTrackerEndcap_o1_v01"
                             /\ detector = TkLayoutTrackerEndcap_o1_v01(c)
  BY DEF DiscsMade
<1>2. detector.sensors = {ComponentSensor(c, p) : p \in DiscPlaces(c)}
  BY <1>1 DEF TkLayoutTrackerEndcap_o1_v01
<1>4. ASSUME NEW s \in detector.sensors, NEW t \in detector.sensors, s.ids = t.ids
      PROVE  s = t
  <2>1. PICK p \in DiscPlaces(c) : s = ComponentSensor(c, p)
    BY <1>2
  <2>2. PICK q \in DiscPlaces(c) : t = ComponentSensor(c, q)
    BY <1>2
  <2>3. p[1] = q[1] /\ p[2] - 1 = q[2] - 1 /\ DiscNumber(c, p) = DiscNumber(c, q)
    BY <1>4, <2>1, <2>2 DEF ComponentSensor
  <2>4. p[2] = q[2] /\ p[3] = q[3] /\ p[4] = q[4] /\ p[5] = q[5]
    BY <2>3, DiscNumbersDiffer
  <2>5. p = <<p[1], p[2], p[3], p[4], p[5]>> /\ q = <<q[1], q[2], q[3], q[4], q[5]>>
    BY DiscPlacesAre, Zenon
  <2> QED
    BY <2>1, <2>2, <2>3, <2>4, <2>5
<1>5. ASSUME NEW s \in detector.sensors, NEW t \in detector.sensors,
             \A f \in DOMAIN s.ids : f \in SideFields <=> s.ids[f] # t.ids[f]
      PROVE  t.pos = -s.pos
  <2>1. PICK p \in DiscPlaces(c) : s = ComponentSensor(c, p)
    BY <1>2
  <2>2. PICK q \in DiscPlaces(c) : t = ComponentSensor(c, q)
    BY <1>2
  <2>3. {"posneg", "disc", "component"} \subseteq DOMAIN s.ids
    BY <2>1 DEF ComponentSensor
  <2>4. /\ s.ids.posneg # t.ids.posneg /\ s.ids.disc = t.ids.disc
        /\ s.ids.component = t.ids.component
    BY <1>5, <2>3 DEF SideFields
  <2>5. p[1] # q[1] /\ p[2] - 1 = q[2] - 1 /\ DiscNumber(c, p) = DiscNumber(c, q)
    BY <2>1, <2>2, <2>4 DEF ComponentSensor
  <2>6. p[2] = q[2] /\ p[3] = q[3] /\ p[4] = q[4] /\ p[5] = q[5]
    BY <2>5, DiscNumbersDiffer
  <2> DEFINE ring == c.discs[DiscVolume(c, p[2])].rings[p[3]]
             z == c.discs[p[2]].z + (IF p[5] % 2 = 0 THEN ring.zEven ELSE ring.zOdd)
             x == 2 * z + Stacked(ring.slices)[p[4]].middle
  <2>7. s.pos = (IF p[1] = 0 THEN 1 ELSE -1) * x /\ t.pos = (IF q[1] = 0 THEN 1 ELSE -1) * x
    BY <2>1, <2>2, <2>6 DEF ComponentSensor
  <2>8. p[1] \in {0, 1} /\ q[1] \in {0, 1}
    BY DiscPlacesAre, Zenon
  <2>9. x \in Int
    <3> DEFINE d == DiscVolume(c, p[2])
               a == <<p[3], p[4], p[5]>>
    <3>1. p[2] \in DOMAIN c.discs /\ a \in RingPlaces(c.discs[d]) /\ d \in DOMAIN c.discs
      BY DiscPlacesAre, VolumesAre
    <3>2. a[1] \in DOMAIN c.discs[d].rings
          /\ a[2] \in SensitiveOf(c.discs[d].rings[a[1]].slices)
      <4> HIDE DEF a, d
      <4> QED
        BY <3>1, RingPlacesAre
    <3>3. p[3] \in DOMAIN c.discs[d].rings /\ p[4] \in SensitiveOf(ring.slices)
      BY <3>2
    <3>4. c.discs[p[2]].z \in Int /\ IsStack(ring.slices) /\ {ring.zEven, ring.zOdd} \subseteq Int
      BY <3>1, <3>3, DiscFilesAssumption DEF IsDiscFile
    <3>5. Stacked(ring.slices)[p[4]].middle \in Int
      <4> DEFINE t1 == ring.slices
      <4>1. IsStack(t1) /\ p[4] \in DOMAIN t1
        BY <3>3, <3>4 DEF SensitiveOf
      <4> HIDE DEF t1
      <4>2. Stacked(t1)[p[4]].middle \in Int
        BY <4>1, StackedIs
      <4> QED
        BY <4>2 DEF t1
    <3>6. z \in Int
      <4>1. ring.zEven \in Int /\ ring.zOdd \in Int
        BY <3>4
      <4> DEFINE e == IF p[5] % 2 = 0 THEN ring.zEven ELSE ring.zOdd
                 b == c.discs[p[2]].z
      <4>2. e \in Int
        BY <4>1
      <4>3. b \in Int
        BY <3>4
      <4> HIDE DEF e, b
      <4>4. b + e \in Int
        BY <4>2, <4>3
      <4> QED
        BY <4>4 DEF b, e
    <3> DEFINE w == Stacked(ring.slices)[p[4]].middle
    <3>7. w \in Int /\ x = 2 * z + w
      BY <3>5
    <3> HIDE DEF z, w, x
    <3> QED
      BY <3>6, <3>7
  <2> HIDE DEF x
  <2> QED
    BY <2>5, <2>7, <2>8, <2>9
<1>6. CellIdsNameOneSensor
  BY <1>4, NameOneSensor
<1>7. OtherSideIsMirrored
  BY <1>1, <1>5, SideIsMirrored
<1> QED
  BY <1>6, <1>7

-----------------------------------------------------------------------------
(* Places of loops: that there are finitely many.                          *)

\* A place is the sequence of the choices of n loops.
IsChoice(p, n) == p = [i \in 1..n |-> p[i]] /\ Len(p) = n

LEMMA TwoChoices ==
  ASSUME NEW a, NEW b
  PROVE  IsChoice(<<a, b>>, 2)
BY DEF IsChoice

LEMMA ThreeChoices ==
  ASSUME NEW a, NEW b, NEW c
  PROVE  IsChoice(<<a, b, c>>, 3)
BY DEF IsChoice

LEMMA FourChoices ==
  ASSUME NEW a, NEW b, NEW c, NEW d
  PROVE  IsChoice(<<a, b, c, d>>, 4)
BY DEF IsChoice

LEMMA FiveChoices ==
  ASSUME NEW a, NEW b, NEW c, NEW d, NEW e
  PROVE  IsChoice(<<a, b, c, d, e>>, 5)
BY DEF IsChoice

\* Of the places of n loops over finitely many things there are finitely many.
LEMMA FinitelyManyPlaces ==
  ASSUME NEW n \in Nat, NEW H, IsFiniteSet(H), NEW S,
         \A p \in S : IsChoice(p, n) /\ \A i \in 1..n : p[i] \in H
  PROVE  IsFiniteSet(S)
<1> DEFINE T == SUBSET ((1..n) \X H)
           graph(p) == {<<i, p[i]>> : i \in 1..n}
           f == [p \in S |-> graph(p)]
<1>1. IsFiniteSet(T)
  <2> DEFINE I == 1..n
  <2>1. IsFiniteSet(I)
    <3>1. 1 \in Int /\ n \in Int
      OBVIOUS
    <3> QED
      BY <3>1, FS_Interval, Zenon
  <2> HIDE DEF I
  <2>2. IsFiniteSet(I \X H)
    BY <2>1, FS_Product
  <2>3. IsFiniteSet(SUBSET (I \X H))
    BY <2>2, FS_SUBSET
  <2> QED
    BY <2>3 DEF I
<1>2. f \in [S -> T]
  <2>1. \A p \in S : graph(p) \in T
    OBVIOUS
  <2> QED
    BY <2>1
<1>3. ASSUME NEW p \in S, NEW q \in S, f[p] = f[q]
      PROVE  p = q
  <2>1. graph(p) = graph(q)
    BY <1>3
  <2>2. ASSUME NEW i \in 1..n
        PROVE  p[i] = q[i]
    <3>1. <<i, p[i]>> \in graph(q)
      BY <2>1, Zenon
    <3>2. PICK j \in 1..n : <<i, p[i]>> = <<j, q[j]>>
      BY <3>1
    <3> QED
      BY <3>2
  <2>3. p = [i \in 1..n |-> p[i]] /\ q = [i \in 1..n |-> q[i]]
    BY DEF IsChoice
  <2> QED
    BY <2>2, <2>3
<1> HIDE DEF f, T
<1>4. IsInjective(f)
  BY <1>2, <1>3 DEF IsInjective
<1>5. f \in Injection(S, T)
  BY <1>2, <1>4 DEF Injection
<1> QED
  BY <1>1, <1>5, FS_Injection

\* Finitely many sets, none of them infinite, together.
LEMMA FinitelyManyOfEach ==
  ASSUME NEW D, IsFiniteSet(D), NEW F, \A d \in D : IsFiniteSet(F[d])
  PROVE  IsFiniteSet(UNION {F[d] : d \in D})
<1> DEFINE S == {F[d] : d \in D}
           f == [d \in D |-> F[d]]
<1>1. f \in Surjection(D, S)
  <2>1. f \in [D -> S]
    OBVIOUS
  <2>2. \A t \in S : \E d \in DOMAIN f : f[d] = t
    OBVIOUS
  <2> HIDE DEF f, S
  <2> QED
    BY <2>1, <2>2 DEF Surjection
<1>2. \A T \in S : IsFiniteSet(T)
  OBVIOUS
<1> HIDE DEF f, S
<1>3. IsFiniteSet(S)
  BY <1>1, FS_Surjection
<1>4. IsFiniteSet(UNION S)
  BY <1>2, <1>3, FS_UNION
<1> QED
  BY <1>4 DEF S

LEMMA CountedUpTo ==
  ASSUME NEW n \in Int
  PROVE  IsFiniteSet(1..n) /\ IsFiniteSet(0..(n - 1))
<1>1. 0 \in Int /\ 1 \in Int /\ n - 1 \in Int
  OBVIOUS
<1> QED
  BY <1>1, FS_Interval, Zenon

LEMMA FinitelyTogether ==
  ASSUME NEW A, NEW B, NEW C, NEW D, NEW E,
         IsFiniteSet(A), IsFiniteSet(B), IsFiniteSet(C), IsFiniteSet(D), IsFiniteSet(E)
  PROVE  IsFiniteSet(A \cup B \cup C \cup D \cup E)
<1>1. IsFiniteSet(A \cup B)
  BY FS_Union, Zenon
<1>2. IsFiniteSet((A \cup B) \cup C)
  BY <1>1, FS_Union, Zenon
<1>3. IsFiniteSet(((A \cup B) \cup C) \cup D)
  BY <1>2, FS_Union, Zenon
<1>4. IsFiniteSet((((A \cup B) \cup C) \cup D) \cup E)
  BY <1>3, FS_Union, Zenon
<1> QED
  BY <1>4

\* The places of three loops.
LEMMA ThreeOfFinite ==
  ASSUME NEW A, NEW B, NEW C, IsFiniteSet(A), IsFiniteSet(B), IsFiniteSet(C), NEW S,
         \A p \in S : IsChoice(p, 3) /\ p[1] \in A /\ p[2] \in B /\ p[3] \in C
  PROVE  IsFiniteSet(S)
<1> DEFINE H == A \cup B \cup C \cup C \cup C
<1>1. IsFiniteSet(H)
  BY FinitelyTogether
<1>2. \A p \in S : IsChoice(p, 3) /\ \A i \in 1..3 : p[i] \in H
  <2> SUFFICES ASSUME NEW p \in S PROVE \A i \in 1..3 : p[i] \in H
    OBVIOUS
  <2>1. p[1] \in H /\ p[2] \in H /\ p[3] \in H
    OBVIOUS
  <2> QED
    BY <2>1
<1> HIDE DEF H
<1> QED
  BY <1>1, <1>2, FinitelyManyPlaces, Zenon

\* The places of four loops.
LEMMA FourOfFinite ==
  ASSUME NEW A, NEW B, NEW C, NEW D,
         IsFiniteSet(A), IsFiniteSet(B), IsFiniteSet(C), IsFiniteSet(D), NEW S,
         \A p \in S : IsChoice(p, 4) /\ p[1] \in A /\ p[2] \in B /\ p[3] \in C /\ p[4] \in D
  PROVE  IsFiniteSet(S)
<1> DEFINE H == A \cup B \cup C \cup D \cup D
<1>1. IsFiniteSet(H)
  BY FinitelyTogether
<1>2. \A p \in S : IsChoice(p, 4) /\ \A i \in 1..4 : p[i] \in H
  <2> SUFFICES ASSUME NEW p \in S PROVE \A i \in 1..4 : p[i] \in H
    OBVIOUS
  <2>1. p[1] \in H /\ p[2] \in H /\ p[3] \in H /\ p[4] \in H
    OBVIOUS
  <2> QED
    BY <2>1
<1> HIDE DEF H
<1> QED
  BY <1>1, <1>2, FinitelyManyPlaces, Zenon

\* The places of five loops.
LEMMA FiveOfFinite ==
  ASSUME NEW A, NEW B, NEW C, NEW D, NEW E,
         IsFiniteSet(A), IsFiniteSet(B), IsFiniteSet(C), IsFiniteSet(D), IsFiniteSet(E), NEW S,
         \A p \in S : /\ IsChoice(p, 5) /\ p[1] \in A /\ p[2] \in B /\ p[3] \in C
                      /\ p[4] \in D /\ p[5] \in E
  PROVE  IsFiniteSet(S)
<1> DEFINE H == A \cup B \cup C \cup D \cup E
<1>1. IsFiniteSet(H)
  BY FinitelyTogether
<1>2. \A p \in S : IsChoice(p, 5) /\ \A i \in 1..5 : p[i] \in H
  <2> SUFFICES ASSUME NEW p \in S PROVE \A i \in 1..5 : p[i] \in H
    OBVIOUS
  <2>1. p[1] \in H /\ p[2] \in H /\ p[3] \in H /\ p[4] \in H /\ p[5] \in H
    OBVIOUS
  <2> QED
    BY <2>1
<1> HIDE DEF H
<1> QED
  BY <1>1, <1>2, FinitelyManyPlaces, Zenon

LEMMA ListIsFinite ==
  ASSUME NEW s, IsList(s)
  PROVE  IsFiniteSet(DOMAIN s)
BY Lists, CountedUpTo

-----------------------------------------------------------------------------
(* Vertex detectors in detail.                                             *)

LEMMA Remainders ==
  ASSUME NEW a \in Int, NEW b \in Nat, b > 0
  PROVE  a % b \in Nat /\ a \div b \in Int
<1>1. b \in Int /\ 0 < b
  OBVIOUS
<1>2. a % b \in 0..(b - 1)
  BY <1>1
<1> QED
  BY <1>1, <1>2

\* How many places come before one says which it is, and is less than there are.
LEMMA RankTells ==
  ASSUME NEW n, NEW S, IsFiniteSet(S), \A p \in S : IsPlace(p, n), NEW p \in S
  PROVE  /\ Cardinality(Ahead(S, p)) \in Nat /\ Cardinality(S) \in Nat
         /\ Cardinality(Ahead(S, p)) < Cardinality(S)
         /\ \A q \in S : Cardinality(Ahead(S, p)) = Cardinality(Ahead(S, q))
                         => \A i \in 1..n : p[i] = q[i]
<1>1. p \notin Ahead(S, p) /\ Ahead(S, p) \subseteq S
  BY BeforeIsAnOrder DEF Ahead
<1> QED
  BY <1>1, FewerIn, CountedBefore, Zenon

LEMMA SensorPlacesAre ==
  ASSUME NEW kind, IsKind(kind), NEW q \in SensorPlaces(kind)
  PROVE  /\ q = <<q[1], q[2], q[3]>> /\ IsPlace(q, 3) /\ IsChoice(q, 3)
         /\ q[1] \in 0..(kind.nx - 1)
         /\ q[2] \in SensitiveOf(kind.components)
         /\ q[3] \in 0..(kind.components[q[2]].nsegments - 1)
<1>1. PICK i \in SensitiveOf(kind.components) :
        q \in {<<x, i, g>> : x \in 0..(kind.nx - 1),
                             g \in 0..(kind.components[i].nsegments - 1)}
  BY DEF SensorPlaces
<1>2. PICK x \in 0..(kind.nx - 1), g \in 0..(kind.components[i].nsegments - 1) :
        q = <<x, i, g>>
  BY <1>1
<1>3. i \in Nat /\ i \in DOMAIN kind.components
  BY Stacks DEF IsKind
<1>4. kind.nx \in Nat /\ kind.components[i].nsegments \in Nat
  BY <1>3 DEF IsKind
<1>5. x \in Nat /\ g \in Nat
  BY <1>4
<1>6. IsPlace(q, 3)
  BY <1>2, <1>3, <1>5 DEF IsPlace
<1>7. IsChoice(q, 3)
  BY <1>2, ThreeChoices
<1> QED
  BY <1>2, <1>6, <1>7

LEMMA SensorPlacesFinite ==
  ASSUME NEW kind, IsKind(kind)
  PROVE  IsFiniteSet(SensorPlaces(kind))
<1> DEFINE D == SensitiveOf(kind.components)
           F == [i \in D |->
                  {<<x, i, g>> : x \in 0..(kind.nx - 1),
                                 g \in 0..(kind.components[i].nsegments - 1)}]
<1>1. IsFiniteSet(D) /\ D \subseteq DOMAIN kind.components
  BY Stacks DEF IsKind, SensitiveOf
<1>2. ASSUME NEW i \in D
      PROVE  IsFiniteSet(F[i])
  <2> DEFINE A == 0..(kind.nx - 1)
             C == 0..(kind.components[i].nsegments - 1)
             S == {<<x, i, g>> : x \in A, g \in C}
  <2>1. kind.nx \in Int /\ kind.components[i].nsegments \in Int
    BY <1>1 DEF IsKind
  <2>2. IsFiniteSet(A) /\ IsFiniteSet(C)
    BY <2>1, CountedUpTo, Zenon
  <2>3. \A p \in S : IsChoice(p, 3) /\ p[1] \in A /\ p[2] \in D /\ p[3] \in C
    <3> HIDE DEF A, C, D
    <3> QED
      BY <1>2, ThreeChoices
  <2>4. IsFiniteSet(S)
    <3> HIDE DEF A, C, D, S
    <3> QED
      BY <1>1, <2>2, <2>3, ThreeOfFinite, Zenon
  <2> QED
    BY <2>4
<1>3. SensorPlaces(kind) = UNION {F[i] : i \in D}
  <2>1. \A i \in D : F[i] = {<<x, i, g>> : x \in 0..(kind.nx - 1),
                                           g \in 0..(kind.components[i].nsegments - 1)}
    OBVIOUS
  <2> HIDE DEF F
  <2> QED
    BY <2>1 DEF SensorPlaces
<1> HIDE DEF D, F
<1>4. IsFiniteSet(UNION {F[i] : i \in D})
  BY <1>1, <1>2, FinitelyManyOfEach
<1> QED
  BY <1>3, <1>4

\* The number of a sensor says which of its module it is.
LEMMA SensorsCounted ==
  ASSUME NEW kind, IsKind(kind), NEW q \in SensorPlaces(kind)
  PROVE  /\ SensorsBefore(kind, q) \in Nat
         /\ SensorsBefore(kind, q) < Cardinality(SensorPlaces(kind))
         /\ Cardinality(SensorPlaces(kind)) \in Nat
         /\ \A r \in SensorPlaces(kind) : SensorsBefore(kind, q) = SensorsBefore(kind, r) => q = r
<1> DEFINE S == SensorPlaces(kind)
<1>1. \A r : SensorsBefore(kind, r) = Cardinality(Ahead(S, r))
  BY DEF SensorsBefore, Ahead
<1>2. IsFiniteSet(S) /\ \A r \in S : IsPlace(r, 3) /\ r = <<r[1], r[2], r[3]>>
  BY SensorPlacesAre, SensorPlacesFinite, Zenon
<1> HIDE DEF S
<1>3. /\ Cardinality(Ahead(S, q)) \in Nat /\ Cardinality(S) \in Nat
      /\ Cardinality(Ahead(S, q)) < Cardinality(S)
      /\ \A r \in S : Cardinality(Ahead(S, q)) = Cardinality(Ahead(S, r))
                      => \A i \in 1..3 : q[i] = r[i]
  <2>1. q \in S /\ \A r \in S : IsPlace(r, 3)
    BY <1>2 DEF S
  <2>2. \A n : (\A r \in S : IsPlace(r, n)) =>
          /\ Cardinality(Ahead(S, q)) \in Nat /\ Cardinality(S) \in Nat
          /\ Cardinality(Ahead(S, q)) < Cardinality(S)
          /\ \A r \in S : Cardinality(Ahead(S, q)) = Cardinality(Ahead(S, r))
                          => \A i \in 1..n : q[i] = r[i]
    BY <1>2, <2>1, RankTells
  <2> QED
    BY <2>1, <2>2, Zenon
<1>4. ASSUME NEW r \in S, \A i \in 1..3 : q[i] = r[i]
      PROVE  q = r
  <2>1. q[1] = r[1] /\ q[2] = r[2] /\ q[3] = r[3]
    BY <1>4
  <2>2. q \in S
    BY DEF S
  <2> QED
    BY <1>2, <2>1, <2>2
<1>5. \A r \in S : SensorsBefore(kind, q) = SensorsBefore(kind, r) => q = r
  BY <1>1, <1>3, <1>4
<1> QED
  BY <1>1, <1>3, <1>5 DEF S

\* The ids in a group say which module of it a sensor is in, and which of its it is.
LEMMA GroupIdsTell ==
  ASSUME NEW a, NEW b, IsKind(a), IsKind(b), a.grouping = b.grouping,
         a.grouping > 1 => /\ SensitivePerModule(a) = SensitivePerModule(b)
                           /\ SensitivePerModule(a) = Cardinality(SensorPlaces(a))
                           /\ SensitivePerModule(b) = Cardinality(SensorPlaces(b)),
         NEW q \in SensorPlaces(a), NEW r \in SensorPlaces(b), NEW m \in Nat, NEW n \in Nat,
         NEW j, NEW k, j = SensorsBefore(a, q), k = SensorsBefore(b, r),
         GroupIds(a, m, j).module = GroupIds(b, n, k).module,
         GroupIds(a, m, j).sensor = GroupIds(b, n, k).sensor
  PROVE  m = n /\ j = k
<1> DEFINE g == a.grouping
           e == SensitivePerModule(a)
           f == SensitivePerModule(b)
<1>1. m \div g = n \div g /\ (m % g) * e + j = (n % g) * f + k
  BY DEF GroupIds
<1>2. j \in Nat /\ k \in Nat
  BY SensorsCounted
<1>3. e \in Nat /\ f \in Nat
  BY Stacks, FS_CardinalityType DEF IsKind, SensitivePerModule
<1>4. g \in Nat /\ g > 0
  BY DEF IsKind
<1>5. CASE g > 1
  <2>1. e = f /\ j < e /\ k < e
    BY <1>5, SensorsCounted
  <2> HIDE DEF g, e, f
  <2>2. m % g \in Nat /\ n % g \in Nat
    BY <1>4, Remainders
  <2>3. m % g = n % g /\ j = k
    <3> DEFINE x == m % g
               y == n % g
    <3>1. x * e + j = y * e + k
      BY <1>1, <2>1
    <3>2. j \in 0..(e - 1) /\ k \in 0..(e - 1)
      BY <1>2, <1>3, <2>1
    <3>3. x \in Nat /\ y \in Nat
      BY <2>2
    <3> HIDE DEF x, y
    <3>4. x = y /\ j = k
      BY ONLY <1>3, <3>1, <3>2, <3>3, InRowsOf
    <3> QED
      BY <3>4 DEF x, y
  <2>4. m = g * (m \div g) + (m % g) /\ n = g * (n \div g) + (n % g)
    BY <1>4
  <2> QED
    BY <1>1, <2>3, <2>4
<1>6. CASE g = 1
  <2>1. m \div 1 = m /\ n \div 1 = n /\ m % 1 = 0 /\ n % 1 = 0
    OBVIOUS
  <2>2. 0 * e = 0 /\ 0 * f = 0
    BY <1>3
  <2> HIDE DEF g, e, f
  <2>3. 0 + j = 0 + k
    BY <1>1, <1>6, <2>1, <2>2
  <2> QED
    BY <1>1, <1>2, <1>6, <2>1, <2>3
<1> QED
  BY <1>4, <1>5, <1>6

LEMMA KindsOfStaves ==
  ASSUME NEW c \in DetailedBarrelFiles, NEW l \in DOMAIN c.layers
  PROVE  /\ IsList(StaveKinds(c, l)) /\ DOMAIN StaveKinds(c, l) \subseteq Nat
         /\ \A k \in DOMAIN StaveKinds(c, l) : IsKind(StaveKinds(c, l)[k])
         /\ c.layers[l].nladders \in Nat /\ c.layers[l].nmodules \in Nat
         /\ Len(c.layers) \in Nat /\ DOMAIN c.layers = 1..Len(c.layers)
<1>1. /\ c.layers[l].stave \in DOMAIN c.staves /\ IsList(c.layers)
      /\ c.layers[l].nladders \in Nat /\ c.layers[l].nmodules \in Nat
  BY DetailedBarrelFilesAssumption DEF IsDetailedBarrelFile
<1> DEFINE s == c.staves[c.layers[l].stave].sensors
<1>2. IsList(s) /\ \A k \in DOMAIN s : IsKind(s[k])
  BY <1>1, DetailedBarrelFilesAssumption DEF IsDetailedBarrelFile
<1>3. StaveKinds(c, l) = s
  BY DEF StaveKinds
<1> HIDE DEF s
<1> QED
  BY <1>1, <1>2, <1>3, Lists

LEMMA ModulePlacesAre ==
  ASSUME NEW c \in DetailedBarrelFiles, NEW l \in DOMAIN c.layers, NEW w \in ModulePlaces(c, l)
  PROVE  /\ w = <<w[1], w[2], w[3]>> /\ IsPlace(w, 3) /\ IsChoice(w, 3)
         /\ w[1] \in 0..(c.layers[l].nladders - 1)
         /\ w[2] \in DOMAIN StaveKinds(c, l)
         /\ w[3] \in 0..(c.layers[l].nmodules - 1)
<1>1. PICK s \in 0..(c.layers[l].nladders - 1), k \in DOMAIN StaveKinds(c, l),
           m \in 0..(c.layers[l].nmodules - 1) : w = <<s, k, m>>
  BY DEF ModulePlaces
<1>2. s \in Nat /\ k \in Nat /\ m \in Nat
  BY KindsOfStaves
<1>3. IsPlace(w, 3)
  BY <1>1, <1>2 DEF IsPlace
<1>4. IsChoice(w, 3)
  BY <1>1, ThreeChoices
<1> QED
  BY <1>1, <1>3, <1>4

LEMMA ModulePlacesFinite ==
  ASSUME NEW c \in DetailedBarrelFiles, NEW l \in DOMAIN c.layers
  PROVE  IsFiniteSet(ModulePlaces(c, l)) /\ Cardinality(ModulePlaces(c, l)) \in Nat
<1> DEFINE A == 0..(c.layers[l].nladders - 1)
           B == DOMAIN StaveKinds(c, l)
           C == 0..(c.layers[l].nmodules - 1)
           S == ModulePlaces(c, l)
<1>1. IsFiniteSet(A) /\ IsFiniteSet(C)
  <2>1. c.layers[l].nladders \in Int /\ c.layers[l].nmodules \in Int
    BY KindsOfStaves
  <2> QED
    BY <2>1, CountedUpTo, Zenon
<1>2. IsFiniteSet(B)
  BY KindsOfStaves, ListIsFinite, Zenon
<1>3. \A p \in S : IsChoice(p, 3) /\ p[1] \in A /\ p[2] \in B /\ p[3] \in C
  BY ModulePlacesAre
<1> HIDE DEF A, B, C, S
<1>4. IsFiniteSet(S)
  BY <1>1, <1>2, <1>3, ThreeOfFinite, Zenon
<1> QED
  BY <1>4, FS_CardinalityType DEF S

LEMMA LadderSensorPlacesAre ==
  ASSUME NEW c \in DetailedBarrelFiles, NEW p \in LadderSensorPlaces(c)
  PROVE  /\ p = <<p[1], p[2], p[3]>> /\ p[1] \in DOMAIN c.layers
         /\ p[2] \in ModulePlaces(c, p[1]) /\ p[3] \in SensorPlaces(KindAt(c, p))
         /\ IsKind(KindAt(c, p)) /\ p[2][2] \in DOMAIN StaveKinds(c, p[1])
<1>1. PICK l \in DOMAIN c.layers :
        p \in UNION {{<<l, w, q>> : q \in SensorPlaces(StaveKinds(c, l)[w[2]])} :
                     w \in ModulePlaces(c, l)}
  BY DEF LadderSensorPlaces
<1>2. PICK w \in ModulePlaces(c, l) :
        p \in {<<l, w, q>> : q \in SensorPlaces(StaveKinds(c, l)[w[2]])}
  BY <1>1
<1>3. PICK q \in SensorPlaces(StaveKinds(c, l)[w[2]]) : p = <<l, w, q>>
  BY <1>2
<1>4. KindAt(c, p) = StaveKinds(c, l)[w[2]]
  BY <1>3 DEF KindAt
<1>5. IsKind(StaveKinds(c, l)[w[2]]) /\ w[2] \in DOMAIN StaveKinds(c, l)
  BY KindsOfStaves, ModulePlacesAre
<1> QED
  BY <1>3, <1>4, <1>5

\* What iModuleTot_map has come to: each layer with this id has its modules after
\* those of the ones before.
LEMMA AddedUpIs ==
  ASSUME NEW c \in DetailedBarrelFiles, NEW id
  PROVE  /\ AddedUp(c, id)[0] = 0
         /\ \A l \in 1..Len(c.layers) :
              AddedUp(c, id)[l] =
                IF c.layers[l].id = id
                THEN AddedUp(c, id)[l - 1]
                     + (AddedUp(c, id)[l - 1] + Cardinality(ModulePlaces(c, l)))
                ELSE AddedUp(c, id)[l - 1]
<1> DEFINE L == Len(c.layers)
           Next1(l, x) == IF c.layers[l].id = id
                          THEN x + (x + Cardinality(ModulePlaces(c, l))) ELSE x
           Is(h, n) == h = [i \in 0..n |-> IF i = 0 THEN 0
                              ELSE IF c.layers[i].id = id
                              THEN h[i - 1] + (h[i - 1] + Cardinality(ModulePlaces(c, i)))
                              ELSE h[i - 1]]
           Bad == {k \in Nat : ~\E h : Is(h, k)}
<1>0. L \in Nat
  BY DetailedBarrelFilesAssumption, Lists DEF IsDetailedBarrelFile
<1>1. Bad = {}
  <2> SUFFICES ASSUME Bad # {} PROVE FALSE
    BY Zenon
  <2>1. PICK m \in Bad : \A k \in Bad : m <= k
    BY LeastNumber, Zenon
  <2>2. m # 0
    <3> SUFFICES ASSUME m = 0 PROVE FALSE
      OBVIOUS
    <3> DEFINE h == [i \in 0..0 |-> 0]
    <3>1. Is(h, 0)
      OBVIOUS
    <3> QED
      BY <3>1, Zenon
  <2>3. PICK h : Is(h, m - 1)
    <3>1. m - 1 \in Nat /\ ~(m <= m - 1)
      BY <2>2
    <3>2. m - 1 \notin Bad
      BY <2>1, <3>1
    <3> QED
      BY <3>1, <3>2
  <2> DEFINE g == [i \in 0..m |-> IF i = m THEN Next1(m, h[m - 1]) ELSE h[i]]
  <2>4. \A i \in 0..m : g[i] = IF i = 0 THEN 0
                               ELSE IF c.layers[i].id = id
                               THEN g[i - 1] + (g[i - 1] + Cardinality(ModulePlaces(c, i)))
                               ELSE g[i - 1]
    BY <2>2, <2>3
  <2>5. Is(g, m)
    <3>1. g = [i \in 0..m |-> g[i]]
      OBVIOUS
    <3> HIDE DEF g
    <3> QED
      BY <2>4, <3>1, Zenon
  <2> QED
    BY <2>5, Zenon
<1>2. \E h : Is(h, L)
  <2> HIDE DEF Is, L
  <2> QED
    BY <1>0, <1>1
<1>3. AddedUp(c, id) = CHOOSE h : Is(h, L)
  BY DEF AddedUp
<1>4. Is(AddedUp(c, id), L)
  <2> HIDE DEF Is, L
  <2> QED
    BY <1>2, <1>3, Zenon
<1> QED
  BY <1>0, <1>4

LEMMA AddedUpGrows ==
  ASSUME NEW c \in DetailedBarrelFiles, NEW id
  PROVE  /\ \A l \in 0..Len(c.layers) : AddedUp(c, id)[l] \in Nat
         /\ \A l, m \in 1..Len(c.layers) :
              c.layers[l].id = id /\ l < m =>
                AddedUp(c, id)[l - 1] + Cardinality(ModulePlaces(c, l)) <= AddedUp(c, id)[m - 1]
<1> DEFINE L == Len(c.layers)
           a == AddedUp(c, id)
           n(l) == Cardinality(ModulePlaces(c, l))
<1>1. L \in Nat /\ DOMAIN c.layers = 1..L
  BY DetailedBarrelFilesAssumption, Lists DEF IsDetailedBarrelFile
<1>2. \A l \in 1..L : n(l) \in Nat
  BY <1>1, ModulePlacesFinite
<1>3. /\ a[0] = 0
      /\ \A l \in 1..L : a[l] = IF c.layers[l].id = id THEN a[l - 1] + (a[l - 1] + n(l))
                                ELSE a[l - 1]
  BY AddedUpIs
<1> HIDE DEF a, n, L
<1>4. \A l \in 0..L : a[l] \in Nat
  <2> DEFINE S == {l \in 0..L : a[l] \in Nat}
  <2>1. 0 \in S
    BY <1>1, <1>3
  <2>2. \A l \in 1..L : l - 1 \in S => l \in S
    BY <1>1, <1>2, <1>3
  <2>3. \A l \in 0..L : l \in S
    <3> HIDE DEF S
    <3> QED
      BY <1>1, <2>1, <2>2, UpTo, Zenon
  <2> QED
    BY <2>3
<1>5. ASSUME NEW l \in 1..L
      PROVE  a[l - 1] <= a[l] /\ (c.layers[l].id = id => a[l - 1] + n(l) <= a[l])
  <2>1. a[l - 1] \in Nat /\ n(l) \in Nat
    BY <1>1, <1>2, <1>4
  <2>2. a[l] = IF c.layers[l].id = id THEN a[l - 1] + (a[l - 1] + n(l)) ELSE a[l - 1]
    BY <1>3
  <2> QED
    BY <2>1, <2>2
<1>6. ASSUME NEW l \in 0..L, NEW m \in 0..L, l <= m
      PROVE  a[l] <= a[m]
  <2> DEFINE S == {i \in 0..L : l <= i => a[l] <= a[i]}
  <2>1. 0 \in S
    BY <1>1, <1>4
  <2>2. ASSUME NEW i \in 1..L, i - 1 \in S
        PROVE  i \in S
    <3>1. a[i - 1] <= a[i] /\ a[i - 1] \in Nat /\ a[i] \in Nat /\ a[l] \in Nat
      BY <1>1, <1>4, <1>5
    <3>2. CASE l <= i - 1
      <4>1. a[l] <= a[i - 1]
        BY <2>2, <3>2
      <4> QED
        BY <3>1, <4>1
    <3>3. CASE l = i
      BY <3>1, <3>3
    <3>4. l <= i => l <= i - 1 \/ l = i
      BY <1>1
    <3> QED
      BY <3>2, <3>3, <3>4
  <2>3. \A i \in 0..L : i \in S
    <3> HIDE DEF S
    <3> QED
      BY <1>1, <2>1, <2>2, UpTo, Zenon
  <2> QED
    BY <1>6, <2>3
<1>7. ASSUME NEW l \in 1..L, NEW m \in 1..L, c.layers[l].id = id, l < m
      PROVE  a[l - 1] + n(l) <= a[m - 1]
  <2>1. a[l - 1] + n(l) <= a[l]
    BY <1>5, <1>7
  <2>2. l \in 0..L /\ m - 1 \in 0..L /\ l <= m - 1
    BY <1>1, <1>7
  <2>3. a[l] <= a[m - 1]
    BY <1>6, <2>2
  <2>4. a[l - 1] \in Nat /\ a[l] \in Nat /\ a[m - 1] \in Nat /\ n(l) \in Nat
    BY <1>1, <1>2, <1>4, <2>2
  <2> QED
    BY <2>1, <2>3, <2>4
<1> QED
  BY <1>4, <1>7 DEF a, n, L

LEMMA ModulesRanked ==
  ASSUME NEW c \in DetailedBarrelFiles, NEW l \in DOMAIN c.layers, NEW w \in ModulePlaces(c, l)
  PROVE  /\ Cardinality(Ahead(ModulePlaces(c, l), w)) \in Nat
         /\ Cardinality(Ahead(ModulePlaces(c, l), w)) < Cardinality(ModulePlaces(c, l))
         /\ \A x \in ModulePlaces(c, l) :
              Cardinality(Ahead(ModulePlaces(c, l), w)) = Cardinality(Ahead(ModulePlaces(c, l), x))
              => w = x
<1> DEFINE S == ModulePlaces(c, l)
<1>1. IsFiniteSet(S) /\ \A x \in S : IsPlace(x, 3) /\ x = <<x[1], x[2], x[3]>>
  BY ModulePlacesFinite, ModulePlacesAre, Zenon
<1>2. w \in S
  OBVIOUS
<1> HIDE DEF S
<1>3. /\ Cardinality(Ahead(S, w)) \in Nat
      /\ Cardinality(Ahead(S, w)) < Cardinality(S)
      /\ \A x \in S : Cardinality(Ahead(S, w)) = Cardinality(Ahead(S, x))
                      => \A i \in 1..3 : w[i] = x[i]
  <2>1. \A x \in S : IsPlace(x, 3)
    BY <1>1
  <2>2. \A n : (\A x \in S : IsPlace(x, n)) =>
          /\ Cardinality(Ahead(S, w)) \in Nat
          /\ Cardinality(Ahead(S, w)) < Cardinality(S)
          /\ \A x \in S : Cardinality(Ahead(S, w)) = Cardinality(Ahead(S, x))
                          => \A i \in 1..n : w[i] = x[i]
    BY <1>1, <1>2, RankTells
  <2> QED
    BY <2>1, <2>2, Zenon
<1>4. ASSUME NEW x \in S, \A i \in 1..3 : w[i] = x[i]
      PROVE  w = x
  <2>1. w[1] = x[1] /\ w[2] = x[2] /\ w[3] = x[3]
    BY <1>4
  <2> QED
    BY <1>1, <1>2, <2>1
<1> QED
  BY <1>3, <1>4 DEF S

LEMMA FirstModuleIs ==
  ASSUME NEW c \in DetailedBarrelFiles, NEW v \in {"detector", "group"}, NEW l \in DOMAIN c.layers
  PROVE  FirstModule(c, v, l) \in Nat
<1>1. Len(c.layers) \in Nat /\ DOMAIN c.layers = 1..Len(c.layers)
  BY KindsOfStaves
<1>2. CASE v = "detector"
  <2> DEFINE t == [e \in 1..(l - 1) |-> Cardinality(ModulePlaces(c, e))]
  <2>1. Len(t) = l - 1 /\ l - 1 \in Nat
    BY <1>1
  <2>2. \A e \in 1..Len(t) : t[e] \in Nat
    BY <1>1, <2>1, ModulePlacesFinite
  <2>3. FirstModule(c, v, l) = Total(t)
    BY <1>2 DEF FirstModule, Sum
  <2> HIDE DEF t
  <2> QED
    BY <2>1, <2>2, <2>3, SumsGrow DEF Total
<1>3. CASE v = "group"
  <2>1. l - 1 \in 0..Len(c.layers)
    BY <1>1
  <2>2. AddedUp(c, c.layers[l].id)[l - 1] \in Nat
    BY <2>1, AddedUpGrows
  <2> QED
    BY <1>3, <2>2 DEF FirstModule
<1> QED
  BY <1>2, <1>3

\* The first module of a layer comes after all those of another layer, earlier in the
\* detector or, for groups, with the same id.
LEMMA LayersApart ==
  ASSUME NEW c \in DetailedBarrelFiles, NEW v \in {"detector", "group"},
         NEW l \in DOMAIN c.layers, NEW m \in DOMAIN c.layers, l < m,
         v = "group" => c.layers[l].id = c.layers[m].id
  PROVE  FirstModule(c, v, l) + Cardinality(ModulePlaces(c, l)) <= FirstModule(c, v, m)
<1>1. Len(c.layers) \in Nat /\ DOMAIN c.layers = 1..Len(c.layers)
  BY KindsOfStaves
<1>2. CASE v = "detector"
  <2> DEFINE t == [e \in 1..Len(c.layers) |-> Cardinality(ModulePlaces(c, e))]
  <2>1. Len(t) = Len(c.layers) /\ \A e \in 1..Len(t) : t[e] \in Nat
    BY <1>1, ModulePlacesFinite
  <2>2. ASSUME NEW k \in DOMAIN c.layers
        PROVE  FirstModule(c, v, k) = Sums(t)[k - 1]
    <3> DEFINE u == [e \in 1..(k - 1) |-> Cardinality(ModulePlaces(c, e))]
    <3>1. k - 1 \in 0..Len(t) /\ DOMAIN u = 1..(k - 1) /\ \A i \in 1..(k - 1) : u[i] = t[i]
      BY <1>1, <2>1
    <3>2. FirstModule(c, v, k) = Total(u)
      BY <1>2 DEF FirstModule, Sum
    <3> HIDE DEF t, u
    <3> QED
      BY <1>1, <2>1, <3>1, <3>2, SumOfFirst
  <2>3. t[l] = Cardinality(ModulePlaces(c, l))
    BY <1>1
  <2> HIDE DEF t
  <2>4. Sums(t)[l - 1] + t[l] <= Sums(t)[m - 1]
    BY <1>1, <2>1, SumsGrow
  <2> QED
    BY <2>2, <2>3, <2>4
<1>3. CASE v = "group"
  BY <1>1, <1>3, AddedUpGrows DEF FirstModule
<1> QED
  BY <1>2, <1>3

LEMMA LadderModuleIs ==
  ASSUME NEW c \in DetailedBarrelFiles, NEW v \in {"detector", "group"},
         NEW p \in LadderSensorPlaces(c)
  PROVE  LadderModule(c, v, p) \in Nat
<1>1. p[1] \in DOMAIN c.layers /\ p[2] \in ModulePlaces(c, p[1])
  BY LadderSensorPlacesAre
<1>2. LadderModule(c, v, p)
        = FirstModule(c, v, p[1]) + Cardinality(Ahead(ModulePlaces(c, p[1]), p[2]))
  BY DEF LadderModule, Ahead
<1>3. /\ FirstModule(c, v, p[1]) \in Nat
      /\ Cardinality(Ahead(ModulePlaces(c, p[1]), p[2])) \in Nat
  BY <1>1, FirstModuleIs, ModulesRanked
<1> QED
  BY <1>2, <1>3

\* The number of a module says which it is, of all or of those of its layers' id.
LEMMA LadderModuleTells ==
  ASSUME NEW c \in DetailedBarrelFiles, NEW v \in {"detector", "group"},
         NEW p \in LadderSensorPlaces(c), NEW q \in LadderSensorPlaces(c),
         v = "group" => c.layers[p[1]].id = c.layers[q[1]].id,
         LadderModule(c, v, p) = LadderModule(c, v, q)
  PROVE  p[1] = q[1] /\ p[2] = q[2]
<1> DEFINE f(x) == FirstModule(c, v, x[1])
           r(x) == Cardinality(Ahead(ModulePlaces(c, x[1]), x[2]))
           n(x) == Cardinality(ModulePlaces(c, x[1]))
<1>1. /\ p[1] \in DOMAIN c.layers /\ p[2] \in ModulePlaces(c, p[1])
      /\ q[1] \in DOMAIN c.layers /\ q[2] \in ModulePlaces(c, q[1])
  BY LadderSensorPlacesAre
<1>2. p[1] \in Nat /\ q[1] \in Nat
  BY <1>1, KindsOfStaves
<1>3. f(p) + r(p) = f(q) + r(q)
  <2>1. LadderModule(c, v, p) = f(p) + r(p) /\ LadderModule(c, v, q) = f(q) + r(q)
    BY DEF LadderModule, Ahead
  <2> QED
    BY <2>1
<1>4. f(p) \in Nat /\ f(q) \in Nat
  BY <1>1, FirstModuleIs
<1>5. r(p) \in Nat /\ r(q) \in Nat /\ r(p) < n(p) /\ r(q) < n(q)
  BY <1>1, ModulesRanked
<1>6. n(p) \in Nat /\ n(q) \in Nat
  BY <1>1, ModulePlacesFinite
<1>7. p[1] < q[1] => f(p) + n(p) <= f(q)
  BY <1>1, LayersApart
<1>8. q[1] < p[1] => f(q) + n(q) <= f(p)
  BY <1>1, LayersApart
<1>9. p[1] = q[1]
  <2> HIDE DEF f, r, n
  <2> QED
    BY <1>2, <1>3, <1>4, <1>5, <1>6, <1>7, <1>8
<1>10. r(p) = r(q)
  <2>1. f(p) = f(q)
    BY <1>9
  <2> HIDE DEF f, r, n
  <2> QED
    BY <1>3, <1>4, <1>5, <2>1
<1>11. p[2] = q[2]
  BY <1>1, <1>9, <1>10, ModulesRanked
<1> QED
  BY <1>9, <1>11

LadderSensorNumber(c, p) == SensorsBefore(KindAt(c, p), p[3])

DetailedBarrelFields(v) ==
  {"layer", "sensor", "module"} \cup (IF v = "ladder" THEN {"stave"} ELSE {})

LEMMA LadderIdsAre ==
  ASSUME NEW c, NEW p
  PROVE  /\ \A v \in {"ladder", "detector", "group"} :
              /\ DOMAIN LadderIds(c, v, p) = DetailedBarrelFields(v)
              /\ LadderIds(c, v, p).layer = c.layers[p[1]].id
         /\ LadderIds(c, "ladder", p).stave = p[2][1]
         /\ LadderIds(c, "ladder", p).module = p[2][3]
         /\ LadderIds(c, "ladder", p).sensor = LadderSensorNumber(c, p)
         /\ LadderIds(c, "detector", p).module = LadderModule(c, "detector", p)
         /\ LadderIds(c, "detector", p).sensor = LadderSensorNumber(c, p)
         /\ LadderIds(c, "group", p).module
              = GroupIds(KindAt(c, p), LadderModule(c, "group", p), LadderSensorNumber(c, p)).module
         /\ LadderIds(c, "group", p).sensor
              = GroupIds(KindAt(c, p), LadderModule(c, "group", p), LadderSensorNumber(c, p)).sensor
<1> DEFINE r == [layer |-> c.layers[p[1]].id]
           x == [stave |-> p[2][1], module |-> p[2][3], sensor |-> LadderSensorNumber(c, p)]
           y == [module |-> LadderModule(c, "detector", p), sensor |-> LadderSensorNumber(c, p)]
           z == GroupIds(KindAt(c, p), LadderModule(c, "group", p), LadderSensorNumber(c, p))
<1>1. /\ LadderIds(c, "ladder", p) = Joined(r, x)
      /\ LadderIds(c, "detector", p) = Joined(r, y)
      /\ LadderIds(c, "group", p) = Joined(r, z)
  BY DEF LadderIds, LadderSensorNumber
<1>2. /\ DOMAIN r = {"layer"} /\ DOMAIN x = {"stave", "module", "sensor"}
      /\ DOMAIN y = {"module", "sensor"} /\ DOMAIN z = {"module", "sensor"}
      /\ r.layer = c.layers[p[1]].id
  BY DEF GroupIds
<1>3. /\ x.stave = p[2][1] /\ x.module = p[2][3] /\ x.sensor = LadderSensorNumber(c, p)
      /\ y.module = LadderModule(c, "detector", p) /\ y.sensor = LadderSensorNumber(c, p)
  OBVIOUS
<1>4. DOMAIN Joined(r, x) = {"layer", "stave", "module", "sensor"}
      /\ Joined(r, x).layer = r.layer /\ Joined(r, x).stave = x.stave
      /\ Joined(r, x).module = x.module /\ Joined(r, x).sensor = x.sensor
  <2> HIDE DEF r, x
  <2>1. /\ DOMAIN Joined(r, x) = DOMAIN r \cup DOMAIN x
        /\ \A f \in DOMAIN r : Joined(r, x)[f] = r[f]
        /\ \A f \in (DOMAIN x) \ (DOMAIN r) : Joined(r, x)[f] = x[f]
    BY JoinedFields, Zenon
  <2> QED
    BY <1>2, <2>1
<1>5. DOMAIN Joined(r, y) = {"layer", "module", "sensor"} /\ Joined(r, y).layer = r.layer
      /\ Joined(r, y).module = y.module /\ Joined(r, y).sensor = y.sensor
  <2> HIDE DEF r, y
  <2>1. /\ DOMAIN Joined(r, y) = DOMAIN r \cup DOMAIN y
        /\ \A f \in DOMAIN r : Joined(r, y)[f] = r[f]
        /\ \A f \in (DOMAIN y) \ (DOMAIN r) : Joined(r, y)[f] = y[f]
    BY JoinedFields, Zenon
  <2> QED
    BY <1>2, <2>1
<1>6. DOMAIN Joined(r, z) = {"layer", "module", "sensor"} /\ Joined(r, z).layer = r.layer
      /\ Joined(r, z).module = z.module /\ Joined(r, z).sensor = z.sensor
  <2> HIDE DEF r, z
  <2>1. /\ DOMAIN Joined(r, z) = DOMAIN r \cup DOMAIN z
        /\ \A f \in DOMAIN r : Joined(r, z)[f] = r[f]
        /\ \A f \in (DOMAIN z) \ (DOMAIN r) : Joined(r, z)[f] = z[f]
    BY JoinedFields, Zenon
  <2> QED
    BY <1>2, <2>1
<1> HIDE DEF r, x, y
<1> QED
  BY <1>1, <1>2, <1>3, <1>4, <1>5, <1>6 DEF DetailedBarrelFields

LEMMA OneKindOfStave ==
  ASSUME NEW c \in DetailedBarrelFiles, PlainStaves(c), NEW l \in DOMAIN c.layers,
         NEW k \in DOMAIN StaveKinds(c, l)
  PROVE  k = 1
<1>1. Len(StaveKinds(c, l)) = 1
  BY DetailedBarrelFilesAssumption DEF PlainStaves, StaveKinds, IsDetailedBarrelFile
<1>2. DOMAIN StaveKinds(c, l) = 1..Len(StaveKinds(c, l))
  BY KindsOfStaves, Lists
<1> QED
  BY <1>1, <1>2

\* The ids say which sensor of which module of which layer.
LEMMA LadderIdsTell ==
  ASSUME NEW c \in DetailedBarrelFiles, NEW v, NEW type, DetailedBarrelMakes(type, c, v),
         NEW p \in LadderSensorPlaces(c), NEW q \in LadderSensorPlaces(c),
         LadderIds(c, v, p) = LadderIds(c, v, q)
  PROVE  p = q
<1>1. /\ p = <<p[1], p[2], p[3]>> /\ q = <<q[1], q[2], q[3]>>
      /\ p[1] \in DOMAIN c.layers /\ q[1] \in DOMAIN c.layers
      /\ p[2] \in ModulePlaces(c, p[1]) /\ q[2] \in ModulePlaces(c, q[1])
      /\ p[3] \in SensorPlaces(KindAt(c, p)) /\ q[3] \in SensorPlaces(KindAt(c, q))
      /\ IsKind(KindAt(c, p)) /\ IsKind(KindAt(c, q))
      /\ p[2][2] \in DOMAIN StaveKinds(c, p[1]) /\ q[2][2] \in DOMAIN StaveKinds(c, q[1])
  BY LadderSensorPlacesAre
<1>2. c.layers[p[1]].id = c.layers[q[1]].id
  BY LadderIdsAre DEF DetailedBarrelMakes
<1>3. PlainStaves(c) => p[2][2] = 1 /\ q[2][2] = 1
  BY <1>1, OneKindOfStave
<1>4. ASSUME v = "ladder"
      PROVE  p[1] = q[1] /\ p[2] = q[2] /\ LadderSensorNumber(c, p) = LadderSensorNumber(c, q)
  <2>1. p[1] = q[1]
    BY <1>1, <1>2, <1>4 DEF DetailedBarrelMakes, DistinctIds
  <2>2. /\ p[2][1] = q[2][1] /\ p[2][3] = q[2][3]
        /\ LadderSensorNumber(c, p) = LadderSensorNumber(c, q)
    BY <1>4, LadderIdsAre
  <2>3. p[2][2] = q[2][2]
    BY <1>3, <1>4 DEF DetailedBarrelMakes
  <2>4. \A l \in DOMAIN c.layers : \A w \in ModulePlaces(c, l) : w = <<w[1], w[2], w[3]>>
    BY ModulePlacesAre, Zenon
  <2>5. p[2] = <<p[2][1], p[2][2], p[2][3]>> /\ q[2] = <<q[2][1], q[2][2], q[2][3]>>
    BY <1>1, <2>4, Zenon
  <2>6. <<p[2][1], p[2][2], p[2][3]>> = <<q[2][1], q[2][2], q[2][3]>>
    BY <2>2, <2>3, Zenon
  <2>7. p[2] = q[2]
    BY <2>5, <2>6, Zenon
  <2> QED
    BY <2>1, <2>2, <2>7, Zenon
<1>5. ASSUME v = "detector"
      PROVE  p[1] = q[1] /\ p[2] = q[2] /\ LadderSensorNumber(c, p) = LadderSensorNumber(c, q)
  <2>1. LadderModule(c, v, p) = LadderModule(c, v, q)
        /\ LadderSensorNumber(c, p) = LadderSensorNumber(c, q)
    BY <1>5, LadderIdsAre
  <2>2. \A u \in {"detector", "group"} :
          /\ u # "group" \/ c.layers[p[1]].id = c.layers[q[1]].id
          /\ LadderModule(c, u, p) = LadderModule(c, u, q)
          => p[1] = q[1] /\ p[2] = q[2]
    BY LadderModuleTells
  <2> QED
    BY <1>5, <2>1, <2>2
<1>6. ASSUME v = "group"
      PROVE  p[1] = q[1] /\ p[2] = q[2] /\ LadderSensorNumber(c, p) = LadderSensorNumber(c, q)
  <2> DEFINE a == KindAt(c, p)
             b == KindAt(c, q)
  <2>1. /\ a.grouping = b.grouping
        /\ a.grouping > 1 => /\ SensitivePerModule(a) = SensitivePerModule(b)
                             /\ SensitivePerModule(a) = Cardinality(SensorPlaces(a))
                             /\ SensitivePerModule(b) = Cardinality(SensorPlaces(b))
    <3> DEFINE S == Range(StaveKinds(c, p[1])) \cup Range(StaveKinds(c, q[1]))
    <3>1. Alike(S)
      BY <1>1, <1>2, <1>6 DEF DetailedBarrelMakes, LayersAlike
    <3>2. a \in S /\ b \in S
      BY <1>1 DEF KindAt, Range
    <3> HIDE DEF S, a, b
    <3> QED
      BY <3>1, <3>2 DEF Alike
  <2>2. LadderModule(c, v, p) \in Nat /\ LadderModule(c, v, q) \in Nat
    BY <1>6, LadderModuleIs
  <2>3. /\ GroupIds(a, LadderModule(c, v, p), LadderSensorNumber(c, p)).module
             = GroupIds(b, LadderModule(c, v, q), LadderSensorNumber(c, q)).module
        /\ GroupIds(a, LadderModule(c, v, p), LadderSensorNumber(c, p)).sensor
             = GroupIds(b, LadderModule(c, v, q), LadderSensorNumber(c, q)).sensor
    BY <1>6, LadderIdsAre
  <2> HIDE DEF a, b
  <2>4. /\ LadderModule(c, v, p) = LadderModule(c, v, q)
        /\ LadderSensorNumber(c, p) = LadderSensorNumber(c, q)
    <3>1. /\ LadderSensorNumber(c, p) = SensorsBefore(a, p[3])
          /\ LadderSensorNumber(c, q) = SensorsBefore(b, q[3])
          /\ IsKind(a) /\ IsKind(b) /\ p[3] \in SensorPlaces(a) /\ q[3] \in SensorPlaces(b)
      BY <1>1 DEF LadderSensorNumber, a, b
    <3> QED
      BY <2>1, <2>2, <2>3, <3>1, GroupIdsTell
  <2>5. \A u \in {"detector", "group"} :
          /\ u # "group" \/ c.layers[p[1]].id = c.layers[q[1]].id
          /\ LadderModule(c, u, p) = LadderModule(c, u, q)
          => p[1] = q[1] /\ p[2] = q[2]
    BY LadderModuleTells
  <2> QED
    BY <1>2, <1>6, <2>4, <2>5
<1>7. p[1] = q[1] /\ p[2] = q[2] /\ LadderSensorNumber(c, p) = LadderSensorNumber(c, q)
  BY <1>4, <1>5, <1>6 DEF DetailedBarrelMakes
<1>8. p[3] = q[3]
  <2>1. KindAt(c, p) = KindAt(c, q)
    BY <1>7 DEF KindAt
  <2> QED
    BY <1>1, <1>7, <2>1, SensorsCounted DEF LadderSensorNumber
<1> QED
  BY <1>1, <1>7, <1>8

LEMMA DetailedBarrelsDiffer ==
  ASSUME DetailedBarrelMade
  PROVE  CellIdsNameOneSensor /\ OtherSideIsMirrored
<1>1. PICK c \in DetailedBarrelFiles :
        \E v : DetailedBarrelMakes(built, c, v) /\ detector = DetailedBarrel(c, v)
  BY DEF DetailedBarrelMade
<1>2. PICK v : DetailedBarrelMakes(built, c, v) /\ detector = DetailedBarrel(c, v)
  BY <1>1
<1>3. detector.sensors = {[at |-> p, ids |-> LadderIds(c, v, p)] : p \in LadderSensorPlaces(c)}
  BY <1>2 DEF DetailedBarrel
<1>4. ASSUME NEW s \in detector.sensors, NEW t \in detector.sensors, s.ids = t.ids
      PROVE  s = t
  <2>1. PICK p \in LadderSensorPlaces(c) : s = [at |-> p, ids |-> LadderIds(c, v, p)]
    BY <1>3
  <2>2. PICK q \in LadderSensorPlaces(c) : t = [at |-> q, ids |-> LadderIds(c, v, q)]
    BY <1>3
  <2>3. LadderIds(c, v, p) = LadderIds(c, v, q)
    BY <1>4, <2>1, <2>2
  <2> QED
    BY <1>2, <2>1, <2>2, <2>3, LadderIdsTell
<1>5. \A s \in detector.sensors : DOMAIN s.ids \cap SideFields = {}
  <2>1. v \in {"ladder", "detector", "group"}
    BY <1>2 DEF DetailedBarrelMakes
  <2>2. \A p : DOMAIN LadderIds(c, v, p) \cap SideFields = {}
    BY <2>1, LadderIdsAre DEF DetailedBarrelFields, SideFields
  <2> QED
    BY <1>3, <2>2
<1>6. CellIdsNameOneSensor
  BY <1>4, NameOneSensor
<1>7. OtherSideIsMirrored
  BY <1>2, <1>5, NoSides DEF DetailedBarrelMakes
<1> QED
  BY <1>6, <1>7

LEMMA DiskFilesAre ==
  ASSUME NEW c \in DetailedEndcapFiles, NEW l \in DOMAIN c.layers
  PROVE  /\ IsList(c.layers[l].staves) /\ DOMAIN c.layers[l].staves \subseteq Nat
         /\ c.layers[l].nphi \in Nat
         /\ \A k \in DOMAIN c.layers[l].staves :
              /\ c.layers[l].staves[k].nphi \in Nat /\ c.layers[l].staves[k].nmodules \in Nat
              /\ IsKind(DiskKind(c, l, k)) /\ c.layers[l].staves[k].module \in DOMAIN c.modules
         /\ DOMAIN c.layers \subseteq Nat
<1>1. /\ IsList(c.layers[l].staves) /\ c.layers[l].nphi \in Nat /\ IsList(c.layers)
      /\ \A k \in DOMAIN c.layers[l].staves :
           /\ c.layers[l].staves[k].nphi \in Nat /\ c.layers[l].staves[k].nmodules \in Nat
           /\ c.layers[l].staves[k].module \in DOMAIN c.modules
  BY DetailedEndcapFilesAssumption DEF IsDetailedEndcapFile
<1>2. \A m \in DOMAIN c.modules : IsKind(c.modules[m])
  BY DetailedEndcapFilesAssumption DEF IsDetailedEndcapFile
<1>3. DOMAIN c.layers[l].staves \subseteq Nat /\ DOMAIN c.layers \subseteq Nat
  BY <1>1, Lists
<1> QED
  BY <1>1, <1>2, <1>3 DEF DiskKind

LEMMA DiskModulesAre ==
  ASSUME NEW c \in DetailedEndcapFiles, NEW l \in DOMAIN c.layers,
         NEW w \in DiskModules(c.layers[l])
  PROVE  /\ w = <<w[1], w[2], w[3], w[4]>> /\ IsPlace(w, 4) /\ IsChoice(w, 4)
         /\ w[1] \in 0..(c.layers[l].nphi - 1)
         /\ w[2] \in DOMAIN c.layers[l].staves
         /\ w[3] \in 0..(c.layers[l].staves[w[2]].nphi - 1)
         /\ w[4] \in 0..(c.layers[l].staves[w[2]].nmodules - 1)
<1> DEFINE layer == c.layers[l]
<1>1. PICK k \in DOMAIN layer.staves :
        w \in {<<petal, k, j, m>> : petal \in 0..(layer.nphi - 1),
                                    j \in 0..(layer.staves[k].nphi - 1),
                                    m \in 0..(layer.staves[k].nmodules - 1)}
  BY DEF DiskModules
<1>2. PICK petal \in 0..(layer.nphi - 1), j \in 0..(layer.staves[k].nphi - 1),
           m \in 0..(layer.staves[k].nmodules - 1) : w = <<petal, k, j, m>>
  BY <1>1
<1>3. petal \in Nat /\ k \in Nat /\ j \in Nat /\ m \in Nat
  BY DiskFilesAre
<1>4. IsPlace(w, 4)
  BY <1>2, <1>3 DEF IsPlace
<1>5. IsChoice(w, 4)
  BY <1>2, FourChoices
<1> QED
  BY <1>2, <1>4, <1>5

LEMMA DiskModulesFinite ==
  ASSUME NEW c \in DetailedEndcapFiles, NEW l \in DOMAIN c.layers
  PROVE  IsFiniteSet(DiskModules(c.layers[l]))
<1> DEFINE layer == c.layers[l]
           D == DOMAIN layer.staves
           F == [k \in D |-> {<<petal, k, j, m>> : petal \in 0..(layer.nphi - 1),
                                                   j \in 0..(layer.staves[k].nphi - 1),
                                                   m \in 0..(layer.staves[k].nmodules - 1)}]
<1>1. IsFiniteSet(D)
  BY DiskFilesAre, ListIsFinite, Zenon
<1>2. ASSUME NEW k \in D
      PROVE  IsFiniteSet(F[k])
  <2> DEFINE A == 0..(layer.nphi - 1)
             B == 0..(layer.staves[k].nphi - 1)
             C == 0..(layer.staves[k].nmodules - 1)
             S == {<<petal, k, j, m>> : petal \in A, j \in B, m \in C}
  <2>1. /\ layer.nphi \in Int /\ layer.staves[k].nphi \in Int
        /\ layer.staves[k].nmodules \in Int
    BY <1>2, DiskFilesAre
  <2>2. IsFiniteSet(A) /\ IsFiniteSet(B) /\ IsFiniteSet(C)
    BY <2>1, CountedUpTo, Zenon
  <2>3. \A p \in S : IsChoice(p, 4) /\ p[1] \in A /\ p[2] \in D /\ p[3] \in B /\ p[4] \in C
    <3> HIDE DEF A, B, C, D
    <3> QED
      BY <1>2, FourChoices
  <2>4. IsFiniteSet(S)
    <3> HIDE DEF A, B, C, D, S
    <3> QED
      BY <1>1, <2>2, <2>3, FourOfFinite, Zenon
  <2> QED
    BY <2>4
<1>3. DiskModules(layer) = UNION {F[k] : k \in D}
  <2>1. \A k \in D : F[k] = {<<petal, k, j, m>> : petal \in 0..(layer.nphi - 1),
                                                  j \in 0..(layer.staves[k].nphi - 1),
                                                  m \in 0..(layer.staves[k].nmodules - 1)}
    OBVIOUS
  <2> HIDE DEF F
  <2> QED
    BY <2>1 DEF DiskModules
<1> HIDE DEF D, F
<1>4. IsFiniteSet(UNION {F[k] : k \in D})
  BY <1>1, <1>2, FinitelyManyOfEach
<1> QED
  BY <1>3, <1>4

LEMMA DiskSensorPlacesAre ==
  ASSUME NEW c \in DetailedEndcapFiles, NEW p \in DiskSensorPlaces(c)
  PROVE  /\ p = <<p[1], p[2], p[3], p[4]>>
         /\ p[1] \in Sides(c) /\ p[2] \in DOMAIN c.layers
         /\ p[3] \in DiskModules(c.layers[p[2]])
         /\ p[3][2] \in DOMAIN c.layers[p[2]].staves
         /\ IsKind(DiskKind(c, p[2], p[3][2]))
         /\ p[4] \in SensorPlaces(DiskKind(c, p[2], p[3][2]))
<1>1. PICK l \in DOMAIN c.layers :
        p \in UNION {{<<side, l, w, q>> : side \in Sides(c),
                                          q \in SensorPlaces(DiskKind(c, l, w[2]))} :
                     w \in DiskModules(c.layers[l])}
  BY DEF DiskSensorPlaces
<1>2. PICK w \in DiskModules(c.layers[l]) :
        p \in {<<side, l, w, q>> : side \in Sides(c), q \in SensorPlaces(DiskKind(c, l, w[2]))}
  BY <1>1
<1>3. PICK side \in Sides(c), q \in SensorPlaces(DiskKind(c, l, w[2])) :
        p = <<side, l, w, q>>
  BY <1>2
<1>4. w[2] \in DOMAIN c.layers[l].staves /\ IsKind(DiskKind(c, l, w[2]))
  BY DiskModulesAre, DiskFilesAre
<1> QED
  BY <1>3, <1>4

\* The number of a module in its disk says which it is.
LEMMA DiskModulesCounted ==
  ASSUME NEW c \in DetailedEndcapFiles, NEW p \in DiskSensorPlaces(c)
  PROVE  /\ DiskModule(c, p) \in Nat
         /\ \A q \in DiskSensorPlaces(c) :
              p[2] = q[2] /\ DiskModule(c, p) = DiskModule(c, q) => p[3] = q[3]
<1> DEFINE S == DiskModules(c.layers[p[2]])
           rank(w) == Cardinality(Ahead(S, w))
<1>1. p[2] \in DOMAIN c.layers /\ p[3] \in S
  BY DiskSensorPlacesAre
<1>2. IsFiniteSet(S) /\ \A x \in S : IsPlace(x, 4) /\ x = <<x[1], x[2], x[3], x[4]>>
  BY <1>1, DiskModulesFinite, DiskModulesAre, Zenon
<1>3. \A q : p[2] = q[2] => DiskModule(c, q) = rank(q[3])
  BY DEF DiskModule, Ahead
<1>4. \A q \in DiskSensorPlaces(c) : p[2] = q[2] => q[3] \in S
  BY DiskSensorPlacesAre
<1> HIDE DEF S
<1>5. ASSUME NEW w \in S
      PROVE  /\ rank(w) \in Nat
             /\ \A x \in S : rank(w) = rank(x) => \A i \in 1..4 : w[i] = x[i]
  <2>1. \A x \in S : IsPlace(x, 4)
    BY <1>2
  <2>2. \A n : (\A x \in S : IsPlace(x, n)) =>
          /\ Cardinality(Ahead(S, w)) \in Nat
          /\ \A x \in S : Cardinality(Ahead(S, w)) = Cardinality(Ahead(S, x))
                          => \A i \in 1..n : w[i] = x[i]
    BY <1>2, RankTells
  <2> QED
    BY <2>1, <2>2, Zenon
<1>6. ASSUME NEW x \in S, \A i \in 1..4 : p[3][i] = x[i]
      PROVE  p[3] = x
  <2>1. p[3][1] = x[1] /\ p[3][2] = x[2] /\ p[3][3] = x[3] /\ p[3][4] = x[4]
    BY <1>6
  <2> QED
    BY <1>1, <1>2, <2>1
<1> QED
  BY <1>3, <1>4, <1>5, <1>6

DiskSensorNumber(c, p) == SensorsBefore(DiskKind(c, p[2], p[3][2]), p[4])

DetailedEndcapFields(v) ==
  {"side", "layer", "sensor", "module"} \cup (IF v = "petal" THEN {"petal", "stave"} ELSE {})

LEMMA DiskIdsAre ==
  ASSUME NEW c, NEW p
  PROVE  /\ \A v \in {"petal", "disk", "group"} :
              /\ DOMAIN DiskIds(c, v, p) = DetailedEndcapFields(v)
              /\ DiskIds(c, v, p).layer = c.layers[p[2]].id /\ DiskIds(c, v, p).side = p[1]
         /\ DiskIds(c, "petal", p).petal = p[3][1]
         /\ DiskIds(c, "petal", p).stave = p[3][2] - 1
         /\ DiskIds(c, "petal", p).module = p[3][4]
         /\ DiskIds(c, "petal", p).sensor = DiskSensorNumber(c, p)
         /\ DiskIds(c, "disk", p).module = DiskModule(c, p)
         /\ DiskIds(c, "disk", p).sensor = DiskSensorNumber(c, p)
         /\ DiskIds(c, "group", p).module
              = GroupIds(DiskKind(c, p[2], p[3][2]), DiskModule(c, p), DiskSensorNumber(c, p)).module
         /\ DiskIds(c, "group", p).sensor
              = GroupIds(DiskKind(c, p[2], p[3][2]), DiskModule(c, p), DiskSensorNumber(c, p)).sensor
<1> DEFINE r == [side |-> p[1], layer |-> c.layers[p[2]].id]
           x == [petal |-> p[3][1], stave |-> p[3][2] - 1, module |-> p[3][4],
                 sensor |-> DiskSensorNumber(c, p)]
           y == [module |-> DiskModule(c, p), sensor |-> DiskSensorNumber(c, p)]
           z == GroupIds(DiskKind(c, p[2], p[3][2]), DiskModule(c, p), DiskSensorNumber(c, p))
<1>1. /\ DiskIds(c, "petal", p) = Joined(r, x)
      /\ DiskIds(c, "disk", p) = Joined(r, y)
      /\ DiskIds(c, "group", p) = Joined(r, z)
  BY DEF DiskIds, DiskSensorNumber
<1>2. /\ DOMAIN r = {"side", "layer"} /\ DOMAIN x = {"petal", "stave", "module", "sensor"}
      /\ DOMAIN y = {"module", "sensor"} /\ DOMAIN z = {"module", "sensor"}
      /\ r.layer = c.layers[p[2]].id /\ r.side = p[1]
  BY DEF GroupIds
<1>3. /\ x.petal = p[3][1] /\ x.stave = p[3][2] - 1 /\ x.module = p[3][4]
      /\ x.sensor = DiskSensorNumber(c, p)
      /\ y.module = DiskModule(c, p) /\ y.sensor = DiskSensorNumber(c, p)
  OBVIOUS
<1>4. DOMAIN Joined(r, x) = {"side", "layer", "petal", "stave", "module", "sensor"}
      /\ Joined(r, x).side = r.side /\ Joined(r, x).layer = r.layer
      /\ Joined(r, x).petal = x.petal /\ Joined(r, x).stave = x.stave
      /\ Joined(r, x).module = x.module /\ Joined(r, x).sensor = x.sensor
  <2> HIDE DEF r, x
  <2>1. /\ DOMAIN Joined(r, x) = DOMAIN r \cup DOMAIN x
        /\ \A f \in DOMAIN r : Joined(r, x)[f] = r[f]
        /\ \A f \in (DOMAIN x) \ (DOMAIN r) : Joined(r, x)[f] = x[f]
    BY JoinedFields, Zenon
  <2> QED
    BY <1>2, <2>1
<1>5. DOMAIN Joined(r, y) = {"side", "layer", "module", "sensor"}
      /\ Joined(r, y).side = r.side /\ Joined(r, y).layer = r.layer
      /\ Joined(r, y).module = y.module /\ Joined(r, y).sensor = y.sensor
  <2> HIDE DEF r, y
  <2>1. /\ DOMAIN Joined(r, y) = DOMAIN r \cup DOMAIN y
        /\ \A f \in DOMAIN r : Joined(r, y)[f] = r[f]
        /\ \A f \in (DOMAIN y) \ (DOMAIN r) : Joined(r, y)[f] = y[f]
    BY JoinedFields, Zenon
  <2> QED
    BY <1>2, <2>1
<1>6. DOMAIN Joined(r, z) = {"side", "layer", "module", "sensor"}
      /\ Joined(r, z).side = r.side /\ Joined(r, z).layer = r.layer
      /\ Joined(r, z).module = z.module /\ Joined(r, z).sensor = z.sensor
  <2> HIDE DEF r, z
  <2>1. /\ DOMAIN Joined(r, z) = DOMAIN r \cup DOMAIN z
        /\ \A f \in DOMAIN r : Joined(r, z)[f] = r[f]
        /\ \A f \in (DOMAIN z) \ (DOMAIN r) : Joined(r, z)[f] = z[f]
    BY JoinedFields, Zenon
  <2> QED
    BY <1>2, <2>1
<1> HIDE DEF r, x, y
<1> QED
  BY <1>1, <1>2, <1>3, <1>4, <1>5, <1>6 DEF DetailedEndcapFields

\* The ids, but for the side, say which sensor of which module of which disk.
LEMMA DiskIdsTell ==
  ASSUME NEW c \in DetailedEndcapFiles, NEW v, NEW type, DetailedEndcapMakes(type, c, v),
         NEW p \in DiskSensorPlaces(c), NEW q \in DiskSensorPlaces(c),
         \A f \in DetailedEndcapFields(v) \ {"side"} : DiskIds(c, v, p)[f] = DiskIds(c, v, q)[f]
  PROVE  p[2] = q[2] /\ p[3] = q[3] /\ p[4] = q[4]
<1>1. /\ p[2] \in DOMAIN c.layers /\ q[2] \in DOMAIN c.layers
      /\ p[3] \in DiskModules(c.layers[p[2]]) /\ q[3] \in DiskModules(c.layers[q[2]])
      /\ p[3][2] \in DOMAIN c.layers[p[2]].staves /\ q[3][2] \in DOMAIN c.layers[q[2]].staves
      /\ IsKind(DiskKind(c, p[2], p[3][2])) /\ IsKind(DiskKind(c, q[2], q[3][2]))
      /\ p[4] \in SensorPlaces(DiskKind(c, p[2], p[3][2]))
      /\ q[4] \in SensorPlaces(DiskKind(c, q[2], q[3][2]))
  BY DiskSensorPlacesAre
<1>2. /\ DiskIds(c, v, p).layer = DiskIds(c, v, q).layer
      /\ DiskIds(c, v, p).module = DiskIds(c, v, q).module
      /\ DiskIds(c, v, p).sensor = DiskIds(c, v, q).sensor
  BY DEF DetailedEndcapFields
<1>3. p[2] = q[2]
  <2>1. c.layers[p[2]].id = c.layers[q[2]].id
    BY <1>2, DiskIdsAre DEF DetailedEndcapMakes
  <2>2. DistinctIds(c.layers)
    BY DetailedEndcapFilesAssumption DEF IsDetailedEndcapFile
  <2> QED
    BY <1>1, <2>1, <2>2 DEF DistinctIds
<1>4. CASE v = "petal"
  <2>1. DiskIds(c, v, p).petal = DiskIds(c, v, q).petal
        /\ DiskIds(c, v, p).stave = DiskIds(c, v, q).stave
    BY <1>4 DEF DetailedEndcapFields
  <2>2. /\ p[3][1] = q[3][1] /\ p[3][2] - 1 = q[3][2] - 1 /\ p[3][4] = q[3][4]
        /\ DiskSensorNumber(c, p) = DiskSensorNumber(c, q)
    BY <1>2, <1>4, <2>1, DiskIdsAre
  <2>3. p[3][2] = q[3][2]
    <3>1. p[3][2] \in Nat /\ q[3][2] \in Nat
      BY <1>1, DiskFilesAre
    <3> QED
      BY <2>2, <3>1
  <2>4. p[3][3] = q[3][3]
    <3>1. c.layers[p[2]].staves[p[3][2]].nphi = 1
      BY <1>1, <1>4 DEF DetailedEndcapMakes, PlainDisks
    <3>2. p[3][3] \in 0..(1 - 1) /\ q[3][3] \in 0..(1 - 1)
      BY <1>1, <1>3, <2>3, <3>1, DiskModulesAre
    <3> QED
      BY <3>2
  <2>5. /\ p[3] = <<p[3][1], p[3][2], p[3][3], p[3][4]>>
        /\ q[3] = <<q[3][1], q[3][2], q[3][3], q[3][4]>>
    BY <1>1, DiskModulesAre, Zenon
  <2> QED
    BY <1>1, <1>3, <2>2, <2>3, <2>4, <2>5, SensorsCounted DEF DiskSensorNumber
<1>5. CASE v = "disk"
  <2>1. DiskModule(c, p) = DiskModule(c, q) /\ DiskSensorNumber(c, p) = DiskSensorNumber(c, q)
    BY <1>2, <1>5, DiskIdsAre
  <2>2. p[3] = q[3]
    BY <1>3, <2>1, DiskModulesCounted
  <2> QED
    BY <1>1, <1>3, <2>1, <2>2, SensorsCounted DEF DiskSensorNumber
<1>6. CASE v = "group"
  <2> DEFINE a == DiskKind(c, p[2], p[3][2])
             b == DiskKind(c, q[2], q[3][2])
  <2>1. /\ a.grouping = b.grouping
        /\ a.grouping > 1 => /\ SensitivePerModule(a) = SensitivePerModule(b)
                             /\ SensitivePerModule(a) = Cardinality(SensorPlaces(a))
                             /\ SensitivePerModule(b) = Cardinality(SensorPlaces(b))
    <3> DEFINE S == {DiskKind(c, p[2], k) : k \in DOMAIN c.layers[p[2]].staves}
    <3>1. Alike(S)
      BY <1>1, <1>6 DEF DetailedEndcapMakes, DisksAlike
    <3>2. a \in S /\ b \in S
      BY <1>1, <1>3
    <3> HIDE DEF S, a, b
    <3> QED
      BY <3>1, <3>2 DEF Alike
  <2>2. DiskModule(c, p) \in Nat /\ DiskModule(c, q) \in Nat
    BY DiskModulesCounted
  <2>3. /\ GroupIds(a, DiskModule(c, p), DiskSensorNumber(c, p)).module
             = GroupIds(b, DiskModule(c, q), DiskSensorNumber(c, q)).module
        /\ GroupIds(a, DiskModule(c, p), DiskSensorNumber(c, p)).sensor
             = GroupIds(b, DiskModule(c, q), DiskSensorNumber(c, q)).sensor
    BY <1>2, <1>6, DiskIdsAre
  <2>4. /\ DiskSensorNumber(c, p) = SensorsBefore(a, p[4]) /\ DiskSensorNumber(c, q) = SensorsBefore(b, q[4])
        /\ IsKind(a) /\ IsKind(b) /\ p[4] \in SensorPlaces(a) /\ q[4] \in SensorPlaces(b)
    BY <1>1 DEF DiskSensorNumber
  <2>5. DiskModule(c, p) = DiskModule(c, q) /\ DiskSensorNumber(c, p) = DiskSensorNumber(c, q)
    <3> HIDE DEF a, b
    <3> QED
      BY <2>1, <2>2, <2>3, <2>4, GroupIdsTell
  <2>6. p[3] = q[3]
    BY <1>3, <2>5, DiskModulesCounted
  <2> QED
    BY <1>1, <1>3, <2>5, <2>6, SensorsCounted DEF DiskSensorNumber
<1> QED
  BY <1>4, <1>5, <1>6 DEF DetailedEndcapMakes

\* How deep a sensor is depends on what its place says but for the side.
LEMMA SensorDepthIs ==
  ASSUME NEW c \in DetailedEndcapFiles, NEW v, NEW p \in DiskSensorPlaces(c)
  PROVE  SensorDepth(c, v, p) \in Int
<1> DEFINE layer == c.layers[p[2]]
           stave == layer.staves[p[3][2]]
           kind == DiskKind(c, p[2], p[3][2])
           component == kind.components[p[4][2]]
           x == IF (p[3][1] + p[3][3]) % 2 = 0 THEN 0 ELSE layer.dz
           y == IF p[3][4] % 2 = 0 THEN 0 ELSE stave.dz
           e == IF v = "disk" THEN layer.motherVolThickness ELSE 0
<1>1. /\ p[2] \in DOMAIN c.layers /\ p[3][2] \in DOMAIN layer.staves
      /\ IsKind(kind) /\ p[4] \in SensorPlaces(kind)
  BY DiskSensorPlacesAre
<1>2. p[4][2] \in DOMAIN kind.components
  BY <1>1, SensorPlacesAre DEF SensitiveOf
<1>3. layer.z \in Int /\ layer.dz \in Int /\ layer.motherVolThickness \in Int
      /\ stave.z \in Int /\ stave.dz \in Int /\ stave.module \in DOMAIN c.modules
  <2>1. /\ {layer.z, layer.dz} \subseteq Int /\ {layer.nphi, layer.motherVolThickness} \subseteq Nat
        /\ {stave.z, stave.dz} \subseteq Int /\ stave.module \in DOMAIN c.modules
    BY <1>1, DetailedEndcapFilesAssumption DEF IsDetailedEndcapFile
  <2>2. \A m \in Nat : m \in Int
    OBVIOUS
  <2> HIDE DEF layer, stave
  <2>3. \A m, n, S : {m, n} \subseteq S => m \in S /\ n \in S
    BY Zenon
  <2> QED
    BY <2>1, <2>2, <2>3, Zenon
<1>4. kind.z \in Int /\ component.z \in Int
  <2>1. kind = c.modules[stave.module]
    BY DEF DiskKind
  <2> DEFINE m == stave.module
  <2>2. /\ c.modules[m].z \in Int
        /\ \A i \in DOMAIN c.modules[m].components : c.modules[m].components[i].z \in Int
    BY <1>3, DetailedEndcapFilesAssumption DEF IsDetailedEndcapFile
  <2> HIDE DEF m
  <2>3. kind = c.modules[m]
    BY <2>1 DEF m
  <2> QED
    BY <1>2, <2>2, <2>3
<1>5. component.below \in Int /\ component.thickness \in Int
  <2> HIDE DEF kind
  <2>1. {component.below, component.above} \subseteq Nat /\ component.thickness \in Nat
    BY <1>1, <1>2 DEF IsKind, IsStack
  <2> QED
    BY <2>1
<1>6. x \in Int /\ y \in Int /\ e \in Int
  BY <1>3
<1>7. SensorDepth(c, v, p)
        = 2 * (layer.z + x + stave.z + y + kind.z + component.z + component.below)
          + component.thickness + e
  BY DEF SensorDepth
<1> DEFINE f == layer.z
           g == stave.z
           h == kind.z
           i == component.z
           j == component.below
           k == component.thickness
<1>8. f \in Int /\ g \in Int /\ h \in Int /\ i \in Int /\ j \in Int /\ k \in Int
  BY <1>3, <1>4, <1>5
<1>9. SensorDepth(c, v, p) = 2 * (f + x + g + y + h + i + j) + k + e
  BY <1>7
<1> HIDE DEF e, f, g, h, i, j, k, x, y
<1> QED
  BY <1>6, <1>8, <1>9

LEMMA DetailedEndcapsDiffer ==
  ASSUME DetailedEndcapMade
  PROVE  CellIdsNameOneSensor /\ OtherSideIsMirrored
<1>1. PICK c \in DetailedEndcapFiles :
        \E v : DetailedEndcapMakes(built, c, v) /\ detector = DetailedEndcap(c, v)
  BY DEF DetailedEndcapMade
<1>2. PICK v : DetailedEndcapMakes(built, c, v) /\ detector = DetailedEndcap(c, v)
  BY <1>1
<1> DEFINE Is(s, p) == s = [at |-> p, ids |-> DiskIds(c, v, p),
                            pos |-> p[1] * SensorDepth(c, v, p)]
<1>3. \A s \in detector.sensors : \E p \in DiskSensorPlaces(c) : Is(s, p)
  BY <1>2 DEF DetailedEndcap
<1>4. v \in {"petal", "disk", "group"}
  BY <1>2 DEF DetailedEndcapMakes
<1>5. ASSUME NEW s \in detector.sensors, NEW t \in detector.sensors, s.ids = t.ids
      PROVE  s = t
  <2>1. PICK p \in DiskSensorPlaces(c) : Is(s, p)
    BY <1>3
  <2>2. PICK q \in DiskSensorPlaces(c) : Is(t, q)
    BY <1>3
  <2>3. DiskIds(c, v, p) = DiskIds(c, v, q)
    BY <1>5, <2>1, <2>2
  <2>4. p[2] = q[2] /\ p[3] = q[3] /\ p[4] = q[4]
    BY <1>2, <2>3, DiskIdsTell
  <2>5. p[1] = q[1]
    BY <1>4, <2>3, DiskIdsAre
  <2>6. p = <<p[1], p[2], p[3], p[4]>> /\ q = <<q[1], q[2], q[3], q[4]>>
    BY DiskSensorPlacesAre, Zenon
  <2>7. p = q
    BY <2>4, <2>5, <2>6, Zenon
  <2> QED
    BY <2>1, <2>2, <2>7
<1>6. ASSUME NEW s \in detector.sensors, NEW t \in detector.sensors,
             \A f \in DOMAIN s.ids : f \in SideFields <=> s.ids[f] # t.ids[f]
      PROVE  t.pos = -s.pos
  <2>1. PICK p \in DiskSensorPlaces(c) : Is(s, p)
    BY <1>3
  <2>2. PICK q \in DiskSensorPlaces(c) : Is(t, q)
    BY <1>3
  <2>3. \A f \in DetailedEndcapFields(v) :
          f \in SideFields <=> DiskIds(c, v, p)[f] # DiskIds(c, v, q)[f]
    BY <1>4, <1>6, <2>1, <2>2, DiskIdsAre
  <2>4. \A f \in DetailedEndcapFields(v) : f # "side" => f \notin SideFields
    BY DEF DetailedEndcapFields, SideFields
  <2>5. \A f \in DetailedEndcapFields(v) \ {"side"} : DiskIds(c, v, p)[f] = DiskIds(c, v, q)[f]
    BY <2>3, <2>4
  <2>6. p[2] = q[2] /\ p[3] = q[3] /\ p[4] = q[4]
    BY <1>2, <2>5, DiskIdsTell
  <2>7. p[1] # q[1]
    <3>1. "side" \in DetailedEndcapFields(v) /\ "side" \in SideFields
      BY DEF DetailedEndcapFields, SideFields
    <3>2. DiskIds(c, v, p)["side"] # DiskIds(c, v, q)["side"]
      BY <2>3, <3>1
    <3> QED
      BY <1>4, <3>2, DiskIdsAre
  <2>8. p[1] \in {1, -1} /\ q[1] \in {1, -1}
    BY DiskSensorPlacesAre DEF Sides
  <2>9. SensorDepth(c, v, p) = SensorDepth(c, v, q) /\ SensorDepth(c, v, p) \in Int
    BY <2>6, SensorDepthIs DEF SensorDepth
  <2>10. s.pos = p[1] * SensorDepth(c, v, p) /\ t.pos = q[1] * SensorDepth(c, v, p)
    BY <2>1, <2>2, <2>9
  <2> QED
    BY <2>7, <2>8, <2>9, <2>10
<1>7. CellIdsNameOneSensor
  BY <1>5, NameOneSensor
<1>8. OtherSideIsMirrored
  BY <1>2, <1>6, SideIsMirrored DEF DetailedEndcapMakes
<1> QED
  BY <1>7, <1>8

-----------------------------------------------------------------------------
(* Turbines.                                                               *)

LEMMA TurbinePlacesAre ==
  ASSUME NEW c \in TurbineFiles, NEW v, NEW p \in TurbinePlaces(c, v)
  PROVE  /\ p = <<p[1], p[2], p[3], p[4], p[5], p[6]>>
         /\ p[1] \in Wheels(c) /\ p[1] \in Nat /\ Standing(c, v, p[1])
         /\ p[2] \in 0..(Wheel(c, p[1]).ncells - 1) /\ p[3] \in {0, 1}
         /\ p[4] \in 0..(NLayers(c, v, p[1]) - 1) /\ p[5] \in 0..3 /\ p[6] \in {-1, 1}
<1>1. PICK w \in {u \in Wheels(c) : Standing(c, v, u)} :
        p \in {<<w, i, type, k, part, side>> :
                 i \in 0..(Wheel(c, w).ncells - 1), type \in {0, 1},
                 k \in 0..(NLayers(c, v, w) - 1), part \in 0..3, side \in {-1, 1}}
  BY DEF TurbinePlaces
<1>2. PICK i \in 0..(Wheel(c, w).ncells - 1), type \in {0, 1},
           k \in 0..(NLayers(c, v, w) - 1), part \in 0..3, side \in {-1, 1} :
        p = <<w, i, type, k, part, side>>
  BY <1>1
<1>3. Len(c.wheels) \in Nat
  BY TurbineFilesAssumption, Lists DEF IsTurbineFile
<1>4. w \in Nat
  BY <1>3 DEF Wheels
<1> QED
  BY <1>2, <1>4

LEMMA ModIndicesTell ==
  ASSUME NEW n \in Nat, NEW i \in 0..(n - 1), NEW j \in 0..(n - 1)
  PROVE  /\ ModIndex(n, i) \in 0..(n - 1)
         /\ ModIndex(n, i) = ModIndex(n, j) => i = j
<1>1. n \div 2 \in Nat /\ n \div 2 <= n
  OBVIOUS
<1> DEFINE h == n \div 2
<1>2. h \in Nat /\ h <= n
  BY <1>1
<1>3. /\ ModIndex(n, i) = IF i - h < 0 THEN i - h + n ELSE i - h
      /\ ModIndex(n, j) = IF j - h < 0 THEN j - h + n ELSE j - h
  BY DEF ModIndex
<1> HIDE DEF h
<1> QED
  BY <1>2, <1>3

\* So does the number that is further apart.
LEMMA ModulesTell ==
  ASSUME NEW n \in Nat, NEW m \in Nat, n > 0, m > 0, m % n = 0,
         NEW i \in Nat, NEW j \in Nat, (i * m) \div n = (j * m) \div n
  PROVE  i = j
<1> DEFINE k == m \div n
<1>1. k \in Int /\ k * n = m
  BY Divides
<1>2. k > 0
  <2> HIDE DEF k
  <2> QED
    BY <1>1
<1>3. ASSUME NEW x \in Nat
      PROVE  (x * m) \div n = x * k
  <2> HIDE DEF k
  <2>1. x * k \in Int /\ x * m = (x * k) * n
    BY <1>1
  <2>2. ((x * k) * n) \div n = x * k
    BY <2>1, Divides
  <2> QED
    BY <2>1, <2>2
<1>4. i * k = j * k
  BY <1>3
<1> HIDE DEF k
<1>5. k * (i - j) = 0
  BY <1>1, <1>4
<1> QED
  BY <1>1, <1>2, <1>5

LEMMA BaselinesAre ==
  ASSUME NEW c \in TurbineFiles, NEW v, v.own \in BOOLEAN, NEW w \in Wheels(c)
  PROVE  LayerIndexBaseline(c, v, w) \in Int
<1> DEFINE t == [u \in 1..w |-> NLayers(c, v, u - 1)]
<1>1. Len(c.wheels) \in Nat /\ DOMAIN c.wheels = 1..Len(c.wheels)
  BY TurbineFilesAssumption, Lists DEF IsTurbineFile
<1>2. w \in Nat /\ w < Len(c.wheels)
  BY <1>1 DEF Wheels
<1>3. ASSUME NEW u \in 1..w
      PROVE  NLayers(c, v, u - 1) \in Nat
  <2>1. u \in DOMAIN c.wheels /\ u - 1 + 1 = u
    BY <1>1, <1>2
  <2>2. c.wheels[u].nrho \in Nat /\ c.wheels[u].nz \in Nat /\ c.nlayers \in Nat
    BY <2>1, TurbineFilesAssumption DEF IsTurbineFile
  <2>3. Wheel(c, u - 1) = c.wheels[u]
    BY <2>1 DEF Wheel
  <2>4. NRho(c, v, u - 1) \in Nat /\ NZ(c, v, u - 1) \in Nat
    BY <2>2, <2>3 DEF NRho, NZ
  <2> QED
    BY <2>4 DEF NLayers
<1>4. Len(t) = w
  BY <1>2, LenOfRow
<1>5. \A u \in 1..Len(t) : t[u] \in Nat
  BY <1>3, <1>4, Zenon
<1>6. Total(t) \in Nat
  <2> HIDE DEF t
  <2> QED
    BY <1>2, <1>4, <1>5, SumsGrow DEF Total
<1>7. LayerIndexBaseline(c, v, w) = Total(t)
  BY Zenon DEF LayerIndexBaseline, Sum
<1> QED
  BY <1>6, <1>7

\* But for type and subtype, cell ids say where in the turbine a part is: a gap, or,
\* if the wheels have layers of their own, any other.
LEMMA CellIdsSayWhere ==
  ASSUME NEW c \in TurbineFiles, NEW v, v.own \in BOOLEAN,
         NEW p \in TurbinePlaces(c, v), NEW q \in TurbinePlaces(c, v),
         v.own \/ (<<p[3], p[5]>> = Gap /\ <<q[3], q[5]>> = Gap),
         CellIds(c, v, p) = CellIds(c, v, q)
  PROVE  p[1] = q[1] /\ p[2] = q[2] /\ p[4] = q[4] /\ p[6] = q[6]
<1> DEFINE n == Wheel(c, p[1]).ncells
           module(x) == IF v.modules = "least common multiple"
                        THEN (ModIndex(n, x) * c.leastCommonMultiple) \div n
                        ELSE ModIndex(n, x)
<1>1. p[1] = q[1] /\ p[6] = q[6]
  BY DEF CellIds
<1>2. /\ module(p[2]) = module(q[2])
      /\ LayerIndexBaseline(c, v, p[1]) + p[4] = LayerIndexBaseline(c, v, p[1]) + q[4]
  <2>1. module(p[2]) = module(q[2])
    BY <1>1 DEF CellIds
  <2>2. BladeLayer(c, v, p) = BladeLayer(c, v, q)
    BY DEF CellIds
  <2>3. ASSUME NEW r \in TurbinePlaces(c, v), v.own \/ <<r[3], r[5]>> = Gap
        PROVE  BladeLayer(c, v, r) = LayerIndexBaseline(c, v, r[1]) + r[4]
    <3>1. r[3] \in {0, 1} /\ r[4] \in Int /\ LayerIndexBaseline(c, v, r[1]) \in Int
      BY TurbinePlacesAre, BaselinesAre
    <3>2. v.own => NonActiveLayer(c, v, r) = LayerIndexBaseline(c, v, r[1]) + r[4]
      BY <3>1 DEF NonActiveLayer
    <3>3. ~v.own => r[3] = 0 /\ r[5] = 0
      BY <2>3 DEF Gap
    <3> QED
      BY <3>1, <3>2, <3>3 DEF BladeLayer
  <2>4. BladeLayer(c, v, p) = LayerIndexBaseline(c, v, p[1]) + p[4]
    BY <2>3
  <2>5. BladeLayer(c, v, q) = LayerIndexBaseline(c, v, q[1]) + q[4]
    BY <2>3
  <2> QED
    BY <1>1, <2>1, <2>2, <2>4, <2>5
<1>3. p[4] \in Int /\ q[4] \in Int /\ LayerIndexBaseline(c, v, p[1]) \in Int
  BY TurbinePlacesAre, BaselinesAre
<1>4. p[4] = q[4]
  <2>1. \A m, x, y \in Int : m + x = m + y => x = y
    OBVIOUS
  <2>2. LayerIndexBaseline(c, v, p[1]) + p[4] = LayerIndexBaseline(c, v, p[1]) + q[4]
    BY <1>2
  <2> QED
    BY <1>3, <2>1, <2>2
<1>5. p[2] \in 0..(n - 1) /\ q[2] \in 0..(n - 1)
  BY <1>1, TurbinePlacesAre
<1>6. /\ n \in Nat /\ c.leastCommonMultiple \in Nat
      /\ n > 0 => c.leastCommonMultiple > 0 /\ c.leastCommonMultiple % n = 0
  <2>1. Len(c.wheels) \in Nat /\ DOMAIN c.wheels = 1..Len(c.wheels)
    BY TurbineFilesAssumption, Lists DEF IsTurbineFile
  <2>2. p[1] + 1 \in DOMAIN c.wheels
    <3>1. p[1] \in 0..(Len(c.wheels) - 1)
      BY TurbinePlacesAre DEF Wheels
    <3> QED
      BY <2>1, <3>1
  <2> QED
    BY <2>2, TurbineFilesAssumption DEF IsTurbineFile, Wheel
<1>7. n > 0
  BY <1>5, <1>6
<1> HIDE DEF n
<1>8. ModIndex(n, p[2]) \in Nat /\ ModIndex(n, q[2]) \in Nat
  <2>1. ModIndex(n, p[2]) \in 0..(n - 1) /\ ModIndex(n, q[2]) \in 0..(n - 1)
    BY <1>5, <1>6, ModIndicesTell, Zenon
  <2> QED
    BY <1>6, <2>1
<1>9. ModIndex(n, p[2]) = ModIndex(n, q[2])
  <2>1. CASE v.modules = "least common multiple"
    BY <1>2, <1>6, <1>7, <1>8, <2>1, ModulesTell
  <2>2. CASE v.modules # "least common multiple"
    BY <1>2, <2>2
  <2> QED
    BY <2>1, <2>2
<1>10. p[2] = q[2]
  BY <1>5, <1>6, <1>9, ModIndicesTell
<1> QED
  BY <1>1, <1>4, <1>10

\* In the last version so do type and subtype for the part.
LEMMA PartsTell ==
  ASSUME NEW c \in TurbineFiles, NEW v, v.readout = 2, v.subtypes = <<0, 2, 1>>,
         NEW p, NEW q, IsSensitive(c, v, p), IsSensitive(c, v, q),
         p[3] \in {0, 1}, q[3] \in {0, 1}, p[5] \in 0..3, q[5] \in 0..3,
         CellIds(c, v, p) = CellIds(c, v, q)
  PROVE  p[3] = q[3] /\ p[5] = q[5]
<1> DEFINE type(x) == IF x[3] = 0 /\ x[5] = 1 THEN Or(0, v.readout) ELSE x[3]
           subtype(x) == IF x[3] = 0 THEN 0 ELSE Subtype(v, x[5])
<1>1. type(p) = type(q) /\ subtype(p) = subtype(q)
  BY DEF CellIds
<1>2. Or(0, v.readout) = 2
  BY DEF Or
<1>3. Subtype(v, 1) = 0 /\ Subtype(v, 2) = 2 /\ Subtype(v, 3) = 3
  BY DEF Subtype, Or
<1>4. /\ p[3] = 0 => p[5] \in {0, 1}
      /\ p[3] = 1 => p[5] \in {1, 2, 3}
      /\ q[3] = 0 => q[5] \in {0, 1}
      /\ q[3] = 1 => q[5] \in {1, 2, 3}
  <2>1. c.sensitive \subseteq {Gap} \cup NonActive
    BY TurbineFilesAssumption DEF IsTurbineFile
  <2> QED
    BY <2>1 DEF IsSensitive, Gap, NonActive, Electrode, Cladding, Glue, Absorber
<1>5. type(p) = type(q) => p[3] = q[3]
  BY <1>2
<1>6. CASE p[3] = 0
  BY <1>1, <1>2, <1>4, <1>5, <1>6
<1>7. CASE p[3] = 1
  BY <1>1, <1>3, <1>4, <1>5, <1>7
<1> QED
  BY <1>6, <1>7

\* What holds the liquid: the tubes, and the walls of the cryostat.
TubeOf(c, v, w, side) == Support(c, <<w, side>>, side, w, 0, SupportTube(c, v, w))
WallOf(c, v, w, side) ==
  Support(c, <<SideType[w], 0, side>>, side, 0, (4 + SideType[w]) % 8, TurbineWalls(c, v)[w])

LEMMA TubesAre ==
  ASSUME NEW c \in TurbineFiles, NEW v, NEW s \in TubeSensors(c, v)
  PROVE  \E w \in Wheels(c), side \in {-1, 1} : s = TubeOf(c, v, w, side)
<1>1. PICK w \in IF c.tubeSensitive THEN Wheels(c) ELSE {}, side \in {-1, 1} :
             s = Support(c, <<w, side>>, side, w, 0, SupportTube(c, v, w))
  BY DEF TubeSensors
<1>2. w \in Wheels(c)
  OBVIOUS
<1>3. s = TubeOf(c, v, w, side)
  BY <1>1 DEF TubeOf
<1> QED
  BY <1>2, <1>3

LEMMA WallNames ==
  ASSUME NEW c, NEW v
  PROVE  DOMAIN TurbineWalls(c, v) = IF v.free THEN {"front", "back", "inner", "outer"}
                                     ELSE {"front", "back", "side"}
BY DEF TurbineWalls

LEMMA TurbineWallsAre ==
  ASSUME NEW c \in TurbineFiles, NEW v, NEW s \in WallSensors(c, v)
  PROVE  \E w \in DOMAIN TurbineWalls(c, v), side \in {-1, 1} : s = WallOf(c, v, w, side)
BY DEF WallSensors, WallOf

\* The walls have different types, but that of the outer one is that of a tube.
LEMMA SideTypesTell ==
  ASSUME NEW c, NEW v, NEW w \in DOMAIN TurbineWalls(c, v), NEW u \in DOMAIN TurbineWalls(c, v)
  PROVE  /\ (4 + SideType[w]) % 8 = (4 + SideType[u]) % 8 => w = u
         /\ (4 + SideType[w]) % 8 = 0 => w = "outer" /\ v.free
<1>1. /\ SideType["front"] = 1 /\ SideType["back"] = 2 /\ SideType["side"] = 3
      /\ SideType["inner"] = 3 /\ SideType["outer"] = 4
  BY DEF SideType
<1>2. (4 + 1) % 8 = 5 /\ (4 + 2) % 8 = 6 /\ (4 + 3) % 8 = 7 /\ (4 + 4) % 8 = 0
  OBVIOUS
<1> QED
  BY <1>1, <1>2, WallNames

\* A part of the turbine sits z behind the middle of the side its ids name.
SitsOnSide(s, c, side, z) ==
  /\ s.ids.side = side /\ side \in {-1, 1}
  /\ z \in Int /\ s.pos = side * (2 * c.z + z)

LEMMA MirroredOpposite ==
  ASSUME NEW c, c.z \in Int, NEW s, NEW t, NEW a, NEW b, NEW z,
         SitsOnSide(s, c, a, z), SitsOnSide(t, c, b, z), a # b
  PROVE  t.pos = -s.pos
<1> DEFINE x == 2 * c.z + z
<1>1. x \in Int /\ s.pos = a * x /\ t.pos = b * x /\ a \in {-1, 1} /\ b \in {-1, 1}
  BY DEF SitsOnSide
<1> HIDE DEF x
<1> QED
  BY <1>1

\* What is sensitive in a turbine: blades, tubes or walls.
LEMMA BladeIs ==
  ASSUME NEW c, NEW v, NEW p
  PROVE  /\ DOMAIN Sensor(c, v, p).ids =
              {"cryo", "wheel", "side", "module", "layer", "type", "subtype"}
         /\ Sensor(c, v, p).at = p /\ Sensor(c, v, p).ids = CellIds(c, v, p)
         /\ Sensor(c, v, p).ids.cryo = 0 /\ Sensor(c, v, p).ids.side = p[6]
         /\ Sensor(c, v, p).pos = p[6] * (2 * c.z + MiddleZ(c, v))
BY DEF Sensor, CellIds

LEMMA TubeIs ==
  ASSUME NEW c, NEW v, NEW w, NEW side
  PROVE  LET s == TubeOf(c, v, w, side)
         IN /\ DOMAIN s.ids = {"cryo", "wheel", "side", "module", "layer", "type", "subtype"}
            /\ s.at = <<w, side>>
            /\ s.ids.cryo = 1 /\ s.ids.side = side /\ s.ids.wheel = w /\ s.ids.type = 0
            /\ s.pos = side * (2 * c.z + SupportTube(c, v, w).middle)
BY DEF TubeOf, Support

LEMMA WallIs ==
  ASSUME NEW c, NEW v, NEW w, NEW side
  PROVE  LET s == WallOf(c, v, w, side)
         IN /\ DOMAIN s.ids = {"cryo", "wheel", "side", "module", "layer", "type", "subtype"}
            /\ s.at = <<SideType[w], 0, side>>
            /\ s.ids.cryo = 1 /\ s.ids.side = side /\ s.ids.type = (4 + SideType[w]) % 8
            /\ s.pos = side * (2 * c.z + TurbineWalls(c, v)[w].middle)
BY DEF WallOf, Support

LEMMA TurbineMiddles ==
  ASSUME NEW c \in TurbineFiles, NEW v, {v.free, v.centred} \subseteq BOOLEAN
  PROVE  /\ MiddleZ(c, v) \in Int
         /\ \A w \in Wheels(c) : SupportTube(c, v, w).middle \in Int
         /\ \A w \in DOMAIN TurbineWalls(c, v) : TurbineWalls(c, v)[w].middle \in Int
<1>1. {c.z, c.bathHalf, c.cryoHalf, c.supportGap, c.freeFront, c.freeBack,
       c.wallFront, c.wallBack} \subseteq Nat
  BY TurbineFilesAssumption DEF IsTurbineFile
<1>2. BathMiddle(c, v) \in Int /\ MiddleZ(c, v) \in Int
  BY <1>1 DEF BathMiddle, MiddleZ
<1>3. \A w \in Wheels(c) : SupportTube(c, v, w).middle \in Int
  BY <1>1, <1>2 DEF SupportTube
<1>4. ASSUME NEW w \in DOMAIN TurbineWalls(c, v)
      PROVE  TurbineWalls(c, v)[w].middle \in Int
  <2> DEFINE middle == IF v.centred THEN BathMiddle(c, v) ELSE 0
             out(t) == 2 * c.bathHalf + (IF v.centred THEN t ELSE 0)
  <2>1. /\ middle \in Int /\ middle - out(c.wallFront) \in Int /\ middle + out(c.wallBack) \in Int
    BY <1>1, <1>2
  <2>2. CASE v.free
    <3>1. /\ TurbineWalls(c, v)["front"].middle = middle - out(c.wallFront)
          /\ TurbineWalls(c, v)["back"].middle = middle + out(c.wallBack)
          /\ TurbineWalls(c, v)["inner"].middle = middle
          /\ TurbineWalls(c, v)["outer"].middle = middle
      BY <2>2 DEF TurbineWalls
    <3> HIDE DEF middle, out
    <3> QED
      BY <2>1, <2>2, <3>1, WallNames
  <2>3. CASE ~v.free
    <3>1. /\ TurbineWalls(c, v)["front"].middle = 0
          /\ TurbineWalls(c, v)["back"].middle = 0
          /\ TurbineWalls(c, v)["side"].middle = 0
      BY <2>3 DEF TurbineWalls
    <3> QED
      BY <2>3, <3>1, WallNames
  <2> QED
    BY <2>2, <2>3
<1> QED
  BY <1>2, <1>3, <1>4

LEMMA TurbinesDiffer ==
  ASSUME TurbineMade
  PROVE  CellIdsNameOneSensor /\ OtherSideIsMirrored
<1>1. PICK c \in TurbineFiles : \E v, stacks :
        TurbineMakes(built, c, v) /\ detector = Turbine(c, v, stacks)
  BY DEF TurbineMade
<1>2. PICK v, stacks : TurbineMakes(built, c, v) /\ detector = Turbine(c, v, stacks)
  BY <1>1
<1> DEFINE places == {p \in TurbinePlaces(c, v) : IsSensitive(c, v, p)}
           blades == {Sensor(c, v, p) : p \in places}
<1>3. detector.sensors = blades \cup TubeSensors(c, v) \cup WallSensors(c, v)
  BY <1>2, Zenon DEF Turbine
<1>4. /\ v.own \in BOOLEAN /\ {v.free, v.centred} \subseteq BOOLEAN
      /\ built # "CaloThreePartsEndcap_o1_v02"
      /\ v.free => built \in {"ECalEndcap_Turbine_o1_v02", "ECalEndcap_Turbine_o1_v03"}
      /\ built \notin FirstTurbines => v.own /\ v.readout = 2 /\ v.subtypes = <<0, 2, 1>>
  BY <1>2, Zenon DEF TurbineMakes, FirstTurbines
<1> HIDE DEF places, blades
<1>5. \A s \in blades : \E p \in places : s = Sensor(c, v, p)
  BY DEF blades
<1>6. \A p \in places : p \in TurbinePlaces(c, v) /\ IsSensitive(c, v, p)
  BY DEF places
\* Of the first versions only the gaps are left.
<1>7. ASSUME built \in FirstTurbines, ~MoreThanTheGaps, NEW p \in places
      PROVE  <<p[3], p[5]>> = Gap
  <2>1. Sensor(c, v, p) \in detector.sensors
    BY <1>3 DEF blades
  <2>2. p[5] = 0
    BY <1>7, <2>1, BladeIs DEF MoreThanTheGaps
  <2>3. <<p[3], p[5]>> \in {Gap} \cup NonActive
    BY <1>6, TurbineFilesAssumption DEF IsSensitive, IsTurbineFile
  <2> QED
    BY <2>2, <2>3 DEF Gap, NonActive, Electrode, Cladding, Glue, Absorber
<1>8. ASSUME NEW s \in blades
      PROVE  /\ s.ids.cryo = 0
             /\ SitsOnSide(s, c, s.ids.side, MiddleZ(c, v))
             /\ DOMAIN s.ids = {"cryo", "wheel", "side", "module", "layer", "type", "subtype"}
  <2>1. PICK p \in places : s = Sensor(c, v, p)
    BY <1>5
  <2>2. p[6] \in {-1, 1}
    BY <1>6, TurbinePlacesAre
  <2>3. MiddleZ(c, v) \in Int
    BY <1>4, TurbineMiddles
  <2> QED
    BY <2>1, <2>2, <2>3, BladeIs DEF SitsOnSide
<1>9. ASSUME NEW s \in TubeSensors(c, v)
      PROVE  \E w \in Wheels(c), side \in {-1, 1} :
               /\ s = TubeOf(c, v, w, side) /\ s.ids.cryo = 1 /\ s.ids.type = 0
               /\ s.ids.wheel = w /\ s.ids.side = side /\ Len(s.at) = 2
               /\ SitsOnSide(s, c, side, SupportTube(c, v, w).middle)
               /\ DOMAIN s.ids = {"cryo", "wheel", "side", "module", "layer", "type", "subtype"}
  <2>1. PICK w \in Wheels(c), side \in {-1, 1} : s = TubeOf(c, v, w, side)
    BY TubesAre
  <2>2. SupportTube(c, v, w).middle \in Int
    BY <1>4, TurbineMiddles
  <2>3. Len(<<w, side>>) = 2
    OBVIOUS
  <2>4. /\ s = TubeOf(c, v, w, side) /\ s.ids.cryo = 1 /\ s.ids.type = 0
        /\ s.ids.wheel = w /\ s.ids.side = side /\ Len(s.at) = 2
        /\ DOMAIN s.ids = {"cryo", "wheel", "side", "module", "layer", "type", "subtype"}
    <3>1. s.at = <<w, side>>
      BY <2>1, TubeIs
    <3>2. Len(s.at) = 2
      BY <2>3, <3>1
    <3> QED
      BY <2>1, <3>2, TubeIs
  <2>5. SitsOnSide(s, c, side, SupportTube(c, v, w).middle)
    BY <2>1, <2>2, TubeIs DEF SitsOnSide
  <2> QED
    BY <2>4, <2>5
<1>10. ASSUME NEW s \in WallSensors(c, v)
       PROVE  \E w \in DOMAIN TurbineWalls(c, v), side \in {-1, 1} :
                /\ s = WallOf(c, v, w, side) /\ s.ids.cryo = 1
                /\ s.ids.type = (4 + SideType[w]) % 8
                /\ s.ids.side = side /\ Len(s.at) = 3
                /\ SitsOnSide(s, c, side, TurbineWalls(c, v)[w].middle)
                /\ DOMAIN s.ids = {"cryo", "wheel", "side", "module", "layer", "type", "subtype"}
  <2>1. PICK w \in DOMAIN TurbineWalls(c, v), side \in {-1, 1} : s = WallOf(c, v, w, side)
    BY TurbineWallsAre
  <2>2. TurbineWalls(c, v)[w].middle \in Int
    BY <1>4, TurbineMiddles
  <2>3. Len(<<SideType[w], 0, side>>) = 3
    OBVIOUS
  <2>4. /\ s = WallOf(c, v, w, side) /\ s.ids.cryo = 1
        /\ s.ids.type = (4 + SideType[w]) % 8
        /\ s.ids.side = side /\ Len(s.at) = 3
        /\ DOMAIN s.ids = {"cryo", "wheel", "side", "module", "layer", "type", "subtype"}
    <3>1. s.at = <<SideType[w], 0, side>>
      BY <2>1, WallIs
    <3>2. Len(s.at) = 3
      BY <2>3, <3>1
    <3> QED
      BY <2>1, <3>2, WallIs
  <2>5. SitsOnSide(s, c, side, TurbineWalls(c, v)[w].middle)
    BY <2>1, <2>2, WallIs DEF SitsOnSide
  <2> QED
    BY <2>4, <2>5
\* A tube and a wall have different types, but for the outer wall's.
<1>11. ASSUME ~OuterWallIsATube, NEW s \in TubeSensors(c, v), NEW t \in WallSensors(c, v)
       PROVE  s.ids.type # t.ids.type
  <2>1. s.ids.cryo = 1 /\ s.ids.type = 0 /\ Len(s.at) = 2
    BY <1>9
  <2>2. PICK w \in DOMAIN TurbineWalls(c, v) :
          t.ids.cryo = 1 /\ t.ids.type = (4 + SideType[w]) % 8 /\ Len(t.at) = 3
    BY <1>10
  <2> SUFFICES ASSUME t.ids.type = 0 PROVE FALSE
    BY <2>1
  <2>3. v.free
    BY <2>2, SideTypesTell
  <2>4. s \in detector.sensors /\ t \in detector.sensors
    BY <1>3
  <2>5. {t.ids.cryo, s.ids.cryo} = {1}
    BY <2>1, <2>2
  <2> QED
    BY <1>4, <1>11, <2>1, <2>2, <2>3, <2>4, <2>5 DEF OuterWallIsATube
\* So two sensors whose ids differ in no more than the side are of one kind, and
\* are at one place of it.
<1> DEFINE same(s, t) == s.ids.cryo = t.ids.cryo /\ s.ids.wheel = t.ids.wheel
                         /\ s.ids.type = t.ids.type
<1>12. ASSUME ~OuterWallIsATube, NEW s \in detector.sensors, NEW t \in detector.sensors,
              same(s, t)
       PROVE  \/ s \in blades /\ t \in blades
              \/ \E w \in Wheels(c) :
                   /\ s = TubeOf(c, v, w, s.ids.side) /\ t = TubeOf(c, v, w, t.ids.side)
                   /\ SitsOnSide(s, c, s.ids.side, SupportTube(c, v, w).middle)
                   /\ SitsOnSide(t, c, t.ids.side, SupportTube(c, v, w).middle)
              \/ \E w \in DOMAIN TurbineWalls(c, v) :
                   /\ s = WallOf(c, v, w, s.ids.side) /\ t = WallOf(c, v, w, t.ids.side)
                   /\ SitsOnSide(s, c, s.ids.side, TurbineWalls(c, v)[w].middle)
                   /\ SitsOnSide(t, c, t.ids.side, TurbineWalls(c, v)[w].middle)
  <2>1. CASE s \in blades
    <3>1. t \notin TubeSensors(c, v) /\ t \notin WallSensors(c, v)
      BY <1>8, <1>9, <1>10, <1>12, <2>1
    <3> QED
      BY <1>3, <2>1, <3>1
  <2>2. CASE s \in TubeSensors(c, v)
    <3>1. t \in TubeSensors(c, v)
      BY <1>3, <1>8, <1>9, <1>11, <1>12, <2>2
    <3>2. PICK w \in Wheels(c) :
            /\ s = TubeOf(c, v, w, s.ids.side) /\ s.ids.wheel = w
            /\ SitsOnSide(s, c, s.ids.side, SupportTube(c, v, w).middle)
      BY <1>9, <2>2
    <3>3. PICK u \in Wheels(c) :
            /\ t = TubeOf(c, v, u, t.ids.side) /\ t.ids.wheel = u
            /\ SitsOnSide(t, c, t.ids.side, SupportTube(c, v, u).middle)
      BY <1>9, <3>1
    <3>4. w = u
      BY <1>12, <3>2, <3>3
    <3> QED
      BY <3>2, <3>3, <3>4
  <2>3. CASE s \in WallSensors(c, v)
    <3>1. t \in WallSensors(c, v)
      BY <1>3, <1>8, <1>10, <1>11, <1>12, <2>3
    <3>2. PICK w \in DOMAIN TurbineWalls(c, v) :
            /\ s = WallOf(c, v, w, s.ids.side) /\ s.ids.type = (4 + SideType[w]) % 8
            /\ SitsOnSide(s, c, s.ids.side, TurbineWalls(c, v)[w].middle)
      BY <1>10, <2>3
    <3>3. PICK u \in DOMAIN TurbineWalls(c, v) :
            /\ t = WallOf(c, v, u, t.ids.side) /\ t.ids.type = (4 + SideType[u]) % 8
            /\ SitsOnSide(t, c, t.ids.side, TurbineWalls(c, v)[u].middle)
      BY <1>10, <3>1
    <3>4. w = u
      <4>1. (4 + SideType[w]) % 8 = (4 + SideType[u]) % 8
        BY <1>12, <3>2, <3>3, Zenon
      <4> QED
        BY <4>1, SideTypesTell, Zenon
    <3> QED
      BY <3>2, <3>3, <3>4
  <2> QED
    BY <1>3, <2>1, <2>2, <2>3
<1>13. ASSUME ~MoreThanTheGaps, NEW s \in blades, NEW t \in blades, s.ids = t.ids
       PROVE  s = t
  <2>1. PICK p \in places : s = Sensor(c, v, p)
    BY <1>5
  <2>2. PICK q \in places : t = Sensor(c, v, q)
    BY <1>5
  <2>3. CellIds(c, v, p) = CellIds(c, v, q)
    BY <1>13, <2>1, <2>2, BladeIs
  <2>4. v.own \/ (<<p[3], p[5]>> = Gap /\ <<q[3], q[5]>> = Gap)
    BY <1>4, <1>7, <1>13
  <2>5. p[1] = q[1] /\ p[2] = q[2] /\ p[4] = q[4] /\ p[6] = q[6]
    BY <1>4, <1>6, <2>3, <2>4, CellIdsSayWhere
  <2>6. p[3] = q[3] /\ p[5] = q[5]
    <3>1. CASE built \in FirstTurbines
      <4>1. <<p[3], p[5]>> = <<0, 0>> /\ <<q[3], q[5]>> = <<0, 0>>
        BY <1>7, <1>13, <3>1 DEF Gap
      <4> QED
        BY <4>1
    <3>2. CASE built \notin FirstTurbines
      <4>1. /\ p[3] \in {0, 1} /\ q[3] \in {0, 1} /\ p[5] \in 0..3 /\ q[5] \in 0..3
            /\ IsSensitive(c, v, p) /\ IsSensitive(c, v, q)
        BY <1>6, TurbinePlacesAre
      <4> QED
        BY <1>4, <2>3, <3>2, <4>1, PartsTell
    <3> QED
      BY <3>1, <3>2
  <2>7. /\ p = <<p[1], p[2], p[3], p[4], p[5], p[6]>>
        /\ q = <<q[1], q[2], q[3], q[4], q[5], q[6]>>
    BY <1>6, TurbinePlacesAre
  <2> QED
    BY <2>1, <2>2, <2>5, <2>6, <2>7
<1>14. ASSUME ~MoreThanTheGaps, ~OuterWallIsATube,
              NEW s \in detector.sensors, NEW t \in detector.sensors, s.ids = t.ids
       PROVE  s = t
  <2>1. same(s, t) /\ s.ids.side = t.ids.side
    BY <1>14
  <2> QED
    BY <1>12, <1>13, <1>14, <2>1
<1>15. CellIdsNameOneSensor
  BY <1>14 DEF CellIdsNameOneSensor
<1>16. c.z \in Int
  BY TurbineFilesAssumption DEF IsTurbineFile
<1>17. ASSUME ~OuterWallIsATube, NEW s \in detector.sensors, NEW t \in detector.sensors,
              \A f \in DOMAIN s.ids : f \in SideFields <=> s.ids[f] # t.ids[f]
       PROVE  t.pos = -s.pos
  <2>1. DOMAIN s.ids = {"cryo", "wheel", "side", "module", "layer", "type", "subtype"}
    BY <1>3, <1>8, <1>9, <1>10
  <2>2. same(s, t) /\ s.ids.side # t.ids.side
    BY <1>17, <2>1 DEF SideFields
  <2>3. \E z : SitsOnSide(s, c, s.ids.side, z) /\ SitsOnSide(t, c, t.ids.side, z)
    <3>1. CASE s \in blades /\ t \in blades
      BY <1>8, <3>1
    <3>2. CASE ~(s \in blades /\ t \in blades)
      BY <1>12, <1>17, <2>2, <3>2
    <3> QED
      BY <3>1, <3>2
  <2> QED
    BY <1>16, <2>2, <2>3, MirroredOpposite
<1>18. OtherSideIsMirrored
  <2>1. CASE OuterWallIsATube
    BY <2>1 DEF OtherSideIsMirrored
  <2>2. CASE ~OuterWallIsATube
    BY <1>4, <1>17, <2>2, SideIsMirrored
  <2> QED
    BY <2>1, <2>2
<1> QED
  BY <1>15, <1>18

-----------------------------------------------------------------------------
(* Plates in noble liquid.                                                 *)

PartNames == {"gap", "readout", "first", "inner", "outer", "glue"}

LEMMA PartsAre ==
  ASSUME NEW c
  PROVE  LET n == Len(LayerHeights(c))
         IN /\ Parts(c)["gap"] = Part(0, {0}, 1..n)
            /\ Parts(c)["readout"] = Part(2, {0}, 1..n)
            /\ Parts(c)["first"] = Part(1, {0}, {1})
            /\ Parts(c)["inner"] = Part(1, {0}, 2..n)
            /\ Parts(c)["outer"] = Part(1, {1, 2}, 1..n)
            /\ Parts(c)["glue"] = Part(1, {3, 4}, 1..n)
<1> DEFINE n == Len(LayerHeights(c))
           a == GapParts(n)
           b == ReadoutParts(n)
           d == AbsorberParts(n)
<1>1. /\ DOMAIN a = {"gap"} /\ DOMAIN b = {"readout"}
      /\ DOMAIN d = {"first", "inner", "outer", "glue"}
  BY DEF GapParts, ReadoutParts, AbsorberParts
<1>2. /\ a["gap"] = Part(0, {0}, 1..n) /\ b["readout"] = Part(2, {0}, 1..n)
      /\ d["first"] = Part(1, {0}, {1}) /\ d["inner"] = Part(1, {0}, 2..n)
      /\ d["outer"] = Part(1, {1, 2}, 1..n) /\ d["glue"] = Part(1, {3, 4}, 1..n)
  BY DEF GapParts, ReadoutParts, AbsorberParts
<1> HIDE DEF n, a, b, d
<1> DEFINE g == Joined(a, b)
           h == Joined(g, d)
<1>3. DOMAIN g = {"gap", "readout"} /\ g["gap"] = a["gap"] /\ g["readout"] = b["readout"]
  <2>1. /\ DOMAIN g = DOMAIN a \cup DOMAIN b
        /\ \A f \in DOMAIN a : g[f] = a[f]
        /\ \A f \in (DOMAIN b) \ (DOMAIN a) : g[f] = b[f]
    BY JoinedFields, Zenon
  <2> HIDE DEF g
  <2> QED
    BY <1>1, <2>1
<1>4. /\ h["gap"] = a["gap"] /\ h["readout"] = b["readout"]
      /\ \A x \in {"first", "inner", "outer", "glue"} : h[x] = d[x]
  <2>1. /\ \A f \in DOMAIN g : h[f] = g[f]
        /\ \A f \in (DOMAIN d) \ (DOMAIN g) : h[f] = d[f]
    BY JoinedFields, Zenon
  <2> HIDE DEF g, h
  <2> QED
    BY <1>1, <1>3, <2>1
<1>5. Parts(c) = h
  BY DEF Parts, a, b, d, n
<1> HIDE DEF g, h
<1>6. /\ Parts(c)["gap"] = a["gap"] /\ Parts(c)["readout"] = b["readout"]
      /\ Parts(c)["first"] = d["first"] /\ Parts(c)["inner"] = d["inner"]
      /\ Parts(c)["outer"] = d["outer"] /\ Parts(c)["glue"] = d["glue"]
  BY <1>4, <1>5
<1> QED
  BY <1>2, <1>6 DEF n

LEMMA PartIs ==
  ASSUME NEW type, NEW subtypes, NEW layers
  PROVE  /\ Part(type, subtypes, layers).type = type
         /\ Part(type, subtypes, layers).subtypes = subtypes
         /\ Part(type, subtypes, layers).layers = layers
BY DEF Part

\* Two parts with the same type share no subtype or no layer.
LEMMA PartsDiffer ==
  ASSUME NEW c, NEW p \in PartNames, NEW q \in PartNames,
         NEW i, i \in Parts(c)[p].layers, i \in Parts(c)[q].layers,
         NEW sub, sub \in Parts(c)[p].subtypes, sub \in Parts(c)[q].subtypes,
         Parts(c)[p].type = Parts(c)[q].type
  PROVE  p = q
<1> DEFINE n == Len(LayerHeights(c))
           P(x) == Parts(c)[x]
<1>1. /\ P("gap").type = 0 /\ P("readout").type = 2
      /\ P("first").type = 1 /\ P("inner").type = 1 /\ P("outer").type = 1 /\ P("glue").type = 1
  BY PartsAre, PartIs
<1>2. /\ P("first").subtypes = {0} /\ P("inner").subtypes = {0}
      /\ P("outer").subtypes = {1, 2} /\ P("glue").subtypes = {3, 4}
  BY PartsAre, PartIs
<1>3. P("first").layers = {1} /\ P("inner").layers = 2..n
  BY PartsAre, PartIs
<1>4. ~(i \in P("first").layers /\ i \in P("inner").layers)
  BY <1>3
<1>5. P(p).type = P(q).type /\ sub \in P(p).subtypes /\ sub \in P(q).subtypes
      /\ i \in P(p).layers /\ i \in P(q).layers
  OBVIOUS
<1> HIDE DEF P
<1> QED
  BY <1>1, <1>2, <1>4, <1>5 DEF PartNames

LEMMA PartLayers ==
  ASSUME NEW c \in PlateFiles, NEW p \in PartNames, NEW i \in Parts(c)[p].layers
  PROVE  i \in Int
<1> DEFINE n == Len(LayerHeights(c))
<1>1. Parts(c)[p].layers \in {1..n, 2..n, {1}}
  BY PartsAre, PartIs DEF PartNames
<1> QED
  BY <1>1

LEMMA WallsDiffer ==
  ASSUME NEW c \in PlateFiles, NEW v,
         NEW s \in CryostatSensors(c, v), NEW t \in CryostatSensors(c, v), s.ids = t.ids
  PROVE  s = t
<1> DEFINE names == {"front", "back", "side", "inFront", "behind"}
           W == UNION {WithTheWall[x] : x \in IF c.walls[2] > c.walls[1]
                                              THEN c.cryoSensitive ELSE {}}
<1>1. W \subseteq names
  <2>1. c.cryoSensitive \subseteq {"front", "side", "back"}
    BY PlateFilesAssumption DEF IsPlateFile
  <2>2. \A x \in {"front", "side", "back"} : WithTheWall[x] \subseteq names
    BY DEF WithTheWall
  <2> QED
    BY <2>1, <2>2
<1>2. \A x, y \in names : WallType[x] = WallType[y] => x = y
  BY DEF WallType
<1>3. PICK x \in W : s = CryostatSensor(c, v, x)
  BY DEF CryostatSensors
<1>4. PICK y \in W : t = CryostatSensor(c, v, y)
  BY DEF CryostatSensors
<1>5. WallType[x] = WallType[y]
  BY <1>3, <1>4 DEF CryostatSensor
<1>6. x = y
  BY <1>1, <1>2, <1>5
<1> QED
  BY <1>3, <1>4, <1>6

LEMMA PlateSensorsAre ==
  ASSUME NEW c \in PlateFiles, NEW v, NEW s \in PlateSensors(c, v)
  PROVE  \E p \in PartNames : \E m, i, sub :
           /\ i \in Parts(c)[p].layers /\ sub \in Parts(c)[p].subtypes
           /\ s = PlateSensor(c, p, m, i, sub)
<1>1. SensitiveParts(c, v) \subseteq PartNames
  BY PlateFilesAssumption DEF IsPlateFile, SensitiveParts, PartNames
<1>2. PICK p \in SensitiveParts(c, v) :
        s \in {PlateSensor(c, p, m, i, sub) :
                 m \in 0..(c.planes - 1), i \in Parts(c)[p].layers, sub \in Parts(c)[p].subtypes}
  BY DEF PlateSensors
<1>3. PICK m \in 0..(c.planes - 1), i \in Parts(c)[p].layers, sub \in Parts(c)[p].subtypes :
        s = PlateSensor(c, p, m, i, sub)
  BY <1>2
<1> QED
  BY <1>1, <1>3

LEMMA PlatesDiffer ==
  ASSUME PlatesMade, detector # Thrown
  PROVE  CellIdsNameOneSensor /\ OtherSideIsMirrored
<1>1. PICK c \in PlateFiles : \E v :
        PlatesMakes(built, c, v) /\ detector = ECalBarrelInclined(c, v)
  BY DEF PlatesMade
<1>2. PICK v : PlatesMakes(built, c, v) /\ detector = ECalBarrelInclined(c, v)
  BY <1>1
<1>3. detector.sensors = PlateSensors(c, v) \cup CryostatSensors(c, v)
  BY <1>2 DEF ECalBarrelInclined
<1>4. \A p, m, i, sub : LET ids == PlateSensor(c, p, m, i, sub).ids
                       IN /\ DOMAIN ids \cap SideFields = {}
                          /\ ids.cryo = 0 /\ ids.type = Parts(c)[p].type
                          /\ ids.subtype = sub /\ ids.module = m /\ ids.layer = i - 1
  BY DEF PlateSensor, SideFields
<1>5. \A w : CryostatSensor(c, v, w).ids.cryo = 1
            /\ DOMAIN CryostatSensor(c, v, w).ids \cap SideFields = {}
  BY DEF CryostatSensor, SideFields
<1>6. \A s \in PlateSensors(c, v) : s.ids.cryo = 0 /\ DOMAIN s.ids \cap SideFields = {}
  BY <1>4, PlateSensorsAre
<1>7. \A s \in CryostatSensors(c, v) : s.ids.cryo = 1 /\ DOMAIN s.ids \cap SideFields = {}
  <2> SUFFICES ASSUME NEW s \in CryostatSensors(c, v)
               PROVE  s.ids.cryo = 1 /\ DOMAIN s.ids \cap SideFields = {}
    OBVIOUS
  <2>1. \E w : s = CryostatSensor(c, v, w)
    BY DEF CryostatSensors
  <2> QED
    BY <1>5, <2>1
<1>8. ASSUME NEW s \in PlateSensors(c, v), NEW t \in PlateSensors(c, v), s.ids = t.ids
      PROVE  s = t
  <2>1. PICK p \in PartNames : \E m, i, sub :
          /\ i \in Parts(c)[p].layers /\ sub \in Parts(c)[p].subtypes
          /\ s = PlateSensor(c, p, m, i, sub)
    BY PlateSensorsAre
  <2>2. PICK m, i, sub : /\ i \in Parts(c)[p].layers /\ sub \in Parts(c)[p].subtypes
                         /\ s = PlateSensor(c, p, m, i, sub)
    BY <2>1
  <2>3. PICK q \in PartNames : \E n, j, tub :
          /\ j \in Parts(c)[q].layers /\ tub \in Parts(c)[q].subtypes
          /\ t = PlateSensor(c, q, n, j, tub)
    BY PlateSensorsAre
  <2>4. PICK n, j, tub : /\ j \in Parts(c)[q].layers /\ tub \in Parts(c)[q].subtypes
                         /\ t = PlateSensor(c, q, n, j, tub)
    BY <2>3
  <2>5. Parts(c)[p].type = Parts(c)[q].type /\ sub = tub /\ m = n /\ i - 1 = j - 1
    BY <1>4, <1>8, <2>2, <2>4
  <2>6. i \in Int /\ j \in Int
    BY <2>2, <2>4, PartLayers
  <2>7. i = j
    BY <2>5, <2>6
  <2>8. p = q
    BY <2>2, <2>4, <2>5, <2>7, PartsDiffer
  <2> QED
    BY <2>2, <2>4, <2>5, <2>7, <2>8
<1>9. \A s, t \in detector.sensors : s.ids = t.ids => s = t
  BY <1>3, <1>6, <1>7, <1>8, WallsDiffer
<1>10. CellIdsNameOneSensor
  BY <1>9, NameOneSensor
<1>11. \A s \in detector.sensors : DOMAIN s.ids \cap SideFields = {}
  BY <1>3, <1>6, <1>7
<1>12. OtherSideIsMirrored
  BY <1>2, <1>11, NoSides DEF PlatesMakes
<1> QED
  BY <1>10, <1>12

-----------------------------------------------------------------------------
(* Upright discs in noble liquid.                                          *)

LEMMA UprightSizes ==
  ASSUME NEW c \in UprightDiscFiles
  PROVE  /\ Unit(c) \in Nat /\ Unit(c) > 0 /\ Passive(c) \in Nat
         /\ NumDiscs(c) \in Int /\ MarginOutside(c) \in Nat /\ c.active \div 2 \in Nat
         /\ {c.length, c.z, c.active, c.readout, c.inner, c.glue, c.outer} \subseteq Nat
<1>1. /\ {c.length, c.z, c.active, c.readout, c.inner, c.glue, c.outer} \subseteq Nat
      /\ c.active > 0
  BY UprightDiscFilesAssumption DEF IsUprightDiscFile
<1>2. Passive(c) \in Nat
  BY <1>1 DEF Passive
<1>3. Unit(c) \in Nat /\ Unit(c) > 0
  BY <1>1, <1>2 DEF Unit
<1>4. c.active \div 2 \in Nat
  BY <1>1
<1>5. WithoutFirst(c) \in Int
  BY <1>1, <1>2, <1>4 DEF WithoutFirst
<1>6. WithoutFirst(c) % Unit(c) \in Nat /\ WithoutFirst(c) \div Unit(c) \in Int
  BY <1>3, <1>5, Remainders
<1>7. MarginOutside(c) \in Nat
  BY <1>6 DEF MarginOutside
<1> QED
  BY <1>1, <1>2, <1>3, <1>4, <1>6, <1>7 DEF NumDiscs

LEMMA UprightLayers ==
  ASSUME NEW c \in UprightDiscFiles
  PROVE  /\ Len(c.layers) \in Nat /\ Len(c.layers) > 0 /\ DOMAIN c.layers = 1..Len(c.layers)
         /\ \A k \in 0..Len(c.layers) : Sums(c.layers)[k] \in Nat
         /\ \A k \in 0..(Len(c.layers) - 1) : LayerThickness(c, k) \in Nat
<1>1. IsUprightDiscFile(c)
  BY UprightDiscFilesAssumption
<1>2. Len(c.layers) \in Nat /\ DOMAIN c.layers = 1..Len(c.layers)
  BY <1>1, Lists DEF IsUprightDiscFile
<1>3. Len(c.layers) > 0
  BY <1>1, <1>2 DEF IsUprightDiscFile, IsList
<1>4. \A k \in 1..Len(c.layers) : c.layers[k] \in Nat /\ c.layers[k] > 0
  BY <1>1, <1>2 DEF IsUprightDiscFile
<1>5. \A k \in 0..Len(c.layers) : Sums(c.layers)[k] \in Nat
  BY <1>2, <1>4, SumsGrow
<1>6. ASSUME NEW k \in 0..(Len(c.layers) - 1)
      PROVE  LayerThickness(c, k) \in Nat
  <2>1. /\ Unit(c) \in Nat /\ Passive(c) \in Nat /\ MarginOutside(c) \in Nat
        /\ c.active \div 2 \in Nat /\ c.readout \in Nat
    BY UprightSizes
  <2>2. (c.layers[1] - 1) * Unit(c) \in Nat
    <3>1. c.layers[1] - 1 \in Nat
      BY <1>3, <1>4
    <3> QED
      BY <2>1, <3>1
  <2>3. c.layers[k + 1] * Unit(c) \in Nat
    <3>1. c.layers[k + 1] \in Nat
      BY <1>2, <1>4
    <3> QED
      BY <2>1, <3>1
  <2> DEFINE x == (c.layers[1] - 1) * Unit(c)
             y == c.layers[k + 1] * Unit(c)
             half == c.active \div 2
  <2>4. LayerThickness(c, k) =
          (IF k = 0 THEN MarginOutside(c) + c.readout + half + x ELSE y)
          + (IF k = Len(c.layers) - 1 THEN Passive(c) + MarginOutside(c) ELSE 0)
    BY DEF LayerThickness
  <2>5. x \in Nat /\ y \in Nat /\ half \in Nat
    BY <2>1, <2>2, <2>3
  <2> DEFINE e == IF k = 0 THEN MarginOutside(c) + c.readout + half + x ELSE y
             g == IF k = Len(c.layers) - 1 THEN Passive(c) + MarginOutside(c) ELSE 0
  <2> HIDE DEF x, y, half
  <2>6. e \in Nat
    <3>2. \A m, n, a, b \in Nat : m + n + a + b \in Nat
      OBVIOUS
    <3>1. MarginOutside(c) + c.readout + half + x \in Nat
      BY <2>1, <2>5, <3>2, Zenon
    <3> QED
      BY <2>5, <3>1
  <2>7. g \in Nat
    <3>1. Passive(c) + MarginOutside(c) \in Nat
      BY <2>1
    <3> QED
      BY <3>1
  <2>8. LayerThickness(c, k) = e + g
    BY <2>4
  <2> HIDE DEF e, g
  <2> QED
    BY <2>6, <2>7, <2>8
<1> QED
  BY <1>2, <1>3, <1>5, <1>6

\* Discs have a layer they are in.
LEMMA InALayer ==
  ASSUME NEW c \in UprightDiscFiles, NEW d \in Int, d < NumDiscs(c)
  PROVE  IPlaceHere(c, d) \in 0..(Len(c.layers) - 1)
<1> DEFINE n == Len(c.layers)
           K == {k \in DOMAIN c.layers : Sums(c.layers)[k] <= d}
<1>1. n \in Nat /\ n > 0 /\ DOMAIN c.layers = 1..n
  BY UprightLayers
<1>2. NumDiscs(c) <= Sums(c.layers)[n] /\ NumDiscs(c) \in Int /\ Sums(c.layers)[n] \in Nat
  BY <1>1, UprightSizes, UprightLayers, UprightDiscFilesAssumption DEF IsUprightDiscFile, Total
<1>3. n \notin K
  BY <1>1, <1>2
<1>4. K \subseteq 1..n /\ n \in 1..n /\ IsFiniteSet(1..n) /\ Cardinality(1..n) = n
  <2>1. K \subseteq 1..n
    BY <1>1
  <2> HIDE DEF n, K
  <2>2. n \in 1..n
    BY <1>1
  <2>3. 1 \in Int /\ n \in Int /\ n - 1 + 1 = n /\ ~(1 > n)
    BY <1>1
  <2>4. IsFiniteSet(1..n) /\ Cardinality(1..n) = IF 1 > n THEN 0 ELSE n - 1 + 1
    BY <2>3, FS_Interval
  <2> QED
    BY <2>1, <2>2, <2>3, <2>4
<1>5. /\ Cardinality(K) \in Nat /\ Cardinality(K) < n
  <2> HIDE DEF K
  <2> QED
    BY <1>3, <1>4, FewerIn, Zenon
<1> QED
  BY <1>1, <1>5 DEF IPlaceHere

LEMMA LayerBegins ==
  ASSUME NEW c \in UprightDiscFiles, NEW k \in 0..(Len(c.layers) - 1)
  PROVE  EnvelopeOffset(c, k) \in Int
<1> DEFINE t == [i \in 1..k |-> LayerThickness(c, i - 1)]
<1>1. Len(c.layers) \in Nat /\ k \in Nat
  BY UprightLayers
<1>2. DOMAIN t = 1..k /\ Len(t) = k
  BY <1>1
<1>3. \A i \in 1..k : t[i] \in Nat
  <2> SUFFICES ASSUME NEW i \in 1..k PROVE LayerThickness(c, i - 1) \in Nat
    OBVIOUS
  <2>1. i - 1 \in 0..(Len(c.layers) - 1)
    BY <1>1
  <2> QED
    BY <2>1, UprightLayers
<1>4. EnvelopeOffset(c, k) = 2 * Total(t) + LayerThickness(c, k) - c.length
  BY DEF EnvelopeOffset, Sum
<1> HIDE DEF t
<1>5. Total(t) \in Nat
  BY <1>1, <1>2, <1>3, SumsGrow DEF Total
<1>6. LayerThickness(c, k) \in Nat /\ c.length \in Nat
  BY UprightLayers, UprightSizes
<1> QED
  BY <1>4, <1>5, <1>6

LEMMA OffsetsAre ==
  ASSUME NEW c \in UprightDiscFiles, NEW k \in 0..(Len(c.layers) - 1), NEW d \in Int
  PROVE  PassiveOffset(c, k, d) \in Int /\ ReadoutOffset(c, k, d) \in Int
         /\ ActiveOffset(c, k, d) \in Int
<1>1. /\ LayerThickness(c, k) \in Nat /\ LayerThickness(c, 0) \in Nat
      /\ Sums(c.layers)[k] \in Nat
  BY UprightLayers
<1>2. /\ Unit(c) \in Nat /\ Passive(c) \in Nat /\ MarginOutside(c) \in Nat
      /\ c.active \div 2 \in Nat /\ c.readout \in Nat /\ c.active \in Nat
  BY UprightSizes
<1> DEFINE x == (d - 1) * Unit(c)
           z == 2 * (d - Sums(c.layers)[k]) * Unit(c)
           half == c.active \div 2
<1>3. x \in Int /\ z \in Int
  <2> DEFINE u == Unit(c)
             before == Sums(c.layers)[k]
             ahead == 2 * (d - before)
             above == d - 1
  <2>1. u \in Int
    BY <1>2
  <2>2. before \in Int
    BY <1>1
  <2> HIDE DEF u, before
  <2>3. above \in Int /\ ahead \in Int
    BY <2>2
  <2>4. x = above * u /\ z = ahead * u
    BY DEF before, u
  <2> HIDE DEF above, ahead, x, z
  <2> QED
    BY <2>1, <2>3, <2>4
<1>4. PassiveOffset(c, k, d) =
        (IF k = 0 THEN 2 * (MarginOutside(c) + c.readout + x) + c.active ELSE z)
        + Passive(c) - LayerThickness(c, k)
  BY DEF PassiveOffset
<1>5. ActiveOffset(c, k, d) = ReadoutOffset(c, k, d) + (IF d = 0 THEN c.readout + half ELSE 0)
  BY DEF ActiveOffset
<1>6. half \in Nat
  BY <1>2
<1> DEFINE m == MarginOutside(c)
           r == c.readout
           a == c.active
           p == Passive(c)
           here == LayerThickness(c, k)
           first == LayerThickness(c, 0)
<1>7. m \in Nat /\ r \in Nat /\ a \in Nat /\ p \in Nat /\ here \in Nat /\ first \in Nat
      /\ half \in Nat
  BY <1>1, <1>2
<1> HIDE DEF x, z, half
<1>8. PassiveOffset(c, k, d) = (IF k = 0 THEN 2 * (m + r + x) + a ELSE z) + p - here
  BY <1>4
<1>9. ReadoutOffset(c, k, d) =
        IF d = 0 THEN 2 * m + r - first ELSE PassiveOffset(c, k, d) + p + a + r
  BY DEF ReadoutOffset
<1>10. ActiveOffset(c, k, d) = ReadoutOffset(c, k, d) + (IF d = 0 THEN r + half ELSE 0)
  BY <1>5
<1> HIDE DEF m, r, a, p, here, first
<1>11. PassiveOffset(c, k, d) \in Int
  BY <1>3, <1>7, <1>8
<1>12. ReadoutOffset(c, k, d) \in Int
  BY <1>7, <1>9, <1>11
<1> QED
  BY <1>7, <1>10, <1>11, <1>12

UprightDisc(t, k, d, offset, thickness) ==
  [type |-> t, layer |-> k, sublayer |-> d, middle |-> offset, thickness |-> thickness]

\* The kinds of discs.
Gaps(c) ==
  {UprightDisc(0, IPlaceHere(c, d), d + 1, ActiveOffset(c, IPlaceHere(c, d), d),
               ActiveThickness(c, d)) : d \in 0..(NumDiscs(c) - 1)}
Absorbers(c) ==
  {UprightDisc(1, IPlaceHere(c, d), d, PassiveOffset(c, IPlaceHere(c, d), d), Passive(c)) :
     d \in 1..(NumDiscs(c) - 1)}
LastAbsorber(c) ==
  UprightDisc(1, Len(c.layers) - 1, NumDiscs(c),
              PassiveOffset(c, IPlaceHere(c, NumDiscs(c) - 1), NumDiscs(c)), Passive(c))
Readouts(c) ==
  {UprightDisc(2, IPlaceHere(c, d), d + 1, ReadoutOffset(c, IPlaceHere(c, d), d), c.readout) :
     d \in 0..(NumDiscs(c) - 1)}

LEMMA DiscsAre ==
  ASSUME NEW c
  PROVE  Discs(c) = Gaps(c) \cup Absorbers(c) \cup {LastAbsorber(c)} \cup Readouts(c)
BY DEF Discs, Gaps, Absorbers, LastAbsorber, Readouts, UprightDisc

LEMMA DiscFields ==
  ASSUME NEW t, NEW k, NEW d, NEW offset, NEW thickness
  PROVE  /\ UprightDisc(t, k, d, offset, thickness).type = t
         /\ UprightDisc(t, k, d, offset, thickness).layer = k
         /\ UprightDisc(t, k, d, offset, thickness).sublayer = d
         /\ UprightDisc(t, k, d, offset, thickness).middle = offset
         /\ UprightDisc(t, k, d, offset, thickness).thickness = thickness
BY DEF UprightDisc

\* The number of the kind and the number of the disc say which disc it is.
LEMMA DiscsDiffer ==
  ASSUME NEW c \in UprightDiscFiles, NEW d \in Discs(c), NEW e \in Discs(c),
         d.type = e.type, d.sublayer = e.sublayer
  PROVE  d = e
<1> DEFINE n == NumDiscs(c)
<1>1. n \in Int
  BY UprightSizes
<1>2. /\ \A x \in Gaps(c) : x.type = 0
      /\ \A x \in Absorbers(c) : x.type = 1 /\ x.sublayer \in 1..(n - 1)
      /\ \A x \in Readouts(c) : x.type = 2
      /\ LastAbsorber(c).type = 1 /\ LastAbsorber(c).sublayer = n
  BY DiscFields DEF Gaps, Absorbers, LastAbsorber, Readouts
<1>3. ASSUME d \in Gaps(c), e \in Gaps(c) PROVE d = e
  <2>1. PICK i \in 0..(n - 1) :
          d = UprightDisc(0, IPlaceHere(c, i), i + 1, ActiveOffset(c, IPlaceHere(c, i), i),
                          ActiveThickness(c, i))
    BY <1>3 DEF Gaps
  <2>2. PICK j \in 0..(n - 1) :
          e = UprightDisc(0, IPlaceHere(c, j), j + 1, ActiveOffset(c, IPlaceHere(c, j), j),
                          ActiveThickness(c, j))
    BY <1>3 DEF Gaps
  <2>3. i = j
    BY <2>1, <2>2, DiscFields
  <2> QED
    BY <2>1, <2>2, <2>3
<1>4. ASSUME d \in Readouts(c), e \in Readouts(c) PROVE d = e
  <2>1. PICK i \in 0..(n - 1) :
          d = UprightDisc(2, IPlaceHere(c, i), i + 1, ReadoutOffset(c, IPlaceHere(c, i), i),
                          c.readout)
    BY <1>4 DEF Readouts
  <2>2. PICK j \in 0..(n - 1) :
          e = UprightDisc(2, IPlaceHere(c, j), j + 1, ReadoutOffset(c, IPlaceHere(c, j), j),
                          c.readout)
    BY <1>4 DEF Readouts
  <2>3. i = j
    BY <2>1, <2>2, DiscFields
  <2> QED
    BY <2>1, <2>2, <2>3
<1>5. ASSUME d \in Absorbers(c), e \in Absorbers(c) PROVE d = e
  BY <1>5, DiscFields DEF Absorbers
<1>6. n \notin 1..(n - 1)
  BY <1>1
<1> HIDE DEF n
<1>7. d \in Gaps(c) \cup Absorbers(c) \cup {LastAbsorber(c)} \cup Readouts(c)
      /\ e \in Gaps(c) \cup Absorbers(c) \cup {LastAbsorber(c)} \cup Readouts(c)
  BY DiscsAre
<1> QED
  BY <1>2, <1>3, <1>4, <1>5, <1>6, <1>7

\* Discs are in a layer, at a place in it.
LEMMA DiscsArePlaced ==
  ASSUME NEW c \in UprightDiscFiles, NEW d \in Discs(c)
  PROVE  d.layer \in 0..(Len(c.layers) - 1) /\ d.middle \in Int
<1> DEFINE n == NumDiscs(c)
<1>1. n \in Int /\ Len(c.layers) \in Nat /\ Len(c.layers) > 0
  BY UprightSizes, UprightLayers
<1>2. CASE d \in Gaps(c)
  <2>1. PICK i \in 0..(n - 1) :
          d = UprightDisc(0, IPlaceHere(c, i), i + 1, ActiveOffset(c, IPlaceHere(c, i), i),
                          ActiveThickness(c, i))
    BY <1>2 DEF Gaps
  <2>2. i \in Int /\ i < n
    BY <1>1
  <2>3. IPlaceHere(c, i) \in 0..(Len(c.layers) - 1)
    BY <2>2, InALayer
  <2>4. d.layer = IPlaceHere(c, i) /\ d.middle = ActiveOffset(c, IPlaceHere(c, i), i)
    BY <2>1, DiscFields
  <2>5. ActiveOffset(c, IPlaceHere(c, i), i) \in Int
    BY <2>2, <2>3, OffsetsAre, Zenon
  <2> QED
    BY <2>3, <2>4, <2>5
<1>3. CASE d \in Readouts(c)
  <2>1. PICK i \in 0..(n - 1) :
          d = UprightDisc(2, IPlaceHere(c, i), i + 1, ReadoutOffset(c, IPlaceHere(c, i), i),
                          c.readout)
    BY <1>3 DEF Readouts
  <2>2. i \in Int /\ i < n
    BY <1>1
  <2>3. IPlaceHere(c, i) \in 0..(Len(c.layers) - 1)
    BY <2>2, InALayer
  <2>4. d.layer = IPlaceHere(c, i) /\ d.middle = ReadoutOffset(c, IPlaceHere(c, i), i)
    BY <2>1, DiscFields
  <2>5. ReadoutOffset(c, IPlaceHere(c, i), i) \in Int
    BY <2>2, <2>3, OffsetsAre, Zenon
  <2> QED
    BY <2>3, <2>4, <2>5
<1>4. CASE d \in Absorbers(c)
  <2>1. PICK i \in 1..(n - 1) :
          d = UprightDisc(1, IPlaceHere(c, i), i, PassiveOffset(c, IPlaceHere(c, i), i),
                          Passive(c))
    BY <1>4 DEF Absorbers
  <2>2. i \in Int /\ i < n
    BY <1>1
  <2>3. IPlaceHere(c, i) \in 0..(Len(c.layers) - 1)
    BY <2>2, InALayer
  <2>4. d.layer = IPlaceHere(c, i) /\ d.middle = PassiveOffset(c, IPlaceHere(c, i), i)
    BY <2>1, DiscFields
  <2>5. PassiveOffset(c, IPlaceHere(c, i), i) \in Int
    BY <2>2, <2>3, OffsetsAre, Zenon
  <2> QED
    BY <2>3, <2>4, <2>5
<1>5. CASE d = LastAbsorber(c)
  <2>1. n - 1 \in Int /\ n - 1 < n
    BY <1>1
  <2>2. IPlaceHere(c, n - 1) \in 0..(Len(c.layers) - 1)
    BY <2>1, InALayer
  <2>3. PassiveOffset(c, IPlaceHere(c, n - 1), n) \in Int
    BY <1>1, <2>2, OffsetsAre, Zenon
  <2>4. d.layer = Len(c.layers) - 1 /\ d.middle = PassiveOffset(c, IPlaceHere(c, n - 1), n)
    BY <1>5, DiscFields DEF LastAbsorber
  <2> QED
    BY <1>1, <2>3, <2>4
<1> QED
  BY <1>2, <1>3, <1>4, <1>5, DiscsAre

\* The pieces of an absorber differ in their subtypes; the one in the middle has 0, as
\* has what is in one piece.
LEMMA PiecesAre ==
  ASSUME NEW c, NEW type
  PROVE  /\ \A p, q \in Pieces(c, type) : p.subtype = q.subtype => p = q
         /\ \A p \in Pieces(c, type) : p.subtype = 0 => p.piece.middle = 0
<1> DEFINE number == <<0, 4, 3, 1, 2>>
           slices == Sandwich(c.inner, c.glue, c.outer).slices
           piece(i) == [subtype |-> number[i], piece |-> slices[i]]
           whole == [subtype |-> 0, piece |-> [middle |-> 0, thickness |-> 0]]
<1>1. Pieces(c, type) = {piece(i) : i \in 1..5} \/ Pieces(c, type) = {whole}
  BY DEF Pieces
<1>2. \A i, j \in 1..5 : number[i] = number[j] => i = j
  OBVIOUS
<1>3. \A i \in 1..5 : number[i] = 0 => i = 1
  OBVIOUS
<1>4. slices[1].middle = 0
  BY DEF Sandwich
<1>5. whole.subtype = 0 /\ whole.piece.middle = 0
  OBVIOUS
<1>6. \A i \in 1..5 : piece(i).subtype = number[i] /\ piece(i).piece = slices[i]
  OBVIOUS
<1> HIDE DEF number, slices, piece, whole
<1>7. CASE Pieces(c, type) = {whole}
  BY <1>5, <1>7
<1>8. CASE Pieces(c, type) = {piece(i) : i \in 1..5}
  BY <1>2, <1>3, <1>4, <1>6, <1>8
<1> QED
  BY <1>1, <1>7, <1>8

UprightIsOf(s, c, d, p, sign) ==
  /\ d \in Discs(c) /\ p \in Pieces(c, d.type) /\ sign \in {-1, 1}
  /\ s = DiscSensor(c, d, p, sign)

LEMMA DiscSensorsAre ==
  ASSUME NEW c, NEW s \in DiscSensors(c)
  PROVE  \E d, p, sign : UprightIsOf(s, c, d, p, sign)
<1>1. PICK d \in {e \in Discs(c) : e.type = 0 \/ e.type \in c.sensitive}, sign \in {-1, 1} :
        s \in {DiscSensor(c, d, p, sign) : p \in Pieces(c, d.type)}
  BY DEF DiscSensors
<1>2. PICK p \in Pieces(c, d.type) : s = DiscSensor(c, d, p, sign)
  BY <1>1
<1>3. UprightIsOf(s, c, d, p, sign)
  BY <1>1, <1>2 DEF UprightIsOf
<1> QED
  BY <1>3

UprightIdsSay(ids, d, p, sign) ==
  /\ DOMAIN ids = {"subsystem", "layer", "sublayer", "type", "subtype"}
  /\ ids.subsystem = (IF sign = 1 THEN 0 ELSE 1)
  /\ ids.layer = d.layer /\ ids.sublayer = d.sublayer
  /\ ids.type = d.type /\ ids.subtype = p.subtype

LEMMA UprightIds ==
  ASSUME NEW s, NEW c, NEW d, NEW p, NEW sign, UprightIsOf(s, c, d, p, sign)
  PROVE  UprightIdsSay(s.ids, d, p, sign)
BY DEF UprightIsOf, DiscSensor, UprightIdsSay

LEMMA UprightOpposite ==
  ASSUME NEW c \in UprightDiscFiles, NEW d \in Discs(c), NEW p \in Pieces(c, d.type),
         p.subtype = 0
  PROVE  DiscSensor(c, d, p, 1).pos = -DiscSensor(c, d, p, -1).pos
         /\ DiscSensor(c, d, p, -1).pos = -DiscSensor(c, d, p, 1).pos
<1> DEFINE x == EnvelopeOffset(c, d.layer)
           m == d.middle
           z == c.z
           local(sign) == m + (IF p.piece.thickness = 0 THEN 0 ELSE sign * p.piece.middle)
<1>1. \A sign : DiscSensor(c, d, p, sign).pos = sign * (2 * z + x + local(sign))
  BY DEF DiscSensor
<1>2. x \in Int /\ m \in Int /\ z \in Int
  BY DiscsArePlaced, LayerBegins, UprightSizes
<1>3. p.piece.middle = 0
  BY PiecesAre
<1>4. local(1) = m /\ local(-1) = m
  BY <1>2, <1>3
<1> HIDE DEF x, m, z, local
<1>5. DiscSensor(c, d, p, 1).pos = 1 * (2 * z + x + m)
      /\ DiscSensor(c, d, p, -1).pos = (-1) * (2 * z + x + m)
  BY <1>1, <1>4
<1> QED
  BY <1>2, <1>5

LEMMA UprightDiscsDiffer ==
  ASSUME UprightDiscsMade
  PROVE  CellIdsNameOneSensor /\ OtherSideIsMirrored
<1>1. PICK c \in UprightDiscFiles : built = "CaloDiscs_o1_v01" /\ detector = CaloDiscs_o1_v01(c)
  BY DEF UprightDiscsMade
<1>2. detector.sensors = DiscSensors(c)
  BY <1>1 DEF CaloDiscs_o1_v01
<1>3. \A s, t, d, p, sign, e, q, sgn :
        /\ UprightIsOf(s, c, d, p, sign) /\ UprightIsOf(t, c, e, q, sgn)
        /\ d.type = e.type /\ d.sublayer = e.sublayer /\ p.subtype = q.subtype
        => d = e /\ p = q
  BY DiscsDiffer, PiecesAre DEF UprightIsOf
<1>4. ASSUME NEW s \in detector.sensors, NEW t \in detector.sensors, s.ids = t.ids
      PROVE  s = t
  <2>1. PICK d, p, sign : UprightIsOf(s, c, d, p, sign)
    BY <1>2, DiscSensorsAre
  <2>2. PICK e, q, sgn : UprightIsOf(t, c, e, q, sgn)
    BY <1>2, DiscSensorsAre
  <2>3. UprightIdsSay(s.ids, d, p, sign) /\ UprightIdsSay(s.ids, e, q, sgn)
    BY <1>4, <2>1, <2>2, UprightIds
  <2>4. d = e /\ p = q
    BY <1>3, <2>1, <2>2, <2>3, Zenon DEF UprightIdsSay
  <2>5. sign = sgn
    BY <2>1, <2>2, <2>3 DEF UprightIdsSay, UprightIsOf
  <2> QED
    BY <2>1, <2>2, <2>4, <2>5 DEF UprightIsOf
<1>5. ASSUME NEW s \in detector.sensors, NEW t \in detector.sensors,
             \A f \in DOMAIN s.ids : f \in SideFields <=> s.ids[f] # t.ids[f],
             ~InADisc(s)
      PROVE  t.pos = -s.pos
  <2>1. PICK d, p, sign : UprightIsOf(s, c, d, p, sign)
    BY <1>2, DiscSensorsAre
  <2>2. PICK e, q, sgn : UprightIsOf(t, c, e, q, sgn)
    BY <1>2, DiscSensorsAre
  <2>3. UprightIdsSay(s.ids, d, p, sign) /\ UprightIdsSay(t.ids, e, q, sgn)
    BY <2>1, <2>2, UprightIds
  <2>4. /\ s.ids.sublayer = t.ids.sublayer /\ s.ids.type = t.ids.type
        /\ s.ids.subtype = t.ids.subtype /\ s.ids.subsystem # t.ids.subsystem
    <3>1. {"sublayer", "type", "subtype", "subsystem"} \subseteq DOMAIN s.ids
      BY <2>3 DEF UprightIdsSay
    <3>2. /\ "sublayer" \notin SideFields /\ "type" \notin SideFields
          /\ "subtype" \notin SideFields /\ "subsystem" \in SideFields
      BY DEF SideFields
    <3> QED
      BY <1>5, <3>1, <3>2
  <2>5. d = e /\ p = q
    BY <1>3, <2>1, <2>2, <2>3, <2>4, Zenon DEF UprightIdsSay
  <2>6. sign # sgn /\ sign \in {-1, 1} /\ sgn \in {-1, 1}
    BY <2>1, <2>2, <2>3, <2>4 DEF UprightIdsSay, UprightIsOf
  <2>7. p.subtype = 0
    BY <1>1, <1>5, <2>3 DEF InADisc, UprightIdsSay
  <2>8. /\ s = DiscSensor(c, d, p, sign) /\ t = DiscSensor(c, d, p, sgn)
        /\ d \in Discs(c) /\ p \in Pieces(c, d.type)
    BY <2>1, <2>2, <2>5 DEF UprightIsOf
  <2>9. (sign = 1 /\ sgn = -1) \/ (sign = -1 /\ sgn = 1)
    BY <2>6
  <2> QED
    BY <2>7, <2>8, <2>9, UprightOpposite
<1>6. CellIdsNameOneSensor
  BY <1>4, NameOneSensor
<1>7. OtherSideIsMirrored
  BY <1>1, <1>5, SideIsMirrored
<1> QED
  BY <1>6, <1>7

-----------------------------------------------------------------------------
(* Tiles.                                                                  *)

LEMMA DepthsAre ==
  ASSUME NEW sizes, NEW repeat, AreSizes(sizes, repeat)
  PROVE  LayerDepths(sizes, repeat) \in Seq(Nat)
<1> DEFINE row(i) == [j \in 1..repeat[i] |-> sizes[i]]
           rows == [i \in DOMAIN sizes |-> row(i)]
<1>1. sizes \in Seq(Nat) /\ repeat \in Seq(Nat) /\ Len(sizes) = Len(repeat)
  BY DEF AreSizes
<1>2. ASSUME NEW i \in DOMAIN sizes
      PROVE  row(i) \in Seq(Nat)
  <2>1. repeat[i] \in Nat /\ sizes[i] \in Nat
    BY <1>1
  <2>2. row(i) \in [1..repeat[i] -> Nat]
    BY <2>1
  <2> HIDE DEF row
  <2> QED
    BY <2>1, <2>2, RowsOf
<1>3. Len(sizes) \in Nat /\ DOMAIN sizes = 1..Len(sizes)
  BY <1>1
<1>4. rows \in [1..Len(sizes) -> Seq(Nat)]
  <2> HIDE DEF row
  <2> QED
    BY <1>2, <1>3
<1>5. rows \in Seq(Seq(Nat))
  <2> HIDE DEF rows
  <2> QED
    BY <1>3, <1>4, RowsOf, Zenon
<1>6. FlattenSeq(rows) \in Seq(Nat)
  <2> HIDE DEF rows
  <2> QED
    BY <1>5, Flattened
<1> QED
  BY <1>6 DEF LayerDepths

IsRing(c, r) ==
  /\ IsTileFile(c) /\ OneTile(c)
  /\ r.depths \in Seq(Nat) /\ r.sequence \in {0, 1} /\ r.first \in Nat /\ r.rows \in Int

LEMMA SequenceIs ==
  ASSUME NEW c, NEW r, IsRing(c, r), NEW i \in DOMAIN r.depths
  PROVE  /\ i \in Nat /\ i > 0 /\ IsStack(Sequence(c, r, i))
         /\ Cardinality(SensitiveOf(Sequence(c, r, i))) = 1
<1>1. i \in Nat /\ i > 0
  BY DEF IsRing
<1> DEFINE x == i - 1 + r.sequence
<1>2. x \in Int
  BY <1>1 DEF IsRing
<1>3. x % 2 \in {0, 1}
  <2> HIDE DEF x
  <2> QED
    BY <1>2
<1>4. 1 + SequenceIdx(r, i) \in {1, 2}
  <2>1. SequenceIdx(r, i) = x % 2
    BY DEF SequenceIdx
  <2> HIDE DEF x
  <2> QED
    BY <1>3, <2>1
<1>5. DOMAIN c.sequences = {1, 2}
  <2>1. Len(c.sequences) = 2 /\ DOMAIN c.sequences = 1..Len(c.sequences)
    BY Lists, Zenon DEF IsRing, IsTileFile
  <2> QED
    BY <2>1
<1>6. \A j \in {1, 2} : IsStack(c.sequences[j]) /\ Cardinality(SensitiveOf(c.sequences[j])) = 1
  BY <1>5, Zenon DEF IsRing, IsTileFile, OneTile
<1> QED
  BY <1>1, <1>4, <1>6 DEF Sequence

LEMMA TheTile ==
  ASSUME NEW c, NEW r, IsRing(c, r), NEW i \in DOMAIN r.depths,
         NEW k \in Tiles(c, r, i), NEW m \in Tiles(c, r, i)
  PROVE  k = m
<1> DEFINE slices == Sequence(c, r, i)
<1>1. IsStack(slices) /\ Cardinality(SensitiveOf(slices)) = 1
  BY SequenceIs
<1>2. k \in SensitiveOf(slices) /\ m \in SensitiveOf(slices)
  BY DEF Tiles
<1> HIDE DEF slices
<1> QED
  BY <1>1, <1>2, TheSensitiveSlice

RowIsOf(s, c, r, i, n, k) ==
  /\ i \in DOMAIN r.depths /\ n \in 0..(r.rows - 1) /\ k \in Tiles(c, r, i)
  /\ s = RowSensor(c, r, i, n, k)

LEMMA RowSensorsAre ==
  ASSUME NEW c, NEW r, NEW s \in Sensors(c, r)
  PROVE  \E i, n, k : RowIsOf(s, c, r, i, n, k)
<1>1. PICK i \in DOMAIN r.depths :
        s \in {RowSensor(c, r, i, n, k) : n \in 0..(r.rows - 1), k \in Tiles(c, r, i)}
  BY DEF Sensors
<1>2. PICK n \in 0..(r.rows - 1), k \in Tiles(c, r, i) : s = RowSensor(c, r, i, n, k)
  BY <1>1
<1>3. RowIsOf(s, c, r, i, n, k)
  BY <1>1, <1>2 DEF RowIsOf
<1> QED
  BY <1>3

RowIdsSay(ids, r, i, n) ==
  /\ DOMAIN ids = {"layer", "row"} \cup (IF r.type = <<>> THEN {} ELSE {"type"})
  /\ ids.layer = r.first + i - 1 /\ ids.row = RowId(r, n)
  /\ r.type # <<>> => ids.type = r.type[1]

LEMMA RowIds ==
  ASSUME NEW c, NEW r, NEW i, NEW n, NEW k
  PROVE  RowIdsSay(RowSensor(c, r, i, n, k).ids, r, i, n)
<1> DEFINE ids == [layer |-> r.first + i - 1, row |-> RowId(r, n)]
           type == [type |-> r.type[1]]
<1>1. RowSensor(c, r, i, n, k).ids = IF r.type = <<>> THEN ids ELSE Joined(ids, type)
  BY DEF RowSensor
<1>2. /\ DOMAIN ids = {"layer", "row"} /\ ids.layer = r.first + i - 1
      /\ ids.row = RowId(r, n) /\ DOMAIN type = {"type"} /\ type.type = r.type[1]
  OBVIOUS
<1> HIDE DEF ids, type
<1>3. /\ DOMAIN Joined(ids, type) = {"layer", "row", "type"}
      /\ Joined(ids, type).layer = ids.layer /\ Joined(ids, type).row = ids.row
      /\ Joined(ids, type).type = type.type
  <2> DEFINE both == Joined(ids, type)
  <2>1. /\ DOMAIN both = DOMAIN ids \cup DOMAIN type
        /\ \A f \in DOMAIN ids : both[f] = ids[f]
        /\ \A f \in (DOMAIN type) \ (DOMAIN ids) : both[f] = type[f]
    BY JoinedFields
  <2> HIDE DEF both
  <2>2. /\ DOMAIN both = {"layer", "row", "type"}
        /\ both.layer = ids.layer /\ both.row = ids.row /\ both.type = type.type
    BY <1>2, <2>1
  <2> QED
    BY <2>2 DEF both
<1>4. CASE r.type = <<>>
  BY <1>1, <1>2, <1>4 DEF RowIdsSay
<1>5. CASE r.type # <<>>
  BY <1>1, <1>2, <1>3, <1>5 DEF RowIdsSay
<1> QED
  BY <1>4, <1>5

\* In a ring, layer and row say which tile it is.
LEMMA RowsDiffer ==
  ASSUME NEW c, NEW r, IsRing(c, r), NEW s \in Sensors(c, r), NEW t \in Sensors(c, r),
         s.ids = t.ids
  PROVE  s = t
<1>1. PICK i, n, k : RowIsOf(s, c, r, i, n, k)
  BY RowSensorsAre
<1>2. PICK j, m, l : RowIsOf(t, c, r, j, m, l)
  BY RowSensorsAre
<1>3. RowIdsSay(s.ids, r, i, n) /\ RowIdsSay(s.ids, r, j, m)
  BY <1>1, <1>2, RowIds DEF RowIsOf
<1>4. r.first + i - 1 = r.first + j - 1 /\ RowId(r, n) = RowId(r, m)
  BY <1>3 DEF RowIdsSay
<1>5. i \in Nat /\ j \in Nat /\ r.first \in Nat /\ n \in Int /\ m \in Int /\ r.rows \in Int
  <2>1. i \in DOMAIN r.depths /\ j \in DOMAIN r.depths
    BY <1>1, <1>2 DEF RowIsOf
  <2>2. i \in Nat /\ j \in Nat
    BY <2>1, SequenceIs
  <2>3. r.first \in Nat /\ r.rows \in Int
    BY DEF IsRing
  <2>4. n \in Int /\ m \in Int
    BY <1>1, <1>2, <2>3 DEF RowIsOf
  <2> QED
    BY <2>2, <2>3, <2>4
<1>6. i = j
  BY <1>4, <1>5
<1>7. n = m
  BY <1>4, <1>5 DEF RowId
<1>8. k = l
  BY <1>1, <1>2, <1>6, TheTile DEF RowIsOf
<1> QED
  BY <1>1, <1>2, <1>6, <1>7, <1>8 DEF RowIsOf

LEMMA LengthsAre ==
  ASSUME NEW x \in Int, NEW c, IsTileFile(c)
  PROVE  x \div c.dzSequence \in Int
BY Remainders DEF IsTileFile

LEMMA BarrelRingIs ==
  ASSUME NEW c \in TileBarrelFiles, OneTile(c), NEW v
  PROVE  IsRing(c, BarrelRing(c, v)) /\ BarrelRing(c, v).type = <<>>
<1>1. /\ IsTileFile(c) /\ AreSizes(c.sizes, c.repeat)
      /\ {c.dz, c.rows, c.endPlate, c.space} \subseteq Nat
  BY TileBarrelFilesAssumption DEF IsTileBarrelFile, IsTileFile
<1>2. LayerDepths(c.sizes, c.repeat) \in Seq(Nat)
  BY <1>1, DepthsAre
<1>3. 2 * c.dz - 2 * c.endPlate - 2 * c.space \in Int
  BY <1>1
<1>4. (2 * c.dz - 2 * c.endPlate - 2 * c.space) \div c.dzSequence \in Int
  BY <1>1, <1>3, LengthsAre
<1>5. NumSequencesZ(c, v) \in Int
  BY <1>1, <1>4 DEF NumSequencesZ
<1> DEFINE r == BarrelRing(c, v)
<1>6. /\ r.depths = LayerDepths(c.sizes, c.repeat) /\ r.sequence = 0 /\ r.first = 0
      /\ r.rows = NumSequencesZ(c, v) /\ r.type = <<>>
  BY DEF BarrelRing
<1> HIDE DEF r
<1>7. IsRing(c, r) /\ r.type = <<>>
  BY <1>1, <1>2, <1>5, <1>6 DEF IsRing
<1> QED
  BY <1>7 DEF r

LEMMA BarrelTilesDiffer ==
  ASSUME TileBarrelMade
  PROVE  CellIdsNameOneSensor /\ OtherSideIsMirrored
<1>1. PICK c \in TileBarrelFiles : \E v :
        OneTile(c) /\ TileBarrelMakes(built, v) /\ detector = TileBarrel(c, v)
  BY DEF TileBarrelMade
<1>2. PICK v : OneTile(c) /\ TileBarrelMakes(built, v) /\ detector = TileBarrel(c, v)
  BY <1>1
<1> DEFINE r == BarrelRing(c, v)
<1>3. detector.sensors \subseteq Sensors(c, r)
  BY <1>2 DEF TileBarrel, Thrown
<1>4. IsRing(c, r) /\ r.type = <<>>
  BY <1>2, BarrelRingIs
<1> HIDE DEF r
<1>5. \A s, t \in detector.sensors : s.ids = t.ids => s = t
  BY <1>3, <1>4, RowsDiffer
<1>6. \A s \in detector.sensors : DOMAIN s.ids \cap SideFields = {}
  <2> SUFFICES ASSUME NEW s \in detector.sensors
               PROVE  DOMAIN s.ids \cap SideFields = {}
    OBVIOUS
  <2>1. PICK i, n, k : RowIsOf(s, c, r, i, n, k)
    BY <1>3, RowSensorsAre
  <2>2. RowIdsSay(s.ids, r, i, n)
    BY <2>1, RowIds DEF RowIsOf
  <2> QED
    BY <1>4, <2>2 DEF RowIdsSay, SideFields
<1>7. built # "CaloThreePartsEndcap_o1_v02"
  BY <1>2 DEF TileBarrelMakes
<1> QED
  BY <1>5, <1>6, <1>7, NameOneSensor, NoSides

\* How many layers the parts have.
PartSizes(c) == [q \in 1..Len(c.parts) |-> Len(PartDepths(c, q))]

LEMMA PartsAreRings ==
  ASSUME NEW c \in TilePartsFiles, OneTile(c), NEW v, NEW p \in DOMAIN c.parts, NEW sign
  PROVE  /\ IsRing(c, PartRing(c, v, p, sign))
         /\ PartRing(c, v, p, sign).first = Sums(PartSizes(c))[p - 1]
         /\ Len(PartSizes(c)) = Len(c.parts)
         /\ p \in 1..Len(c.parts) /\ Len(c.parts) \in Nat
         /\ \A q \in 1..Len(PartSizes(c)) : PartSizes(c)[q] \in Nat
         /\ DOMAIN PartRing(c, v, p, sign).depths = 1..PartSizes(c)[p]
<1>1. /\ IsTileFile(c) /\ IsList(c.parts)
      /\ \A q \in DOMAIN c.parts :
           /\ AreSizes(c.sizes, c.parts[q].repeat)
           /\ c.parts[q].half \in Nat /\ c.parts[q].rows \in Nat
      /\ c.endPlate \in Nat /\ c.space \in Nat
  BY TilePartsFilesAssumption DEF IsTilePartsFile, IsTileFile
<1>2. Len(c.parts) \in Nat /\ DOMAIN c.parts = 1..Len(c.parts)
  BY <1>1, Lists
<1>3. \A q \in 1..Len(c.parts) : PartDepths(c, q) \in Seq(Nat) /\ Len(PartDepths(c, q)) \in Nat
  <2> SUFFICES ASSUME NEW q \in 1..Len(c.parts)
               PROVE  PartDepths(c, q) \in Seq(Nat) /\ Len(PartDepths(c, q)) \in Nat
    OBVIOUS
  <2>1. PartDepths(c, q) \in Seq(Nat)
    BY <1>1, <1>2, DepthsAre DEF PartDepths
  <2> QED
    BY <2>1
<1>4. Len(PartSizes(c)) = Len(c.parts) /\ DOMAIN PartSizes(c) = 1..Len(c.parts)
      /\ \A q \in 1..Len(c.parts) : PartSizes(c)[q] = Len(PartDepths(c, q))
  BY <1>2 DEF PartSizes
<1>5. PartRows(c, v, p) \in Int
  <2> DEFINE x == 2 * c.parts[p].half - c.endPlate - c.space
  <2>1. x \in Int
    BY <1>1
  <2>2. x \div c.dzSequence \in Int
    <3> HIDE DEF x
    <3> QED
      BY <1>1, <2>1, LengthsAre
  <2> QED
    BY <1>1, <2>2 DEF PartRows
<1> DEFINE r == PartRing(c, v, p, sign)
           u == [i \in 1..(p - 1) |-> Len(PartDepths(c, i))]
<1>6. /\ r.depths = PartDepths(c, p) /\ r.sequence = 1 /\ r.rows = PartRows(c, v, p)
      /\ r.first = Total(u)
  BY DEF PartRing, Sum
<1>7. Total(u) = Sums(PartSizes(c))[p - 1]
  <2>1. p - 1 \in 0..Len(PartSizes(c)) /\ p - 1 \in Nat
    BY <1>2, <1>4
  <2>2. DOMAIN u = 1..(p - 1) /\ \A i \in 1..(p - 1) : u[i] = PartSizes(c)[i]
    BY <1>2, <1>4
  <2> HIDE DEF u
  <2> QED
    BY <1>2, <1>4, <2>1, <2>2, SumOfFirst, Zenon
<1>8. Sums(PartSizes(c))[p - 1] \in Nat
  <2> DEFINE t == PartSizes(c)
  <2>1. Len(t) \in Nat /\ p - 1 \in 0..Len(t)
    BY <1>2, <1>4
  <2>2. \A q \in 1..Len(t) : t[q] \in Nat
    BY <1>2, <1>3, <1>4
  <2> HIDE DEF t
  <2>3. Sums(t)[p - 1] \in Nat
    BY <2>1, <2>2, SumsGrow
  <2> QED
    BY <2>3 DEF t
<1> HIDE DEF r, u
<1>9. IsRing(c, r)
  BY <1>1, <1>2, <1>3, <1>5, <1>6, <1>7, <1>8 DEF IsRing
<1>10. DOMAIN r.depths = 1..PartSizes(c)[p]
  BY <1>2, <1>3, <1>4, <1>6
<1> QED
  BY <1>2, <1>3, <1>4, <1>6, <1>7, <1>9, <1>10 DEF r

PartType(c, p, sign) == p - 1 + (IF sign < 0 THEN Len(c.parts) ELSE 0)

LEMMA TypesTell ==
  ASSUME NEW n \in Nat, NEW p \in 1..n, NEW q \in 1..n, NEW x \in Side, NEW y \in Side,
         p - 1 + (IF x < 0 THEN n ELSE 0) = q - 1 + (IF y < 0 THEN n ELSE 0)
  PROVE  p = q /\ x = y
<1>1. x \in {-1, 1} /\ y \in {-1, 1}
  BY DEF Side
<1> QED
  BY <1>1

TileIsOf(s, c, v, p, sign) ==
  p \in DOMAIN c.parts /\ sign \in Side /\ s \in Sensors(c, PartRing(c, v, p, sign))

LEMMA TilesAre ==
  ASSUME NEW c, NEW v, NEW records, NEW s \in TileParts(c, v, records).sensors
  PROVE  \E p, sign : TileIsOf(s, c, v, p, sign)
<1>1. PICK p \in DOMAIN c.parts, sign \in Side : s \in Sensors(c, PartRing(c, v, p, sign))
  BY DEF TileParts
<1> QED
  BY <1>1 DEF TileIsOf

\* What the ids of a tile say of the part it is in.
LEMMA TileIds ==
  ASSUME NEW c, NEW v, NEW p, NEW sign, NEW i, NEW n, NEW k
  PROVE  LET ids == RowSensor(c, PartRing(c, v, p, sign), i, n, k).ids
         IN /\ DOMAIN ids = {"layer", "row", "type"}
            /\ ids.type = PartType(c, p, sign)
            /\ ids.layer = PartRing(c, v, p, sign).first + i - 1
            /\ ids.row = RowId(PartRing(c, v, p, sign), n)
<1> DEFINE r == PartRing(c, v, p, sign)
           ids == RowSensor(c, r, i, n, k).ids
<1>1. r.type = <<PartType(c, p, sign)>>
  BY DEF PartRing, PartType
<1>2. r.type # <<>> /\ r.type[1] = PartType(c, p, sign)
  BY <1>1
<1>3. RowIdsSay(ids, r, i, n)
  BY RowIds
<1> HIDE DEF r, ids
<1>4. /\ DOMAIN ids = {"layer", "row", "type"}
      /\ ids.type = PartType(c, p, sign)
      /\ ids.layer = r.first + i - 1 /\ ids.row = RowId(r, n)
  BY <1>2, <1>3 DEF RowIdsSay
<1> QED
  BY <1>4 DEF ids, r

LEMMA TilesDiffer ==
  ASSUME NEW c \in TilePartsFiles, OneTile(c), NEW v, NEW records,
         NEW s \in TileParts(c, v, records).sensors, NEW t \in TileParts(c, v, records).sensors,
         s.ids = t.ids
  PROVE  s = t
<1>1. PICK p, x : TileIsOf(s, c, v, p, x)
  BY TilesAre
<1>2. PICK q, y : TileIsOf(t, c, v, q, y)
  BY TilesAre
<1>3. PICK i, n, k : RowIsOf(s, c, PartRing(c, v, p, x), i, n, k)
  BY <1>1, RowSensorsAre DEF TileIsOf
<1>4. PICK j, m, l : RowIsOf(t, c, PartRing(c, v, q, y), j, m, l)
  BY <1>2, RowSensorsAre DEF TileIsOf
<1>5. s.ids.type = PartType(c, p, x) /\ t.ids.type = PartType(c, q, y)
  BY <1>3, <1>4, TileIds DEF RowIsOf
<1>6. /\ p \in 1..Len(c.parts) /\ q \in 1..Len(c.parts) /\ Len(c.parts) \in Nat
      /\ x \in Side /\ y \in Side
  BY <1>1, <1>2, PartsAreRings DEF TileIsOf
<1>7. p = q /\ x = y
  <2> DEFINE parts == Len(c.parts)
  <2>1. p - 1 + (IF x < 0 THEN parts ELSE 0) = q - 1 + (IF y < 0 THEN parts ELSE 0)
    BY <1>3, <1>4, <1>5 DEF PartType
  <2>2. parts \in Nat /\ p \in 1..parts /\ q \in 1..parts
    BY <1>6
  <2> HIDE DEF parts
  <2> QED
    BY <1>6, <2>1, <2>2, TypesTell, Zenon
<1> DEFINE r == PartRing(c, v, p, x)
<1>8. IsRing(c, r) /\ s \in Sensors(c, r) /\ t \in Sensors(c, r)
  BY <1>1, <1>2, <1>7, PartsAreRings DEF TileIsOf
<1> HIDE DEF r
<1> QED
  BY <1>8, RowsDiffer

\* Where slices are in their stack.
LEMMA BelowIs ==
  ASSUME NEW slices, IsStack(slices), NEW k \in DOMAIN slices
  PROVE  Below(slices, k) \in Nat /\ slices[k].thickness \in Nat
<1> DEFINE t == Thicknesses(slices)
<1>1. /\ Len(slices) \in Nat /\ DOMAIN slices = 1..Len(slices)
      /\ \A i \in DOMAIN slices : slices[i].thickness \in Nat
  BY Stacks
<1>2. DOMAIN t = 1..Len(slices) /\ \A i \in 1..Len(slices) : t[i] = slices[i].thickness
  BY <1>1 DEF Thicknesses
<1>3. Len(t) = Len(slices)
  <2> HIDE DEF t
  <2> QED
    BY <1>1, <1>2, LenOfRow
<1>4. Sums(t)[k - 1] \in Nat
  <2>1. k - 1 \in 0..Len(t)
    BY <1>1, <1>3
  <2> HIDE DEF t
  <2> QED
    BY <1>1, <1>2, <1>3, <2>1, SumsGrow, Zenon
<1> QED
  BY <1>1, <1>4 DEF Below

\* The middle of a tile in its sequence, when that is not turned.
TileMiddle(c, r, i, k) ==
  2 * Below(Sequence(c, r, i), k) + Sequence(c, r, i)[k].thickness - c.dzSequence

LEMMA TileOffsetIs ==
  ASSUME NEW c, NEW r, NEW i, NEW k \in DOMAIN Sequence(c, r, i)
  PROVE  /\ TileOffsets(c, r, i)[k].middle =
              (IF Turned(r) THEN -TileMiddle(c, r, i, k) ELSE TileMiddle(c, r, i, k))
         /\ TileOffsets(c, r, i)[k].thickness = Sequence(c, r, i)[k].thickness
BY DEF TileOffsets, TileMiddle, Placed

\* Where a tile is: the middle of its ring, of its row, and its own.
LEMMA TileIsAt ==
  ASSUME NEW c, NEW r, NEW i, NEW n, NEW k
  PROVE  LET s == RowSensor(c, r, i, n, k)
             z == r.z + RowOffset(c, r, n) + TileOffsets(c, r, i)[k].middle
             t == TileOffsets(c, r, i)[k].thickness
         IN s.lo = z - t /\ s.hi = z + t
BY DEF RowSensor

LEMMA RowsMirrored ==
  ASSUME NEW rows \in Int, NEW d \in Int, NEW n \in Int, NEW m \in Int, NEW f \in Int,
         rows - n - 1 = m, NEW start, start = -(rows * d + f) + f
  PROVE  /\ start + (2 * n + 1) * d = -(start + (2 * m + 1) * d)
         /\ start + (2 * m + 1) * d \in Int
<1> DEFINE a == rows * d
           b == n * d
           e == m * d
<1>1. a \in Int /\ b \in Int /\ e \in Int
  OBVIOUS
<1>2. n = rows - m - 1
  OBVIOUS
<1>3. b = a - e - d
  BY <1>2
<1>4. (2 * n + 1) * d = 2 * b + d /\ (2 * m + 1) * d = 2 * e + d
  OBVIOUS
<1> HIDE DEF a, b, e
<1>5. /\ -(a + f) + f + (2 * b + d) = -(-(a + f) + f + (2 * e + d))
      /\ -(a + f) + f + (2 * e + d) \in Int
  BY <1>1, <1>3
<1> QED
  BY <1>4, <1>5 DEF a

\* What is placed on the other side in the last version.
LEMMA TilesMirrored ==
  ASSUME NEW c \in TilePartsFiles, OneTile(c), NEW p \in DOMAIN c.parts,
         NEW i \in DOMAIN PartRing(c, Mirrored, p, 1).depths,
         NEW k \in Tiles(c, PartRing(c, Mirrored, p, 1), i), NEW n \in Int, NEW m \in Int,
         RowId(PartRing(c, Mirrored, p, -1), n) = RowId(PartRing(c, Mirrored, p, 1), m)
  PROVE  LET s == RowSensor(c, PartRing(c, Mirrored, p, -1), i, n, k)
             t == RowSensor(c, PartRing(c, Mirrored, p, 1), i, m, k)
         IN t.lo = -s.hi /\ t.hi = -s.lo /\ s.lo = -t.hi /\ s.hi = -t.lo
<1> DEFINE far == PartRing(c, Mirrored, p, -1)
           near == PartRing(c, Mirrored, p, 1)
           rows == c.parts[p].rows
           offset == c.parts[p].offset
           d == c.dzSequence
           f == ForPlates(c, Mirrored, p)
           start == -(rows * d + f) + f
           slices == Sequence(c, near, i)
           s == RowSensor(c, far, i, n, k)
           t == RowSensor(c, near, i, m, k)
<1>1. /\ rows \in Int /\ offset \in Int /\ d \in Int /\ f \in Int
  BY TilePartsFilesAssumption DEF IsTilePartsFile, IsTileFile, ForPlates
<1>2. PartRows(c, Mirrored, p) = rows /\ PartDz(c, Mirrored, p) = rows * d + f
  BY DEF PartRows, PartDz, Mirrored
<1>3. /\ far.z = 2 * (-1) * offset /\ near.z = 2 * 1 * offset
      /\ far.turned /\ near.turned /\ far.side = -1 /\ near.side = 1
      /\ far.rows = rows /\ near.rows = rows /\ far.sequence = near.sequence
      /\ far.start = start /\ near.start = start
  BY <1>2 DEF PartRing, Mirrored
<1>4. IsStack(slices) /\ k \in DOMAIN slices
  <2>1. IsRing(c, near)
    BY PartsAreRings
  <2>2. IsStack(slices)
    <3> HIDE DEF near
    <3> QED
      BY <2>1, SequenceIs DEF near
  <2>3. k \in DOMAIN slices
    BY DEF Tiles, SensitiveOf
  <2> QED
    BY <2>2, <2>3
<1>5. Sequence(c, far, i) = slices
  <2> HIDE DEF far, near
  <2> QED
    BY <1>3 DEF Sequence, SequenceIdx
<1> HIDE DEF far, near, start
<1>6. Turned(far) /\ ~Turned(near)
  BY <1>3 DEF Turned
<1>7. rows - n - 1 = m
  BY <1>3, <1>6 DEF RowId, far, near
<1> DEFINE u == TileMiddle(c, near, i, k)
           w == RowOffset(c, near, m)
           z == 2 * offset
           h == slices[k].thickness
<1>8. u \in Int /\ h \in Int
  <2>1. Below(slices, k) \in Nat /\ slices[k].thickness \in Nat
    BY <1>4, BelowIs
  <2> HIDE DEF slices
  <2>2. 2 * Below(slices, k) + slices[k].thickness - d \in Int
    BY <1>1, <2>1
  <2> QED
    BY <2>1, <2>2 DEF TileMiddle, slices
<1>9. TileMiddle(c, far, i, k) = u
  BY <1>5 DEF TileMiddle
<1>10. /\ TileOffsets(c, far, i)[k].middle = -u /\ TileOffsets(c, near, i)[k].middle = u
       /\ TileOffsets(c, far, i)[k].thickness = h /\ TileOffsets(c, near, i)[k].thickness = h
  BY <1>4, <1>5, <1>6, <1>9, TileOffsetIs
<1>11. RowOffset(c, far, n) = -w /\ w \in Int
  <2>1. /\ RowOffset(c, far, n) = start + (2 * n + 1) * d
        /\ w = start + (2 * m + 1) * d
    BY <1>3 DEF RowOffset
  <2>2. /\ start + (2 * n + 1) * d = -(start + (2 * m + 1) * d)
        /\ start + (2 * m + 1) * d \in Int
    <3>1. start = -(rows * d + f) + f
      BY DEF start
    <3> HIDE DEF rows, d, f
    <3> QED
      BY <1>1, <1>7, <3>1, RowsMirrored
  <2> QED
    BY <2>1, <2>2
<1>12. far.z = -z /\ near.z = z /\ z \in Int
  BY <1>1, <1>3
<1>13. /\ s.lo = (far.z + RowOffset(c, far, n) + TileOffsets(c, far, i)[k].middle) - h
       /\ s.hi = (far.z + RowOffset(c, far, n) + TileOffsets(c, far, i)[k].middle) + h
       /\ t.lo = (near.z + RowOffset(c, near, m) + TileOffsets(c, near, i)[k].middle) - h
       /\ t.hi = (near.z + RowOffset(c, near, m) + TileOffsets(c, near, i)[k].middle) + h
  BY <1>10, TileIsAt
<1> HIDE DEF z, w, u, h, s, t
<1>14. /\ s.lo = ((-z) + (-w) + (-u)) - h /\ s.hi = ((-z) + (-w) + (-u)) + h
       /\ t.lo = (z + w + u) - h /\ t.hi = (z + w + u) + h
  BY <1>10, <1>11, <1>12, <1>13 DEF w
<1>15. t.lo = -s.hi /\ t.hi = -s.lo /\ s.lo = -t.hi /\ s.hi = -t.lo
  BY <1>8, <1>11, <1>12, <1>14
<1> QED
  BY <1>15 DEF s, t, far, near

\* The fields that tell the sides of the last calorimeter of several parts.
TypeFields == SideFields \cup {"type"}

LEMMA TypeIsMirrored ==
  ASSUME built = "CaloThreePartsEndcap_o1_v02",
         \A s, t \in detector.sensors :
           (\A f \in DOMAIN s.ids : f \in TypeFields <=> s.ids[f] # t.ids[f])
           => t.lo = -s.hi /\ t.hi = -s.lo
  PROVE  OtherSideIsMirrored
<1> DEFINE side == {"side", "barrel", "posneg", "subsystem"} \cup {"type"}
<1>1. OtherSideIsMirrored <=>
        (built \notin NotTurned /\ ~OuterWallIsATube =>
           \A s, t \in detector.sensors :
             (/\ DOMAIN s.ids \cap side # {}
              /\ \A f \in DOMAIN s.ids : f \in side <=> s.ids[f] # t.ids[f]
              /\ ~InADisc(s)) => t.lo = -s.hi /\ t.hi = -s.lo)
  BY DEF OtherSideIsMirrored
<1>2. side = TypeFields
  BY DEF TypeFields, SideFields
<1> HIDE DEF side
<1> QED
  BY <1>1, <1>2, Zenon

LEMMA OtherSideOfTiles ==
  ASSUME NEW c \in TilePartsFiles, OneTile(c), NEW records,
         NEW s \in TileParts(c, Mirrored, records).sensors,
         NEW t \in TileParts(c, Mirrored, records).sensors,
         s.ids.layer = t.ids.layer, s.ids.row = t.ids.row, s.ids.type # t.ids.type
  PROVE  t.lo = -s.hi /\ t.hi = -s.lo
<1> DEFINE ring(p, x) == PartRing(c, Mirrored, p, x)
<1>1. PICK p, x : TileIsOf(s, c, Mirrored, p, x)
  BY TilesAre
<1>2. PICK q, y : TileIsOf(t, c, Mirrored, q, y)
  BY TilesAre
<1>3. PICK i, n, k : RowIsOf(s, c, ring(p, x), i, n, k)
  BY <1>1, RowSensorsAre DEF TileIsOf
<1>4. PICK j, m, l : RowIsOf(t, c, ring(q, y), j, m, l)
  BY <1>2, RowSensorsAre DEF TileIsOf
<1>5. /\ p \in DOMAIN c.parts /\ q \in DOMAIN c.parts /\ x \in {-1, 1} /\ y \in {-1, 1}
  BY <1>1, <1>2 DEF TileIsOf, Side
<1>6. /\ s = RowSensor(c, ring(p, x), i, n, k) /\ t = RowSensor(c, ring(q, y), j, m, l)
      /\ i \in DOMAIN ring(p, x).depths /\ j \in DOMAIN ring(q, y).depths
      /\ k \in Tiles(c, ring(p, x), i) /\ l \in Tiles(c, ring(q, y), j)
      /\ n \in 0..(ring(p, x).rows - 1) /\ m \in 0..(ring(q, y).rows - 1)
  BY <1>3, <1>4 DEF RowIsOf
<1> HIDE DEF ring
<1>7. /\ ring(p, x).first + i - 1 = ring(q, y).first + j - 1
      /\ RowId(ring(p, x), n) = RowId(ring(q, y), m)
      /\ PartType(c, p, x) # PartType(c, q, y)
  BY <1>6, TileIds DEF ring
<1>8. p = q /\ i = j
  <2> DEFINE t0 == PartSizes(c)
  <2>10. \A e \in DOMAIN c.parts, z \in {-1, 1} :
           /\ ring(e, z).first = Sums(t0)[e - 1] /\ Len(t0) = Len(c.parts)
           /\ e \in 1..Len(c.parts) /\ Len(c.parts) \in Nat
           /\ \A h \in 1..Len(t0) : t0[h] \in Nat
           /\ DOMAIN ring(e, z).depths = 1..t0[e]
    <3> SUFFICES ASSUME NEW e \in DOMAIN c.parts, NEW z \in {-1, 1}
                 PROVE  /\ ring(e, z).first = Sums(t0)[e - 1] /\ Len(t0) = Len(c.parts)
                        /\ e \in 1..Len(c.parts) /\ Len(c.parts) \in Nat
                        /\ \A h \in 1..Len(t0) : t0[h] \in Nat
                        /\ DOMAIN ring(e, z).depths = 1..t0[e]
      BY Zenon
    <3> DEFINE r == PartRing(c, Mirrored, e, z)
               u == PartSizes(c)
    <3>1. /\ r.first = Sums(u)[e - 1] /\ Len(u) = Len(c.parts)
          /\ e \in 1..Len(c.parts) /\ Len(c.parts) \in Nat
      <4> HIDE DEF t0
      <4> QED
        BY PartsAreRings, Zenon
    <3>2. DOMAIN r.depths = 1..u[e]
      <4> HIDE DEF t0
      <4> QED
        BY PartsAreRings
    <3>3. \A h \in 1..Len(u) : u[h] \in Nat
      <4> HIDE DEF t0
      <4> QED
        BY PartsAreRings, Zenon
    <3>4. ring(e, z) = r /\ t0 = u
      BY Zenon DEF ring
    <3> HIDE DEF r, t0, u
    <3> QED
      BY <3>1, <3>2, <3>3, <3>4
  <2> HIDE DEF t0
  <2>1. /\ ring(p, x).first = Sums(t0)[p - 1] /\ ring(q, y).first = Sums(t0)[q - 1]
        /\ Len(t0) \in Nat /\ p \in 1..Len(t0) /\ q \in 1..Len(t0)
        /\ \A e \in 1..Len(t0) : t0[e] \in Nat
        /\ i \in 1..t0[p] /\ j \in 1..t0[q]
    BY <1>5, <1>6, <2>10, Zenon
  <2>2. p - 1 \in 0..Len(t0) /\ q - 1 \in 0..Len(t0)
    <3>1. Len(t0) \in Nat /\ p \in 1..Len(t0) /\ q \in 1..Len(t0)
      BY <2>1, Zenon
    <3> QED
      BY <3>1
  <2>3. Sums(t0)[p - 1] \in Nat /\ Sums(t0)[q - 1] \in Nat
    BY <2>1, <2>2, SumsGrow, Zenon
  <2>4. /\ i - 1 \in Nat /\ j - 1 \in Nat /\ i - 1 < t0[p] /\ j - 1 < t0[q]
        /\ Sums(t0)[p - 1] + (i - 1) = Sums(t0)[q - 1] + (j - 1)
        /\ i \in Nat /\ j \in Nat
    <3> DEFINE a == Sums(t0)[p - 1]
               b == Sums(t0)[q - 1]
    <3>1. a + i - 1 = b + j - 1 /\ a \in Nat /\ b \in Nat
      BY <1>7, <2>1, <2>3
    <3>2. t0[p] \in Nat /\ t0[q] \in Nat /\ i \in 1..t0[p] /\ j \in 1..t0[q]
      BY <2>1
    <3> HIDE DEF a, b
    <3>3. a + (i - 1) = b + (j - 1)
      BY <3>1, <3>2
    <3> QED
      BY <3>2, <3>3 DEF a, b
  <2>5. p = q /\ i - 1 = j - 1
    BY <2>1, <2>4, NumberedOn, Zenon
  <2> QED
    BY <2>4, <2>5
<1>9. x # y
  BY <1>7, <1>8
<1>10. IsRing(c, ring(p, x)) /\ IsRing(c, ring(p, y)) /\ IsRing(c, ring(p, 1))
  BY <1>5, PartsAreRings DEF ring
<1>11. n \in Int /\ m \in Int
  BY <1>6, <1>8, <1>10 DEF IsRing
<1>12. /\ \A z : ring(p, z).depths = ring(p, 1).depths
       /\ \A z, e : Tiles(c, ring(p, z), e) = Tiles(c, ring(p, 1), e)
  BY DEF ring, PartRing, Tiles, Sequence, SequenceIdx
<1>13. /\ i \in DOMAIN ring(p, 1).depths
       /\ k \in Tiles(c, ring(p, 1), i) /\ l \in Tiles(c, ring(p, 1), i)
  BY <1>6, <1>8, <1>12
<1>14. k = l
  BY <1>10, <1>13, TheTile
<1>15. CASE x = -1 /\ y = 1
  BY <1>5, <1>6, <1>7, <1>8, <1>11, <1>13, <1>14, <1>15, TilesMirrored DEF ring
<1>16. CASE x = 1 /\ y = -1
  BY <1>5, <1>6, <1>7, <1>8, <1>11, <1>13, <1>14, <1>16, TilesMirrored DEF ring
<1> QED
  BY <1>5, <1>9, <1>15, <1>16

LEMMA TilePartsDiffer ==
  ASSUME TilePartsMade
  PROVE  CellIdsNameOneSensor /\ OtherSideIsMirrored
<1>1. PICK c \in TilePartsFiles : \E v :
        /\ OneTile(c) /\ TilePartsMakes(built, c, v)
        /\ detector = TileParts(c, v, TilePartsRecords(built, c))
  BY DEF TilePartsMade
<1>2. PICK v : /\ OneTile(c) /\ TilePartsMakes(built, c, v)
               /\ detector = TileParts(c, v, TilePartsRecords(built, c))
  BY <1>1
<1>3. \A s, t \in detector.sensors : s.ids = t.ids => s = t
  BY <1>2, TilesDiffer
<1>4. CASE built # "CaloThreePartsEndcap_o1_v02"
  <2>1. built \in NotTurned
    BY <1>2, <1>4 DEF TilePartsMakes, NotTurned
  <2> QED
    BY <1>3, <1>4, <2>1, NameOneSensor, SideIsMirrored
<1>5. CASE built = "CaloThreePartsEndcap_o1_v02"
  <2>1. v = Mirrored
    BY <1>2, <1>5 DEF TilePartsMakes
  <2>2. ASSUME NEW s \in detector.sensors, NEW t \in detector.sensors,
               \A f \in DOMAIN s.ids : f \in TypeFields <=> s.ids[f] # t.ids[f]
        PROVE  t.lo = -s.hi /\ t.hi = -s.lo
    <3>1. DOMAIN s.ids = {"layer", "row", "type"}
      <4>1. PICK p, x : TileIsOf(s, c, v, p, x)
        BY <1>2, TilesAre
      <4>2. PICK i, n, k : RowIsOf(s, c, PartRing(c, v, p, x), i, n, k)
        BY <4>1, RowSensorsAre DEF TileIsOf
      <4> QED
        BY <4>2, TileIds DEF RowIsOf
    <3>2. "type" \in TypeFields /\ "layer" \notin TypeFields /\ "row" \notin TypeFields
      BY DEF TypeFields, SideFields
    <3>3. s.ids.layer = t.ids.layer /\ s.ids.row = t.ids.row /\ s.ids.type # t.ids.type
      BY <2>2, <3>1, <3>2
    <3> QED
      BY <1>2, <2>1, <3>3, OtherSideOfTiles
  <2> QED
    BY <1>3, <1>5, <2>2, NameOneSensor, TypeIsMirrored
<1> QED
  BY <1>4, <1>5

-----------------------------------------------------------------------------
(* Cell ids, of all that can be there.                                     *)

LEMMA NothingDiffers ==
  ASSUME detector = Thrown
  PROVE  CellIdsNameOneSensor /\ OtherSideIsMirrored
<1>1. detector.sensors = {}
  BY DEF Thrown
<1> QED
  BY <1>1 DEF CellIdsNameOneSensor, OtherSideIsMirrored

LEMMA EndcapsDiffer ==
  ASSUME EndcapMade
  PROVE  CellIdsNameOneSensor /\ OtherSideIsMirrored
<1>1. PICK c \in EndcapFiles : \E v : EndcapMakes(built, c, v) /\ detector = Endcap(c, v)
  BY DEF EndcapMade
<1>2. PICK v : EndcapMakes(built, c, v) /\ detector = Endcap(c, v)
  BY <1>1
<1>3. \A s, t \in detector.sensors : s.ids = t.ids => s = t
  BY <1>2, EndcapCellIds
<1> QED
  BY <1>2, <1>3, EndcapOtherSide, NameOneSensor

LEMMA BarrelsDiffer ==
  ASSUME BarrelMade
  PROVE  CellIdsNameOneSensor /\ OtherSideIsMirrored
<1>1. PICK c \in BarrelFiles : \E v : BarrelMakes(built, c, v) /\ detector = Barrel(c, v)
  BY DEF BarrelMade
<1>2. PICK v : BarrelMakes(built, c, v) /\ detector = Barrel(c, v)
  BY <1>1
<1>3. \A s, t \in detector.sensors : s.ids = t.ids => s = t
  BY <1>2, BarrelCellIds
<1> QED
  BY <1>2, <1>3, BarrelOtherSide, NameOneSensor

LEMMA SensorsDiffer ==
  ASSUME Constructed
  PROVE  CellIdsNameOneSensor /\ OtherSideIsMirrored
<1>1. CASE detector = Thrown
  BY <1>1, NothingDiffers
<1>2. CASE detector # Thrown
  BY <1>2, EndcapsDiffer, BarrelsDiffer, LadderCellIds, LadderOtherSide, PlanarCellIds,
     PlanarOtherSide, ChamberBarrelSensorsDiffer, ChamberEndcapSensorsDiffer,
     YokeBarrelSensorsDiffer, YokeEndcapSensorsDiffer, StavesDiffer, SteppedDiffer,
     TowersDiffer, PolygonsDiffer, PanelsDiffer, RodSensorsDiffer, DiscSensorsDiffer,
     TurbinesDiffer, PlatesDiffer, UprightDiscsDiffer, BarrelTilesDiffer, TilePartsDiffer,
     ForwardsDiffer, PrototypesDiffer, DetailedBarrelsDiffer, DetailedEndcapsDiffer
     DEF Constructed
<1> QED
  BY <1>1, <1>2

\* Whatever description a constructor is given, no two sensitive volumes get the same
\* cell id: the ids that the loops over sides, layers, rings, modules and slices
\* count, restarted here and continued there, tell the volumes apart.
THEOREM CellIdsAreDistinct ==
  Spec => []CellIdsNameOneSensor
<1>1. Constructed => CellIdsNameOneSensor
  BY SensorsDiffer
<1> QED
  BY <1>1, ConstructorsMakeWhatThereIs, PTL

\* Whatever description a constructor is given, two volumes whose cell ids differ in
\* the side only lie at opposite z.
THEOREM OtherSideIsAtOppositeZ ==
  Spec => []OtherSideIsMirrored
<1>1. Constructed => OtherSideIsMirrored
  BY SensorsDiffer
<1> QED
  BY <1>1, ConstructorsMakeWhatThereIs, PTL

=============================================================================
