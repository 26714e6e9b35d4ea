------------------------ MODULE Segmentations_proofs ------------------------
(***************************************************************************)
(* Proofs about the segmentations: of FCCSWGridModuleThetaMerged_k4geo the *)
(* cells next to each other (ModuleThetaMerged), for every number of       *)
(* layers, modules and theta bins and every way in which the layers merge  *)
(* them; and of this and the others the layer information that is made     *)
(* when it is needed (LazyLayerInfo), for any number of threads, blocks,   *)
(* cells and layers: memory safety, and that it is a value chosen once.    *)
(***************************************************************************)
EXTENDS ModuleThetaMerged, LazyLayerInfo, TLAPS

Positive == Nat \ {0}

-----------------------------------------------------------------------------
(***************************************************************************)
(* Groups of n: their first elements are the multiples of n.               *)
(***************************************************************************)
LEMMA Division ==
  ASSUME NEW x \in Int, NEW n \in Positive
  PROVE  /\ x \div n \in Int /\ x % n \in Int /\ 0 <= x % n /\ x % n < n
         /\ x = n * (x \div n) + (x % n)
<1>1. x \div n \in Int
  BY DEF Positive
<1>2. x % n \in Int
  BY DEF Positive
<1>3. 0 <= x % n /\ x % n < n
  BY DEF Positive
<1>4. x = n * (x \div n) + (x % n)
  BY DEF Positive
<1> QED
  BY <1>1, <1>2, <1>3, <1>4

LEMMA Product ==
  ASSUME NEW n \in Positive, NEW k \in Int
  PROVE  /\ n * k \in Int
         /\ k >= 1 => n * k >= n
         /\ k <= -1 => n * k <= - n
         /\ k = 0 => n * k = 0
BY DEF Positive

LEMMA Distributes ==
  ASSUME NEW n \in Positive, NEW j \in Int, NEW k \in Int
  PROVE  n * (k - j) = n * k - n * j
BY DEF Positive

\* A remainder less than n is the only one there is.
LEMMA OneRemainder ==
  ASSUME NEW n \in Positive, NEW k \in Int, NEW x \in Int, NEW s \in 0 .. n - 1, x = n * k + s
  PROVE  x % n = s
<1> DEFINE q == x \div n
           r == x % n
<1>1. q \in Int /\ r \in Int /\ 0 <= r /\ r < n /\ x = n * q + r
  BY Division
<1>2. n * (k - q) = n * k - n * q /\ n * (k - q) \in Int /\ n * k \in Int /\ n * q \in Int
  BY <1>1, Distributes DEF Positive
<1>3. n * (k - q) = r - s
  BY <1>1, <1>2 DEF Positive
<1> HIDE DEF q, r
<1>4. k - q \in Int /\ (k - q >= 1 \/ k - q <= -1 \/ k - q = 0)
  BY <1>1
<1>5. ~ (k - q >= 1)
  BY <1>1, <1>2, <1>3, <1>4, Product DEF Positive
<1>6. ~ (k - q <= -1)
  BY <1>1, <1>2, <1>3, <1>4, Product DEF Positive
<1>7. n * (k - q) = 0
  BY <1>4, <1>5, <1>6, Product
<1>8. r = s
  BY <1>1, <1>3, <1>7 DEF Positive
<1> QED
  BY <1>8 DEF r

\* Multiples of n are n apart.
LEMMA MultiplesApart ==
  ASSUME NEW n \in Positive, NEW x \in Int, NEW y \in Int, x % n = 0, y % n = 0, x < y
  PROVE  y - x >= n
<1> DEFINE j == x \div n
           k == y \div n
<1>1. j \in Int /\ k \in Int /\ x = n * j /\ y = n * k
  BY Division DEF Positive
<1> HIDE DEF j, k
<1>2. n * (k - j) = y - x /\ k - j \in Int
  BY <1>1, Distributes
<1>3. k - j >= 1 \/ k - j <= -1 \/ k - j = 0
  BY <1>2
<1> QED
  BY <1>2, <1>3, Product DEF Positive

\* The multiples of n next to one.
LEMMA NextMultiples ==
  ASSUME NEW n \in Positive, NEW x \in Int, x % n = 0
  PROVE  (x + n) % n = 0 /\ (x - n) % n = 0
<1> DEFINE j == x \div n
<1>1. j \in Int /\ x = n * j
  BY Division DEF Positive
<1> HIDE DEF j
<1>2. x + n = n * (j + 1) + 0 /\ x - n = n * (j - 1) + 0 /\ x + n \in Int /\ x - n \in Int
  BY <1>1 DEF Positive
<1>3. 0 \in 0 .. n - 1
  BY DEF Positive
<1>4. (x + n) % n = 0
  BY <1>1, <1>2, <1>3, OneRemainder
<1>5. (x - n) % n = 0
  BY <1>1, <1>2, <1>3, OneRemainder
<1> QED
  BY <1>4, <1>5

LEMMA GroupHolds ==
  ASSUME NEW x \in Nat, NEW n \in Positive
  PROVE  /\ GroupOf(x, n) \in Nat
         /\ GroupOf(x, n) <= x /\ x < GroupOf(x, n) + n
         /\ GroupOf(x, n) % n = 0
<1> DEFINE q == x \div n
           r == x % n
           g == GroupOf(x, n)
<1>1. q \in Int /\ r \in Int /\ 0 <= r /\ r < n /\ x = n * q + r /\ n * q \in Int
  BY Division, Product
<1>2. g = x - r
  BY DEF GroupOf, Remainder
<1> HIDE DEF q, r, g
<1>3. g = n * q + 0 /\ 0 \in 0 .. n - 1 /\ g \in Int
  BY <1>1, <1>2 DEF Positive
<1>4. g % n = 0
  BY <1>1, <1>3, OneRemainder
<1>5. ~ (q <= -1)
  BY <1>1, Product DEF Positive
<1>6. g >= 0
  <2>1. q = 0 \/ q >= 1
    BY <1>1, <1>5
  <2> QED
    BY <2>1, <1>1, <1>3, Product DEF Positive
<1> QED
  BY <1>1, <1>2, <1>3, <1>4, <1>6 DEF g, Positive

\* The group that x is in is the only one that holds x.
LEMMA OneGroup ==
  ASSUME NEW x \in Nat, NEW n \in Positive, NEW g \in Int, g % n = 0, g <= x, x < g + n
  PROVE  GroupOf(x, n) = g
<1> DEFINE h == GroupOf(x, n)
<1>1. h \in Int /\ h % n = 0 /\ h <= x /\ x < h + n
  BY GroupHolds
<1> HIDE DEF h
<1>2. h \in Int /\ h <= x /\ x < h + n
  BY <1>1
<1>3. h < g => g - h >= n
  BY <1>1, MultiplesApart
<1>4. g < h => h - g >= n
  BY <1>1, MultiplesApart
<1>5. h = g
  BY <1>2, <1>3, <1>4 DEF Positive
<1> QED
  BY <1>5 DEF h

LEMMA GroupsInOrder ==
  ASSUME NEW n \in Positive, NEW x \in Nat, NEW y \in Nat, x <= y
  PROVE  GroupOf(x, n) <= GroupOf(y, n)
<1> DEFINE g == GroupOf(x, n)
           h == GroupOf(y, n)
<1>1. /\ g \in Nat /\ g % n = 0 /\ g <= x
      /\ h \in Nat /\ h % n = 0 /\ y < h + n
  BY GroupHolds
<1> HIDE DEF g, h
<1>2. g \in Nat /\ h \in Nat /\ g <= x /\ y < h + n
  BY <1>1
<1>3. h < g => g - h >= n
  BY <1>1, MultiplesApart
<1>4. g <= h
  BY <1>2, <1>3 DEF Positive
<1> QED
  BY <1>4 DEF g, h

\* What lies beside a group of m has elements in common with it, and what
\* touches it with an end is next to it.
LEMMA BesideMeansOverlap ==
  ASSUME NEW x \in Int, NEW m \in Positive, NEW y \in Int, NEW n \in Positive
  PROVE  Beside(x, m, y, n) <=> (x .. x + m - 1) \cap (y .. y + n - 1) # {}
<1>1. ASSUME Beside(x, m, y, n) PROVE (x .. x + m - 1) \cap (y .. y + n - 1) # {}
  <2>1. CASE x <= y
    <3>1. y \in x .. x + m - 1 /\ y \in y .. y + n - 1
      BY <2>1, <1>1 DEF Beside, Positive
    <3> QED
      BY <3>1
  <2>2. CASE y < x
    <3>1. x \in x .. x + m - 1 /\ x \in y .. y + n - 1
      BY <2>2, <1>1 DEF Beside, Positive
    <3> QED
      BY <3>1
  <2> QED
    BY <2>1, <2>2
<1>2. ASSUME NEW s \in (x .. x + m - 1) \cap (y .. y + n - 1) PROVE Beside(x, m, y, n)
  BY DEF Beside, Positive
<1> QED
  BY <1>1, <1>2

LEMMA EndsMeansNext ==
  ASSUME NEW x \in Int, NEW m \in Positive, NEW y \in Int, NEW n \in Positive
  PROVE  Ends(x, m, y, n) <=> NextBins(x .. x + m - 1, y .. y + n - 1)
<1> DEFINE S == x .. x + m - 1
           T == y .. y + n - 1
<1>1. CASE y = x + m
  <2>1. S \cap T = {} /\ (x + m - 1) \in S /\ (x + m - 1) + 1 \in T
    BY <1>1 DEF Positive
  <2> QED
    BY <1>1, <2>1 DEF Ends, NextBins
<1>2. CASE y = x - n
  <2>1. S \cap T = {} /\ x \in S /\ x - 1 \in T
    BY <1>2 DEF Positive
  <2> QED
    BY <1>2, <2>1 DEF Ends, NextBins
<1>3. ASSUME NextBins(S, T) PROVE Ends(x, m, y, n)
  <2>1. ~ Beside(x, m, y, n)
    BY <1>3, BesideMeansOverlap DEF NextBins
  <2>2. PICK s \in S : s - 1 \in T \/ s + 1 \in T
    BY <1>3 DEF NextBins
  <2> QED
    BY <2>1, <2>2 DEF Beside, Ends, Positive
<1> QED
  BY <1>1, <1>2, <1>3 DEF Ends

-----------------------------------------------------------------------------
(***************************************************************************)
(* Cells: what a readout of the assumption gives for them.                 *)
(***************************************************************************)
LEMMA MergedNumbers ==
  ASSUME NEW r \in Readouts, NEW l \in Layers
  PROVE  /\ r.theta[l] \in Positive /\ r.modules[l] \in Positive
         /\ FirstTheta[l] \in Nat /\ LastTheta[l] \in Nat
         /\ FirstTheta[l] >= r.theta[l] /\ NumModules % r.modules[l] = 0
         /\ NumModules \in Positive
BY ReadoutsAssumption DEF Positive

LEMMA CellsAre ==
  ASSUME NEW r \in Readouts, NEW c
  PROVE  c \in CellsOf(r) <=>
           \E l \in Layers, m \in 0 .. NumModules - 1 : \E t \in ThetaExtremes(r, l) :
             /\ m % r.modules[l] = 0 /\ t % r.theta[l] = 0
             /\ c = [layer |-> l, module |-> m, theta |-> t]
BY DEF CellsOf

\* No cell starts at theta bin 0.
LEMMA FirstCell ==
  ASSUME NEW r \in Readouts, NEW l \in Layers, NEW t \in ThetaExtremes(r, l)
  PROVE  t \in Nat /\ t >= r.theta[l]
<1> DEFINE n == r.theta[l]
           g == GroupOf(FirstTheta[l], n)
<1>1. n \in Positive /\ FirstTheta[l] \in Nat /\ LastTheta[l] \in Nat /\ FirstTheta[l] >= n
  BY MergedNumbers
<1>2. g \in Nat /\ FirstTheta[l] < g + n /\ g % n = 0 /\ GroupOf(LastTheta[l], n) \in Nat
  BY <1>1, GroupHolds
<1>3. t >= g /\ t \in Int
  BY <1>2 DEF ThetaExtremes
<1> HIDE DEF n, g
<1>4. 0 % n = 0
  BY <1>1 DEF Positive
<1>5. 0 < g => g - 0 >= n
  BY <1>1, <1>2, <1>4, MultiplesApart
<1>6. g \in Nat /\ FirstTheta[l] < g + n /\ n \in Nat
  BY <1>1, <1>2 DEF Positive
<1>7. g >= n
  BY <1>1, <1>5, <1>6
<1>8. t >= n /\ t \in Nat
  BY <1>3, <1>6, <1>7
<1> QED
  BY <1>8 DEF n

LEMMA CellsHave ==
  ASSUME NEW r \in Readouts, NEW c \in CellsOf(r)
  PROVE  /\ c.layer \in Layers /\ c.module \in 0 .. NumModules - 1
         /\ c.theta \in ThetaExtremes(r, c.layer)
         /\ c.module % r.modules[c.layer] = 0 /\ c.theta % r.theta[c.layer] = 0
         /\ c = [layer |-> c.layer, module |-> c.module, theta |-> c.theta]
         /\ c.theta \in Nat /\ c.theta >= r.theta[c.layer]
<1>1. PICK l \in Layers, m \in 0 .. NumModules - 1 : \E t \in ThetaExtremes(r, l) :
        /\ m % r.modules[l] = 0 /\ t % r.theta[l] = 0
        /\ c = [layer |-> l, module |-> m, theta |-> t]
  BY CellsAre
<1>2. PICK t \in ThetaExtremes(r, l) :
        /\ m % r.modules[l] = 0 /\ t % r.theta[l] = 0
        /\ c = [layer |-> l, module |-> m, theta |-> t]
  BY <1>1
<1>3. t \in Nat /\ t >= r.theta[l]
  BY FirstCell
<1>4. c.layer = l /\ c.module = m /\ c.theta = t
  BY <1>2
<1> QED
  BY <1>2, <1>3, <1>4

LEMMA CellIs ==
  ASSUME NEW r \in Readouts, NEW l \in Layers, NEW m \in 0 .. NumModules - 1,
         NEW t \in ThetaExtremes(r, l), m % r.modules[l] = 0, t % r.theta[l] = 0
  PROVE  [layer |-> l, module |-> m, theta |-> t] \in CellsOf(r)
BY CellsAre

\* The cell of any bin of any module is one of the readout's.
LEMMA CellIDIsACell ==
  ASSUME NEW r \in Readouts, NEW l \in Layers, NEW m \in 0 .. NumModules - 1,
         NEW t \in FirstTheta[l] .. LastTheta[l]
  PROVE  CellID(r, l, m, t) \in CellsOf(r)
<1> DEFINE g == GroupOf(m, r.modules[l])
           u == GroupOf(t, r.theta[l])
<1>1. /\ r.theta[l] \in Positive /\ r.modules[l] \in Positive /\ m \in Nat
      /\ FirstTheta[l] \in Nat /\ LastTheta[l] \in Nat /\ NumModules \in Positive
  BY MergedNumbers
<1>2. t \in Nat /\ FirstTheta[l] <= t /\ t <= LastTheta[l]
  BY <1>1
<1>3. g \in Nat /\ g <= m /\ g % r.modules[l] = 0
  BY <1>1, GroupHolds
<1>4. u \in Nat /\ u % r.theta[l] = 0
  BY <1>1, <1>2, GroupHolds
<1>5. /\ GroupOf(FirstTheta[l], r.theta[l]) <= u /\ u <= GroupOf(LastTheta[l], r.theta[l])
      /\ GroupOf(FirstTheta[l], r.theta[l]) \in Nat /\ GroupOf(LastTheta[l], r.theta[l]) \in Nat
  BY <1>1, <1>2, GroupsInOrder, GroupHolds
<1>6. CellID(r, l, m, t) = [layer |-> l, module |-> g, theta |-> u]
  BY DEF CellID
<1> HIDE DEF g, u
<1>7. u \in ThetaExtremes(r, l)
  BY <1>4, <1>5 DEF ThetaExtremes
<1>8. g \in 0 .. NumModules - 1
  BY <1>1, <1>3 DEF Positive
<1> QED
  BY <1>3, <1>4, <1>6, <1>7, <1>8, CellIs

\* The cells a walk comes to are the readout's.
WalkOK ==
  /\ readout \in Readouts /\ cell \in CellsOf(readout)
  /\ diagonal \in BOOLEAN

THEOREM WalksOnCells == WalkSpec => []WalkOK
<1>1. AnyCell => WalkOK
  BY CellIDIsACell DEF AnyCell, WalkOK
<1>2. WalkOK /\ [Walk]_walkVars => WalkOK'
  BY DEF WalkOK, Walk, walkVars
<1> QED
  BY <1>1, <1>2, PTL DEF WalkSpec

-----------------------------------------------------------------------------
(***************************************************************************)
(* Crosstalk.                                                              *)
(***************************************************************************)

\* A group that overlaps with the m bins from x on, or touches them, holds
\* one of the bins from before to behind them.
LEMMA AroundHolds ==
  ASSUME NEW x \in Nat, NEW m \in Positive, NEW y \in Nat, NEW n \in Positive,
         y % n = 0, Beside(x, m, y, n) \/ Ends(x, m, y, n)
  PROVE  y \in GroupsAround(x, m, n)
<1> DEFINE i == IF y <= x - 1 THEN (IF y = x - n THEN -1 ELSE 0) ELSE y - x
<1>1. i \in -1 .. m /\ y <= x + i /\ x + i < y + n /\ x + i \in Nat
  BY DEF Beside, Ends, Positive
<1> HIDE DEF i
<1>2. GroupOf(x + i, n) = y
  BY <1>1, OneGroup
<1> QED
  BY <1>1, <1>2 DEF GroupsAround

LEMMA AroundAreGroups ==
  ASSUME NEW x \in Nat, NEW m \in Positive, NEW n \in Positive, x >= 1,
         NEW y \in GroupsAround(x, m, n)
  PROVE  y \in Nat /\ y % n = 0
<1>1. PICK i \in -1 .. m : y = GroupOf(x + i, n)
  BY DEF GroupsAround
<1>2. x + i \in Nat
  BY <1>1
<1> QED
  BY <1>1, <1>2, GroupHolds

\* Where cells lie in theta, as the searches tell it.
LEMMA CellsBeside ==
  ASSUME NEW r \in Readouts, NEW c \in CellsOf(r), NEW d \in CellsOf(r)
  PROVE  /\ Beside(c.theta, r.theta[c.layer], d.theta, r.theta[d.layer])
               <=> ThetaBins(r, c) \cap ThetaBins(r, d) # {}
         /\ Ends(c.theta, r.theta[c.layer], d.theta, r.theta[d.layer])
               <=> NextBins(ThetaBins(r, c), ThetaBins(r, d))
<1>1. c.layer \in Layers /\ d.layer \in Layers /\ c.theta \in Int /\ d.theta \in Int
  BY CellsHave
<1>2. r.theta[c.layer] \in Positive /\ r.theta[d.layer] \in Positive
  BY <1>1, MergedNumbers
<1> QED
  BY <1>1, <1>2, BesideMeansOverlap, EndsMeansNext DEF ThetaBins

\* The kind of crosstalk that the search gives a cell is that of its place.
LEMMA KindIsCrosstalk ==
  ASSUME NEW r \in Readouts, NEW c \in CellsOf(r), NEW d \in CellsOf(r), d.layer # c.layer
  PROVE  Kind(r, c, d.layer, d.theta) = Crosstalk(r, c, d)
<1> DEFINE overlap == ThetaBins(r, c) \cap ThetaBins(r, d) # {}
           beside == NextBins(ThetaBins(r, c), ThetaBins(r, d))
           near == d.layer \in Adjacent(c.layer)
<1>1. /\ Beside(c.theta, r.theta[c.layer], d.theta, r.theta[d.layer]) <=> overlap
      /\ Ends(c.theta, r.theta[c.layer], d.theta, r.theta[d.layer]) <=> beside
  BY CellsBeside
<1>2. ~ (overlap /\ beside)
  BY DEF NextBins
<1>3. d.layer \notin Adjacent(c.layer) \cup {c.layer} <=> ~ near
  OBVIOUS
<1>4. Crosstalk(r, c, d) = CASE d.layer = c.layer /\ beside -> "theta"
                             [] near /\ overlap -> "radial"
                             [] near /\ beside -> "diagonal"
                             [] ~ near /\ overlap -> "tower"
                             [] OTHER -> "none"
  BY <1>3 DEF Crosstalk
<1>5. Kind(r, c, d.layer, d.theta) =
        IF near THEN CASE overlap -> "radial" [] beside -> "diagonal" [] OTHER -> "none"
                ELSE IF overlap THEN "tower" ELSE "none"
  BY <1>1 DEF Kind, RadialOrDiagonal, Tower
<1> HIDE DEF overlap, beside, near
<1>6. CASE near
  BY <1>2, <1>4, <1>5, <1>6
<1>7. CASE ~ near
  BY <1>2, <1>4, <1>5, <1>7
<1> QED
  BY <1>6, <1>7

\* In its own layer, a cell has crosstalk with those it touches.
LEMMA CrosstalkInLayer ==
  ASSUME NEW r \in Readouts, NEW c \in CellsOf(r), NEW d \in CellsOf(r), d.layer = c.layer
  PROVE  Crosstalk(r, c, d) =
           IF Ends(c.theta, r.theta[c.layer], d.theta, r.theta[c.layer]) THEN "theta" ELSE "none"
<1>1. d.layer \notin Adjacent(c.layer)
  <2>1. c.layer \in Int
    BY CellsHave, ReadoutsAssumption DEF Layers
  <2> QED
    BY <2>1 DEF Adjacent
<1>2. Crosstalk(r, c, d) =
        IF NextBins(ThetaBins(r, c), ThetaBins(r, d)) THEN "theta" ELSE "none"
  BY <1>1 DEF Crosstalk
<1> QED
  BY <1>2, CellsBeside

\* Layers that merge the same number of modules have the same groups of them.
SameModules(r) == \A l \in Layers : r.modules[l] = r.modules[0]

LEMMA CellElsewhere ==
  ASSUME NEW c, c = [layer |-> c.layer, module |-> c.module, theta |-> c.theta], NEW l, NEW t
  PROVE  [c EXCEPT !.layer = l, !.theta = t] = [layer |-> l, module |-> c.module, theta |-> t]
<1> DEFINE e == [c EXCEPT !.layer = l, !.theta = t]
           d == [layer |-> l, module |-> c.module, theta |-> t]
<1>1. e = [x \in {"layer", "module", "theta"} |-> e[x]]
  OBVIOUS
<1>2. e.layer = l /\ e.module = c.module /\ e.theta = t
  OBVIOUS
<1>3. d = [x \in {"layer", "module", "theta"} |-> d[x]]
  OBVIOUS
<1>4. d.layer = l /\ d.module = c.module /\ d.theta = t
  OBVIOUS
<1> HIDE DEF d, e
<1>5. d = e
  BY <1>1, <1>2, <1>3, <1>4
<1> QED
  BY <1>5 DEF d, e

\* What is found in other layers are cells of the same modules that have
\* crosstalk.
LEMMA OtherLayersGiveCells ==
  ASSUME NEW r \in Readouts, SameModules(r), NEW c \in CellsOf(r),
         NEW l \in Layers \ {c.layer}, NEW x \in InOtherLayer(r, c, l)
  PROVE  \E d \in CellsOf(r) : /\ d.module = c.module /\ Crosstalk(r, c, d) # "none"
                               /\ x = [cell |-> d, kind |-> Crosstalk(r, c, d)]
<1>1. /\ c.layer \in Layers /\ c.module \in 0 .. NumModules - 1 /\ c.theta \in Nat
      /\ c.theta >= r.theta[c.layer] /\ c.module % r.modules[c.layer] = 0
      /\ c = [layer |-> c.layer, module |-> c.module, theta |-> c.theta]
  BY CellsHave
<1>2. r.theta[c.layer] \in Positive /\ r.theta[l] \in Positive
  BY <1>1, MergedNumbers
<1>3. PICK t \in GroupsAround(c.theta, r.theta[c.layer], r.theta[l]) :
        /\ Kind(r, c, l, t) # "none" /\ t \in ThetaExtremes(r, l)
        /\ x = [cell |-> [c EXCEPT !.layer = l, !.theta = t], kind |-> Kind(r, c, l, t)]
  BY DEF InOtherLayer
<1>4. t % r.theta[l] = 0
  <2>1. c.theta >= 1
    BY <1>1, <1>2 DEF Positive
  <2> QED
    BY <1>1, <1>2, <1>3, <2>1, AroundAreGroups
<1>5. r.modules[l] = r.modules[c.layer]
  BY <1>1 DEF SameModules
<1> DEFINE d == [layer |-> l, module |-> c.module, theta |-> t]
<1>6. d \in CellsOf(r)
  BY <1>1, <1>3, <1>4, <1>5, CellIs
<1>7. [c EXCEPT !.layer = l, !.theta = t] = d
  BY <1>1, CellElsewhere
<1>8. d.layer = l /\ d.module = c.module /\ d.theta = t
  OBVIOUS
<1> HIDE DEF d
<1>9. Kind(r, c, l, t) = Crosstalk(r, c, d)
  BY <1>6, <1>8, KindIsCrosstalk
<1> QED
  BY <1>3, <1>6, <1>7, <1>8, <1>9

\* So it is in the layer of the cell.
LEMMA ThisLayerGivesCells ==
  ASSUME NEW r \in Readouts, NEW c \in CellsOf(r), NEW x \in InThisLayer(r, c)
  PROVE  \E d \in CellsOf(r) : /\ d.module = c.module /\ Crosstalk(r, c, d) # "none"
                               /\ x = [cell |-> d, kind |-> Crosstalk(r, c, d)]
<1>1. /\ c.layer \in Layers /\ c.module \in 0 .. NumModules - 1 /\ c.theta \in Nat
      /\ c.module % r.modules[c.layer] = 0 /\ c.theta % r.theta[c.layer] = 0
      /\ c = [layer |-> c.layer, module |-> c.module, theta |-> c.theta]
  BY CellsHave
<1>2. r.theta[c.layer] \in Positive
  BY <1>1, MergedNumbers
<1>3. PICK t \in {c.theta - r.theta[c.layer], c.theta + r.theta[c.layer]}
                   \cap ThetaExtremes(r, c.layer) :
        x = [cell |-> [c EXCEPT !.theta = t], kind |-> "theta"]
  BY DEF InThisLayer
<1>4. t % r.theta[c.layer] = 0
  BY <1>1, <1>2, <1>3, NextMultiples
<1> DEFINE d == [layer |-> c.layer, module |-> c.module, theta |-> t]
<1>5. d \in CellsOf(r)
  BY <1>1, <1>3, <1>4, CellIs
<1>6. [c EXCEPT !.theta = t] = d
  BY <1>1
<1>7. d.layer = c.layer /\ d.module = c.module /\ d.theta = t
  OBVIOUS
<1> HIDE DEF d
<1>8. Ends(c.theta, r.theta[c.layer], d.theta, r.theta[c.layer])
  BY <1>3, <1>7 DEF Ends
<1>9. Crosstalk(r, c, d) = "theta"
  BY <1>5, <1>7, <1>8, CrosstalkInLayer
<1> QED
  BY <1>3, <1>5, <1>6, <1>7, <1>9

\* A cell of the same modules that has crosstalk is found.
LEMMA CrosstalkIsFound ==
  ASSUME NEW r \in Readouts, NEW c \in CellsOf(r), NEW d \in CellsOf(r),
         d.module = c.module, Crosstalk(r, c, d) # "none"
  PROVE  [cell |-> d, kind |-> Crosstalk(r, c, d)] \in xtalkNeighbours(r, c)
<1>1. /\ c.layer \in Layers /\ c.theta \in Nat /\ c.theta >= r.theta[c.layer]
      /\ c = [layer |-> c.layer, module |-> c.module, theta |-> c.theta]
  BY CellsHave
<1>2. /\ d.layer \in Layers /\ d.theta \in ThetaExtremes(r, d.layer) /\ d.theta \in Nat
      /\ d.theta % r.theta[d.layer] = 0
      /\ d = [layer |-> d.layer, module |-> d.module, theta |-> d.theta]
  BY CellsHave
<1>3. r.theta[c.layer] \in Positive /\ r.theta[d.layer] \in Positive
  BY <1>1, <1>2, MergedNumbers
<1>4. CASE d.layer = c.layer
  <2>1. Ends(c.theta, r.theta[c.layer], d.theta, r.theta[c.layer]) /\ Crosstalk(r, c, d) = "theta"
    BY <1>4, CrosstalkInLayer
  <2>2. d.theta \in {c.theta - r.theta[c.layer], c.theta + r.theta[c.layer]}
    BY <2>1 DEF Ends
  <2>3. d = [c EXCEPT !.theta = d.theta]
    BY <1>1, <1>2, <1>4
  <2>4. [cell |-> d, kind |-> "theta"] \in InThisLayer(r, c)
    BY <1>2, <1>4, <2>2, <2>3 DEF InThisLayer
  <2> QED
    BY <2>1, <2>4 DEF xtalkNeighbours
<1>5. CASE d.layer # c.layer
  <2>1. Kind(r, c, d.layer, d.theta) = Crosstalk(r, c, d)
    BY <1>5, KindIsCrosstalk
  <2>2. \/ Beside(c.theta, r.theta[c.layer], d.theta, r.theta[d.layer])
        \/ Ends(c.theta, r.theta[c.layer], d.theta, r.theta[d.layer])
    BY <2>1 DEF Kind, RadialOrDiagonal, Tower
  <2>4. d.theta \in GroupsAround(c.theta, r.theta[c.layer], r.theta[d.layer])
    BY <1>1, <1>2, <1>3, <2>2, AroundHolds
  <2>5. d = [c EXCEPT !.layer = d.layer, !.theta = d.theta]
    BY <1>1, <1>2
  <2>6. [cell |-> d, kind |-> Crosstalk(r, c, d)] \in InOtherLayer(r, c, d.layer)
    BY <1>2, <2>1, <2>4, <2>5 DEF InOtherLayer
  <2> QED
    BY <1>2, <1>5, <2>6 DEF xtalkNeighbours
<1> QED
  BY <1>4, <1>5

(***************************************************************************)
(* The crosstalk neighbours of a cell, which the search finds by rounding  *)
(* bins to groups, are the cells of its modules that overlap with it or    *)
(* are next to it in theta, each with the kind that its place tells, for   *)
(* every readout whose layers merge the same number of modules.            *)
(***************************************************************************)
THEOREM CrosstalkIsThatOfThePlace == WalkSpec => []CrosstalkIsByPosition
<1>1. ASSUME NEW r \in Readouts, NEW c \in CellsOf(r), SameModules(r)
      PROVE  xtalkNeighbours(r, c) =
               {[cell |-> d, kind |-> Crosstalk(r, c, d)] :
                  d \in {e \in CellsOf(r) : e.module = c.module /\ Crosstalk(r, c, e) # "none"}}
  <2> DEFINE R == {[cell |-> d, kind |-> Crosstalk(r, c, d)] :
               d \in {e \in CellsOf(r) : e.module = c.module /\ Crosstalk(r, c, e) # "none"}}
  <2>1. ASSUME NEW x \in xtalkNeighbours(r, c) PROVE x \in R
    <3>1. \E d \in CellsOf(r) : /\ d.module = c.module /\ Crosstalk(r, c, d) # "none"
                                /\ x = [cell |-> d, kind |-> Crosstalk(r, c, d)]
      BY <1>1, OtherLayersGiveCells, ThisLayerGivesCells DEF xtalkNeighbours
    <3> QED
      BY <3>1
  <2>2. ASSUME NEW x \in R PROVE x \in xtalkNeighbours(r, c)
    BY CrosstalkIsFound
  <2> QED
    BY <2>1, <2>2
<1>2. WalkOK => CrosstalkIsByPosition
  BY <1>1 DEF WalkOK, CrosstalkIsByPosition, SameModules
<1> QED
  BY <1>2, WalksOnCells, PTL

-----------------------------------------------------------------------------
(***************************************************************************)
(* Neighbours: modules around the circle.                                  *)
(***************************************************************************)

\* No layer merges all modules into one: its cells would be neighbours of
\* themselves, on either side of the circle.
SeveralGroups == \A r \in Readouts, l \in Layers : r.modules[l] < NumModules

\* The group of n from y on is next to the group of m from x on, around the
\* circle.
NextAround(x, m, y, n) ==
  \/ Ends(x, m, y, n)
  \/ x + m = NumModules /\ y = 0
  \/ x = 0 /\ y + n = NumModules

LEMMA SmallRemainder ==
  ASSUME NEW n \in Positive, NEW s \in 0 .. n - 1
  PROVE  s % n = s
<1>1. s \in Int /\ s = n * 0 + s
  BY DEF Positive
<1> QED
  BY <1>1, OneRemainder

LEMMA ModulesBeside ==
  ASSUME NEW s \in 0 .. NumModules - 1
  PROVE  /\ (s + 1) % NumModules = IF s + 1 = NumModules THEN 0 ELSE s + 1
         /\ (s - 1) % NumModules = IF s = 0 THEN NumModules - 1 ELSE s - 1
<1> DEFINE N == NumModules
<1>1. N \in Positive /\ s \in Int /\ 0 <= s /\ s <= N - 1
  BY ReadoutsAssumption DEF Positive
<1> HIDE DEF N
<1>2. ASSUME s + 1 = N PROVE (s + 1) % N = 0
  <2>1. s + 1 = N * 1 + 0 /\ 0 \in 0 .. N - 1 /\ s + 1 \in Int /\ 1 \in Int
    BY <1>1, <1>2 DEF Positive
  <2> QED
    BY <1>1, <2>1, OneRemainder
<1>3. ASSUME s + 1 # N PROVE (s + 1) % N = s + 1
  <2>1. s + 1 \in 0 .. N - 1
    BY <1>1, <1>3 DEF Positive
  <2> QED
    BY <1>1, <2>1, SmallRemainder
<1>4. ASSUME s = 0 PROVE (s - 1) % N = N - 1
  <2>1. s - 1 = N * (-1) + (N - 1) /\ N - 1 \in 0 .. N - 1 /\ s - 1 \in Int /\ -1 \in Int
    BY <1>1, <1>4 DEF Positive
  <2> QED
    BY <1>1, <2>1, OneRemainder
<1>5. ASSUME s # 0 PROVE (s - 1) % N = s - 1
  <2>1. s - 1 \in 0 .. N - 1
    BY <1>1, <1>5 DEF Positive
  <2> QED
    BY <1>1, <2>1, SmallRemainder
<1> QED
  BY <1>2, <1>3, <1>4, <1>5 DEF N

LEMMA CyclicIs ==
  ASSUME NEW m \in Int
  PROVE  /\ m \in 0 .. NumModules - 1 => Cyclic(m) = m
         /\ m = NumModules => Cyclic(m) = 0
         /\ m < 0 /\ m > - NumModules => Cyclic(m) = NumModules + m
<1> DEFINE N == NumModules
           n == N - 1 - 0 + 1
           before == 0 - m
           past == m - 0
           last == N - 1
<1>1. N \in Positive
  BY ReadoutsAssumption DEF Positive
<1>2. Cyclic(m) = CASE m < 0 -> last + 1 - Remainder(before, n)
                    [] m > last -> Remainder(past, n) + 0
                    [] OTHER -> m
  BY DEF Cyclic, cyclicNeighbour
<1>3. last = N - 1 /\ n = N /\ before = - m /\ past = m
  BY <1>1 DEF Positive
<1> HIDE DEF N, n, before, past, last
<1>4. ASSUME m \in 0 .. N - 1 PROVE Cyclic(m) = m
  <2>1. ~ (m < 0) /\ ~ (m > last)
    BY <1>1, <1>3, <1>4 DEF Positive
  <2> QED
    BY <1>2, <2>1
<1>5. ASSUME m = N PROVE Cyclic(m) = 0
  <2>1. N = N * 1 + 0 /\ 0 \in 0 .. N - 1 /\ 1 \in Int /\ N \in Int
    BY <1>1 DEF Positive
  <2>2. N % N = 0
    BY <1>1, <2>1, OneRemainder
  <2>3. ~ (m < 0) /\ m > last /\ N >= 0
    BY <1>1, <1>3, <1>5 DEF Positive
  <2>4. Remainder(past, n) = 0
    BY <1>3, <1>5, <2>2, <2>3 DEF Remainder
  <2> QED
    BY <1>2, <2>3, <2>4
<1>6. ASSUME m < 0, m > - N PROVE Cyclic(m) = N + m
  <2>1. - m \in 0 .. N - 1 /\ before >= 0 /\ ~ (m > last)
    BY <1>1, <1>3, <1>6 DEF Positive
  <2>2. before % n = - m
    BY <1>1, <1>3, <2>1, SmallRemainder
  <2>3. Remainder(before, n) = - m
    BY <2>1, <2>2 DEF Remainder
  <2>4. Cyclic(m) = last + 1 - Remainder(before, n)
    BY <1>2, <1>6, <2>1
  <2> QED
    BY <1>1, <1>3, <2>3, <2>4 DEF Positive
<1> QED
  BY <1>4, <1>5, <1>6 DEF N

\* Groups of modules that have none in common are next to each other if they
\* are so around the circle.
LEMMA NextModulesMeansAround ==
  ASSUME NEW x \in Nat, NEW m \in Positive, x + m <= NumModules,
         NEW y \in Nat, NEW n \in Positive, y + n <= NumModules,
         ~ Beside(x, m, y, n)
  PROVE  NextModules(x .. x + m - 1, y .. y + n - 1) <=> NextAround(x, m, y, n)
<1> DEFINE S == x .. x + m - 1
           T == y .. y + n - 1
           N == NumModules
<1>1. N \in Nat /\ m \in Nat /\ n \in Nat /\ m >= 1 /\ n >= 1 /\ x + m <= N /\ y + n <= N
  BY ReadoutsAssumption DEF Positive
<1>2. y >= x + m \/ y <= x - n
  BY <1>1 DEF Beside
<1>3. S \cap T = {}
  BY BesideMeansOverlap
<1>4. ASSUME NEW s \in S
      PROVE  /\ s \in 0 .. N - 1
             /\ (s + 1) % N = IF s + 1 = N THEN 0 ELSE s + 1
             /\ (s - 1) % N = IF s = 0 THEN N - 1 ELSE s - 1
  <2>1. s \in 0 .. N - 1
    BY <1>1
  <2> QED
    BY <2>1, ModulesBeside
<1>5. ASSUME NEW s \in S, (s + 1) % N \in T PROVE NextAround(x, m, y, n)
  <2>1. (IF s + 1 = N THEN 0 ELSE s + 1) \in T
    BY <1>4, <1>5
  <2>2. s \in Int /\ x <= s /\ s <= x + m - 1
    BY <1>1
  <2>3. CASE s + 1 = N
    <3>1. 0 \in T
      BY <2>1, <2>3
    <3>2. y = 0 /\ x + m = N
      BY <1>1, <2>2, <2>3, <3>1
    <3> QED
      BY <3>2 DEF NextAround
  <2>4. CASE s + 1 # N
    <3>1. s + 1 \in T
      BY <2>1, <2>4
    <3>2. y = x + m
      BY <1>1, <1>2, <2>2, <3>1
    <3> QED
      BY <3>2 DEF NextAround, Ends
  <2> QED
    BY <2>3, <2>4
<1>6. ASSUME NEW s \in S, (s - 1) % N \in T PROVE NextAround(x, m, y, n)
  <2>1. (IF s = 0 THEN N - 1 ELSE s - 1) \in T
    BY <1>4, <1>6
  <2>2. s \in Int /\ x <= s /\ s <= x + m - 1
    BY <1>1
  <2>3. CASE s = 0
    <3>1. N - 1 \in T
      BY <2>1, <2>3
    <3>2. x = 0 /\ y + n = N
      BY <1>1, <2>2, <2>3, <3>1
    <3> QED
      BY <3>2 DEF NextAround
  <2>4. CASE s # 0
    <3>1. s - 1 \in T
      BY <2>1, <2>4
    <3>2. y = x - n
      BY <1>1, <1>2, <2>2, <3>1
    <3> QED
      BY <3>2 DEF NextAround, Ends
  <2> QED
    BY <2>3, <2>4
<1>7. ASSUME NextAround(x, m, y, n)
      PROVE  \E s \in S : (s - 1) % N \in T \/ (s + 1) % N \in T
  <2> DEFINE b == x + m - 1
  <2>1. x \in S /\ b \in S
    BY <1>1
  <2>2. b \in Nat /\ (b + 1 = N <=> x + m = N) /\ b + 1 = x + m
    BY <1>1
  <2>3. CASE y = x + m
    <3>1. b + 1 # N /\ b + 1 \in T
      BY <1>1, <2>2, <2>3
    <3>2. (b + 1) % N \in T
      BY <1>4, <2>1, <3>1
    <3> QED
      BY <2>1, <3>2
  <2>4. CASE y = x - n
    <3>1. x # 0 /\ x - 1 \in T
      BY <1>1, <2>4
    <3>2. (x - 1) % N \in T
      BY <1>4, <2>1, <3>1
    <3> QED
      BY <2>1, <3>2
  <2>5. CASE x + m = N /\ y = 0
    <3>1. 0 \in T /\ b + 1 = N
      BY <1>1, <2>5
    <3>2. (b + 1) % N \in T
      BY <1>4, <2>1, <3>1
    <3> QED
      BY <2>1, <3>2
  <2>6. CASE x = 0 /\ y + n = N
    <3>1. N - 1 \in T
      BY <1>1, <2>6
    <3>2. (x - 1) % N \in T
      BY <1>4, <2>1, <2>6, <3>1
    <3> QED
      BY <2>1, <3>2
  <2> QED
    BY <1>7, <2>3, <2>4, <2>5, <2>6 DEF NextAround, Ends
<1> HIDE DEF S, T, N
<1>8. (\E s \in S : (s - 1) % N \in T \/ (s + 1) % N \in T) <=> NextAround(x, m, y, n)
  BY <1>5, <1>6, <1>7
<1>9. NextModules(S, T) <=> NextAround(x, m, y, n)
  BY <1>3, <1>8 DEF NextModules, N
<1> QED
  BY <1>9 DEF S, T

LEMMA GroupBeforeFirst ==
  ASSUME NEW a \in Int, a + 1 = 0, NEW n \in Positive
  PROVE  GroupOf(a, n) = a + (1 % n)
<1>1. 1 % n \in Int
  BY Division
<1> DEFINE b == - a
<1>2. b = 1 /\ ~ (a >= 0)
  OBVIOUS
<1>3. Remainder(a, n) = - (b % n)
  BY <1>2 DEF Remainder
<1> HIDE DEF b
<1>4. GroupOf(a, n) = a - (- (1 % n))
  BY <1>2, <1>3 DEF GroupOf
<1> QED
  BY <1>1, <1>4

\* The groups looked at around one of modules: all begin at a module or behind
\* the last one, but for the one before the first module where single modules
\* are not merged.
LEMMA ModulesAround ==
  ASSUME NEW x \in Nat, NEW m \in Positive, NEW n \in Positive, NEW p \in GroupsAround(x, m, n)
  PROVE  p \in Nat \/ (x = 0 /\ n = 1 /\ p = -1)
<1>1. PICK i \in -1 .. m : p = GroupOf(x + i, n)
  BY DEF GroupsAround
<1>2. CASE x + i \in Nat
  BY <1>1, <1>2, GroupHolds
<1>3. CASE x + i \notin Nat
  <2>1. x + i = -1 /\ x = 0
    BY <1>3
  <2>2. GroupOf(-1, n) = -1 + (1 % n)
    BY GroupBeforeFirst
  <2>3. CASE n = 1
    <3>1. 1 % n = 0
      BY <2>3
    <3> QED
      BY <1>1, <2>1, <2>2, <2>3, <3>1
  <2>4. CASE n # 1
    <3>1. 1 \in 0 .. n - 1
      BY <2>4 DEF Positive
    <3>2. 1 % n = 1
      BY <3>1, SmallRemainder
    <3> QED
      BY <1>1, <2>1, <2>2, <3>2
  <2> QED
    BY <2>3, <2>4
<1> QED
  BY <1>2, <1>3

\* A group found around one of modules lies as the search says, also after its
\* first module has been made one of the circle's.
LEMMA FoundModulesTouch ==
  ASSUME NEW x \in Nat, NEW m \in Positive, m < NumModules, x + m <= NumModules,
         NEW n \in Positive, NEW p \in GroupsAround(x, m, n), NEW y, y = Cyclic(p)
  PROVE  /\ Beside(x, m, p, n) => Beside(x, m, y, n)
         /\ Ends(x, m, p, n) => NextAround(x, m, y, n)
<1> DEFINE N == NumModules
<1>1. N \in Nat /\ m \in Nat /\ n \in Nat /\ m >= 1 /\ n >= 1 /\ m < N /\ x + m <= N
  BY ReadoutsAssumption DEF Positive
<1>2. p \in Nat \/ (x = 0 /\ n = 1 /\ p = -1)
  BY ModulesAround
<1> HIDE DEF N
<1>3. CASE p \in 0 .. N - 1
  <2>1. y = p
    BY <1>3, CyclicIs DEF N
  <2> QED
    BY <2>1 DEF NextAround
<1>4. CASE p \in Nat /\ p >= N
  <2>1. ~ Beside(x, m, p, n)
    BY <1>1, <1>4 DEF Beside
  <2>2. ASSUME Ends(x, m, p, n) PROVE NextAround(x, m, y, n)
    <3>1. p = N /\ x + m = N
      BY <1>1, <1>4, <2>2 DEF Ends
    <3>2. y = 0
      BY <3>1, CyclicIs, <1>4 DEF N
    <3> QED
      BY <3>1, <3>2 DEF NextAround, N
  <2> QED
    BY <2>1, <2>2
<1>5. CASE x = 0 /\ n = 1 /\ p = -1
  <2>1. ~ Beside(x, m, p, n)
    BY <1>1, <1>5 DEF Beside
  <2>2. p \in Int /\ p < 0 /\ p > - N
    BY <1>1, <1>5
  <2>3. y = N + p
    BY <2>2, CyclicIs DEF N
  <2>4. y + n = N
    BY <1>1, <1>5, <2>3
  <2> QED
    BY <1>5, <2>1, <2>4 DEF NextAround, N
<1> QED
  BY <1>1, <1>2, <1>3, <1>4, <1>5

\* Around a group of modules that is not the first, those that lie so are found.
LEMMA TouchingModulesAreFound ==
  ASSUME NEW x \in Nat, NEW m \in Positive, x + m <= NumModules,
         NEW y \in Nat, NEW n \in Positive, y + n <= NumModules,
         y % n = 0, NumModules % n = 0
  PROVE  /\ Beside(x, m, y, n) => y \in GroupsAround(x, m, n) /\ Cyclic(y) = y
         /\ NextAround(x, m, y, n) /\ x # 0 =>
              \E p \in GroupsAround(x, m, n) : Cyclic(p) = y /\ Ends(x, m, p, n)
<1> DEFINE N == NumModules
<1>1. N \in Nat /\ m \in Nat /\ n \in Nat /\ m >= 1 /\ n >= 1 /\ y + n <= N /\ x + m <= N
  BY ReadoutsAssumption DEF Positive
<1> HIDE DEF N
<1>2. Cyclic(y) = y
  <2>1. y \in 0 .. N - 1
    BY <1>1
  <2> QED
    BY <2>1, CyclicIs DEF N
<1>3. Beside(x, m, y, n) \/ Ends(x, m, y, n) => y \in GroupsAround(x, m, n)
  BY AroundHolds
<1>4. ASSUME x + m = N, y = 0
      PROVE  \E p \in GroupsAround(x, m, n) : Cyclic(p) = y /\ Ends(x, m, p, n)
  <2>1. Ends(x, m, N, n)
    BY <1>4 DEF Ends
  <2>2. N \in GroupsAround(x, m, n)
    BY <1>1, <2>1, AroundHolds DEF N
  <2>3. Cyclic(N) = 0
    BY <1>1, CyclicIs DEF N
  <2> QED
    BY <1>4, <2>1, <2>2, <2>3
<1> QED
  BY <1>2, <1>3, <1>4 DEF NextAround, N

\* The modules of a cell are modules there are.
LEMMA CellModules ==
  ASSUME NEW r \in Readouts, NEW c \in CellsOf(r)
  PROVE  /\ c.module \in Nat /\ r.modules[c.layer] \in Positive
         /\ c.module + r.modules[c.layer] <= NumModules
         /\ c.module % r.modules[c.layer] = 0 /\ NumModules % r.modules[c.layer] = 0
<1> DEFINE m == r.modules[c.layer]
<1>1. c.layer \in Layers /\ c.module \in 0 .. NumModules - 1 /\ c.module % m = 0
  BY CellsHave
<1>2. m \in Positive /\ NumModules % m = 0 /\ NumModules \in Positive
  BY <1>1, MergedNumbers
<1> HIDE DEF m
<1>3. c.module \in Nat /\ c.module < NumModules /\ NumModules \in Nat
  BY <1>1, <1>2 DEF Positive
<1>4. NumModules - c.module >= m
  BY <1>1, <1>2, <1>3, MultiplesApart
<1>5. c.module + m <= NumModules
  BY <1>2, <1>3, <1>4 DEF Positive
<1> QED
  BY <1>1, <1>2, <1>3, <1>5 DEF m

\* How cells lie around the circle, as the searches tell it.
LEMMA CellsAround ==
  ASSUME NEW r \in Readouts, NEW c \in CellsOf(r), NEW d \in CellsOf(r)
  PROVE  /\ Beside(c.module, r.modules[c.layer], d.module, r.modules[d.layer])
               <=> Modules(r, c) \cap Modules(r, d) # {}
         /\ Modules(r, c) \cap Modules(r, d) # {} \/ NextModules(Modules(r, c), Modules(r, d))
               <=> \/ Beside(c.module, r.modules[c.layer], d.module, r.modules[d.layer])
                   \/ NextAround(c.module, r.modules[c.layer], d.module, r.modules[d.layer])
<1> DEFINE x == c.module
           m == r.modules[c.layer]
           y == d.module
           n == r.modules[d.layer]
<1>1. /\ x \in Nat /\ m \in Positive /\ x + m <= NumModules
      /\ y \in Nat /\ n \in Positive /\ y + n <= NumModules
  BY CellModules
<1> HIDE DEF x, m, y, n
<1>2. Beside(x, m, y, n) <=> (x .. x + m - 1) \cap (y .. y + n - 1) # {}
  BY <1>1, BesideMeansOverlap
<1>3. ~ Beside(x, m, y, n) =>
        (NextModules(x .. x + m - 1, y .. y + n - 1) <=> NextAround(x, m, y, n))
  BY <1>1, NextModulesMeansAround
<1> QED
  BY <1>2, <1>3 DEF x, m, y, n, Modules

LEMMA AdjacentLayers ==
  ASSUME NEW l \in Layers, NEW k \in Layers
  PROVE  k \in Adjacent(l) <=> k # l /\ k \in l - 1 .. l + 1
<1>1. l \in Int /\ k \in Int
  BY ReadoutsAssumption DEF Layers
<1> QED
  BY <1>1 DEF Adjacent

\* In the layers beside it, the cells found touch the cell.
LEMMA AcrossLayersTouch ==
  ASSUME SeveralGroups, NEW r \in Readouts, NEW c \in CellsOf(r), NEW diag \in BOOLEAN,
         NEW l \in Adjacent(c.layer), NEW d \in AcrossLayers(r, c, diag, l), d \in CellsOf(r)
  PROVE  d \in Touching(r, c, diag)
<1> DEFINE x == c.module
           m == r.modules[c.layer]
           n == r.modules[l]
           bins == ThetaBins(r, c) \cap ThetaBins(r, d) # {}
           modules == Modules(r, c) \cap Modules(r, d) # {}
<1>1. PICK p \in GroupsAround(x, m, n) \X GroupsAround(c.theta, r.theta[c.layer], r.theta[l]) :
        /\ d = [layer |-> l, module |-> Cyclic(p[1]), theta |-> p[2]]
        /\ \/ Beside(c.theta, r.theta[c.layer], p[2], r.theta[l]) /\ Beside(x, m, p[1], n)
           \/ /\ diag
              /\ \/ Beside(c.theta, r.theta[c.layer], p[2], r.theta[l])
                 \/ Ends(c.theta, r.theta[c.layer], p[2], r.theta[l])
              /\ Beside(x, m, p[1], n) \/ Ends(x, m, p[1], n)
  BY DEF AcrossLayers
<1>2. d.layer = l /\ d.module = Cyclic(p[1]) /\ d.theta = p[2] /\ p[1] \in GroupsAround(x, m, n)
  BY <1>1
<1>3. c.layer \in Layers /\ l \in Layers /\ l # c.layer /\ l \in c.layer - 1 .. c.layer + 1
  <2>1. c.layer \in Layers
    BY CellsHave
  <2>2. l \in Layers
    BY DEF Adjacent
  <2> QED
    BY <2>1, <2>2, AdjacentLayers
<1>4. x \in Nat /\ m \in Positive /\ x + m <= NumModules /\ m < NumModules /\ n \in Positive
  BY <1>3, CellModules, MergedNumbers DEF SeveralGroups
<1> HIDE DEF x, m, n, bins, modules
<1>5. /\ Beside(x, m, p[1], n) => Beside(x, m, d.module, n)
      /\ Ends(x, m, p[1], n) => NextAround(x, m, d.module, n)
  BY <1>2, <1>4, FoundModulesTouch
<1>6. /\ Beside(x, m, d.module, n) <=> modules
      /\ Beside(x, m, d.module, n) \/ NextAround(x, m, d.module, n)
           <=> modules \/ NextModules(Modules(r, c), Modules(r, d))
  BY <1>2, CellsAround DEF x, m, n, modules
<1>7. /\ Beside(c.theta, r.theta[c.layer], p[2], r.theta[l]) <=> bins
      /\ Ends(c.theta, r.theta[c.layer], p[2], r.theta[l])
           <=> NextBins(ThetaBins(r, c), ThetaBins(r, d))
  BY <1>2, CellsBeside DEF bins
<1>8. ASSUME ~ diag PROVE Faces(r, c, d)
  <2>1. bins /\ modules
    BY <1>1, <1>5, <1>6, <1>7, <1>8
  <2> QED
    BY <1>2, <1>3, <2>1 DEF Faces, bins, modules
<1>9. ASSUME diag PROVE Meet(r, c, d)
  <2>1. /\ bins \/ NextBins(ThetaBins(r, c), ThetaBins(r, d))
        /\ modules \/ NextModules(Modules(r, c), Modules(r, d))
    BY <1>1, <1>5, <1>6, <1>7
  <2>2. c # d
    BY <1>2, <1>3
  <2> QED
    BY <2>1, <2>2 DEF Meet, bins, modules
<1> QED
  BY <1>2, <1>3, <1>8, <1>9 DEF Touching

\* In the layers beside it, the cells that touch the cell are found, with
\* diagonals from all modules but the first.
LEMMA AcrossLayersFind ==
  ASSUME NEW r \in Readouts, NEW c \in CellsOf(r), NEW diag \in BOOLEAN,
         ~ (diag /\ c.module = 0), NEW d \in Touching(r, c, diag), d.layer # c.layer
  PROVE  d.layer \in Adjacent(c.layer) /\ d \in AcrossLayers(r, c, diag, d.layer)
<1> DEFINE x == c.module
           m == r.modules[c.layer]
           y == d.module
           n == r.modules[d.layer]
           l == d.layer
           bins == ThetaBins(r, c) \cap ThetaBins(r, d) # {}
           modules == Modules(r, c) \cap Modules(r, d) # {}
           Found(p, t) ==
             \/ Beside(c.theta, r.theta[c.layer], t, r.theta[l]) /\ Beside(x, m, p, n)
             \/ /\ diag
                /\ \/ Beside(c.theta, r.theta[c.layer], t, r.theta[l])
                   \/ Ends(c.theta, r.theta[c.layer], t, r.theta[l])
                /\ Beside(x, m, p, n) \/ Ends(x, m, p, n)
<1>1. /\ d \in CellsOf(r) /\ l \in c.layer - 1 .. c.layer + 1
      /\ IF diag THEN Meet(r, c, d) ELSE Faces(r, c, d)
  BY DEF Touching
<1>2. /\ c.layer \in Layers /\ c.theta \in Nat /\ l \in Layers /\ d.theta \in Nat
      /\ d.theta % r.theta[l] = 0
      /\ d = [layer |-> d.layer, module |-> d.module, theta |-> d.theta]
  BY <1>1, CellsHave
<1>3. l \in Adjacent(c.layer)
  BY <1>1, <1>2, AdjacentLayers
<1>4. r.theta[c.layer] \in Positive /\ r.theta[l] \in Positive
  BY <1>2, MergedNumbers
<1>5. /\ x \in Nat /\ m \in Positive /\ x + m <= NumModules
      /\ y \in Nat /\ n \in Positive /\ y + n <= NumModules
      /\ y % n = 0 /\ NumModules % n = 0
  BY <1>1, CellModules
<1>6. /\ Beside(x, m, y, n) <=> modules
      /\ Beside(x, m, y, n) \/ NextAround(x, m, y, n)
           <=> modules \/ NextModules(Modules(r, c), Modules(r, d))
  BY <1>1, CellsAround
<1>7. /\ Beside(c.theta, r.theta[c.layer], d.theta, r.theta[l]) <=> bins
      /\ Ends(c.theta, r.theta[c.layer], d.theta, r.theta[l])
           <=> NextBins(ThetaBins(r, c), ThetaBins(r, d))
  BY <1>1, CellsBeside
<1>8. /\ ~ diag => bins /\ modules
      /\ diag => /\ bins \/ NextBins(ThetaBins(r, c), ThetaBins(r, d))
                 /\ modules \/ NextModules(Modules(r, c), Modules(r, d))
  BY <1>1 DEF Faces, Meet
<1> HIDE DEF x, m, y, n, bins, modules
<1>9. /\ Beside(x, m, y, n) => y \in GroupsAround(x, m, n) /\ Cyclic(y) = y
      /\ NextAround(x, m, y, n) /\ x # 0 =>
           \E p \in GroupsAround(x, m, n) : Cyclic(p) = y /\ Ends(x, m, p, n)
  BY <1>5, TouchingModulesAreFound
<1>10. d.theta \in GroupsAround(c.theta, r.theta[c.layer], r.theta[l])
  <2>1. \/ Beside(c.theta, r.theta[c.layer], d.theta, r.theta[l])
        \/ Ends(c.theta, r.theta[c.layer], d.theta, r.theta[l])
    BY <1>7, <1>8
  <2> QED
    BY <1>2, <1>4, <2>1, AroundHolds
<1>11. \E p \in GroupsAround(x, m, n) : Cyclic(p) = y /\ Found(p, d.theta)
  <2>1. CASE Beside(x, m, y, n)
    <3>1. Found(y, d.theta)
      BY <1>7, <1>8, <2>1
    <3> QED
      BY <1>9, <2>1, <3>1
  <2>2. CASE ~ Beside(x, m, y, n)
    <3>1. diag /\ NextAround(x, m, y, n) /\ x # 0
      BY <1>6, <1>8, <2>2 DEF x
    <3>2. PICK p \in GroupsAround(x, m, n) : Cyclic(p) = y /\ Ends(x, m, p, n)
      BY <1>9, <3>1
    <3>3. Found(p, d.theta)
      BY <1>7, <1>8, <3>1, <3>2
    <3> QED
      BY <3>2, <3>3
  <2> QED
    BY <2>1, <2>2
<1>12. PICK p \in GroupsAround(x, m, n) : Cyclic(p) = y /\ Found(p, d.theta)
  BY <1>11
<1> DEFINE q == <<p, d.theta>>
<1>13. /\ q \in GroupsAround(x, m, n) \X GroupsAround(c.theta, r.theta[c.layer], r.theta[l])
       /\ q[1] = p /\ q[2] = d.theta
  BY <1>10, <1>12
<1>14. d = [layer |-> l, module |-> Cyclic(q[1]), theta |-> q[2]] /\ Found(q[1], q[2])
  BY <1>2, <1>12, <1>13 DEF y
<1> HIDE DEF q
<1>15. d \in AcrossLayers(r, c, diag, l)
  BY <1>13, <1>14 DEF AcrossLayers, x, m, n
<1> QED
  BY <1>3, <1>15

-----------------------------------------------------------------------------
(***************************************************************************)
(* Neighbours in the layer of the cell, where all groups are of m modules. *)
(***************************************************************************)
GroupBeside(x, m, j) == GroupOf(Cyclic(x + j * m), m)

LEMMA GroupOfAFirst ==
  ASSUME NEW x \in Nat, NEW m \in Positive, x % m = 0
  PROVE  GroupOf(x, m) = x
<1>1. x \in Int /\ x <= x /\ x < x + m
  BY DEF Positive
<1> QED
  BY <1>1, OneGroup

\* The groups on either side, around the circle, are others and are next to it.
LEMMA GroupsBeside ==
  ASSUME NEW x \in Nat, NEW m \in Positive, m < NumModules, x + m <= NumModules,
         x % m = 0, NumModules % m = 0
  PROVE  /\ GroupBeside(x, m, 0) = x
         /\ GroupBeside(x, m, 1) = IF x + m = NumModules THEN 0 ELSE x + m
         /\ GroupBeside(x, m, -1) = IF x = 0 THEN NumModules - m ELSE x - m
<1> DEFINE N == NumModules
<1>1. N \in Nat /\ m \in Nat /\ m >= 1 /\ m < N /\ x + m <= N
  BY ReadoutsAssumption DEF Positive
<1>2. 0 % m = 0 /\ (x + m) % m = 0 /\ (x - m) % m = 0 /\ (N - m) % m = 0
  <2>1. N \in Int /\ x \in Int
    BY <1>1
  <2>2. 0 \in 0 .. m - 1
    BY <1>1
  <2> QED
    BY <2>1, <2>2, NextMultiples, SmallRemainder
<1> HIDE DEF N
<1>3. GroupBeside(x, m, 0) = x
  <2>1. x + 0 * m = x /\ x \in 0 .. N - 1
    BY <1>1
  <2>2. Cyclic(x) = x
    BY <2>1, CyclicIs DEF N
  <2> QED
    BY <2>1, <2>2, GroupOfAFirst DEF GroupBeside
<1>4. ASSUME x + m = N PROVE GroupBeside(x, m, 1) = 0
  <2>1. x + 1 * m = N /\ N \in Int
    BY <1>1, <1>4
  <2>2. Cyclic(N) = 0
    BY <2>1, CyclicIs DEF N
  <2> QED
    BY <1>2, <2>1, <2>2, GroupOfAFirst DEF GroupBeside
<1>5. ASSUME x + m # N PROVE GroupBeside(x, m, 1) = x + m
  <2>1. x + 1 * m = x + m /\ x + m \in 0 .. N - 1 /\ x + m \in Nat
    BY <1>1, <1>5
  <2>2. Cyclic(x + m) = x + m
    BY <2>1, CyclicIs DEF N
  <2> QED
    BY <1>2, <2>1, <2>2, GroupOfAFirst DEF GroupBeside
<1>6. ASSUME x = 0 PROVE GroupBeside(x, m, -1) = N - m
  <2> DEFINE p == x + (-1) * m
  <2>1. p \in Int /\ p < 0 /\ p > - N /\ N + p = N - m /\ N - m \in Nat
    BY <1>1, <1>6
  <2> HIDE DEF p
  <2>2. Cyclic(p) = N - m
    BY <2>1, CyclicIs DEF N
  <2> QED
    BY <1>2, <2>1, <2>2, GroupOfAFirst DEF GroupBeside, p
<1>7. ASSUME x # 0 PROVE GroupBeside(x, m, -1) = x - m
  <2>1. x - 0 >= m
    <3>1. 0 < x /\ 0 \in Int /\ x \in Int
      BY <1>7
    <3> QED
      BY <1>2, <3>1, MultiplesApart
  <2>2. x + (-1) * m = x - m /\ x - m \in 0 .. N - 1 /\ x - m \in Nat
    BY <1>1, <2>1
  <2>3. Cyclic(x - m) = x - m
    BY <2>2, CyclicIs DEF N
  <2> QED
    BY <1>2, <2>2, <2>3, GroupOfAFirst DEF GroupBeside
<1> QED
  BY <1>3, <1>4, <1>5, <1>6, <1>7 DEF N

LEMMA GroupsBesideAreNext ==
  ASSUME NEW x \in Nat, NEW m \in Positive, m < NumModules, x + m <= NumModules,
         x % m = 0, NumModules % m = 0, NEW j \in -1 .. 1, NEW y, y = GroupBeside(x, m, j)
  PROVE  /\ y \in 0 .. NumModules - 1 /\ y % m = 0
         /\ j = 0 => y = x
         /\ j # 0 => y # x /\ NextAround(x, m, y, m)
<1> DEFINE N == NumModules
<1>1. N \in Nat /\ m \in Nat /\ m >= 1 /\ m < N /\ x + m <= N
  BY ReadoutsAssumption DEF Positive
<1>2. 0 % m = 0 /\ (x + m) % m = 0 /\ (x - m) % m = 0 /\ (N - m) % m = 0
  <2>1. N \in Int /\ x \in Int
    BY <1>1
  <2>2. 0 \in 0 .. m - 1
    BY <1>1
  <2> QED
    BY <2>1, <2>2, NextMultiples, SmallRemainder
<1>3. x # 0 => x >= m
  <2>1. x # 0 => 0 < x /\ 0 \in Int /\ x \in Int
    OBVIOUS
  <2>2. x # 0 => x - 0 >= m
    BY <1>2, <2>1, MultiplesApart
  <2> QED
    BY <1>1, <2>2
<1>4. j = 0 \/ j = 1 \/ j = -1
  OBVIOUS
<1>5. CASE j = 0
  <2>1. y = x
    BY <1>5, GroupsBeside
  <2>2. y \in 0 .. N - 1
    BY <1>1, <2>1
  <2> QED
    BY <1>5, <2>1, <2>2
<1>6. CASE j = 1
  <2>1. y = IF x + m = N THEN 0 ELSE x + m
    BY <1>6, GroupsBeside
  <2>2. y \in 0 .. N - 1 /\ y # x
    BY <1>1, <2>1
  <2>3. NextAround(x, m, y, m)
    BY <2>1 DEF NextAround, Ends
  <2>4. y % m = 0
    BY <1>2, <2>1
  <2> QED
    BY <1>6, <2>2, <2>3, <2>4
<1>7. CASE j = -1
  <2>1. y = IF x = 0 THEN N - m ELSE x - m
    BY <1>7, GroupsBeside
  <2>2. y \in 0 .. N - 1 /\ y # x
    BY <1>1, <1>3, <2>1
  <2>3. NextAround(x, m, y, m)
    <3>1. x = 0 => y + m = N
      BY <1>1, <2>1
    <3>2. x # 0 => y = x - m
      BY <2>1
    <3> QED
      BY <3>1, <3>2 DEF NextAround, Ends
  <2>4. y % m = 0
    BY <1>2, <2>1
  <2> QED
    BY <1>7, <2>2, <2>3, <2>4
<1> QED
  BY <1>4, <1>5, <1>6, <1>7

LEMMA NextIsAGroupBeside ==
  ASSUME NEW x \in Nat, NEW m \in Positive, m < NumModules, x + m <= NumModules,
         x % m = 0, NumModules % m = 0,
         NEW y \in Nat, y + m <= NumModules, NextAround(x, m, y, m)
  PROVE  y = GroupBeside(x, m, 1) \/ y = GroupBeside(x, m, -1)
<1> DEFINE N == NumModules
<1>1. N \in Nat /\ m \in Nat /\ m >= 1 /\ m < N /\ x + m <= N /\ y + m <= N
  BY ReadoutsAssumption DEF Positive
<1>2. /\ GroupBeside(x, m, 1) = IF x + m = N THEN 0 ELSE x + m
      /\ GroupBeside(x, m, -1) = IF x = 0 THEN N - m ELSE x - m
  BY GroupsBeside
<1> HIDE DEF N
<1>3. \/ y = x + m
      \/ y = x - m
      \/ x + m = N /\ y = 0
      \/ x = 0 /\ y + m = N
  BY DEF NextAround, Ends, N
<1>4. ASSUME y = x + m PROVE x + m # N
  BY <1>1, <1>4
<1>5. ASSUME y = x - m PROVE x # 0
  BY <1>1, <1>5
<1>6. ASSUME y + m = N PROVE y = N - m
  BY <1>1, <1>6
<1> QED
  BY <1>2, <1>3, <1>4, <1>5, <1>6

\* Groups of the same number are one or have nothing in common.
LEMMA GroupsOfALayer ==
  ASSUME NEW x \in Nat, NEW y \in Nat, NEW m \in Positive, x % m = 0, y % m = 0
  PROVE  Beside(x, m, y, m) <=> x = y
<1>1. x \in Int /\ y \in Int /\ m \in Nat /\ m >= 1
  BY DEF Positive
<1>2. x < y => y - x >= m
  BY <1>1, MultiplesApart
<1>3. y < x => x - y >= m
  BY <1>1, MultiplesApart
<1> QED
  BY <1>1, <1>2, <1>3 DEF Beside

\* How cells of a layer lie to each other.
LEMMA CellsOfALayer ==
  ASSUME NEW r \in Readouts, NEW c \in CellsOf(r), NEW d \in CellsOf(r), d.layer = c.layer
  PROVE  /\ ThetaBins(r, c) \cap ThetaBins(r, d) # {} <=> d.theta = c.theta
         /\ NextBins(ThetaBins(r, c), ThetaBins(r, d))
              <=> Ends(c.theta, r.theta[c.layer], d.theta, r.theta[c.layer])
         /\ Modules(r, c) \cap Modules(r, d) # {} <=> d.module = c.module
         /\ NextModules(Modules(r, c), Modules(r, d))
              <=> /\ d.module # c.module
                  /\ NextAround(c.module, r.modules[c.layer], d.module, r.modules[c.layer])
         /\ c = d <=> d.theta = c.theta /\ d.module = c.module
<1>1. /\ c.theta \in Nat /\ c.theta % r.theta[c.layer] = 0
      /\ c.layer \in Layers /\ c = [layer |-> c.layer, module |-> c.module, theta |-> c.theta]
  BY CellsHave
<1>2. /\ d.theta \in Nat /\ d.theta % r.theta[c.layer] = 0
      /\ d = [layer |-> c.layer, module |-> d.module, theta |-> d.theta]
  BY CellsHave
<1>3. /\ c.module \in Nat /\ d.module \in Nat
      /\ c.module % r.modules[c.layer] = 0 /\ d.module % r.modules[c.layer] = 0
  BY CellModules
<1>4. r.theta[c.layer] \in Positive /\ r.modules[c.layer] \in Positive
  BY <1>1, MergedNumbers
<1>5. /\ Beside(c.theta, r.theta[c.layer], d.theta, r.theta[c.layer]) <=> c.theta = d.theta
      /\ Beside(c.module, r.modules[c.layer], d.module, r.modules[c.layer])
           <=> c.module = d.module
  BY <1>1, <1>2, <1>3, <1>4, GroupsOfALayer
<1>6. /\ ThetaBins(r, c) \cap ThetaBins(r, d) # {} <=> d.theta = c.theta
      /\ NextBins(ThetaBins(r, c), ThetaBins(r, d))
              <=> Ends(c.theta, r.theta[c.layer], d.theta, r.theta[c.layer])
  BY <1>5, CellsBeside
<1>7. Modules(r, c) \cap Modules(r, d) # {} <=> d.module = c.module
  BY <1>5, CellsAround
<1>8. Modules(r, c) \cap Modules(r, d) # {} \/ NextModules(Modules(r, c), Modules(r, d))
        <=> \/ d.module = c.module
            \/ NextAround(c.module, r.modules[c.layer], d.module, r.modules[c.layer])
  BY <1>5, CellsAround
<1>9. NextModules(Modules(r, c), Modules(r, d)) => Modules(r, c) \cap Modules(r, d) = {}
  BY DEF NextModules
<1>10. c = d <=> d.theta = c.theta /\ d.module = c.module
  BY <1>1, <1>2
<1> QED
  BY <1>6, <1>7, <1>8, <1>9, <1>10

\* In its layer, the cells found touch the cell.
LEMMA SameLayerTouches ==
  ASSUME SeveralGroups, NEW r \in Readouts, NEW c \in CellsOf(r), NEW diag \in BOOLEAN,
         NEW d \in SameLayer(r, c, diag)
  PROVE  d \in Touching(r, c, diag) /\ d.layer = c.layer
<1> DEFINE x == c.module
           m == r.modules[c.layer]
           n == r.theta[c.layer]
           thetas == {c.theta + i * n : i \in -1 .. 1} \cap ThetaExtremes(r, c.layer)
<1>1. PICK p \in (-1 .. 1) \X thetas :
        /\ d = [layer |-> c.layer, module |-> GroupBeside(x, m, p[1]), theta |-> p[2]]
        /\ p # <<0, c.theta>>
        /\ p[1] = 0 \/ p[2] = c.theta \/ diag
  BY DEF SameLayer, GroupBeside
<1>2. PICK j \in -1 .. 1, t \in thetas :
        /\ d = [layer |-> c.layer, module |-> GroupBeside(x, m, j), theta |-> t]
        /\ ~ (j = 0 /\ t = c.theta)
        /\ j = 0 \/ t = c.theta \/ diag
  BY <1>1
<1>3. d.layer = c.layer /\ d.module = GroupBeside(x, m, j) /\ d.theta = t
  BY <1>2
<1>4. c.layer \in Layers /\ c.theta \in Nat /\ c.theta % n = 0
  BY CellsHave
<1>5. n \in Positive /\ m < NumModules
  BY <1>4, MergedNumbers DEF SeveralGroups
<1>6. /\ x \in Nat /\ m \in Positive /\ x + m <= NumModules
      /\ x % m = 0 /\ NumModules % m = 0
  BY CellModules
<1>7. t \in ThetaExtremes(r, c.layer) /\ (t = c.theta \/ t = c.theta + n \/ t = c.theta - n)
  <2>1. PICK i \in -1 .. 1 : t = c.theta + i * n
    BY <1>2
  <2>2. i = -1 \/ i = 0 \/ i = 1
    OBVIOUS
  <2>3. (-1) * n = - n /\ 0 * n = 0 /\ 1 * n = n /\ n \in Int
    BY <1>5 DEF Positive
  <2> QED
    BY <1>4, <2>1, <2>2, <2>3
<1>8. t % n = 0
  BY <1>4, <1>5, <1>7, NextMultiples
<1>9. /\ d.module \in 0 .. NumModules - 1 /\ d.module % m = 0
      /\ j = 0 => d.module = x
      /\ j # 0 => d.module # x /\ NextAround(x, m, d.module, m)
  BY <1>3, <1>5, <1>6, GroupsBesideAreNext
<1>10. d \in CellsOf(r)
  <2>1. [layer |-> c.layer, module |-> d.module, theta |-> t] \in CellsOf(r)
    BY <1>4, <1>7, <1>8, <1>9, CellIs
  <2> QED
    BY <1>2, <1>3, <2>1
<1>11. t # c.theta => Ends(c.theta, n, d.theta, n)
  BY <1>3, <1>7 DEF Ends
<1> DEFINE bins == ThetaBins(r, c) \cap ThetaBins(r, d) # {}
           nextBins == NextBins(ThetaBins(r, c), ThetaBins(r, d))
           modules == Modules(r, c) \cap Modules(r, d) # {}
           nextModules == NextModules(Modules(r, c), Modules(r, d))
<1>12. /\ bins <=> d.theta = c.theta
       /\ nextBins <=> Ends(c.theta, n, d.theta, n)
       /\ modules <=> d.module = x
       /\ nextModules <=> d.module # x /\ NextAround(x, m, d.module, m)
       /\ c = d <=> d.theta = c.theta /\ d.module = x
  BY <1>3, <1>10, CellsOfALayer
<1> HIDE DEF x, m, n, bins, nextBins, modules, nextModules
<1>13. /\ t = c.theta => bins
       /\ t # c.theta => nextBins
       /\ j = 0 => modules
       /\ j # 0 => nextModules
  BY <1>3, <1>9, <1>11, <1>12
<1>14. ASSUME ~ diag PROVE Faces(r, c, d)
  <2>1. (bins /\ nextModules) \/ (modules /\ nextBins)
    BY <1>2, <1>13, <1>14
  <2> QED
    BY <1>3, <2>1 DEF Faces, bins, nextBins, modules, nextModules
<1>15. Meet(r, c, d)
  <2>1. c # d
    BY <1>2, <1>3, <1>9, <1>12
  <2>2. (bins \/ nextBins) /\ (modules \/ nextModules)
    BY <1>13
  <2> QED
    BY <2>1, <2>2 DEF Meet, bins, nextBins, modules, nextModules
<1>16. d.layer \in c.layer - 1 .. c.layer + 1
  <2>1. c.layer \in Int
    BY <1>4, ReadoutsAssumption DEF Layers
  <2> QED
    BY <1>3, <2>1
<1> QED
  BY <1>3, <1>10, <1>14, <1>15, <1>16 DEF Touching

\* In its layer, the cells that touch the cell are found.
LEMMA SameLayerFinds ==
  ASSUME SeveralGroups, NEW r \in Readouts, NEW c \in CellsOf(r), NEW diag \in BOOLEAN,
         NEW d \in Touching(r, c, diag), d.layer = c.layer
  PROVE  d \in SameLayer(r, c, diag)
<1> DEFINE x == c.module
           m == r.modules[c.layer]
           n == r.theta[c.layer]
           thetas == {c.theta + i * n : i \in -1 .. 1} \cap ThetaExtremes(r, c.layer)
           bins == ThetaBins(r, c) \cap ThetaBins(r, d) # {}
           nextBins == NextBins(ThetaBins(r, c), ThetaBins(r, d))
           modules == Modules(r, c) \cap Modules(r, d) # {}
           nextModules == NextModules(Modules(r, c), Modules(r, d))
<1>1. d \in CellsOf(r) /\ IF diag THEN Meet(r, c, d) ELSE Faces(r, c, d)
  BY DEF Touching
<1>2. /\ c.layer \in Layers /\ c.theta \in Nat
      /\ d.theta \in ThetaExtremes(r, c.layer)
      /\ d = [layer |-> c.layer, module |-> d.module, theta |-> d.theta]
  BY <1>1, CellsHave
<1>3. n \in Positive /\ m < NumModules
  BY <1>2, MergedNumbers DEF SeveralGroups
<1>4. /\ x \in Nat /\ m \in Positive /\ x + m <= NumModules
      /\ x % m = 0 /\ NumModules % m = 0
      /\ d.module \in Nat /\ d.module + m <= NumModules
  BY <1>1, CellModules
<1>5. /\ bins <=> d.theta = c.theta
      /\ nextBins <=> Ends(c.theta, n, d.theta, n)
      /\ modules <=> d.module = x
      /\ nextModules <=> d.module # x /\ NextAround(x, m, d.module, m)
      /\ c = d <=> d.theta = c.theta /\ d.module = x
  BY <1>1, CellsOfALayer
<1>6. /\ ~ diag => (bins /\ nextModules) \/ (modules /\ nextBins)
      /\ diag => c # d /\ (bins \/ nextBins) /\ (modules \/ nextModules)
  BY <1>1 DEF Faces, Meet
<1> HIDE DEF x, m, n, bins, nextBins, modules, nextModules
<1>7. /\ bins \/ nextBins
      /\ modules \/ nextModules
      /\ diag \/ d.module = x \/ d.theta = c.theta
      /\ ~ (d.theta = c.theta /\ d.module = x)
  <2>1. /\ bins \/ nextBins
        /\ modules \/ nextModules
        /\ diag \/ d.module = x \/ d.theta = c.theta
    BY <1>5, <1>6
  <2>2. ~ (d.theta = c.theta /\ d.module = x)
    <3>1. CASE diag
      BY <3>1, <1>5, <1>6
    <3>2. CASE ~ diag
      <4>1. ~ (bins /\ nextBins)
        BY DEF bins, nextBins, NextBins
      <4> QED
        BY <3>2, <4>1, <1>5, <1>6
    <3> QED
      BY <3>1, <3>2
  <2> QED
    BY <2>1, <2>2
<1>8. d.theta \in {c.theta + i * n : i \in -1 .. 1}
  <2>1. d.theta = c.theta \/ d.theta = c.theta + n \/ d.theta = c.theta - n
    BY <1>5, <1>7 DEF Ends
  <2>2. c.theta + (-1) * n = c.theta - n /\ c.theta + 0 * n = c.theta /\ c.theta + 1 * n = c.theta + n
    BY <1>2, <1>3 DEF Positive
  <2>3. -1 \in -1 .. 1 /\ 0 \in -1 .. 1 /\ 1 \in -1 .. 1
    OBVIOUS
  <2> QED
    BY <2>1, <2>2, <2>3
<1>9. \E j \in -1 .. 1 : d.module = GroupBeside(x, m, j) /\ (j = 0 => d.module = x) /\ (j # 0 => d.module # x)
  <2>1. CASE d.module = x
    <3>1. GroupBeside(x, m, 0) = x
      BY <1>3, <1>4, GroupsBeside
    <3> QED
      BY <2>1, <3>1
  <2>2. CASE d.module # x
    <3>1. NextAround(x, m, d.module, m)
      BY <1>5, <1>7, <2>2
    <3>2. d.module = GroupBeside(x, m, 1) \/ d.module = GroupBeside(x, m, -1)
      BY <1>3, <1>4, <3>1, NextIsAGroupBeside
    <3>3. -1 \in -1 .. 1 /\ 1 \in -1 .. 1 /\ -1 # 0 /\ 1 # 0
      OBVIOUS
    <3> QED
      BY <2>2, <3>2, <3>3
  <2> QED
    BY <2>1, <2>2
<1>10. PICK j \in -1 .. 1 :
         d.module = GroupBeside(x, m, j) /\ (j = 0 => d.module = x) /\ (j # 0 => d.module # x)
  BY <1>9
<1> DEFINE q == <<j, d.theta>>
<1>11. q \in (-1 .. 1) \X thetas /\ q[1] = j /\ q[2] = d.theta
  BY <1>2, <1>8
<1>12. /\ d = [layer |-> c.layer, module |-> GroupBeside(x, m, q[1]), theta |-> q[2]]
       /\ q # <<0, c.theta>>
       /\ q[1] = 0 \/ q[2] = c.theta \/ diag
  <2>1. j = 0 => d.theta # c.theta
    BY <1>7, <1>10
  <2>2. j = 0 \/ d.theta = c.theta \/ diag
    BY <1>7, <1>10
  <2>3. q # <<0, c.theta>>
    BY <2>1
  <2>4. d = [layer |-> c.layer, module |-> GroupBeside(x, m, q[1]), theta |-> q[2]]
    BY <1>2, <1>10, <1>11
  <2> QED
    BY <1>11, <2>2, <2>3, <2>4
<1> HIDE DEF q
<1> QED
  BY <1>11, <1>12 DEF SameLayer, GroupBeside, x, m, n

(***************************************************************************)
(* The neighbours of a cell, which the search finds by rounding modules    *)
(* and bins to groups, are the cells that touch it, in every readout in    *)
(* which no layer merges all its modules: none is missed but those across  *)
(* the seam, and none is found that does not touch, seam or not.           *)
(***************************************************************************)
THEOREM NeighboursTouch ==
  ASSUME SeveralGroups
  PROVE  WalkSpec => []NeighboursAreTheTouchingCells
<1>1. ASSUME NEW r \in Readouts, NEW c \in CellsOf(r), NEW diag \in BOOLEAN
      PROVE  /\ neighbours(r, c, diag) \cap CellsOf(r) \subseteq Touching(r, c, diag)
             /\ ~ (diag /\ c.module = 0) => Touching(r, c, diag) \subseteq neighbours(r, c, diag)
             /\ {d \in neighbours(r, c, diag) : d.layer = c.layer} \subseteq Touching(r, c, diag)
  <2>1. ASSUME NEW d \in neighbours(r, c, diag)
        PROVE  d \in SameLayer(r, c, diag)
               \/ \E l \in Adjacent(c.layer) : d \in AcrossLayers(r, c, diag, l)
    BY DEF neighbours
  <2>2. ASSUME NEW d \in neighbours(r, c, diag), d \in CellsOf(r)
        PROVE  d \in Touching(r, c, diag)
    BY <2>1, <2>2, SameLayerTouches, AcrossLayersTouch
  <2>3. ASSUME NEW d \in Touching(r, c, diag), ~ (diag /\ c.module = 0)
        PROVE  d \in neighbours(r, c, diag)
    BY <2>3, SameLayerFinds, AcrossLayersFind DEF neighbours
  <2>4. ASSUME NEW d \in neighbours(r, c, diag), d.layer = c.layer
        PROVE  d \in Touching(r, c, diag)
    <3>1. ASSUME NEW l \in Adjacent(c.layer), d \in AcrossLayers(r, c, diag, l) PROVE FALSE
      <4>1. d.layer = l
        BY <3>1 DEF AcrossLayers
      <4>2. c.layer \in Layers /\ l \in Layers
        BY CellsHave DEF Adjacent
      <4> QED
        BY <2>4, <4>1, <4>2, AdjacentLayers
    <3> QED
      BY <2>1, <3>1, SameLayerTouches
  <2> QED
    BY <2>2, <2>3, <2>4
<1>2. WalkSpec => []WalkOK
  BY WalksOnCells
<1>3. WalkOK => NeighboursAreTheTouchingCells
  BY <1>1 DEF WalkOK, NeighboursAreTheTouchingCells, OnSeam
<1> QED
  BY <1>2, <1>3, PTL

-----------------------------------------------------------------------------
(***************************************************************************)
(* The layer information.                                                  *)
(***************************************************************************)

\* Threads that hold a table of their own, being made or whole.
Making == {"init", "exchange", "delete"}

(***************************************************************************)
(* The inductive invariant.  That what is read is a table (ReadsAreOfTables)*)
(* needs to be known of the pointers on their way there: a thread's own    *)
(* table is its alone and not the one published, its stage is known from   *)
(* pc, and liv is what is published wherever it is going to be used.       *)
(***************************************************************************)
OwnTable(t) ==
  pc[t] \in Making =>
    /\ liv_new[t] \in Blocks /\ liv_new[t] # m_layerInfo
    /\ memory[liv_new[t]] = IF pc[t] = "init" THEN "filled" ELSE "table"
    /\ madeFor[liv_new[t]] \in Cells
    /\ pc[t] # "init" => size[liv_new[t]] = NumLayers

OwnedByOne == \A t, u \in Threads :
  t # u /\ pc[t] \in Making /\ pc[u] \in Making => liv_new[t] # liv_new[u]

PublishedIsTable ==
  m_layerInfo # Null =>
    /\ madeFor[m_layerInfo] \in Cells
    /\ alive => memory[m_layerInfo] = "table" /\ size[m_layerInfo] = NumLayers

InUse(t) ==
  /\ pc[t] \in {"at", "delete"} => m_layerInfo # Null /\ liv[t] = m_layerInfo
  /\ pc[t] = "holds" => m_layerInfo # Null
  /\ refs[t] \subseteq {m_layerInfo} /\ (pc[t] = "idle" => refs[t] = {})
  /\ m_layerInfo = Null => refs[t] = {}

UsedBy(b) == b = m_layerInfo \/ \E t \in Threads : pc[t] \in Making /\ liv_new[t] = b

Inv ==
  /\ TypeOK
  /\ \A t \in Threads : OwnTable(t)
  /\ OwnedByOne
  /\ PublishedIsTable
  /\ \A t \in Threads : InUse(t)
  /\ \A b \in Blocks : memory[b] # "free" => UsedBy(b)
  /\ ~ alive => \A t \in Threads : pc[t] = "idle"

-----------------------------------------------------------------------------
LEMMA InitInv == Init => Inv
  BY LazyAssumption DEF Init, Inv, TypeOK, PCs, OwnTable, OwnedByOne, PublishedIsTable,
     InUse, UsedBy, Making

LEMMA StartInv ==
  ASSUME Inv, NEW t \in Threads, NEW c \in Cells, NEW l \in LayersAsked, Start(t, c, l)
  PROVE  Inv'
  BY LazyAssumption DEF Start, heap, Inv, TypeOK, PCs, OwnTable, OwnedByOne,
     PublishedIsTable, InUse, UsedBy, Making

LEMMA LoadInv ==
  ASSUME Inv, NEW t \in Threads, Load(t)
  PROVE  Inv'
  BY LazyAssumption DEF Load, heap, Inv, TypeOK, PCs, OwnTable, OwnedByOne,
     PublishedIsTable, InUse, UsedBy, Making

LEMMA NewInv ==
  ASSUME Inv, NEW t \in Threads, New(t)
  PROVE  Inv'
  BY LazyAssumption DEF New, heap, Inv, TypeOK, PCs, OwnTable, OwnedByOne,
     PublishedIsTable, InUse, UsedBy, Making

LEMMA InitLayerInv ==
  ASSUME Inv, NEW t \in Threads, InitLayer(t)
  PROVE  Inv'
  BY LazyAssumption DEF InitLayer, heap, Inv, TypeOK, PCs, OwnTable, OwnedByOne,
     PublishedIsTable, InUse, UsedBy, Making

LEMMA MadeInv ==
  ASSUME Inv, NEW t \in Threads, Made(t)
  PROVE  Inv'
  BY LazyAssumption DEF Made, heap, Inv, TypeOK, PCs, OwnTable, OwnedByOne,
     PublishedIsTable, InUse, UsedBy, Making

LEMMA InitThrowsInv ==
  ASSUME Inv, NEW t \in Threads, InitThrows(t)
  PROVE  Inv'
  BY LazyAssumption DEF InitThrows, FreedOnThrow, Unwound, heap, Inv, TypeOK, PCs, OwnTable,
     OwnedByOne, PublishedIsTable, InUse, UsedBy, Making

LEMMA ExchangeInv ==
  ASSUME Inv, NEW t \in Threads, Exchange(t)
  PROVE  Inv'
<1>1. TypeOK'
  BY LazyAssumption DEF Exchange, CompareExchange, heap, Inv, TypeOK, PCs
<1>2. \A u \in Threads : OwnTable(u)'
  BY LazyAssumption DEF Exchange, CompareExchange, heap, Inv, TypeOK, PCs, OwnTable, OwnedByOne, Making
<1>3. OwnedByOne'
  BY LazyAssumption DEF Exchange, CompareExchange, heap, Inv, TypeOK, PCs, OwnTable, OwnedByOne, Making
<1>4. PublishedIsTable'
  BY LazyAssumption DEF Exchange, CompareExchange, heap, Inv, TypeOK, OwnTable, PublishedIsTable, Making
<1>5. \A u \in Threads : InUse(u)'
  BY LazyAssumption DEF Exchange, CompareExchange, heap, Inv, TypeOK, PCs, OwnTable, InUse, Making
<1>6. \A b \in Blocks : memory'[b] # "free" => UsedBy(b)'
  BY LazyAssumption DEF Exchange, CompareExchange, heap, Inv, TypeOK, PCs, OwnTable, UsedBy, Making
<1>7. ~alive' => \A u \in Threads : pc'[u] = "idle"
  BY DEF Exchange, CompareExchange, heap, Inv
<1> QED
  BY <1>1, <1>2, <1>3, <1>4, <1>5, <1>6, <1>7 DEF Inv

LEMMA DeleteInv ==
  ASSUME Inv, NEW t \in Threads, Delete(t)
  PROVE  Inv'
  BY LazyAssumption DEF Delete, Loser, heap, Inv, TypeOK, PCs, OwnTable,
     OwnedByOne, PublishedIsTable, InUse, UsedBy, Making

LEMMA AtInv ==
  ASSUME Inv, NEW t \in Threads, At(t)
  PROVE  Inv'
  BY LazyAssumption DEF At, Unwound, heap, Inv, TypeOK, PCs, OwnTable,
     OwnedByOne, PublishedIsTable, InUse, UsedBy, Making

LEMMA LookUpNextInv ==
  ASSUME Inv, NEW t \in Threads, NEW l \in LayersAsked, LookUpNext(t, l)
  PROVE  Inv'
  BY LazyAssumption DEF LookUpNext, heap, Inv, TypeOK, PCs, OwnTable,
     OwnedByOne, PublishedIsTable, InUse, UsedBy, Making

LEMMA ReturnInv ==
  ASSUME Inv, NEW t \in Threads, Return(t)
  PROVE  Inv'
  BY LazyAssumption DEF Return, Unwound, heap, Inv, TypeOK, PCs, OwnTable,
     OwnedByOne, PublishedIsTable, InUse, UsedBy, Making

LEMMA DestroyInv ==
  ASSUME Inv, Destroy
  PROVE  Inv'
<1>1. TypeOK'
  BY DEF Destroy, Inv, TypeOK, PCs
<1>2. /\ \A t \in Threads : pc'[t] = "idle"
      /\ \A t \in Threads : OwnTable(t)' /\ InUse(t)'
      /\ OwnedByOne'
  BY DEF Destroy, Inv, OwnTable, OwnedByOne, InUse, Making
<1>3. PublishedIsTable'
  BY DEF Destroy, Inv, PublishedIsTable
<1>4. \A b \in Blocks : memory'[b] # "free" => UsedBy(b)'
  <2>1. \A b \in Blocks : memory'[b] # "free" => memory[b] # "free"
    BY DEF Destroy, Inv, TypeOK
  <2> QED
    BY <2>1 DEF Destroy, Inv, UsedBy
<1> QED
  BY <1>1, <1>2, <1>3, <1>4 DEF Inv

LEMMA StepInv == Inv /\ [Next]_vars => Inv'
<1> SUFFICES ASSUME Inv, [Next]_vars PROVE Inv'
  OBVIOUS
<1>1. ASSUME NEW t \in Threads, Step(t) PROVE Inv'
  BY <1>1, LoadInv, NewInv, InitLayerInv, MadeInv, InitThrowsInv, ExchangeInv, DeleteInv,
     AtInv, ReturnInv, LookUpNextInv DEF Step
<1>2. ASSUME NEW t \in Threads, NEW c \in Cells, NEW l \in LayersAsked, Start(t, c, l) PROVE Inv'
  BY <1>2, StartInv
<1>3. CASE Destroy
  BY <1>3, DestroyInv
<1>4. CASE UNCHANGED vars
  BY <1>4 DEF vars, heap, Inv, TypeOK, PCs, OwnTable, OwnedByOne, PublishedIsTable, InUse,
     UsedBy, Making
<1> QED
  BY <1>1, <1>2, <1>3, <1>4 DEF Next

(***************************************************************************)
(* What is read through pointers and references is the one table, whole.   *)
(***************************************************************************)
LEMMA InvImplies == Inv => TypeOK /\ ReadsAreOfTables /\ OneTable /\ NothingIsLost
<1> SUFFICES ASSUME Inv PROVE TypeOK /\ ReadsAreOfTables /\ OneTable /\ NothingIsLost
  OBVIOUS
<1>1. ReadsAreOfTables
  BY DEF Inv, TypeOK, InUse, PublishedIsTable, ReadsAreOfTables, IsTable
<1>2. NothingIsLost
  <2>1. \A t, u \in Threads : t # u => InHand(t) \cap InHand(u) = {}
    BY DEF Inv, OwnedByOne, InHand, Making
  <2>2. \A b \in Blocks : UsedBy(b) =>
           b = m_layerInfo \/ \E t \in Threads : b \in InHand(t)
    BY DEF UsedBy, InHand, Making
  <2> QED
    BY <2>1, <2>2 DEF Inv, NothingIsLost
<1> QED
  BY <1>1, <1>2 DEF Inv, InUse, OneTable

\* The variables have their types, and who makes a table has a block for it.
THEOREM TypeCorrectness == Spec => []TypeOK
<1>1. Inv => TypeOK
  BY InvImplies
<1> QED
  BY <1>1, InitInv, StepInv, PTL DEF Spec

\* Nothing is read but the whole of the one table that is published, whatever
\* the threads do (getLayerInfo).
THEOREM MemorySafety == Spec => []ReadsAreOfTables /\ []OneTable
<1>1. Inv => ReadsAreOfTables /\ OneTable
  BY InvImplies
<1> QED
  BY <1>1, InitInv, StepInv, PTL DEF Spec

\* No table is lost or freed twice: memory that is not free is published, or
\* in the hands of one thread alone, where a table could not be made too.
THEOREM NoTableIsLost == Spec => []NothingIsLost
<1>1. Inv => NothingIsLost
  BY InvImplies
<1> QED
  BY <1>1, InitInv, StepInv, PTL DEF Spec

-----------------------------------------------------------------------------
(***************************************************************************)
(* The refinement.  A step that publishes a table decides, a lookup gets,  *)
(* a return or an exception drops; the others change nothing that shows.   *)
(***************************************************************************)
HeldNow == [t \in Threads |-> Held(t)]

\* A thread that holds something holds what is published.
LEMMA HeldIsPublished ==
  ASSUME Inv, NEW t \in Threads
  PROVE  Held(t) = IF refs[t] = {} THEN Null ELSE Published
<1>1. CASE refs[t] = {}
  BY <1>1 DEF Held
<1>2. CASE refs[t] # {}
  <2>1. refs[t] = {m_layerInfo} /\ m_layerInfo # Null
    BY <1>2 DEF Inv, InUse
  <2>2. (CHOOSE b \in refs[t] : TRUE) = m_layerInfo
    BY <2>1
  <2> QED
    BY <1>2, <2>1, <2>2 DEF Held, Published
<1> QED
  BY <1>1, <1>2

LEMMA InitOnce == Init => Once!Init
  BY DEF Init, Once!Init, Published, Held

\* What a table in use was made for stays.
LEMMA PublishedStays ==
  ASSUME Inv, [Next]_vars, m_layerInfo # Null
  PROVE  m_layerInfo' = m_layerInfo /\ Published' = Published
<1>1. m_layerInfo \in Blocks
  BY DEF Inv, TypeOK
<1>2. CASE UNCHANGED vars
  BY <1>2 DEF vars, heap, Published
<1>3. CASE Destroy
  BY <1>3 DEF Destroy, Published
<1>4. ASSUME NEW t \in Threads, NEW c \in Cells, NEW l \in LayersAsked, Start(t, c, l)
      PROVE  m_layerInfo' = m_layerInfo /\ Published' = Published
  BY <1>4 DEF Start, heap, Published
<1>5. ASSUME NEW t \in Threads, Step(t)
      PROVE  m_layerInfo' = m_layerInfo /\ Published' = Published
  <2>1. CASE New(t)
    <3>1. alive /\ memory[m_layerInfo] = "table"
      BY <2>1 DEF New, Inv, PublishedIsTable
    <3>2. madeFor'[m_layerInfo] = madeFor[m_layerInfo] /\ m_layerInfo' = m_layerInfo
      BY <1>1, <2>1, <3>1 DEF New, Inv, TypeOK
    <3> QED
      BY <3>2 DEF Published
  <2>2. CASE Exchange(t)
    BY <2>2 DEF Exchange, CompareExchange, heap, Published
  <2>3. ASSUME ~ New(t), ~ Exchange(t)
        PROVE  UNCHANGED <<m_layerInfo, madeFor>>
    BY <1>5, <2>3 DEF Step, Load, InitLayer, Made, InitThrows, Delete, At, Return,
       LookUpNext, heap
  <2> QED
    BY <2>1, <2>2, <2>3 DEF Published
<1> QED
  BY <1>2, <1>3, <1>4, <1>5 DEF Next

\* The same after a step.
LEMMA HeldIsPublishedNext ==
  ASSUME Inv', NEW t \in Threads
  PROVE  Held(t)' = IF refs'[t] = {} THEN Null ELSE Published'
<1>1. CASE refs'[t] = {}
  BY <1>1 DEF Held
<1>2. CASE refs'[t] # {}
  <2>1. refs'[t] = {m_layerInfo'} /\ m_layerInfo' # Null
    BY <1>2 DEF Inv, InUse
  <2>2. (CHOOSE b \in refs'[t] : TRUE) = m_layerInfo'
    BY <2>1
  <2> QED
    BY <1>2, <2>1, <2>2 DEF Held, Published
<1> QED
  BY <1>1, <1>2

\* A step that leaves a thread's references leaves what it holds.
LEMMA HeldStays ==
  ASSUME Inv, Inv', [Next]_vars, NEW t \in Threads, refs'[t] = refs[t]
  PROVE  Held(t)' = Held(t)
<1>1. refs[t] # {} => Published' = Published
  BY PublishedStays DEF Inv, InUse
<1> QED
  BY <1>1, HeldIsPublished, HeldIsPublishedNext

-----------------------------------------------------------------------------
\* At gets the published value.
LEMMA AtGets ==
  ASSUME Inv, Inv', [Next]_vars, NEW t \in Threads, At(t)
  PROVE  \/ Published # Null /\ HeldNow' = [HeldNow EXCEPT ![t] = Published]
         \/ HeldNow' = [HeldNow EXCEPT ![t] = Null]
<1>1. Published # Null /\ Published' = Published /\ m_layerInfo # Null
  BY PublishedStays, LazyAssumption DEF At, Inv, InUse, PublishedIsTable, Published
<1>2. ASSUME NEW u \in Threads, u # t PROVE Held(u)' = Held(u)
  BY <1>2, HeldStays DEF At, Unwound, Inv, TypeOK
<1>3. Held(t)' \in {Published, Null}
  BY <1>1, HeldIsPublishedNext
<1> QED
  BY <1>1, <1>2, <1>3 DEF HeldNow

\* What an exception or a return leaves is nothing.
LEMMA UnwoundDrops ==
  ASSUME Inv, Inv', [Next]_vars, NEW t \in Threads, Unwound(t)
  PROVE  HeldNow' = [HeldNow EXCEPT ![t] = Null]
<1>1. ASSUME NEW u \in Threads, u # t PROVE Held(u)' = Held(u)
  BY <1>1, HeldStays DEF Unwound, Inv, TypeOK
<1>2. Held(t)' = Null
  BY HeldIsPublishedNext DEF Unwound, Inv, TypeOK
<1> QED
  BY <1>1, <1>2 DEF HeldNow

\* Each step is one of OnceValue's, or changes nothing that shows.
LEMMA StepOnce == Inv /\ Inv' /\ [Next]_vars => [Once!Next]_<<Published, HeldNow>>
<1> SUFFICES ASSUME Inv, Inv', [Next]_vars PROVE [Once!Next]_<<Published, HeldNow>>
  OBVIOUS
<1>1. ASSUME refs' = refs PROVE HeldNow' = HeldNow
  BY <1>1, HeldStays DEF HeldNow
<1>2. CASE m_layerInfo' = m_layerInfo /\ refs' = refs
  <2>1. Published' = Published
    BY <1>2, PublishedStays DEF Published
  <2> QED
    BY <1>1, <1>2, <2>1
<1>3. ASSUME NEW t \in Threads, Exchange(t) PROVE [Once!Next]_<<Published, HeldNow>>
  <2>1. CASE m_layerInfo = Null
    <3>1. Published = Null /\ Published' \in Cells
      BY <1>3, <2>1, LazyAssumption
         DEF Exchange, CompareExchange, heap, Inv, TypeOK, OwnTable, Making, Published
    <3>2. HeldNow' = HeldNow
      BY <1>1, <1>3 DEF Exchange
    <3> QED
      BY <3>1, <3>2 DEF Once!Next, Once!Decide, HeldNow
  <2> QED
    BY <1>2, <1>3, <2>1 DEF Exchange, CompareExchange
<1>4. ASSUME NEW t \in Threads, At(t) PROVE [Once!Next]_<<Published, HeldNow>>
  <2>1. Published' = Published
    BY <1>4, PublishedStays DEF At, Published, heap
  <2> QED
    BY <1>4, <2>1, AtGets DEF Once!Next, Once!Get, Once!Drop, HeldNow
<1>5. ASSUME NEW t \in Threads, Return(t) \/ InitThrows(t)
      PROVE  [Once!Next]_<<Published, HeldNow>>
  <2>1. Published' = Published /\ Unwound(t)
    BY <1>5 DEF Return, InitThrows, Published, heap
  <2> QED
    BY <2>1, UnwoundDrops DEF Once!Next, Once!Drop, HeldNow
<1>6. ASSUME NEW t \in Threads, Step(t) PROVE [Once!Next]_<<Published, HeldNow>>
  <2>1. CASE Exchange(t) \/ At(t) \/ Return(t) \/ InitThrows(t)
    BY <1>3, <1>4, <1>5, <2>1
  <2>2. CASE \/ Load(t) \/ New(t) \/ InitLayer(t) \/ Made(t) \/ Delete(t)
             \/ \E l \in LayersAsked : LookUpNext(t, l)
    BY <1>2, <2>2 DEF Load, New, InitLayer, Made, Delete, LookUpNext
  <2> QED
    BY <1>6, <2>1, <2>2 DEF Step
<1>7. ASSUME NEW t \in Threads, NEW c \in Cells, NEW l \in LayersAsked, Start(t, c, l)
      PROVE  [Once!Next]_<<Published, HeldNow>>
  BY <1>2, <1>7 DEF Start
<1>8. CASE Destroy
  BY <1>2, <1>8 DEF Destroy
<1>9. CASE UNCHANGED vars
  BY <1>2, <1>9 DEF vars
<1> QED
  BY <1>6, <1>7, <1>8, <1>9 DEF Next

\* To its users the layer information is a value that is chosen once, of
\* those that queries may make, and stays (getLayerInfo).
THEOREM TableIsChosenOnce == Spec => ChosenOnce
  BY InitInv, StepInv, InitOnce, StepOnce, PTL DEF Spec, ChosenOnce, Once!Spec, HeldNow
=============================================================================
