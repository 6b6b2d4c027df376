-------------------------- MODULE GapFindingProofs --------------------------
(***************************************************************************)
(* Proofs about the operators of GapFinding and Listings: how a set is      *)
(* listed, how heights are cut into bins, and what the loop of              *)
(* MissingHeightsToGaps computes.                                           *)
(*                                                                          *)
(* Induction is used in the form of the least-number principle (LeastNat):  *)
(* a set of counterexamples that is not empty has a least element.          *)
(***************************************************************************)
EXTENDS GapFinding, FiniteSetTheorems, TLAPS

\* The time allowed to the SMT solver for a leaf.
USE SMTT(30)

\* Every set of naturals that is not empty has a least element.
LEMMA LeastNat ==
    ASSUME NEW T, T \subseteq Nat, T # {}
    PROVE  \E x \in T : \A y \in T : x <= y
<1> DEFINE R == {ss \in Nat \X Nat : ss[1] < ss[2]}
<1>1. IsWellFoundedOn(R, Nat)
  BY NatLessThanWellFounded DEF OpToRel
<1>2. \A x, y \in T : <<y, x>> \notin R => x <= y
  <2> TAKE x \in T, y \in T
  <2>1. x \in Nat /\ y \in Nat
    OBVIOUS
  <2>2. x <= y \/ y < x
    BY <2>1
  <2>3. y < x => <<y, x>> \in R
    BY <2>1
  <2> QED BY <2>2, <2>3
<1> HIDE DEF R
<1>3. \E x \in T : \A y \in T : ~ (<<y, x>> \in R)
  BY <1>1, WFMin, ZenonT(30)
<1> QED BY <1>2, <1>3, ZenonT(30)

\* Every bounded set of naturals that is not empty has a greatest element.
LEMMA GreatestNat ==
    ASSUME NEW n \in Nat, NEW T, T \subseteq 0..n, T # {}
    PROVE  \E x \in T : \A y \in T : y <= x
<1> DEFINE U == {n - x : x \in T}
<1>0. \A x \in T : x \in Int /\ n - x \in Nat
  <2> TAKE x \in T
  <2>1. x \in 0..n
    OBVIOUS
  <2> QED BY <2>1
<1>1. U \subseteq Nat /\ U # {}
  BY <1>0, ZenonT(30)
<1>2. PICK u \in U : \A v \in U : u <= v
  <2> HIDE DEF U
  <2> QED BY <1>1, LeastNat, ZenonT(30)
<1>3. PICK x \in T : u = n - x
  OBVIOUS
<1>4. \A y \in T : y <= x
  <2> TAKE y \in T
  <2>1. n - y \in U
    OBVIOUS
  <2>2. n - x <= n - y
    BY <2>1, <1>2, <1>3
  <2>3. x \in 0..n /\ y \in 0..n
    OBVIOUS
  <2> QED BY <2>2, <2>3
<1> QED BY <1>4

\* Least returns the least element.
LEMMA LeastIsLeast ==
    ASSUME NEW T, T \subseteq Nat, T # {}
    PROVE  Least(T) \in T /\ \A y \in T : Least(T) <= y
BY LeastNat, ZenonT(30) DEF Least

-----------------------------------------------------------------------------
(***************************************************************************)
(* Ascending lists a finite set of naturals in order.                      *)
(***************************************************************************)
\* An element of a subset of an interval is an integer in that interval.
LEMMA InInterval ==
    ASSUME NEW n \in Nat, NEW S, S \subseteq 0..n
    PROVE  \A k \in S : k \in Int /\ k \in Nat /\ 0 <= k /\ k <= n
<1> TAKE k \in S
<1>1. k \in 0..n
  OBVIOUS
<1> QED BY <1>1

Below(S, h) == {k \in S : k < h}

LEMMA BelowFinite ==
    ASSUME NEW n \in Nat, NEW S, S \subseteq 0..n, NEW h
    PROVE  /\ IsFiniteSet(S) /\ Cardinality(S) \in Nat
           /\ IsFiniteSet(Below(S, h)) /\ Cardinality(Below(S, h)) \in Nat
<1>1. IsFiniteSet(0..n)
  BY FS_Interval
<1>2. IsFiniteSet(S)
  BY <1>1, FS_Subset, ZenonT(30)
<1>3. IsFiniteSet(Below(S, h))
  BY <1>2, FS_Subset DEF Below
<1> QED BY <1>2, <1>3, FS_CardinalityType

\* Smaller elements have strictly fewer elements below them.
LEMMA BelowStrict ==
    ASSUME NEW n \in Nat, NEW S, S \subseteq 0..n,
           NEW a \in S, NEW b \in S, a < b
    PROVE  Cardinality(Below(S, a)) < Cardinality(Below(S, b))
<1>1. Below(S, a) \subseteq Below(S, b) /\ a \in Below(S, b)
      /\ a \notin Below(S, a)
  <2>1. \A k \in S : k \in Int
    BY InInterval
  <2>2. \A k \in S : k < a => k < b
    BY <2>1
  <2>3. ~(a < a)
    BY <2>1
  <2> QED BY <2>2, <2>3, ZenonT(30) DEF Below
<1>2. IsFiniteSet(Below(S, a)) /\ IsFiniteSet(Below(S, b))
      /\ Cardinality(Below(S, a)) \in Nat /\ Cardinality(Below(S, b)) \in Nat
  BY BelowFinite, ZenonT(30)
<1>3. /\ Cardinality(Below(S, a)) <= Cardinality(Below(S, b))
      /\ Cardinality(Below(S, b)) = Cardinality(Below(S, a))
           => Below(S, b) = Below(S, a)
  BY <1>1, <1>2, FS_Subset
<1> QED BY <1>1, <1>2, <1>3

\* For each i there is an element with exactly i - 1 elements below it.
LEMMA RankExists ==
    ASSUME NEW n \in Nat, NEW S, S \subseteq 0..n, NEW i \in 1..Cardinality(S)
    PROVE  \E h \in S : Cardinality(Below(S, h)) = i - 1
<1> DEFINE T == {h \in S : i - 1 <= Cardinality(Below(S, h))}
<1>0. /\ IsFiniteSet(S) /\ Cardinality(S) \in Nat
      /\ \A h : IsFiniteSet(Below(S, h)) /\ Cardinality(Below(S, h)) \in Nat
  BY BelowFinite, ZenonT(30)
<1>1. T # {}
  <2>1. S # {}
    BY <1>0, FS_EmptySet
  <2>2. PICK m \in S : \A y \in S : y <= m
    BY <2>1, GreatestNat, ZenonT(30)
  <2>3. Below(S, m) = S \ {m}
    <3>1. \A k \in S : k \in Int
      BY InInterval
    <3>2. \A k \in S : k < m <=> k # m
      BY <2>2, <3>1
    <3> QED BY <3>2, ZenonT(30) DEF Below
  <2>4. Cardinality(Below(S, m)) = Cardinality(S) - 1
    BY <2>3, <1>0, FS_RemoveElement, ZenonT(30)
  <2> QED BY <2>4, <1>0
<1>2. PICK x \in T : \A y \in T : x <= y
  <2>1. T \subseteq S
    OBVIOUS
  <2>2. T \subseteq Nat
    BY <2>1, InInterval, ZenonT(30)
  <2> HIDE DEF T
  <2> QED BY <1>1, <2>2, LeastNat, ZenonT(30)
<1>3. Cardinality(Below(S, x)) = i - 1
  <2> SUFFICES ASSUME Cardinality(Below(S, x)) # i - 1
               PROVE  FALSE
    OBVIOUS
  <2>1. i <= Cardinality(Below(S, x))
    BY <1>0, <1>2
  <2>2. Below(S, x) # {}
    BY <2>1, <1>0, FS_EmptySet
  <2>3. PICK m \in Below(S, x) : \A y \in Below(S, x) : y <= m
    <3>1. Below(S, x) \subseteq 0..n
      BY ZenonT(30) DEF Below
    <3> QED BY <3>1, <2>2, GreatestNat
  <2>4. m \in S /\ m < x
    BY DEF Below
  <2>5. Below(S, m) = Below(S, x) \ {m}
    <3>1. x \in S /\ m \in S /\ \A k \in S : k \in Int
      BY <2>4, InInterval
    <3>2. \A k \in S : k < x => k <= m
      BY <2>3 DEF Below
    <3>3. \A k \in S : k < m <=> k < x /\ k # m
      BY <2>4, <3>1, <3>2
    <3> QED BY <3>3, ZenonT(30) DEF Below
  <2>6. Cardinality(Below(S, m)) = Cardinality(Below(S, x)) - 1
    <3> DEFINE B == Below(S, x)
    <3>1. IsFiniteSet(B) /\ m \in B
      BY <1>0, <2>3
    <3> HIDE DEF B
    <3>2. Cardinality(B \ {m}) = Cardinality(B) - 1
      BY <3>1, FS_RemoveElement, ZenonT(30)
    <3> QED BY <2>5, <3>2, Zenon DEF B
  <2>7. m \in T
    BY <2>1, <2>4, <2>6, <1>0
  <2>8. x \in S /\ x \in Int /\ m \in Int
    BY <2>4, InInterval
  <2> QED BY <2>4, <2>7, <2>8, <1>2
<1> QED BY <1>3

\* Ascending lists exactly the elements of S, in strictly ascending order.
LEMMA AscendingLists ==
    ASSUME NEW n \in Nat, NEW S, S \subseteq 0..n
    PROVE  /\ Cardinality(S) \in Nat
           /\ DOMAIN Ascending(S) = 1..Cardinality(S)
           /\ \A i \in 1..Cardinality(S) :
                /\ Ascending(S)[i] \in S
                /\ Cardinality(Below(S, Ascending(S)[i])) = i - 1
           /\ \A i, j \in 1..Cardinality(S) :
                i < j => Ascending(S)[i] < Ascending(S)[j]
           /\ \A s \in S : \E i \in 1..Cardinality(S) : Ascending(S)[i] = s
<1>0. /\ IsFiniteSet(S) /\ Cardinality(S) \in Nat
      /\ \A h : IsFiniteSet(Below(S, h)) /\ Cardinality(Below(S, h)) \in Nat
  BY BelowFinite, ZenonT(30)
<1>1. \A i \in 1..Cardinality(S) :
        Ascending(S)[i] = CHOOSE h \in S : Cardinality(Below(S, h)) = i - 1
  BY ZenonT(30) DEF Ascending, Below
<1>2. \A i \in 1..Cardinality(S) :
        /\ Ascending(S)[i] \in S
        /\ Cardinality(Below(S, Ascending(S)[i])) = i - 1
  BY <1>1, RankExists, ZenonT(30)
<1>3. ASSUME NEW i \in 1..Cardinality(S), NEW j \in 1..Cardinality(S), i < j
      PROVE  Ascending(S)[i] < Ascending(S)[j]
  <2> DEFINE x == Ascending(S)[i]
             y == Ascending(S)[j]
  <2>1. x \in S /\ y \in S /\ x \in Nat /\ y \in Nat
    BY <1>2, InInterval, ZenonT(30)
  <2>2. Cardinality(Below(S, x)) < Cardinality(Below(S, y))
    BY <1>2, <1>3, <1>0
  <2>3. ~(y < x)
    <3> HIDE DEF x, y
    <3> SUFFICES ASSUME y < x PROVE FALSE
      OBVIOUS
    <3>1. Cardinality(Below(S, y)) < Cardinality(Below(S, x))
      BY <2>1, BelowStrict, ZenonT(30)
    <3> QED BY <3>1, <2>2, <1>0
  <2>4. x # y
    BY <2>2, <1>0
  <2> QED BY <2>1, <2>3, <2>4
<1>4. ASSUME NEW s \in S
      PROVE  \E i \in 1..Cardinality(S) : Ascending(S)[i] = s
  <2> DEFINE i == Cardinality(Below(S, s)) + 1
  <2>1. Cardinality(Below(S, s)) < Cardinality(S)
    <3>1. Below(S, s) \subseteq S /\ s \notin Below(S, s)
      BY DEF Below
    <3>2. Cardinality(Below(S, s)) <= Cardinality(S)
          /\ (Cardinality(S) = Cardinality(Below(S, s)) => S = Below(S, s))
      BY <3>1, <1>0, FS_Subset
    <3> QED BY <3>1, <3>2, <1>0
  <2>2. i \in 1..Cardinality(S)
    BY <2>1, <1>0
  <2> DEFINE a == Ascending(S)[i]
  <2>3. a \in S /\ Cardinality(Below(S, a)) = Cardinality(Below(S, s))
    BY <2>2, <1>2, <1>0
  <2>4. a \in Nat /\ s \in Nat
    BY <2>3, InInterval, ZenonT(30)
  <2>5. a = s
    <3> HIDE DEF a
    <3>0. Cardinality(Below(S, a)) \in Nat
      BY <1>0
    <3>1. ~(a < s)
      <4> SUFFICES ASSUME a < s PROVE FALSE
        OBVIOUS
      <4>1. Cardinality(Below(S, a)) < Cardinality(Below(S, s))
        BY <2>3, BelowStrict, ZenonT(30)
      <4> QED BY <4>1, <2>3, <3>0
    <3>2. ~(s < a)
      <4> SUFFICES ASSUME s < a PROVE FALSE
        OBVIOUS
      <4>1. Cardinality(Below(S, s)) < Cardinality(Below(S, a))
        BY <2>3, BelowStrict, ZenonT(30)
      <4> QED BY <4>1, <2>3, <3>0
    <3> QED BY <3>1, <3>2, <2>4
  <2> QED BY <2>2, <2>5
<1>5. DOMAIN Ascending(S) = 1..Cardinality(S)
  BY DEF Ascending
<1> QED BY <1>0, <1>2, <1>3, <1>4, <1>5

-----------------------------------------------------------------------------
(***************************************************************************)
(* GetBlockHeightBins.                                                     *)
(***************************************************************************)
\* Multiplication is monotonic.
LEMMA TimesMonotonic ==
    ASSUME NEW a \in Nat, NEW b \in Nat, NEW c \in Nat, a <= b
    PROVE  a * c \in Nat /\ b * c \in Nat /\ a * c <= b * c
<1>1. PICK d \in Nat : b = a + d
  <2>1. b - a \in Nat /\ b = a + (b - a)
    OBVIOUS
  <2> QED BY <2>1
<1>2. a * c \in Nat /\ d * c \in Nat
  OBVIOUS
<1>3. b * c = a * c + d * c
  BY <1>1
<1> QED BY <1>2, <1>3

\* Euclidean division.
LEMMA DivMod ==
    ASSUME NEW m \in Nat, NEW b \in Nat \ {0}
    PROVE  /\ m \div b \in Nat /\ m % b \in 0..(b - 1)
           /\ m = (m \div b) * b + (m % b)
OBVIOUS

\* The number of bins the code computes, for a range of m heights.
NumberOfBins(m, b) == (m \div b) + (IF m % b # 0 THEN 1 ELSE 0)

\* Every bin begins inside the range, and the last one reaches its end.
LEMMA BinsReach ==
    ASSUME NEW m \in Nat \ {0}, NEW b \in Nat \ {0}
    PROVE  /\ NumberOfBins(m, b) \in Nat
           /\ \A i \in 1..NumberOfBins(m, b) :
                (i - 1) * b \in Nat /\ (i - 1) * b < m
           /\ m <= NumberOfBins(m, b) * b
<1> DEFINE q == m \div b
           r == m % b
<1>1. q \in Nat /\ r \in 0..(b - 1) /\ m = q * b + r
  BY DivMod, ZenonT(30)
<1>2. NumberOfBins(m, b) = IF r # 0 THEN q + 1 ELSE q
  BY <1>1 DEF NumberOfBins
<1> HIDE DEF q, r
<1>3. q * b \in Nat /\ (q + 1) * b = q * b + b
  BY <1>1
<1>4. ASSUME NEW i \in 1..NumberOfBins(m, b)
      PROVE  (i - 1) * b \in Nat /\ (i - 1) * b < m
  <2>1. i - 1 \in Nat
    BY <1>1, <1>2
  <2>2. CASE r # 0
    <3>1. i - 1 <= q
      BY <2>2, <1>1, <1>2
    <3>2. (i - 1) * b \in Nat /\ (i - 1) * b <= q * b
      BY <3>1, <2>1, <1>1, TimesMonotonic
    <3> QED BY <3>2, <2>2, <1>1, <1>3
  <2>3. CASE r = 0
    <3>1. i <= q /\ i \in Nat
      BY <2>3, <1>1, <1>2
    <3>2. i * b \in Nat /\ i * b <= q * b
      BY <3>1, <1>1, TimesMonotonic
    <3>3. (i - 1) * b \in Nat /\ i * b = (i - 1) * b + b
      BY <2>1
    <3> QED BY <3>2, <3>3, <2>3, <1>1, <1>3
  <2> QED BY <2>2, <2>3
<1>5. m <= NumberOfBins(m, b) * b
  BY <1>1, <1>2, <1>3
<1> QED BY <1>1, <1>2, <1>4, <1>5

\* The first height of bin i, and the number of its heights.
BinFirst(startingBlock, batchSize, i) == startingBlock + (i - 1) * batchSize

BinSize(startingBlock, endingBlock, batchSize, i) ==
    LET first == BinFirst(startingBlock, batchSize, i)
    IN  IF first + batchSize <= endingBlock
        THEN batchSize ELSE endingBlock - first + 1

\* What GetBlockHeightBins returns when the arithmetic does not wrap around:
\* bin i holds the heights from startingBlock + (i-1)*batchSize on, up to
\* batchSize of them but none beyond endingBlock.
LEMMA BinsAre ==
    ASSUME NEW startingBlock \in Nat, NEW endingBlock \in Nat,
           NEW batchSize \in Nat \ {0},
           startingBlock <= endingBlock, endingBlock + batchSize < UintMod
    PROVE  LET n == NumberOfBins(endingBlock - startingBlock + 1, batchSize)
               first(i) == BinFirst(startingBlock, batchSize, i)
               size(i) == BinSize(startingBlock, endingBlock, batchSize, i)
           IN  /\ n \in Nat
               /\ \A i \in 1..n : /\ first(i) \in startingBlock..endingBlock
                                  /\ size(i) \in 1..batchSize
                                  /\ first(i) + size(i) - 1 <= endingBlock
               /\ GetBlockHeightBins(startingBlock, endingBlock, batchSize)
                    = [i \in 1..n |-> [k \in 1..size(i) |-> first(i) + k - 1]]
<1> DEFINE length == (endingBlock - startingBlock + 1) % UintMod
           numberOfBins == (length \div batchSize)
                             + (IF length % batchSize # 0 THEN 1 ELSE 0)
           binStart(i) == (startingBlock + (i - 1) * batchSize) % UintMod
           binStop(i) == IF binStart(i + 1) <= endingBlock
                         THEN binStart(i + 1) - 1 ELSE endingBlock
           m == endingBlock - startingBlock + 1
           n == NumberOfBins(m, batchSize)
           first(i) == startingBlock + (i - 1) * batchSize
           size(i) == IF first(i) + batchSize <= endingBlock
                      THEN batchSize ELSE endingBlock - first(i) + 1
<1>0. UintMod \in Nat \ {0}
  BY UintModAssumption
<1>1. m \in Nat \ {0} /\ m < UintMod
  BY <1>0
<1>2. \A x \in Nat : x < UintMod => x % UintMod = x
  BY <1>0
<1>3. length = m
  BY <1>1, <1>2
<1>4. numberOfBins = n
  BY <1>3 DEF NumberOfBins
<1>5. n \in Nat /\ \A i \in 1..n : (i - 1) * batchSize \in Nat
                                   /\ (i - 1) * batchSize < m
  BY <1>1, BinsReach
<1>6. ASSUME NEW i \in 1..n
      PROVE  /\ first(i) \in startingBlock..endingBlock
             /\ first(i + 1) = first(i) + batchSize
             /\ binStart(i) = first(i) /\ binStart(i + 1) = first(i + 1)
             /\ size(i) \in 1..batchSize
             /\ first(i) + size(i) - 1 <= endingBlock
             /\ binStop(i) - binStart(i) + 1 = size(i)
  <2>0. i \in Nat
    BY <1>5
  <2>1. first(i) \in startingBlock..endingBlock /\ first(i) \in Nat
    BY <1>5
  <2>2. (i + 1 - 1) * batchSize = (i - 1) * batchSize + batchSize
    BY <2>0
  <2>3. first(i + 1) = first(i) + batchSize
    BY <1>5, <2>2
  <2>4. binStart(i) = first(i)
    BY <1>0, <1>2, <2>1
  <2>5. first(i + 1) \in Nat /\ first(i + 1) < UintMod
    BY <1>0, <2>1, <2>3
  <2>6. binStart(i + 1) = first(i + 1)
    BY <1>2, <2>5
  <2> HIDE DEF first, binStart
  <2> QED BY <2>1, <2>3, <2>4, <2>6
<1>7. GetBlockHeightBins(startingBlock, endingBlock, batchSize)
        = [i \in 1..numberOfBins |->
            [k \in 1..(binStop(i) - binStart(i) + 1) |-> binStart(i) + k - 1]]
  BY DEF GetBlockHeightBins
<1>8. GetBlockHeightBins(startingBlock, endingBlock, batchSize)
        = [i \in 1..n |-> [k \in 1..size(i) |-> first(i) + k - 1]]
  <2> HIDE DEF n, size, first, binStart, binStop, numberOfBins
  <2> QED BY <1>4, <1>6, <1>7
<1> HIDE DEF n, size, first
<1>9. /\ n \in Nat
      /\ \A i \in 1..n : /\ first(i) \in startingBlock..endingBlock
                         /\ size(i) \in 1..batchSize
                         /\ first(i) + size(i) - 1 <= endingBlock
  BY <1>5, <1>6
<1> QED BY <1>8, <1>9 DEF n, size, first, BinFirst, BinSize

\* BinsPartition holds for every range and batch size: unless the arithmetic
\* wraps around, GetBlockHeightBins cuts the range into bins of 1..batchSize
\* heights which hold every height of the range, in order, and nothing else.
THEOREM BinsPartitionHolds ==
    ASSUME NEW startingBlock \in Nat, NEW endingBlock \in Nat,
           NEW batchSize \in Nat
    PROVE  BinsPartition(startingBlock, endingBlock, batchSize)
<1> SUFFICES ASSUME startingBlock <= endingBlock, batchSize # 0,
                    endingBlock + batchSize < UintMod
             PROVE  BinsPartition(startingBlock, endingBlock, batchSize)
  BY DEF BinsPartition, BinsErr
<1> DEFINE bins == GetBlockHeightBins(startingBlock, endingBlock, batchSize)
           m == endingBlock - startingBlock + 1
           n == NumberOfBins(m, batchSize)
           first(i) == BinFirst(startingBlock, batchSize, i)
           size(i) == BinSize(startingBlock, endingBlock, batchSize, i)
<1>1. /\ n \in Nat
      /\ \A i \in 1..n : /\ first(i) \in startingBlock..endingBlock
                         /\ size(i) \in 1..batchSize
                         /\ first(i) + size(i) - 1 <= endingBlock
      /\ bins = [i \in 1..n |-> [k \in 1..size(i) |-> first(i) + k - 1]]
  BY BinsAre
<1>2. m \in Nat \ {0} /\ m <= n * batchSize
  BY BinsReach
<1> HIDE DEF bins, n
<1>3. ASSUME NEW h \in startingBlock..endingBlock
      PROVE  \E i \in 1..n : \E k \in 1..size(i) : first(i) + k - 1 = h
  <2> DEFINE d == h - startingBlock
             q == d \div batchSize
             r == d % batchSize
             i == q + 1
  <2>1. d \in Nat /\ d < m
    OBVIOUS
  <2>2. q \in Nat /\ r \in 0..(batchSize - 1) /\ d = q * batchSize + r
    <3> HIDE DEF d
    <3> QED BY <2>1, DivMod, ZenonT(30)
  <2> HIDE DEF d, q, r
  <2>3. i \in 1..n
    <3> SUFFICES ASSUME n <= q PROVE FALSE
      BY <1>1, <2>2
    <3>1. n * batchSize <= q * batchSize /\ q * batchSize \in Nat
          /\ n * batchSize \in Nat
      BY <1>1, <2>2, TimesMonotonic
    <3> HIDE DEF m
    <3> QED BY <3>1, <1>2, <2>1, <2>2
  <2>4. first(i) = startingBlock + q * batchSize /\ q * batchSize \in Nat
    BY <2>2 DEF BinFirst
  <2>5. h = startingBlock + d
    BY DEF d
  <2>6. first(i) + (r + 1) - 1 = h
    <3> HIDE DEF first, i
    <3> QED BY <2>2, <2>4, <2>5
  <2>7. r + 1 \in 1..size(i)
    <3>1. first(i) \in Nat /\ first(i) + r = h
      BY <2>2, <2>4, <2>6
    <3>2. size(i) = IF first(i) + batchSize <= endingBlock
                    THEN batchSize ELSE endingBlock - first(i) + 1
      BY DEF BinSize
    <3> HIDE DEF first, size, i
    <3> QED BY <2>2, <3>1, <3>2
  <2> QED BY <2>3, <2>6, <2>7
<1>4. DOMAIN bins = 1..n /\ \A i \in 1..n : DOMAIN bins[i] = 1..size(i)
      /\ Len(bins[i]) = size(i)
      /\ \A k \in 1..size(i) : bins[i][k] = first(i) + k - 1
  <2> HIDE DEF size, first
  <2>1. DOMAIN bins = 1..n
        /\ \A i \in 1..n : bins[i] = [k \in 1..size(i) |-> first(i) + k - 1]
    BY <1>1
  <2>2. \A i \in 1..n : size(i) \in Nat
    BY <1>1
  <2> QED BY <2>1, <2>2
<1>5. \A i \in 1..n : \A k \in 1..size(i) :
        first(i) + k - 1 <= endingBlock
  <2> HIDE DEF size, first
  <2> QED BY <1>1
<1>6. \A i \in DOMAIN bins : Len(bins[i]) \in 1..batchSize
  BY <1>1, <1>4
<1>7. ASSUME NEW h \in startingBlock..endingBlock
      PROVE  \E i \in DOMAIN bins : \E k \in DOMAIN bins[i] : bins[i][k] = h
  <2>1. PICK i \in 1..n : \E k \in 1..size(i) : first(i) + k - 1 = h
    BY <1>3
  <2>2. PICK k \in 1..size(i) : first(i) + k - 1 = h
    BY <2>1
  <2>3. i \in DOMAIN bins /\ k \in DOMAIN bins[i] /\ bins[i][k] = h
    BY <1>4, <2>2
  <2> QED BY <2>3
<1>8. \A i \in DOMAIN bins : \A k \in DOMAIN bins[i] :
        bins[i][k] = startingBlock + (i - 1) * batchSize + k - 1
  BY <1>4, ZenonT(30) DEF BinFirst
<1>9. \A i \in DOMAIN bins : \A k \in DOMAIN bins[i] : bins[i][k] <= endingBlock
  <2> HIDE DEF bins, n, size, first
  <2> TAKE i \in DOMAIN bins
  <2> TAKE k \in DOMAIN bins[i]
  <2>1. i \in 1..n
    BY <1>4
  <2>2. k \in 1..size(i) /\ bins[i][k] = first(i) + k - 1
    BY <1>4, <2>1
  <2> QED BY <1>5, <2>1, <2>2
<1> QED BY <1>6, <1>7, <1>8, <1>9 DEF BinsPartition, bins

\* As a list of lists: every bin is a list of heights of the range, not empty.
LEMMA BinsType ==
    ASSUME NEW startingBlock \in Nat, NEW endingBlock \in Nat,
           NEW batchSize \in Nat \ {0},
           startingBlock <= endingBlock, endingBlock + batchSize < UintMod
    PROVE  GetBlockHeightBins(startingBlock, endingBlock, batchSize)
             \in Seq(Seq(startingBlock..endingBlock) \ {<<>>})
<1> DEFINE bins == GetBlockHeightBins(startingBlock, endingBlock, batchSize)
           n == NumberOfBins(endingBlock - startingBlock + 1, batchSize)
           first(i) == BinFirst(startingBlock, batchSize, i)
           size(i) == BinSize(startingBlock, endingBlock, batchSize, i)
<1>1. /\ n \in Nat
      /\ \A i \in 1..n : /\ first(i) \in startingBlock..endingBlock
                         /\ size(i) \in 1..batchSize
                         /\ first(i) + size(i) - 1 <= endingBlock
      /\ bins = [i \in 1..n |-> [k \in 1..size(i) |-> first(i) + k - 1]]
  BY BinsAre
<1> HIDE DEF bins, n, first, size
<1>2. ASSUME NEW i \in 1..n
      PROVE  [k \in 1..size(i) |-> first(i) + k - 1]
               \in Seq(startingBlock..endingBlock) \ {<<>>}
  <2> DEFINE b == [k \in 1..size(i) |-> first(i) + k - 1]
  <2>1. size(i) \in Nat \ {0} /\ first(i) \in startingBlock..endingBlock
        /\ first(i) + size(i) - 1 <= endingBlock
    BY <1>1
  <2>2. \A k \in 1..size(i) : first(i) + k - 1 \in startingBlock..endingBlock
    BY <2>1
  <2>3. b \in Seq(startingBlock..endingBlock)
    BY <2>1, <2>2
  <2>4. b # <<>>
    BY <2>1, <2>3
  <2> QED BY <2>3, <2>4
<1> DEFINE Bins == Seq(startingBlock..endingBlock) \ {<<>>}
           bin(i) == [k \in 1..size(i) |-> first(i) + k - 1]
<1>3. bins = [i \in 1..n |-> bin(i)] /\ \A i \in 1..n : bin(i) \in Bins
  BY <1>1, <1>2
<1> HIDE DEF Bins, bin
<1>4. bins \in Seq(Bins)
  BY <1>1, <1>3
<1> QED BY <1>4 DEF bins, Bins

-----------------------------------------------------------------------------
(***************************************************************************)
(* The loop of MissingHeightsToGaps computes the closed form.  After height *)
(* i the loop has closed one gap at every break before i, in order.        *)
(***************************************************************************)
\* The place behind the last of the breaks S, where the open run begins.
OpenRun(S) == IF S = {} THEN 1 ELSE Ascending(S)[Cardinality(S)] + 1

\* The gaps that the breaks S close.
Closed(heights, S) ==
    [k \in 1..Cardinality(S) |->
       Gap(heights[IF k = 1 THEN 1 ELSE Ascending(S)[k - 1] + 1],
           heights[Ascending(S)[k]])]

\* Places of a set are told apart by the number of elements below them.
LEMMA PlaceUnique ==
    ASSUME NEW n \in Nat, NEW S, S \subseteq 0..n, NEW a \in S, NEW b \in S,
           Cardinality(Below(S, a)) = Cardinality(Below(S, b))
    PROVE  a = b
<1>1. a \in Int /\ b \in Int
  BY InInterval, ZenonT(30)
<1>2. Cardinality(Below(S, a)) \in Nat /\ Cardinality(Below(S, b)) \in Nat
  BY BelowFinite, ZenonT(30)
<1>3. ~(a < b)
  <2> SUFFICES ASSUME a < b PROVE FALSE
    OBVIOUS
  <2>1. Cardinality(Below(S, a)) < Cardinality(Below(S, b))
    BY BelowStrict, ZenonT(30)
  <2> QED BY <2>1, <1>2
<1>4. ~(b < a)
  <2> SUFFICES ASSUME b < a PROVE FALSE
    OBVIOUS
  <2>1. Cardinality(Below(S, b)) < Cardinality(Below(S, a))
    BY BelowStrict, ZenonT(30)
  <2> QED BY <2>1, <1>2
<1> QED BY <1>1, <1>3, <1>4

\* A number above all others comes last.
LEMMA AscendingGrows ==
    ASSUME NEW m \in Nat, NEW S, S \subseteq 0..m, NEW x \in Nat, m < x
    PROVE  LET T == S \cup {x}
               c == Cardinality(S)
           IN  /\ c \in Nat /\ Cardinality(T) = c + 1
               /\ \A k \in 1..c : Ascending(T)[k] = Ascending(S)[k]
               /\ Ascending(T)[c + 1] = x
<1> DEFINE T == S \cup {x}
           c == Cardinality(S)
<1>1. T \subseteq 0..x /\ x \notin S /\ S \subseteq 0..x
  OBVIOUS
<1>2. IsFiniteSet(S) /\ c \in Nat
  BY BelowFinite, ZenonT(30)
<1>3. Cardinality(T) = c + 1
  BY <1>1, <1>2, FS_AddElement
<1>4. ASSUME NEW h \in S PROVE Below(T, h) = Below(S, h)
  <2>1. h \in Int /\ h < x
    BY <1>1
  <2>2. ~(x < h)
    BY <2>1
  <2>3. \A k \in S \cup {x} : k < h => k \in S
    BY <2>2, ZenonT(30)
  <2>4. \A k : k \in Below(T, h) <=> k \in Below(S, h)
    BY <2>3 DEF Below
  <2>5. Below(T, h) \subseteq Below(S, h) /\ Below(S, h) \subseteq Below(T, h)
    BY <2>4, ZenonT(30)
  <2> QED BY <2>5, ZenonT(30)
<1>5. Below(T, x) = S
  <2>1. \A h \in S : h \in Int /\ h < x
    BY <1>1
  <2>2. ~(x < x)
    OBVIOUS
  <2>3. Below(T, x) \subseteq S
    BY <2>2, ZenonT(30) DEF Below
  <2>4. S \subseteq Below(T, x)
    BY <2>1, ZenonT(30) DEF Below
  <2> QED BY <2>3, <2>4, ZenonT(30)
<1> HIDE DEF T, c
<1>6. \A k \in 1..c : Ascending(S)[k] \in S /\ Cardinality(Below(S, Ascending(S)[k])) = k - 1
  BY AscendingLists, ZenonT(30) DEF c
<1>7. \A k \in 1..(c + 1) :
        Ascending(T)[k] \in T /\ Cardinality(Below(T, Ascending(T)[k])) = k - 1
  BY <1>1, <1>3, AscendingLists, ZenonT(30)
<1>8. \A a, b \in T : Cardinality(Below(T, a)) = Cardinality(Below(T, b)) => a = b
  BY <1>1, PlaceUnique, ZenonT(30)
<1>9. ASSUME NEW k \in 1..c PROVE Ascending(T)[k] = Ascending(S)[k]
  <2>1. k \in 1..(c + 1)
    BY <1>2
  <2>2. Ascending(S)[k] \in T /\ Cardinality(Below(T, Ascending(S)[k])) = k - 1
    BY <1>4, <1>6, ZenonT(30) DEF T
  <2> QED BY <2>1, <2>2, <1>7, <1>8, ZenonT(30)
<1>10. Ascending(T)[c + 1] = x
  <2>1. c + 1 \in 1..(c + 1) /\ (c + 1) - 1 = c
    BY <1>2
  <2>2. x \in T /\ Cardinality(Below(T, x)) = c
    BY <1>5, ZenonT(30) DEF T, c
  <2>3. Ascending(T)[c + 1] \in T /\ Cardinality(Below(T, Ascending(T)[c + 1])) = c
    <3>1. Cardinality(Below(T, Ascending(T)[c + 1])) = (c + 1) - 1
      BY <2>1, <1>7, ZenonT(30)
    <3> QED BY <2>1, <1>7, <3>1, ZenonT(30)
  <2> QED BY <2>2, <2>3, <1>8, ZenonT(30)
<1> QED BY <1>2, <1>3, <1>9, <1>10, ZenonT(30) DEF T, c

\* The break x closes one more gap than S, and opens a run behind it.
OneMore(heights, S, x) ==
    /\ Closed(heights, S \cup {x})
         = Closed(heights, S) \o <<Gap(heights[OpenRun(S)], heights[x])>>
    /\ OpenRun(S \cup {x}) = x + 1

\* A break behind all others does that.
LEMMA ClosedGrows ==
    ASSUME NEW heights, NEW m \in Nat, NEW S, S \subseteq 1..m, NEW x \in Nat, m < x
    PROVE  OneMore(heights, S, x)
<1> DEFINE T == S \cup {x}
           c == Cardinality(S)
           a == Ascending(S)
           b == Ascending(T)
           gap == Gap(heights[OpenRun(S)], heights[x])
           old == Closed(heights, S)
           new == Closed(heights, T)
<1>1. S \subseteq 0..m
  OBVIOUS
<1>2. /\ c \in Nat /\ Cardinality(T) = c + 1
      /\ \A k \in 1..c : b[k] = a[k]
      /\ b[c + 1] = x
  BY <1>1, AscendingGrows, ZenonT(30)
<1>3. c = 0 <=> S = {}
  <2>1. IsFiniteSet(S)
    BY <1>1, BelowFinite, ZenonT(30)
  <2> QED BY <2>1, FS_EmptySet, ZenonT(30)
<1>4. OpenRun(S) = IF c = 0 THEN 1 ELSE a[c] + 1
  BY <1>3 DEF OpenRun
<1>5. OpenRun(T) = x + 1
  <2>1. T # {}
    OBVIOUS
  <2>2. OpenRun(T) = b[c + 1] + 1
    BY <1>2, <2>1, ZenonT(30) DEF OpenRun
  <2> QED BY <2>2, <1>2
<1>6. \A k \in 1..c : old[k] = Gap(heights[IF k = 1 THEN 1 ELSE a[k - 1] + 1], heights[a[k]])
  BY DEF Closed
<1>7. \A k \in 1..(c + 1) :
        new[k] = Gap(heights[IF k = 1 THEN 1 ELSE b[k - 1] + 1], heights[b[k]])
  BY <1>2 DEF Closed
<1>8. DOMAIN old = 1..c /\ DOMAIN new = 1..(c + 1)
  BY <1>2 DEF Closed
<1> DEFINE V == {old[k] : k \in 1..c} \cup {gap}
<1>9. old \in [1..c -> V] /\ new = [k \in 1..(c + 1) |-> new[k]]
  BY <1>2, <1>8 DEF Closed
<1>10. old \in Seq(V) /\ Len(old) = c /\ <<gap>> \in Seq(V) /\ Len(<<gap>>) = 1
  BY <1>2, <1>9
<1> HIDE DEF T, c, a, b, gap, old, new, V
<1>11. /\ DOMAIN (old \o <<gap>>) = 1..(c + 1)
       /\ \A k \in 1..c : (old \o <<gap>>)[k] = old[k]
       /\ (old \o <<gap>>)[c + 1] = gap
       /\ old \o <<gap>> = [k \in 1..(c + 1) |-> (old \o <<gap>>)[k]]
  BY <1>2, <1>10
<1>12. ASSUME NEW k \in 1..(c + 1) PROVE new[k] = (old \o <<gap>>)[k]
  <2>1. CASE k \in 1..c
    <3>1. k = 1 \/ k - 1 \in 1..c
      BY <2>1, <1>2
    <3>2. b[k] = a[k] /\ (k # 1 => b[k - 1] = a[k - 1])
      BY <2>1, <3>1, <1>2, ZenonT(30)
    <3>3. (IF k = 1 THEN 1 ELSE b[k - 1] + 1) = (IF k = 1 THEN 1 ELSE a[k - 1] + 1)
      BY <3>2, ZenonT(30)
    <3>4. new[k] = Gap(heights[IF k = 1 THEN 1 ELSE b[k - 1] + 1], heights[b[k]])
      BY <1>7, ZenonT(30)
    <3>5. old[k] = Gap(heights[IF k = 1 THEN 1 ELSE a[k - 1] + 1], heights[a[k]])
      BY <2>1, <1>6, ZenonT(30)
    <3>6. new[k] = old[k]
      BY <3>2, <3>3, <3>4, <3>5, ZenonT(30)
    <3> QED BY <2>1, <3>6, <1>11, ZenonT(30)
  <2>2. CASE k = c + 1 /\ c = 0
    <3>1. k = 1 /\ b[k] = x /\ OpenRun(S) = 1
      BY <2>2, <1>2, <1>4
    <3>2. new[k] = Gap(heights[1], heights[x])
      BY <3>1, <1>7, ZenonT(30)
    <3> QED BY <2>2, <3>1, <3>2, <1>11, ZenonT(30) DEF gap
  <2>3. CASE k = c + 1 /\ c # 0
    <3>1. k # 1 /\ k - 1 = c /\ c \in 1..c
      BY <2>3, <1>2
    <3>2. b[k] = x /\ b[k - 1] = a[c] /\ OpenRun(S) = a[c] + 1
      BY <2>3, <3>1, <1>2, <1>4, ZenonT(30)
    <3>3. new[k] = Gap(heights[OpenRun(S)], heights[x])
      BY <3>1, <3>2, <1>7, ZenonT(30)
    <3> QED BY <2>3, <3>3, <1>11, ZenonT(30) DEF gap
  <2>4. k \in 1..c \/ k = c + 1
    BY <1>2
  <2> QED BY <2>1, <2>2, <2>3, <2>4, ZenonT(30)
<1>13. new = old \o <<gap>>
  <2>1. [k \in 1..(c + 1) |-> new[k]] = [k \in 1..(c + 1) |-> (old \o <<gap>>)[k]]
    BY <1>12, ZenonT(30)
  <2> QED BY <2>1, <1>9, <1>11, ZenonT(30)
<1> QED BY <1>5, <1>13, ZenonT(30) DEF OneMore, T, gap, old, new

\* Closed is a sequence.
LEMMA ClosedIsSeq ==
    ASSUME NEW heights, NEW m \in Nat, NEW S, S \subseteq 1..m
    PROVE  \E V : Closed(heights, S) \in Seq(V)
<1>1. S \subseteq 0..m
  OBVIOUS
<1>2. Cardinality(S) \in Nat
  BY <1>1, BelowFinite, ZenonT(30)
<1> DEFINE V == {Closed(heights, S)[k] : k \in 1..Cardinality(S)}
<1>3. Closed(heights, S) \in [1..Cardinality(S) -> V]
  BY ZenonT(30) DEF Closed
<1> HIDE DEF V
<1>4. Closed(heights, S) \in Seq(V)
  BY <1>2, <1>3
<1> QED BY <1>4, ZenonT(30)

\* The places before i at which the heights break.
BreaksBefore(heights, i) == {j \in 1..(i - 1) : heights[j + 1] # heights[j] + 1}

\* Height i does not follow the height before it.
Broken(heights, i) == heights[i] # heights[i-1] + 1

\* One turn of the loop of MissingHeightsToGaps, from the state f[i-1].
LoopStep(heights, f, i) ==
    IF i = 1 THEN [start |-> heights[1], gaps |-> <<>>]
    ELSE LET start == IF Broken(heights, i) THEN heights[i] ELSE f[i-1].start
         IN  [start |-> start,
              gaps |-> f[i-1].gaps
                \o (IF Broken(heights, i)
                    THEN <<Gap(f[i-1].start, heights[i-1])>> ELSE <<>>)
                \o (IF i = Len(heights)
                    THEN <<Gap(start, heights[i])>> ELSE <<>>)]

\* What the variables of the loop are after height i.
GapsAfter(heights, i) ==
    IF i = Len(heights) /\ i # 1
    THEN Closed(heights, BreaksBefore(heights, i) \cup {i})
    ELSE Closed(heights, BreaksBefore(heights, i))
StartAfter(heights, i) == heights[OpenRun(BreaksBefore(heights, i))]

LoopState(heights) ==
    [i \in 1..Len(heights) |->
       [start |-> StartAfter(heights, i), gaps |-> GapsAfter(heights, i)]]

\* A break right before i is added to the breaks before i - 1.
LEMMA BreaksGrow ==
    ASSUME NEW heights, NEW i \in Nat, i > 1
    PROVE  /\ BreaksBefore(heights, i) \subseteq 1..(i - 1)
           /\ BreaksBefore(heights, i - 1) \subseteq 1..(i - 2)
           /\ BreaksBefore(heights, i) = IF Broken(heights, i)
                                         THEN BreaksBefore(heights, i - 1) \cup {i - 1}
                                         ELSE BreaksBefore(heights, i - 1)
<1> DEFINE B == BreaksBefore(heights, i)
           A == BreaksBefore(heights, i - 1)
<1>1. B \subseteq 1..(i - 1) /\ A \subseteq 1..(i - 2)
  BY DEF BreaksBefore
<1>2. \A j : j \in 1..(i - 1) <=> j \in 1..((i - 1) - 1) \/ j = i - 1
  OBVIOUS
<1>3. (i - 1) + 1 = i
  OBVIOUS
<1>4. Broken(heights, i) <=> heights[(i - 1) + 1] # heights[i - 1] + 1
  BY <1>3, ZenonT(30) DEF Broken
<1>5. \A j : j \in B <=> j \in A \/ (Broken(heights, i) /\ j = i - 1)
  BY <1>2, <1>4, ZenonT(30) DEF BreaksBefore
<1> HIDE DEF A, B
<1>6. CASE Broken(heights, i)
  <2>1. B \subseteq A \cup {i - 1} /\ A \cup {i - 1} \subseteq B
    BY <1>5, <1>6, ZenonT(30)
  <2>2. B = A \cup {i - 1}
    BY <2>1, ZenonT(30)
  <2> QED BY <1>1, <1>6, <2>2, ZenonT(30) DEF A, B
<1>7. CASE ~Broken(heights, i)
  <2>1. B \subseteq A /\ A \subseteq B
    BY <1>5, <1>7, ZenonT(30)
  <2>2. B = A
    BY <2>1, ZenonT(30)
  <2> QED BY <1>1, <1>7, <2>2, ZenonT(30) DEF A, B
<1> QED BY <1>6, <1>7, ZenonT(30)

\* The states of LoopState are those of a turn of the loop.
LEMMA LoopStateSteps ==
    ASSUME NEW heights \in Seq(Nat), NEW i \in 1..Len(heights)
    PROVE  LoopState(heights)[i] = LoopStep(heights, LoopState(heights), i)
<1> DEFINE g == LoopState(heights)
           L == Len(heights)
           B == BreaksBefore(heights, i)
           A == BreaksBefore(heights, i - 1)
<1>1. L \in Nat /\ i \in Nat /\ 1 <= i /\ i <= L
  OBVIOUS
<1>2. g[i] = [start |-> StartAfter(heights, i), gaps |-> GapsAfter(heights, i)]
  BY ZenonT(30) DEF LoopState
<1>3. CASE i = 1
  <2>1. B = {}
    BY <1>3 DEF BreaksBefore
  <2>2. StartAfter(heights, i) = heights[1]
    BY <2>1, ZenonT(30) DEF OpenRun, StartAfter
  <2>3. Closed(heights, {}) = <<>>
    BY FS_EmptySet DEF Closed
  <2>4. GapsAfter(heights, i) = <<>>
    BY <1>3, <2>1, <2>3, ZenonT(30) DEF GapsAfter
  <2> HIDE DEF g, A, B
  <2> QED BY <1>2, <1>3, <2>2, <2>4, ZenonT(30) DEF LoopStep, g
<1>4. CASE i # 1
  <2>1. i - 1 \in 1..L /\ i - 1 # L /\ i > 1
    BY <1>1, <1>4
  <2>2. i - 1 \in Nat /\ i - 2 \in Nat /\ i - 2 < i - 1 /\ i - 1 < i /\ (i - 1) + 1 = i
    BY <1>1, <1>4
  <2>3. /\ B \subseteq 1..(i - 1) /\ A \subseteq 1..(i - 2)
        /\ B = IF Broken(heights, i) THEN A \cup {i - 1} ELSE A
    BY <1>1, <2>1, BreaksGrow, ZenonT(30)
  <2>4. g[i-1] = [start |-> heights[OpenRun(A)], gaps |-> Closed(heights, A)]
    BY <2>1, ZenonT(30) DEF LoopState, StartAfter, GapsAfter
  <2> HIDE DEF g, A, B
  <2> DEFINE open == Gap(heights[OpenRun(A)], heights[i-1])
             last == Gap(heights[OpenRun(B)], heights[i])
             some == IF Broken(heights, i) THEN <<open>> ELSE <<>>
             rest == IF i = L THEN <<last>> ELSE <<>>
  <2>5. /\ Closed(heights, A \cup {i - 1}) = Closed(heights, A) \o <<open>>
        /\ OpenRun(A \cup {i - 1}) = i
    <3>1. A \subseteq 1..(i - 2)
      BY <2>3, ZenonT(30)
    <3>2. i - 1 \in Nat /\ i - 2 \in Nat /\ i - 2 < i - 1
      BY <2>2, ZenonT(30)
    <3> DEFINE m == i - 2
               x == i - 1
    <3>3. A \subseteq 1..m /\ m \in Nat /\ x \in Nat /\ m < x
      BY <3>1, <3>2, ZenonT(30)
    <3> HIDE DEF m, x
    <3>4. OneMore(heights, A, x)
      BY <3>3, ClosedGrows, ZenonT(30)
    <3> QED BY <3>4, <2>2, ZenonT(30) DEF OneMore, x
  <2>6. Closed(heights, B \cup {i}) = Closed(heights, B) \o <<last>>
    <3>1. B \subseteq 1..(i - 1)
      BY <2>3, ZenonT(30)
    <3>2. i - 1 \in Nat /\ i \in Nat /\ i - 1 < i
      BY <1>1, <2>2, ZenonT(30)
    <3> DEFINE m == i - 1
    <3>3. B \subseteq 1..m /\ m \in Nat /\ m < i
      BY <3>1, <3>2, ZenonT(30)
    <3> HIDE DEF m
    <3>4. OneMore(heights, B, i)
      BY <3>2, <3>3, ClosedGrows, ZenonT(30)
    <3> QED BY <3>4, ZenonT(30) DEF OneMore
  <2>7. (\E V : Closed(heights, A) \in Seq(V)) /\ (\E V : Closed(heights, B) \in Seq(V))
    BY <2>2, <2>3, ClosedIsSeq, ZenonT(30)
  <2>8. /\ Closed(heights, A) \o <<>> = Closed(heights, A)
        /\ Closed(heights, B) \o <<>> = Closed(heights, B)
    BY <2>7
  <2>9. Closed(heights, B) = Closed(heights, A) \o some
    <3>1. CASE Broken(heights, i)
      BY <3>1, <2>3, <2>5, ZenonT(30)
    <3>2. CASE ~Broken(heights, i)
      BY <3>2, <2>3, <2>8, ZenonT(30)
    <3> QED BY <3>1, <3>2, ZenonT(30)
  <2>10. heights[OpenRun(B)] = IF Broken(heights, i) THEN heights[i] ELSE heights[OpenRun(A)]
    BY <2>3, <2>5, ZenonT(30)
  <2>11. GapsAfter(heights, i) = (Closed(heights, A) \o some) \o rest
    <3>1. CASE i = L
      BY <1>4, <3>1, <2>6, <2>9, ZenonT(30) DEF GapsAfter, B
    <3>2. CASE i # L
      BY <3>2, <2>8, <2>9, ZenonT(30) DEF GapsAfter, B
    <3> QED BY <3>1, <3>2, ZenonT(30)
  <2>12. StartAfter(heights, i) = heights[OpenRun(B)]
    BY ZenonT(30) DEF StartAfter, B
  <2>13. g[i-1].start = heights[OpenRun(A)] /\ g[i-1].gaps = Closed(heights, A)
    BY <2>4
  <2>14. (IF Broken(heights, i) THEN heights[i] ELSE g[i-1].start) = heights[OpenRun(B)]
    BY <2>10, <2>13, ZenonT(30)
  <2>15. LoopStep(heights, g, i)
           = [start |-> heights[OpenRun(B)], gaps |-> (Closed(heights, A) \o some) \o rest]
    BY <1>4, <2>13, <2>14, ZenonT(30) DEF LoopStep
  <2> HIDE DEF some, rest
  <2> QED BY <1>2, <2>11, <2>12, <2>15, ZenonT(30) DEF g
<1> QED BY <1>3, <1>4, ZenonT(30)

\* Two functions that take the same turns are the same at the end.
LEMMA LoopUnique ==
    ASSUME NEW heights, NEW f, NEW g, Len(heights) \in Nat \ {0},
           \A i \in 1..Len(heights) : f[i] = LoopStep(heights, f, i),
           \A i \in 1..Len(heights) : g[i] = LoopStep(heights, g, i)
    PROVE  f[Len(heights)] = g[Len(heights)]
<1> DEFINE L == Len(heights)
           T == {i \in 1..L : f[i] # g[i]}
<1>1. L \in Nat /\ L \in 1..L
  OBVIOUS
<1> SUFFICES ASSUME T # {} PROVE FALSE
  BY <1>1, ZenonT(30)
<1>2. T \subseteq Nat
  OBVIOUS
<1>3. PICK x \in T : \A y \in T : x <= y
  <2> HIDE DEF T
  <2> QED BY <1>2, LeastNat, ZenonT(30)
<1>4. x \in 1..L /\ f[x] # g[x]
  BY ZenonT(30)
<1>5. x # 1
  <2>1. LoopStep(heights, f, 1) = LoopStep(heights, g, 1)
    BY ZenonT(30) DEF LoopStep
  <2> QED BY <1>4, <2>1, ZenonT(30)
<1>6. x - 1 \in 1..L /\ ~(x <= x - 1)
  <2> HIDE DEF T
  <2> QED BY <1>1, <1>4, <1>5
<1>7. f[x-1] = g[x-1]
  BY <1>3, <1>6, ZenonT(30)
<1>8. LoopStep(heights, f, x) = LoopStep(heights, g, x)
  BY <1>7, ZenonT(30) DEF LoopStep
<1> QED BY <1>4, <1>8, ZenonT(30)

\* HeightsLoopAgrees: for every list of heights the loop of MissingHeightsToGaps
\* (utils.go) appends exactly the gaps of the closed form, in the same order.
THEOREM HeightsLoopAgrees ==
    ASSUME NEW heights \in Seq(Nat)
    PROVE  MissingHeightsToGaps(heights) = HeightsLoop(heights)
<1> DEFINE L == Len(heights)
           after == CHOOSE f : f = [i \in 1..L |-> LoopStep(heights, f, i)]
           g == LoopState(heights)
<1>1. HeightsLoop(heights) = IF heights = <<>> THEN <<>> ELSE after[L].gaps
  BY ZenonT(30) DEF HeightsLoop, LoopStep, Broken
<1>0. L \in Nat
  OBVIOUS
<1>2. heights = <<>> <=> L = 0
  OBVIOUS
<1>3. g = [i \in 1..L |-> LoopStep(heights, g, i)]
  <2>1. g = [i \in 1..L |-> g[i]]
    BY ZenonT(30) DEF LoopState
  <2> HIDE DEF g
  <2> QED BY <2>1, LoopStateSteps, ZenonT(30) DEF g
<1>4. after = [i \in 1..L |-> LoopStep(heights, after, i)]
  <2>1. \E f : f = [i \in 1..L |-> LoopStep(heights, f, i)]
    <3> HIDE DEF g
    <3> QED BY <1>3, ZenonT(30)
  <2> QED BY <2>1, ZenonT(30)
<1> HIDE DEF after, g, L
<1>5. ASSUME L # 0 PROVE after[L] = g[L]
  <2>1. L \in Nat \ {0}
    BY <1>0, <1>5
  <2>2. \A i \in 1..L : after[i] = LoopStep(heights, after, i)
    BY <1>4, ZenonT(30)
  <2>3. \A i \in 1..L : g[i] = LoopStep(heights, g, i)
    BY <1>3, ZenonT(30)
  <2> QED BY <2>1, <2>2, <2>3, LoopUnique, ZenonT(30) DEF L
<1>6. ASSUME L # 0 PROVE after[L].gaps = GapsAfter(heights, L)
  <2>1. L \in 1..L
    BY <1>0, <1>6
  <2>2. g[L] = [start |-> StartAfter(heights, L), gaps |-> GapsAfter(heights, L)]
    BY <2>1, ZenonT(30) DEF g, LoopState, L
  <2> QED BY <1>5, <1>6, <2>2
<1>7. CASE L = 0
  BY <1>1, <1>2, <1>7 DEF MissingHeightsToGaps, L
<1>8. CASE L = 1
  <2>1. BreaksBefore(heights, L) = {}
    BY <1>8 DEF BreaksBefore
  <2>2. Closed(heights, {}) = <<>>
    BY FS_EmptySet DEF Closed
  <2>3. GapsAfter(heights, L) = <<>>
    BY <1>8, <2>1, <2>2, ZenonT(30) DEF GapsAfter, L
  <2>4. MissingHeightsToGaps(heights) = <<>>
    BY <1>8 DEF MissingHeightsToGaps, L
  <2>5. L # 0
    BY <1>8
  <2> QED BY <1>1, <1>2, <1>6, <2>3, <2>4, <2>5, ZenonT(30)
<1>9. CASE L >= 2
  <2>1. RunEnds(heights) = BreaksBefore(heights, L) \cup {L}
    <3>1. \A j : j \in 1..L <=> j \in 1..(L - 1) \/ j = L
      BY <1>0, <1>9
    <3>2. \A j \in 1..(L - 1) : j # L
      BY <1>0
    <3> DEFINE E == RunEnds(heights)
               C == BreaksBefore(heights, L) \cup {L}
    <3>3. \A j : j \in E <=> j \in C
      BY <3>1, <3>2, ZenonT(30) DEF RunEnds, BreaksBefore, L
    <3> HIDE DEF E, C
    <3>4. E \subseteq C /\ C \subseteq E
      BY <3>3, ZenonT(30)
    <3>5. E = C
      BY <3>4, ZenonT(30)
    <3> QED BY <3>5, ZenonT(30) DEF E, C
  <2>2. L # 0 /\ L # 1 /\ ~(L < 2)
    BY <1>0, <1>9
  <2>3. GapsAfter(heights, L) = Closed(heights, RunEnds(heights))
    BY <2>1, <2>2, ZenonT(30) DEF GapsAfter, L
  <2>4. MissingHeightsToGaps(heights) = Closed(heights, RunEnds(heights))
    BY <2>2, ZenonT(30) DEF MissingHeightsToGaps, Closed, L
  <2> QED BY <1>1, <1>2, <1>6, <2>2, <2>3, <2>4, ZenonT(30)
<1>10. L = 0 \/ L = 1 \/ L >= 2
  BY <1>0
<1> QED BY <1>7, <1>8, <1>9, <1>10, ZenonT(30)
=============================================================================
