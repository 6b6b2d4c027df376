--------------------------- MODULE BackFillProofs ---------------------------
(***************************************************************************)
(* The header table: its type, and what gap detection finds in it; first    *)
(* for any set of rows, then for the rows that the table can have.  The     *)
(* backfill service: the inductive invariant IInv, what follows from it,    *)
(* that the service implements the abstract pass of BackFillPass, and that  *)
(* no two workers share a height.  All for every chain, number of workers,  *)
(* batch size and number of faults.                                         *)
(***************************************************************************)
EXTENDS BackFill, GapFindingProofs

\* The time allowed to a prover for a leaf: Zenon, unless the leaf asks for the
\* SMT solver.
USE ZenonT(30)

-----------------------------------------------------------------------------
(***************************************************************************)
(* MissingHeightsToGaps.                                                   *)
(***************************************************************************)
GapsUpTo(n) == [start : 0..n, stop : 0..n]

\* The indexes of the first and the last height of run k.
RunStop(heights, k) == Ascending(RunEnds(heights))[k]
RunStart(heights, k) == IF k = 1 THEN 1 ELSE RunStop(heights, k - 1) + 1

\* The runs cut the indexes of the list into intervals, in order.
LEMMA Runs ==
    ASSUME NEW n \in Nat, NEW heights \in Seq(0..n), Len(heights) >= 1
    PROVE  LET c == Cardinality(RunEnds(heights))
               stop(k) == RunStop(heights, k)
               start(k) == RunStart(heights, k)
           IN  /\ c \in Nat
               /\ \A k \in 1..c : /\ stop(k) \in RunEnds(heights)
                                  /\ stop(k) \in 1..Len(heights)
                                  /\ start(k) \in 1..stop(k)
               /\ \A k \in 1..c : \A j \in start(k)..(stop(k) - 1) :
                    j \notin RunEnds(heights)
               /\ \A j \in 1..Len(heights) :
                    \E k \in 1..c : j \in start(k)..stop(k)
<1> DEFINE L == Len(heights)
           E == RunEnds(heights)
           c == Cardinality(E)
           stop(k) == RunStop(heights, k)
           start(k) == RunStart(heights, k)
<1>0. L \in Nat /\ L >= 1
  BY SMTT(30)
<1>1. E \subseteq 1..L /\ L \in E
  BY <1>0, SMTT(30) DEF RunEnds
<1> HIDE DEF L, E
<1>2. E \subseteq 0..L
  BY <1>0, <1>1, SMTT(30)
<1>3. /\ c \in Nat
      /\ \A k \in 1..c : stop(k) \in E
      /\ \A j, k \in 1..c : j < k => stop(j) < stop(k)
      /\ \A e \in E : \E k \in 1..c : stop(k) = e
  BY <1>0, <1>2, AscendingLists, SMTT(30) DEF RunStop, E
<1> HIDE DEF c, stop
<1>4. \A e \in E : e \in Nat /\ e >= 1 /\ e <= L
  <2> TAKE e \in E
  <2>1. e \in 1..L
    BY <1>1, SMTT(30)
  <2> QED BY <2>1, <1>0, SMTT(30)
<1>5. \A k \in 1..c : start(k) = IF k = 1 THEN 1 ELSE stop(k - 1) + 1
  BY SMTT(30) DEF RunStart, stop
<1> HIDE DEF start
<1>6. ASSUME NEW k \in 1..c
      PROVE  stop(k) \in 1..L /\ start(k) \in 1..stop(k)
  <2>1. stop(k) \in Nat /\ stop(k) >= 1 /\ stop(k) <= L
    BY <1>3, <1>4, SMTT(30)
  <2>2. CASE k = 1
    BY <2>1, <2>2, <1>0, <1>5, SMTT(30)
  <2>3. CASE k # 1
    <3>1. k - 1 \in 1..c /\ k - 1 < k
      BY <2>3, <1>3, SMTT(30)
    <3>2. stop(k - 1) \in Nat /\ stop(k - 1) < stop(k)
      BY <3>1, <1>3, <1>4, SMTT(30)
    <3> QED BY <2>1, <2>3, <3>2, <1>0, <1>5, SMTT(30)
  <2> QED BY <2>2, <2>3, SMTT(30)
<1>7. ASSUME NEW k \in 1..c, NEW j \in start(k)..(stop(k) - 1), j \in E
      PROVE  FALSE
  <2>1. stop(k) \in Nat /\ start(k) \in Nat
    BY <1>6, <1>0, SMTT(30)
  <2>2. j \in Int /\ start(k) <= j /\ j < stop(k)
    BY <2>1, SMTT(30)
  <2>3. PICK l \in 1..c : stop(l) = j
    BY <1>3, <1>7, SMTT(30)
  <2>4. ~(k <= l)
    <3> SUFFICES ASSUME k <= l PROVE FALSE
      BY SMTT(30)
    <3>1. k = l \/ k < l
      BY <1>3, SMTT(30)
    <3>2. k < l => stop(k) < stop(l)
      BY <1>3, SMTT(30)
    <3> QED BY <3>1, <3>2, <2>1, <2>2, <2>3, SMTT(30)
  <2>5. k # 1 /\ k - 1 \in 1..c /\ l <= k - 1
    BY <2>4, <1>3, SMTT(30)
  <2>6. start(k) = stop(k - 1) + 1 /\ stop(k - 1) \in Nat
    BY <2>5, <1>3, <1>4, <1>5, SMTT(30)
  <2>7. l = k - 1 \/ l < k - 1
    BY <2>5, <1>3, SMTT(30)
  <2>8. stop(l) <= stop(k - 1)
    <3>1. stop(l) \in Nat
      BY <1>3, <1>4, SMTT(30)
    <3>2. l < k - 1 => stop(l) < stop(k - 1)
      BY <2>5, <1>3, SMTT(30)
    <3> QED BY <3>1, <3>2, <2>6, <2>7, SMTT(30)
  <2> QED BY <2>2, <2>3, <2>6, <2>8, SMTT(30)
<1>8. ASSUME NEW j \in 1..L
      PROVE  \E k \in 1..c : j \in start(k)..stop(k)
  <2> DEFINE T == {e \in E : j <= e}
  <2>1. T \subseteq Nat /\ T # {}
    <3>1. L \in T
      BY <1>0, <1>1, SMTT(30)
    <3>2. T \subseteq E
      BY SMTT(30)
    <3> QED BY <3>1, <3>2, <1>4, SMTT(30)
  <2>2. PICK x \in T : \A y \in T : x <= y
    <3> HIDE DEF T
    <3> QED BY <2>1, LeastNat
  <2>3. PICK k \in 1..c : stop(k) = x
    BY <1>3, SMTT(30)
  <2>4. x \in Nat /\ j <= x /\ x \in E
    BY <1>4, SMTT(30)
  <2>5. start(k) \in Int /\ start(k) <= j
    <3>1. CASE k = 1
      BY <3>1, <1>5, SMTT(30)
    <3>2. CASE k # 1
      <4>1. k - 1 \in 1..c /\ k - 1 < k
        BY <3>2, <1>3, SMTT(30)
      <4>2. stop(k - 1) \in E /\ stop(k - 1) \in Nat /\ stop(k - 1) < x
        BY <4>1, <2>3, <1>3, <1>4, SMTT(30)
      <4>3. ~(j <= stop(k - 1))
        <5> SUFFICES ASSUME j <= stop(k - 1) PROVE FALSE
          BY SMTT(30)
        <5>1. stop(k - 1) \in T
          BY <4>2, SMTT(30)
        <5>2. x <= stop(k - 1)
          BY <5>1, <2>2, SMTT(30)
        <5> QED BY <5>2, <4>2, <2>4, SMTT(30)
      <4> QED BY <4>2, <4>3, <3>2, <1>5, SMTT(30)
    <3> QED BY <3>1, <3>2, SMTT(30)
  <2>6. j \in start(k)..stop(k)
    BY <2>3, <2>4, <2>5, SMTT(30)
  <2> QED BY <2>6, SMTT(30)
<1> QED BY <1>3, <1>6, <1>7, <1>8 DEF L, E, c, stop, start

\* Arithmetic of one step along a run.
LEMMA StepUp == \A x, d \in Int : x + (d - 1) + 1 = x + d
  BY SMTT(30)

\* An interval of positions shifted to an interval of heights.
LEMMA ShiftInterval ==
    \A x, a, b, j \in Int :
      a <= j /\ j <= b => x + (j - a) \in x..(x + (b - a))
  BY SMTT(30)

\* Inside a run the heights are consecutive.
LEMMA RunConsecutive ==
    ASSUME NEW n \in Nat, NEW heights \in Seq(0..n),
           NEW a \in 1..Len(heights), NEW b \in a..Len(heights),
           \A j \in a..(b - 1) : j \notin RunEnds(heights)
    PROVE  \A j \in a..b : heights[j] = heights[a] + (j - a)
<1> DEFINE L == Len(heights)
           T == {d \in 0..(b - a) : heights[a + d] # heights[a] + d}
<1>0. L \in Nat /\ a \in Nat /\ b \in Nat /\ a >= 1 /\ a <= b /\ b <= L
  BY SMTT(30)
<1>1. \A j \in 1..L : heights[j] \in Int
  <2> TAKE j \in 1..L
  <2>1. heights[j] \in 0..n
    BY SMTT(30)
  <2> QED BY <2>1, SMTT(30)
<1>2. \A j \in a..(b - 1) : heights[j + 1] = heights[j] + 1
  <2> TAKE j \in a..(b - 1)
  <2>1. j \notin RunEnds(heights) /\ j \in 1..L /\ j # L
    BY <1>0, SMTT(30)
  <2> QED BY <2>1, SMTT(30) DEF RunEnds
<1> HIDE DEF L
<1>3. T = {}
  <2> SUFFICES ASSUME T # {} PROVE FALSE
    BY SMTT(30)
  <2>1. T \subseteq 0..(b - a)
    BY SMTT(30)
  <2>2. T \subseteq Nat
    BY <2>1, <1>0, SMTT(30)
  <2>3. PICK d \in T : \A e \in T : d <= e
    <3> HIDE DEF T
    <3> QED BY <2>2, LeastNat
  <2>4. d \in 0..(b - a) /\ heights[a + d] # heights[a] + d
    BY SMTT(30)
  <2>5. d # 0
    BY <2>4, <1>0, <1>1, SMTT(30)
  <2> DEFINE j == a + (d - 1)
  <2>6. j \in a..(b - 1) /\ j + 1 = a + d /\ j \in 1..L
        /\ d - 1 \in 0..(b - a) /\ ~(d <= d - 1)
    BY <2>4, <2>5, <1>0, SMTT(30)
  <2>7. d - 1 \notin T
    <3> HIDE DEF T
    <3> QED BY <2>3, <2>6, SMTT(30)
  <2>8. heights[j] = heights[a] + (d - 1)
    BY <2>6, <2>7, SMTT(60)
  <2>9. heights[a] \in Int
    BY <1>0, <1>1, SMTT(30)
  <2>10. heights[j + 1] = heights[j] + 1
    BY <2>6, <1>2, SMTT(30)
  <2>11. d \in Int
    BY <2>1, <2>4, SMTT(30)
  <2>12. heights[a + d] = heights[a] + (d - 1) + 1
    <3> HIDE DEF j, T
    <3> QED BY <2>6, <2>8, <2>10, SMTT(30)
  <2> HIDE DEF j, T
  <2>13. heights[a] + (d - 1) + 1 = heights[a] + d
    BY <2>9, <2>11, StepUp, SMTT(60)
  <2> QED BY <2>4, <2>12, <2>13, Zenon, SMTT(30)
<1>4. \A d \in 0..(b - a) : heights[a + d] = heights[a] + d
  BY <1>3
<1>5. ASSUME NEW j \in a..b
      PROVE  heights[j] = heights[a] + (j - a)
  <2>1. j - a \in 0..(b - a) /\ a + (j - a) = j
    BY <1>0, SMTT(30)
  <2>2. heights[a + (j - a)] = heights[a] + (j - a)
    BY <2>1, <1>4, SMTT(30)
  <2> QED BY <2>1, <2>2, SMTT(30)
<1> QED BY <1>5

\* The gaps made of a list of two or more heights hold exactly its heights.
LEMMA MissingHeightsCovered ==
    ASSUME NEW n \in Nat, NEW heights \in Seq(0..n), Len(heights) >= 2
    PROVE  LET gs == MissingHeightsToGaps(heights)
           IN  /\ gs \in Seq(GapsUpTo(n))
               /\ \A i \in DOMAIN gs : gs[i].start <= gs[i].stop
               /\ HeightsIn(gs) = {heights[j] : j \in 1..Len(heights)}
<1> DEFINE L == Len(heights)
           c == Cardinality(RunEnds(heights))
           stop(k) == RunStop(heights, k)
           start(k) == RunStart(heights, k)
           gs == MissingHeightsToGaps(heights)
<1>0. L \in Nat /\ L >= 2 /\ L >= 1
  BY SMTT(30)
<1>1. /\ c \in Nat
      /\ \A k \in 1..c : stop(k) \in 1..L /\ start(k) \in 1..stop(k)
      /\ \A k \in 1..c : \A j \in start(k)..(stop(k) - 1) :
           j \notin RunEnds(heights)
      /\ \A j \in 1..L : \E k \in 1..c : j \in start(k)..stop(k)
  BY <1>0, Runs
<1>2. gs = [k \in 1..c |-> [start |-> heights[start(k)],
                             stop |-> heights[stop(k)]]]
  BY <1>0, SMTT(30) DEF MissingHeightsToGaps, Gap, RunStop, RunStart
<1>3. \A j \in 1..L : heights[j] \in 0..n
  BY SMTT(30)
<1> HIDE DEF L, c, stop, start, gs
<1>4. ASSUME NEW k \in 1..c
      PROVE  /\ start(k) \in 1..L /\ stop(k) \in start(k)..L
             /\ heights[start(k)] \in 0..n /\ heights[stop(k)] \in 0..n
             /\ \A j \in start(k)..stop(k) :
                  heights[j] = heights[start(k)] + (j - start(k))
  <2>0. stop(k) \in 1..L /\ start(k) \in 1..stop(k)
    BY <1>1, SMTT(30)
  <2>1. start(k) \in 1..L /\ stop(k) \in start(k)..L /\ stop(k) \in 1..L
    BY <1>0, <2>0, SMTT(30)
  <2>2. \A j \in start(k)..(stop(k) - 1) : j \notin RunEnds(heights)
    BY <1>1, SMTT(30)
  <2>3. \A j \in start(k)..stop(k) :
          heights[j] = heights[start(k)] + (j - start(k))
    BY <2>1, <2>2, RunConsecutive DEF L
  <2> QED BY <2>1, <2>3, <1>3, SMTT(30)
<1>5. /\ DOMAIN gs = 1..c
      /\ \A k \in 1..c : /\ gs[k] \in GapsUpTo(n)
                         /\ gs[k].start = heights[start(k)]
                         /\ gs[k].stop = heights[stop(k)]
  BY <1>2, <1>4, SMTT(30) DEF GapsUpTo
<1>6. gs \in Seq(GapsUpTo(n))
  <2>1. gs = [k \in 1..c |-> gs[k]]
    BY <1>2, <1>5, SMTT(30)
  <2> QED BY <2>1, <1>1, <1>5, SMTT(30)
<1>7. ASSUME NEW k \in 1..c
      PROVE  /\ gs[k].start <= gs[k].stop
             /\ gs[k].start..gs[k].stop
                  = {heights[j] : j \in start(k)..stop(k)}
  <2> DEFINE a == start(k)
             b == stop(k)
  <2>1. a \in Nat /\ b \in Nat /\ a <= b /\ heights[a] \in Nat
        /\ b \in a..b /\ a \in a..b
    BY <1>0, <1>4, SMTT(30)
  <2>2. \A j \in a..b : heights[j] = heights[a] + (j - a)
    BY <1>4, SMTT(30)
  <2> HIDE DEF a, b
  <2>3. heights[b] = heights[a] + (b - a)
    BY <2>1, <2>2, SMTT(30)
  <2>4. heights[a] <= heights[b] /\ heights[b] \in Nat
    BY <2>1, <2>3, SMTT(30)
  <2>5. ASSUME NEW j \in a..b
        PROVE  heights[j] \in heights[a]..heights[b]
    <3>1. heights[j] = heights[a] + (j - a)
      BY <2>2, SMTT(30)
    <3>2. j \in Int /\ a <= j /\ j <= b
      BY <2>1, SMTT(30)
    <3>3. a \in Int /\ b \in Int /\ heights[a] \in Int
      BY <2>1, SMTT(30)
    <3>4. heights[a] + (j - a) \in heights[a]..(heights[a] + (b - a))
      BY <3>2, <3>3, ShiftInterval, Zenon, SMTT(30)
    <3> QED BY <3>1, <3>4, <2>3, Zenon, SMTT(30)
  <2>6. ASSUME NEW h \in heights[a]..heights[b]
        PROVE  \E j \in a..b : h = heights[j]
    <3> DEFINE x == heights[a]
    <3>1. h \in x..(x + (b - a)) /\ x \in Nat
      BY <2>1, <2>3, SMTT(30)
    <3>2. \A j \in a..b : heights[j] = x + (j - a)
      BY <2>2, SMTT(30)
    <3> HIDE DEF x
    <3>3. h \in Int /\ x <= h /\ h <= x + (b - a)
      BY <3>1, <2>1, SMTT(30)
    <3>4. a + (h - x) \in a..b /\ x + ((a + (h - x)) - a) = h
      BY <3>1, <3>3, <2>1, SMTT(30)
    <3>5. heights[a + (h - x)] = h
      BY <3>2, <3>4, SMTT(30)
    <3> QED BY <3>4, <3>5, SMTT(30)
  <2>7. heights[a]..heights[b] = {heights[j] : j \in a..b}
    BY <2>5, <2>6, SMTT(30)
  <2> QED BY <2>4, <2>7, <1>5 DEF a, b
<1>8. HeightsIn(gs) = {heights[j] : j \in 1..L}
  <2>1. ASSUME NEW h \in HeightsIn(gs)
        PROVE  \E j \in 1..L : h = heights[j]
    <3>1. PICK k \in 1..c : h \in gs[k].start..gs[k].stop
      BY <1>5, SMTT(30) DEF HeightsIn
    <3>2. PICK j \in start(k)..stop(k) : h = heights[j]
      BY <3>1, <1>7, SMTT(30)
    <3>3. j \in 1..L
      BY <1>0, <1>4, SMTT(30)
    <3> QED BY <3>2, <3>3, SMTT(30)
  <2>2. ASSUME NEW j \in 1..L
        PROVE  heights[j] \in HeightsIn(gs)
    <3>1. PICK k \in 1..c : j \in start(k)..stop(k)
      BY <1>1, SMTT(30)
    <3>2. heights[j] \in gs[k].start..gs[k].stop
      BY <3>1, <1>7, SMTT(30)
    <3> QED BY <3>2, <1>5, SMTT(60) DEF HeightsIn
  <2> QED BY <2>1, <2>2, SMTT(30)
<1> QED BY <1>5, <1>6, <1>7, <1>8 DEF L, gs

-----------------------------------------------------------------------------
(***************************************************************************)
(* The queries.                                                            *)
(***************************************************************************)
\* First and last block number of a table that is not empty.
LEMMA FirstAndLast ==
    ASSUME NEW n \in Nat, NEW rs, HeightsOf(rs) \subseteq 0..n, rs # {}
    PROVE  /\ HeightsOf(rs) # {}
           /\ RetrieveFirstBlockNumber(rs) \in HeightsOf(rs)
           /\ \A h \in HeightsOf(rs) : RetrieveFirstBlockNumber(rs) <= h
           /\ RetrieveLastBlockNumber(rs) \in HeightsOf(rs)
           /\ \A h \in HeightsOf(rs) : h <= RetrieveLastBlockNumber(rs)
<1>1. HeightsOf(rs) # {}
  BY DEF HeightsOf
<1>2. HeightsOf(rs) \subseteq Nat
  BY InInterval, SMTT(30)
<1>3. \E x \in HeightsOf(rs) : \A y \in HeightsOf(rs) : y <= x
  BY <1>1, GreatestNat, SMTT(30)
<1> QED
  BY <1>1, <1>2, <1>3, LeastIsLeast, SMTT(30)
     DEF RetrieveFirstBlockNumber, RetrieveLastBlockNumber

\* The gaps of the self-join hold exactly the heights between the first and
\* the last block number that are not in the table.
LEMMA EmptyGapsCovered ==
    ASSUME NEW n \in Nat, NEW rs, HeightsOf(rs) \subseteq 0..n, rs # {}
    PROVE  LET gs == EmptyGaps(rs)
               first == RetrieveFirstBlockNumber(rs)
               last == RetrieveLastBlockNumber(rs)
           IN  /\ gs \in Seq(GapsUpTo(n))
               /\ \A i \in DOMAIN gs : gs[i].start <= gs[i].stop
               /\ HeightsIn(gs) = (first..last) \ HeightsOf(rs)
<1> DEFINE hs == HeightsOf(rs)
           later(h) == {k \in hs : k > h}
           starts == {h \in hs : h + 1 \notin hs /\ later(h) # {}}
           c == Cardinality(starts)
           gap(h) == [start |-> h + 1, stop |-> Least(later(h)) - 1]
           gs == EmptyGaps(rs)
           first == RetrieveFirstBlockNumber(rs)
           last == RetrieveLastBlockNumber(rs)
<1>0. /\ first \in hs /\ \A h \in hs : first <= h
      /\ last \in hs /\ \A h \in hs : h <= last
      /\ \A h \in hs : h \in Int /\ h \in Nat /\ 0 <= h /\ h <= n
  BY FirstAndLast, InInterval, SMTT(30)
<1>1. gs = [i \in 1..c |-> gap(Ascending(starts)[i])]
  BY SMTT(30) DEF EmptyGaps, Gap
<1> HIDE DEF hs, first, last, gs
<1>2. starts \subseteq hs
  BY SMTT(30)
<1>3. starts \subseteq 0..n
  BY <1>0, <1>2, SMTT(30)
<1>4. ASSUME NEW h \in starts
      PROVE  LET l == Least(later(h))
             IN  /\ h \in hs /\ h \in Nat /\ l \in hs /\ l \in Nat
                 /\ h + 1 < l /\ l <= n
                 /\ \A k \in hs : k > h => l <= k
  <2> DEFINE l == Least(later(h))
  <2>1. h \in hs /\ h \in Nat /\ h + 1 \notin hs /\ later(h) # {}
    BY <1>0, <1>2, SMTT(30)
  <2>2. later(h) \subseteq hs /\ later(h) \subseteq Nat
    BY <1>0, SMTT(30)
  <2>3. l \in later(h) /\ \A k \in later(h) : l <= k
    <3> HIDE DEF later
    <3> QED BY <2>1, <2>2, LeastIsLeast, SMTT(30)
  <2>4. l \in hs /\ l > h /\ \A k \in hs : k > h => l <= k
    BY <2>3, SMTT(30)
  <2> HIDE DEF l
  <2>5. l \in Nat /\ l <= n /\ l # h + 1
    BY <2>1, <2>4, <1>0, SMTT(30)
  <2> QED BY <2>1, <2>4, <2>5, SMTT(30) DEF l
<1>5. ASSUME NEW h \in starts
      PROVE  gap(h) \in GapsUpTo(n) /\ gap(h).start <= gap(h).stop
  <2>1. h \in Nat /\ Least(later(h)) \in Nat /\ h + 1 < Least(later(h))
        /\ Least(later(h)) <= n
    BY <1>4, SMTT(30)
  <2> HIDE DEF later
  <2>2. h + 1 \in 0..n /\ Least(later(h)) - 1 \in 0..n
        /\ h + 1 <= Least(later(h)) - 1
    BY <2>1, SMTT(30)
  <2> QED BY <2>2, SMTT(30) DEF GapsUpTo
<1>6. /\ c \in Nat
      /\ \A i \in 1..c : Ascending(starts)[i] \in starts
      /\ \A h \in starts : \E i \in 1..c : Ascending(starts)[i] = h
  <2> HIDE DEF starts
  <2> QED BY <1>3, AscendingLists
<1>7. ASSUME NEW h \in starts, NEW x \in gap(h).start..gap(h).stop
      PROVE  x \in (first..last) \ hs
  <2> DEFINE l == Least(later(h))
  <2>1. h \in hs /\ h \in Nat /\ l \in hs /\ l \in Nat
        /\ \A k \in hs : k > h => l <= k
    BY <1>4, SMTT(30)
  <2> HIDE DEF l
  <2>2. x \in (h + 1)..(l - 1)
    BY SMTT(30) DEF l
  <2>3. x \in Int /\ h < x /\ x < l
    BY <2>1, <2>2, SMTT(30)
  <2>4. x \notin hs
    BY <2>1, <2>3, SMTT(30)
  <2>5. first \in Int /\ last \in Int /\ first <= h /\ l <= last
    BY <1>0, <2>1, SMTT(30)
  <2> QED BY <2>1, <2>3, <2>4, <2>5, SMTT(30)
<1>8. ASSUME NEW x \in (first..last) \ hs
      PROVE  \E h \in starts : x \in gap(h).start..gap(h).stop
  <2> DEFINE T == {k \in hs : k < x}
  <2>0. x \in Int /\ first < x /\ x < last /\ first \in Nat /\ last \in Nat
    <3>1. first \in Nat /\ last \in Nat /\ x \in first..last
      BY <1>0, SMTT(30)
    <3>2. x # first /\ x # last
      BY <1>0, SMTT(30)
    <3> QED BY <3>1, <3>2, SMTT(30)
  <2>1. T \subseteq 0..n /\ T # {}
    <3>1. first \in T
      BY <1>0, <2>0, SMTT(30)
    <3>2. T \subseteq hs
      BY SMTT(30)
    <3> QED BY <3>1, <3>2, <1>0, SMTT(30)
  <2>2. PICK h \in T : \A y \in T : y <= h
    <3> HIDE DEF T
    <3> QED BY <2>1, GreatestNat
  <2>3. h \in hs /\ h < x /\ h \in Nat /\ \A y \in hs : y < x => y <= h
    BY <2>2, <1>0, SMTT(30)
  <2>4. h + 1 \notin hs
    <3> SUFFICES ASSUME h + 1 \in hs PROVE FALSE
      BY SMTT(30)
    <3>1. h + 1 # x
      BY SMTT(30)
    <3>2. h + 1 < x
      BY <2>0, <2>3, <3>1, SMTT(30)
    <3>3. h + 1 <= h
      BY <2>3, <3>2, SMTT(30)
    <3> QED BY <2>3, <3>3, SMTT(30)
  <2>5. last \in later(h)
    BY <1>0, <2>0, <2>3, SMTT(30)
  <2>6. h \in starts
    BY <2>3, <2>4, <2>5, SMTT(30)
  <2> DEFINE l == Least(later(h))
  <2>7. l \in hs /\ l \in Nat /\ h + 1 < l
    BY <2>6, <1>4, SMTT(30)
  <2> HIDE DEF l
  <2>8. ~(l < x) /\ l # x
    BY <2>3, <2>7, SMTT(30)
  <2>9. x \in (h + 1)..(l - 1)
    BY <2>0, <2>3, <2>7, <2>8, SMTT(30)
  <2>10. x \in gap(h).start..gap(h).stop
    BY <2>9, SMTT(30) DEF l
  <2> QED BY <2>6, <2>10
<1> HIDE DEF starts, c, gap
<1>9. DOMAIN gs = 1..c /\ \A i \in 1..c : gs[i] = gap(Ascending(starts)[i])
  BY <1>1, SMTT(30)
<1>10. gs \in Seq(GapsUpTo(n))
  <2>1. \A i \in 1..c : gap(Ascending(starts)[i]) \in GapsUpTo(n)
    BY <1>5, <1>6, SMTT(30)
  <2> QED BY <2>1, <1>1, <1>6, SMTT(30)
<1>11. \A i \in DOMAIN gs : gs[i].start <= gs[i].stop
  BY <1>5, <1>6, <1>9, SMTT(30)
<1>12. \A x : x \in HeightsIn(gs) <=> x \in (first..last) \ hs
  <2>1. \A x : x \in HeightsIn(gs) <=>
          \E i \in 1..c : x \in gs[i].start..gs[i].stop
    BY <1>9, SMTT(30) DEF HeightsIn
  <2>2. \A x : x \in HeightsIn(gs) <=>
          \E h \in starts : x \in gap(h).start..gap(h).stop
    BY <2>1, <1>6, <1>9, SMTT(30)
  <2> QED BY <2>2, <1>7, <1>8, SMTT(30)
<1> QED BY <1>10, <1>11, <1>12 DEF gs, first, last, hs

\* Rows at or below a height; a higher row counts one more.
UpTo(S, h) == {r \in S : r[1] <= h}

\* The list of heights of the rows below the validation level has one entry
\* for each of these rows and holds exactly their heights.
LEMMA UnderValidatedListed ==
    ASSUME NEW n \in Nat, NEW rs, IsFiniteSet(rs),
           HeightsOf(rs) \subseteq 0..n, NEW val, NEW level
    PROVE  LET list == UnderValidatedHeights(rs, val, level)
               under == RowsBelow(rs, val, level)
           IN  /\ list \in Seq(0..n)
               /\ Len(list) = Cardinality(under)
               /\ {list[j] : j \in 1..Len(list)} = HeightsOf(under)
<1> DEFINE list == UnderValidatedHeights(rs, val, level)
           under == RowsBelow(rs, val, level)
           c == Cardinality(under)
           hs == HeightsOf(under)
           T(i) == {h \in hs : i <= Cardinality(UpTo(under, h))}
<1>1. list = [i \in 1..c |-> Least(T(i))]
  BY SMTT(30) DEF UnderValidatedHeights, UpTo
<1>2. under \subseteq rs
  BY SMTT(30) DEF RowsBelow
<1> HIDE DEF list, under
<1>3. IsFiniteSet(under) /\ c \in Nat
  BY <1>2, FS_Subset, FS_CardinalityType, SMTT(30)
<1>4. hs \subseteq 0..n
  BY <1>2, SMTT(30) DEF HeightsOf
<1>5. \A h \in hs : h \in Int /\ h \in Nat /\ 0 <= h /\ h <= n
  BY <1>4, InInterval, SMTT(30)
<1>6. \A r \in under : r[1] \in hs
  BY SMTT(30) DEF HeightsOf
<1>7. \A h : /\ IsFiniteSet(UpTo(under, h)) /\ Cardinality(UpTo(under, h)) \in Nat
             /\ Cardinality(UpTo(under, h)) <= c
  <2> TAKE h
  <2>1. UpTo(under, h) \subseteq under
    BY SMTT(30) DEF UpTo
  <2> QED BY <2>1, <1>3, FS_Subset, FS_CardinalityType, SMTT(30)
<1>8. ASSUME NEW i \in 1..c
      PROVE  /\ T(i) # {} /\ T(i) \subseteq Nat
             /\ Least(T(i)) \in T(i) /\ \A h \in T(i) : Least(T(i)) <= h
  <2>1. hs # {}
    <3>1. under # {}
      BY <1>3, FS_EmptySet, SMTT(30)
    <3> QED BY <3>1, <1>6, SMTT(30)
  <2>2. PICK m \in hs : \A h \in hs : h <= m
    <3> HIDE DEF hs
    <3> QED BY <2>1, <1>4, GreatestNat
  <2>3. UpTo(under, m) = under
    BY <2>2, <1>6, SMTT(30) DEF UpTo
  <2>4. m \in T(i)
    BY <2>3, <1>3, SMTT(30)
  <2>5. T(i) \subseteq Nat
    BY <1>5, SMTT(30)
  <2> HIDE DEF T
  <2> QED BY <2>4, <2>5, LeastIsLeast, SMTT(30)
<1>9. ASSUME NEW h \in hs
      PROVE  /\ Cardinality(UpTo(under, h)) \in 1..c
             /\ Least(T(Cardinality(UpTo(under, h)))) = h
  <2> DEFINE i == Cardinality(UpTo(under, h))
  <2>1. PICK r \in under : r[1] = h
    BY SMTT(30) DEF HeightsOf
  <2>2. r \in UpTo(under, h)
    BY <2>1, <1>5, SMTT(30) DEF UpTo
  <2>3. i \in 1..c
    <3>1. i # 0
      BY <2>2, <1>7, FS_EmptySet, SMTT(30)
    <3> QED BY <3>1, <1>3, <1>7, SMTT(30)
  <2>4. h \in T(i)
    BY <1>7, SMTT(30)
  <2> DEFINE x == Least(T(i))
  <2>5. x \in T(i) /\ x <= h
    <3> HIDE DEF T, i
    <3> QED BY <2>3, <2>4, <1>8, SMTT(30)
  <2>6. x \in hs /\ i <= Cardinality(UpTo(under, x))
    BY <2>5, SMTT(30)
  <2>7. ~(x < h)
    <3> HIDE DEF x
    <3> SUFFICES ASSUME x < h PROVE FALSE
      BY SMTT(30)
    <3>1. x \in Int /\ h \in Int
      BY <2>6, <1>5, SMTT(30)
    <3>2. \A s \in under : s[1] <= x => s[1] <= h
      <4> TAKE s \in under
      <4>1. s[1] \in Int
        BY <1>5, <1>6, SMTT(30)
      <4> QED BY <3>1, <4>1, SMTT(30)
    <3>3. UpTo(under, x) \subseteq UpTo(under, h)
      BY <3>2, SMTT(30) DEF UpTo
    <3>4. r \notin UpTo(under, x)
      BY <2>1, <3>1, SMTT(30) DEF UpTo
    <3>5. Cardinality(UpTo(under, x)) <= i
          /\ (i = Cardinality(UpTo(under, x)) => UpTo(under, h) = UpTo(under, x))
      BY <3>3, <1>7, FS_Subset, SMTT(30)
    <3>6. i = Cardinality(UpTo(under, x))
      BY <3>5, <2>6, <1>7, SMTT(30)
    <3> QED BY <2>2, <3>4, <3>5, <3>6, SMTT(30)
  <2>8. x \in Int /\ h \in Int
    BY <2>6, <1>5, SMTT(30)
  <2>9. x = h
    <3> HIDE DEF x
    <3> QED BY <2>5, <2>7, <2>8, SMTT(30)
  <2> QED BY <2>3, <2>9, SMTT(30)
<1>10. \A i \in 1..c : Least(T(i)) \in hs /\ Least(T(i)) \in 0..n
  <2> TAKE i \in 1..c
  <2>1. Least(T(i)) \in T(i)
    BY <1>8, SMTT(30)
  <2>2. T(i) \subseteq hs
    BY SMTT(30)
  <2> QED BY <2>1, <2>2, <1>4, SMTT(30)
<1> DEFINE least(i) == Least(T(i))
<1> HIDE DEF T, least
<1>11. list = [i \in 1..c |-> least(i)] /\ \A i \in 1..c : least(i) \in 0..n
  BY <1>1, <1>10, SMTT(30) DEF least
<1>12. list \in Seq(0..n) /\ Len(list) = c
  BY <1>3, <1>11, SMTT(30)
<1>13. {list[j] : j \in 1..c} = hs
  <2>1. \A j \in 1..c : list[j] \in hs
    BY <1>1, <1>10, SMTT(30)
  <2>2. \A h \in hs : \E j \in 1..c : list[j] = h
    BY <1>1, <1>9, SMTT(30)
  <2> QED BY <2>1, <2>2, SMTT(30)
<1> QED BY <1>12, <1>13 DEF list, under

\* The heights of two lists of gaps put together.
LEMMA HeightsInConcat ==
    ASSUME NEW S, NEW s \in Seq(S), NEW t \in Seq(S)
    PROVE  HeightsIn(s \o t) = HeightsIn(s) \cup HeightsIn(t)
<1> DEFINE u == s \o t
<1>1. /\ u \in Seq(S) /\ Len(u) = Len(s) + Len(t)
      /\ \A i \in 1..(Len(s) + Len(t)) :
           u[i] = IF i <= Len(s) THEN s[i] ELSE t[i - Len(s)]
  BY SMTT(30)
<1>2. /\ DOMAIN u = 1..(Len(s) + Len(t)) /\ DOMAIN s = 1..Len(s)
      /\ DOMAIN t = 1..Len(t) /\ Len(s) \in Nat /\ Len(t) \in Nat
  BY <1>1, SMTT(30)
<1> HIDE DEF u
<1>3. \A i \in DOMAIN s : i \in DOMAIN u /\ u[i] = s[i]
  BY <1>1, <1>2, SMTT(30)
<1>4. ASSUME NEW i \in DOMAIN t
      PROVE  i + Len(s) \in DOMAIN u /\ u[i + Len(s)] = t[i]
  <2>1. i \in 1..Len(t)
    BY <1>2, SMTT(30)
  <2>2. i + Len(s) \in 1..(Len(s) + Len(t)) /\ ~(i + Len(s) <= Len(s))
        /\ (i + Len(s)) - Len(s) = i
    BY <2>1, <1>2, SMTT(30)
  <2> QED BY <2>2, <1>1, <1>2, SMTT(30)
<1>5. ASSUME NEW i \in DOMAIN u
      PROVE  \/ i \in DOMAIN s /\ u[i] = s[i]
             \/ i - Len(s) \in DOMAIN t /\ u[i] = t[i - Len(s)]
  <2>1. i \in 1..(Len(s) + Len(t))
    BY <1>2, SMTT(30)
  <2>2. i <= Len(s) => i \in 1..Len(s)
    BY <2>1, <1>2, SMTT(30)
  <2>3. ~(i <= Len(s)) => i - Len(s) \in 1..Len(t)
    BY <2>1, <1>2, SMTT(30)
  <2> QED BY <2>1, <2>2, <2>3, <1>1, <1>2, SMTT(30)
<1>6. \A x : x \in HeightsIn(u) <=> x \in HeightsIn(s) \/ x \in HeightsIn(t)
  <2> TAKE x
  <2>1. \A g : x \in HeightsIn(g) <=>
          \E i \in DOMAIN g : x \in g[i].start..g[i].stop
    BY SMTT(30) DEF HeightsIn
  <2>2. x \in HeightsIn(u) => x \in HeightsIn(s) \/ x \in HeightsIn(t)
    BY <2>1, <1>5, SMTT(30)
  <2>3. x \in HeightsIn(s) => x \in HeightsIn(u)
    BY <2>1, <1>3, SMTT(30)
  <2>4. x \in HeightsIn(t) => x \in HeightsIn(u)
    BY <2>1, <1>4, SMTT(30)
  <2> QED BY <2>2, <2>3, <2>4, SMTT(30)
<1> QED BY <1>6 DEF u

\* The gap before the first block number.
LEMMA InitialGapCovered ==
    ASSUME NEW n \in Nat, NEW rs, HeightsOf(rs) \subseteq 0..n, rs # {}
    PROVE  LET gs == InitialGap(rs)
               first == RetrieveFirstBlockNumber(rs)
           IN  /\ gs \in Seq(GapsUpTo(n)) /\ Len(gs) <= 1
               /\ \A i \in DOMAIN gs : gs[i].start <= gs[i].stop
               /\ HeightsIn(gs) = 0..(first - 1)
<1> DEFINE first == RetrieveFirstBlockNumber(rs)
           g1 == InitialGap(rs)
           G == GapsUpTo(n)
           Ordered(g) == \A i \in DOMAIN g : g[i].start <= g[i].stop
<1>1. first \in Nat /\ first <= n
  BY FirstAndLast, InInterval, SMTT(30)
<1>2. g1 = IF first # 0 THEN <<[start |-> 0, stop |-> first - 1]>> ELSE <<>>
  BY SMTT(30) DEF InitialGap, Gap
<1> HIDE DEF first, g1
<1>3. CASE first = 0
  <2>1. g1 = <<>> /\ 0..(first - 1) = {}
    BY <1>3, <1>2, SMTT(30)
  <2>2. g1 \in Seq(G) /\ Len(g1) <= 1 /\ Ordered(g1) /\ DOMAIN g1 = {}
    BY <2>1, SMTT(30)
  <2> QED BY <2>1, <2>2 DEF HeightsIn, first, g1
<1>4. CASE first # 0
  <2> DEFINE gap == [start |-> 0, stop |-> first - 1]
  <2>1. gap \in G /\ gap.start <= gap.stop
    BY <1>1, <1>4, SMTT(30) DEF GapsUpTo
  <2>2. g1 = <<gap>>
    BY <1>4, <1>2, SMTT(30)
  <2>3. gap.start = 0 /\ gap.stop = first - 1
    BY SMTT(30)
  <2> HIDE DEF gap, G
  <2>4. g1 \in Seq(G) /\ Len(g1) <= 1 /\ DOMAIN g1 = {1} /\ g1[1] = gap
    BY <2>1, <2>2, SMTT(30)
  <2> QED BY <2>1, <2>3, <2>4 DEF HeightsIn, first, g1, G
<1> QED BY <1>3, <1>4

\* The gaps of the under-validated rows.
LEMMA UnderValidatedCovered ==
    ASSUME NEW n \in Nat, NEW rs, IsFiniteSet(rs),
           HeightsOf(rs) \subseteq 0..n, NEW val, NEW level
    PROVE  LET gs == MissingHeightsToGaps(UnderValidatedHeights(rs, val, level))
               under == RowsBelow(rs, val, level)
           IN  /\ gs \in Seq(GapsUpTo(n))
               /\ \A i \in DOMAIN gs : gs[i].start <= gs[i].stop
               /\ HeightsIn(gs) \subseteq HeightsOf(rs)
               /\ Cardinality(under) # 1 => HeightsIn(gs) = HeightsOf(under)
<1> DEFINE list == UnderValidatedHeights(rs, val, level)
           under == RowsBelow(rs, val, level)
           g3 == MissingHeightsToGaps(list)
           G == GapsUpTo(n)
           Ordered(g) == \A i \in DOMAIN g : g[i].start <= g[i].stop
<1>1. HeightsOf(under) \subseteq HeightsOf(rs)
  BY DEF HeightsOf, RowsBelow
<1>2. /\ list \in Seq(0..n) /\ Len(list) = Cardinality(under)
      /\ {list[j] : j \in 1..Len(list)} = HeightsOf(under)
  BY UnderValidatedListed, SMTT(30)
<1> HIDE DEF list, under
<1>3. Len(list) \in Nat
  BY <1>2, SMTT(30)
<1>4. CASE Len(list) >= 2
  <2>1. g3 \in Seq(G) /\ Ordered(g3) /\ HeightsIn(g3) = HeightsOf(under)
    BY <1>4, <1>2, MissingHeightsCovered
  <2> QED BY <2>1, <1>1 DEF list, under
<1>5. CASE Len(list) < 2
  <2>1. g3 = <<>>
    BY <1>5 DEF MissingHeightsToGaps
  <2>2. <<>> \in Seq(G) /\ DOMAIN <<>> = {}
    BY SMTT(30)
  <2>3. HeightsIn(g3) = {}
    BY <2>1, <2>2 DEF HeightsIn
  <2>4. Cardinality(under) # 1 => HeightsOf(under) = {}
    <3> SUFFICES ASSUME Cardinality(under) # 1 PROVE HeightsOf(under) = {}
      BY SMTT(30)
    <3>1. Len(list) = 0
      BY <1>2, <1>3, <1>5, SMTT(30)
    <3>2. 1..Len(list) = {}
      BY <3>1, SMTT(30)
    <3> QED BY <3>2, <1>2
  <2> HIDE DEF g3, G
  <2> QED BY <2>1, <2>2, <2>3, <2>4 DEF list, under, g3, G
<1>6. Len(list) >= 2 \/ Len(list) < 2
  BY <1>3, SMTT(30)
<1> QED BY <1>4, <1>5, <1>6

\* RetrieveGapsInData returns well-formed gaps.  They hold exactly the heights
\* below the last one that have no row, and the heights of the rows below the
\* validation level, unless there is a single such row.
LEMMA GapsFound ==
    ASSUME NEW n \in Nat, NEW rs, IsFiniteSet(rs), rs # {},
           HeightsOf(rs) \subseteq 0..n, NEW val, NEW level
    PROVE  LET gs == RetrieveGapsInData(rs, val, level)
               under == RowsBelow(rs, val, level)
               last == RetrieveLastBlockNumber(rs)
           IN  /\ gs \in Seq(GapsUpTo(n))
               /\ \A i \in DOMAIN gs : gs[i].start <= gs[i].stop
               /\ Cardinality(under) # 1 =>
                    HeightsIn(gs)
                      = ((0..last) \ HeightsOf(rs)) \cup HeightsOf(under)
<1> DEFINE gs == RetrieveGapsInData(rs, val, level)
           under == RowsBelow(rs, val, level)
           first == RetrieveFirstBlockNumber(rs)
           last == RetrieveLastBlockNumber(rs)
           hs == HeightsOf(rs)
           list == UnderValidatedHeights(rs, val, level)
           g1 == InitialGap(rs)
           g2 == EmptyGaps(rs)
           g3 == MissingHeightsToGaps(list)
           G == GapsUpTo(n)
           Ordered(g) == \A i \in DOMAIN g : g[i].start <= g[i].stop
<1>1. /\ first \in hs /\ last \in hs
      /\ \A h \in hs : first <= h /\ h <= last
      /\ \A h \in hs : h \in Int /\ h \in Nat /\ 0 <= h /\ h <= n
  BY FirstAndLast, InInterval, SMTT(30)
<1>2. gs = g1 \o g2 \o g3
  BY SMTT(30) DEF RetrieveGapsInData
<1>3. g2 \in Seq(G) /\ Ordered(g2) /\ HeightsIn(g2) = (first..last) \ hs
  BY EmptyGapsCovered, SMTT(30)
<1> HIDE DEF gs, under, first, last, hs, list, g1, g2, g3
<1>4. g1 \in Seq(G) /\ Ordered(g1) /\ HeightsIn(g1) = 0..(first - 1)
  BY InitialGapCovered DEF g1, first
<1>5. /\ g3 \in Seq(G) /\ Ordered(g3)
      /\ Cardinality(under) # 1 => HeightsIn(g3) = HeightsOf(under)
  BY UnderValidatedCovered DEF g3, list, under
<1> HIDE DEF G
<1>6. ASSUME NEW s \in Seq(G), NEW t \in Seq(G), Ordered(s), Ordered(t)
      PROVE  s \o t \in Seq(G) /\ Ordered(s \o t)
  <2>1. /\ s \o t \in Seq(G) /\ Len(s \o t) = Len(s) + Len(t)
        /\ \A i \in 1..(Len(s) + Len(t)) :
             (s \o t)[i] = IF i <= Len(s) THEN s[i] ELSE t[i - Len(s)]
    BY SMTT(30)
  <2>2. /\ DOMAIN (s \o t) = 1..(Len(s) + Len(t)) /\ DOMAIN s = 1..Len(s)
        /\ DOMAIN t = 1..Len(t) /\ Len(s) \in Nat /\ Len(t) \in Nat
    BY <2>1, SMTT(30)
  <2>3. ASSUME NEW i \in 1..(Len(s) + Len(t))
        PROVE  (s \o t)[i].start <= (s \o t)[i].stop
    <3>1. CASE i <= Len(s)
      <4>1. i \in DOMAIN s /\ (s \o t)[i] = s[i]
        BY <3>1, <2>1, <2>2, SMTT(30)
      <4> QED BY <4>1, <1>6, SMTT(30)
    <3>2. CASE ~(i <= Len(s))
      <4>1. i - Len(s) \in DOMAIN t /\ (s \o t)[i] = t[i - Len(s)]
        BY <3>2, <2>1, <2>2, SMTT(30)
      <4> QED BY <4>1, <1>6, SMTT(30)
    <3> QED BY <3>1, <3>2, SMTT(30)
  <2> QED BY <2>1, <2>2, <2>3, SMTT(30)
<1>7. g1 \o g2 \in Seq(G) /\ Ordered(g1 \o g2)
  BY <1>3, <1>4, <1>6, SMTT(30)
<1>8. gs \in Seq(G) /\ Ordered(gs)
  BY <1>2, <1>5, <1>6, <1>7, SMTT(30)
<1>9. HeightsIn(gs) = HeightsIn(g1) \cup HeightsIn(g2) \cup HeightsIn(g3)
  <2>1. HeightsIn(g1 \o g2) = HeightsIn(g1) \cup HeightsIn(g2)
    <3>1. g1 \in Seq(G) /\ g2 \in Seq(G)
      BY <1>3, <1>4, SMTT(30)
    <3> QED BY <3>1, HeightsInConcat, SMTT(30)
  <2> DEFINE g12 == g1 \o g2
  <2>2. g12 \in Seq(G) /\ g3 \in Seq(G)
    BY <1>5, <1>7, SMTT(30)
  <2> HIDE DEF g12
  <2>3. HeightsIn(g12 \o g3) = HeightsIn(g12) \cup HeightsIn(g3)
    BY <2>2, HeightsInConcat, SMTT(30)
  <2> QED BY <2>1, <2>3, <1>2, SMTT(30) DEF g12
<1>10. (0..last) \ hs = (0..(first - 1)) \cup ((first..last) \ hs)
  <2>1. first \in Nat /\ last \in Nat /\ first <= last
    BY <1>1, SMTT(30)
  <2>2. \A x : x \in 0..last <=> x \in 0..(first - 1) \/ x \in first..last
    BY <2>1, SMTT(30)
  <2>3. \A x \in hs : x \notin 0..(first - 1)
    <3> TAKE x \in hs
    <3>1. x \in Int /\ first <= x
      BY <1>1, SMTT(30)
    <3> QED BY <2>1, <3>1, SMTT(30)
  <2> QED BY <2>2, <2>3, SMTT(30)
<1>11. Cardinality(under) # 1 =>
         HeightsIn(gs) = ((0..last) \ hs) \cup HeightsOf(under)
  BY <1>3, <1>4, <1>5, <1>9, <1>10, SMTT(30)
<1> QED BY <1>8, <1>11 DEF gs, under, last, hs, G

-----------------------------------------------------------------------------
(***************************************************************************)
(* The gaps of one search have no height in common.                         *)
(***************************************************************************)
Apart(gs) ==
    \A i, j \in DOMAIN gs :
      i # j => (gs[i].start..gs[i].stop) \cap (gs[j].start..gs[j].stop) = {}

\* Each gap ends before the next begins.
Rising(gs) == \A i, j \in DOMAIN gs : i < j => gs[i].stop < gs[j].start

\* No two rows have the same height.
NoForks(rs) == \A r, s \in rs : r[1] = s[1] => r = s

\* Gaps one after the other have no height in common.
LEMMA RisingApart ==
    ASSUME NEW n \in Nat, NEW gs \in Seq(GapsUpTo(n)), Rising(gs)
    PROVE  Apart(gs)
<1>1. /\ DOMAIN gs = 1..Len(gs) /\ Len(gs) \in Nat
      /\ \A i \in DOMAIN gs : gs[i].start \in Int /\ gs[i].stop \in Int
  <2>1. DOMAIN gs = 1..Len(gs) /\ Len(gs) \in Nat
    BY SMTT(30)
  <2>2. \A i \in DOMAIN gs : gs[i] \in GapsUpTo(n)
    BY SMTT(30)
  <2>3. \A i \in DOMAIN gs : gs[i].start \in 0..n /\ gs[i].stop \in 0..n
    BY <2>2 DEF GapsUpTo
  <2> QED BY <2>1, <2>3, SMTT(30)
<1>2. \A i, j \in DOMAIN gs : i < j =>
        (gs[i].start..gs[i].stop) \cap (gs[j].start..gs[j].stop) = {}
  <2> SUFFICES ASSUME NEW i \in DOMAIN gs, NEW j \in DOMAIN gs, i < j,
                      NEW x \in gs[i].start..gs[i].stop, x \in gs[j].start..gs[j].stop
               PROVE  FALSE
    OBVIOUS
  <2>1. gs[i].stop < gs[j].start
    BY DEF Rising
  <2> QED BY <2>1, <1>1, SMTT(30)
<1>3. \A i, j \in DOMAIN gs : i # j => i < j \/ j < i
  BY <1>1, SMTT(30)
<1> QED BY <1>2, <1>3 DEF Apart

\* The gaps of the self-join come one after the other: the next height that is in
\* the table ends a gap, and no later gap begins before it.
LEMMA EmptyGapsRising ==
    ASSUME NEW n \in Nat, NEW rs, HeightsOf(rs) \subseteq 0..n
    PROVE  Rising(EmptyGaps(rs))
<1> DEFINE hs == HeightsOf(rs)
           later(h) == {k \in hs : k > h}
           starts == {h \in hs : h + 1 \notin hs /\ later(h) # {}}
           c == Cardinality(starts)
           gs == EmptyGaps(rs)
<1>1. gs = [i \in 1..c |-> [start |-> Ascending(starts)[i] + 1,
                             stop |-> Least(later(Ascending(starts)[i])) - 1]]
  BY SMTT(30) DEF EmptyGaps, Gap
<1>2. \A h \in hs : h \in Int /\ h \in Nat /\ 0 <= h /\ h <= n
  BY InInterval, SMTT(30)
<1> HIDE DEF hs, gs
<1>3. starts \subseteq hs /\ starts \subseteq 0..n
  BY <1>2, SMTT(30)
<1>4. ASSUME NEW h \in starts, NEW k \in starts, h < k
      PROVE  Least(later(h)) \in Int /\ Least(later(h)) <= k
  <2>1. k \in later(h) /\ later(h) \subseteq Nat
    BY <1>2, <1>3, <1>4, SMTT(30)
  <2> HIDE DEF later
  <2> QED BY <2>1, LeastIsLeast, SMTT(30)
<1> HIDE DEF starts, later
<1>5. /\ c \in Nat
      /\ \A i \in 1..c : Ascending(starts)[i] \in starts
      /\ \A i, j \in 1..c : i < j => Ascending(starts)[i] < Ascending(starts)[j]
  BY <1>3, AscendingLists
<1> DEFINE at(i) == Ascending(starts)[i]
           end(i) == Least(later(Ascending(starts)[i]))
<1>6. DOMAIN gs = 1..c /\ \A i \in 1..c : gs[i].start = at(i) + 1 /\ gs[i].stop = end(i) - 1
  <2> HIDE DEF c, at, end
  <2>1. gs = [i \in 1..c |-> [start |-> at(i) + 1, stop |-> end(i) - 1]]
    BY <1>1 DEF at, end
  <2> QED BY <2>1, SMTT(30)
<1>7. ASSUME NEW i \in 1..c, NEW j \in 1..c, i < j
      PROVE  end(i) \in Int /\ at(j) \in Int /\ end(i) <= at(j)
  <2>1. at(i) \in starts /\ at(j) \in starts /\ at(i) < at(j)
    BY <1>5, <1>7
  <2>2. at(j) \in Int
    BY <2>1, <1>2, <1>3
  <2> QED BY <2>1, <2>2, <1>4
<1> HIDE DEF c, at, end
<1>8. ASSUME NEW i \in DOMAIN gs, NEW j \in DOMAIN gs, i < j
      PROVE  gs[i].stop < gs[j].start
  <2>1. end(i) \in Int /\ at(j) \in Int /\ end(i) <= at(j)
    BY <1>6, <1>7, <1>8
  <2>2. end(i) - 1 < at(j) + 1
    BY <2>1, SMTT(30)
  <2> QED BY <2>2, <1>6
<1> QED BY <1>8 DEF Rising, gs

\* The gaps made of a list in which every height is greater than the one before
\* come one after the other.
LEMMA MissingHeightsRising ==
    ASSUME NEW n \in Nat, NEW heights \in Seq(0..n), Len(heights) >= 2,
           \A i, j \in 1..Len(heights) : i < j => heights[i] < heights[j]
    PROVE  Rising(MissingHeightsToGaps(heights))
<1> DEFINE L == Len(heights)
           E == RunEnds(heights)
           c == Cardinality(E)
           stop(k) == RunStop(heights, k)
           start(k) == RunStart(heights, k)
           gs == MissingHeightsToGaps(heights)
<1>0. L \in Nat /\ L >= 1
  BY SMTT(30)
<1>1. /\ c \in Nat
      /\ \A k \in 1..c : stop(k) \in 1..L /\ start(k) \in 1..stop(k)
  BY <1>0, Runs
<1>2. gs = [k \in 1..c |-> [start |-> heights[start(k)],
                             stop |-> heights[stop(k)]]]
  BY <1>0, SMTT(30) DEF MissingHeightsToGaps, Gap, RunStop, RunStart
<1>3. E \subseteq 0..L
  BY <1>0, SMTT(30) DEF RunEnds
<1>4. \A k, l \in 1..c : k < l => stop(k) < stop(l)
  <2> HIDE DEF E, L
  <2> QED BY <1>0, <1>3, AscendingLists DEF RunStop, E
<1>5. \A k \in 1..c : start(k) = IF k = 1 THEN 1 ELSE stop(k - 1) + 1
  BY SMTT(30) DEF RunStart, RunStop
<1> HIDE DEF L, E, c, stop, start, gs
<1>6. ASSUME NEW k \in 1..c, NEW l \in 1..c, k < l
      PROVE  stop(k) \in 1..L /\ start(l) \in 1..L /\ stop(k) < start(l)
  <2>1. l # 1 /\ l - 1 \in 1..c /\ (k = l - 1 \/ k < l - 1)
    BY <1>1, <1>6, SMTT(30)
  <2>2. stop(k) \in 1..L /\ stop(l - 1) \in 1..L /\ stop(l) \in 1..L /\ start(l) \in 1..stop(l)
    BY <1>1, <2>1
  <2>3. k < l - 1 => stop(k) < stop(l - 1)
    BY <1>4, <2>1
  <2>4. start(l) = stop(l - 1) + 1
    BY <1>5, <2>1
  <2>5. k = l - 1 => stop(k) = stop(l - 1)
    OBVIOUS
  <2> DEFINE p == stop(k)
             q == stop(l - 1)
             r == start(l)
             s == stop(l)
  <2>6. /\ p \in 1..L /\ q \in 1..L /\ s \in 1..L /\ r \in 1..s
        /\ r = q + 1 /\ (p = q \/ p < q)
    BY <2>1, <2>2, <2>3, <2>4, <2>5
  <2> HIDE DEF p, q, r, s
  <2>7. p \in 1..L /\ r \in 1..L /\ p < r
    BY <2>6, <1>0, SMTT(30)
  <2> QED BY <2>7 DEF p, r
<1>7. DOMAIN gs = 1..c /\ \A k \in 1..c : /\ gs[k].start = heights[start(k)]
                                            /\ gs[k].stop = heights[stop(k)]
  <2> DEFINE a(k) == heights[start(k)]
             b(k) == heights[stop(k)]
  <2>1. gs = [k \in 1..c |-> [start |-> a(k), stop |-> b(k)]]
    BY <1>2
  <2> HIDE DEF a, b
  <2>2. DOMAIN gs = 1..c /\ \A k \in 1..c : gs[k].start = a(k) /\ gs[k].stop = b(k)
    BY <2>1, SMTT(30)
  <2> QED BY <2>2 DEF a, b
<1>8. ASSUME NEW k \in DOMAIN gs, NEW l \in DOMAIN gs, k < l
      PROVE  gs[k].stop < gs[l].start
  <2>1. stop(k) \in 1..L /\ start(l) \in 1..L /\ stop(k) < start(l)
    BY <1>6, <1>7, <1>8
  <2>2. heights[stop(k)] < heights[start(l)]
    BY <2>1 DEF L
  <2> QED BY <2>2, <1>7
<1> QED BY <1>8 DEF Rising, gs

\* Without forks the list of under-validated heights has no height twice.
LEMMA UnderValidatedRising ==
    ASSUME NEW n \in Nat, NEW rs, IsFiniteSet(rs), NoForks(rs),
           HeightsOf(rs) \subseteq 0..n, NEW val, NEW level
    PROVE  LET list == UnderValidatedHeights(rs, val, level)
           IN  \A i, j \in 1..Len(list) : i < j => list[i] < list[j]
<1> DEFINE list == UnderValidatedHeights(rs, val, level)
           under == RowsBelow(rs, val, level)
           c == Cardinality(under)
           hs == HeightsOf(under)
           T(i) == {h \in hs : i <= Cardinality(UpTo(under, h))}
<1>1. list = [i \in 1..c |-> Least(T(i))]
  BY SMTT(30) DEF UnderValidatedHeights, UpTo
<1>2. under \subseteq rs
  BY SMTT(30) DEF RowsBelow
<1>3. Len(list) = c /\ {list[j] : j \in 1..Len(list)} = hs
  BY UnderValidatedListed
<1> HIDE DEF list, under
<1>4. IsFiniteSet(under) /\ c \in Nat
  BY <1>2, FS_Subset, FS_CardinalityType, SMTT(30)
<1>5. hs \subseteq 0..n
  BY <1>2, SMTT(30) DEF HeightsOf
<1>6. \A h \in hs : h \in Int /\ h \in Nat /\ 0 <= h /\ h <= n
  BY <1>5, InInterval, SMTT(30)
<1>7. \A r \in under : r[1] \in hs
  BY SMTT(30) DEF HeightsOf
<1>8. \A i \in 1..c : list[i] \in hs /\ list[i] = Least(T(i))
  BY <1>1, <1>3, SMTT(30)
<1>9. ASSUME NEW i \in 1..c PROVE T(i) \subseteq Nat
  BY <1>6, SMTT(30)
<1>10. \A S : S \subseteq under => IsFiniteSet(S) /\ Cardinality(S) \in Nat
  BY <1>4, FS_Subset, FS_CardinalityType, SMTT(30)
\* The height of an entry, with fewer than i entries at or below it.
<1>11. ASSUME NEW i \in 1..c, NEW j \in 1..c, i < j, NEW y \in hs, y \in T(j)
       PROVE  \E z \in hs : z \in T(i) /\ z < y
  <2> DEFINE B == {r \in under : r[1] < y}
  <2>1. PICK r0 \in under : r0[1] = y
    BY SMTT(30) DEF HeightsOf
  <2>2. UpTo(under, y) \subseteq B \cup {r0}
    <3> SUFFICES ASSUME NEW r \in UpTo(under, y) PROVE r \in B \cup {r0}
      BY SMTT(30)
    <3>1. r \in under /\ r[1] <= y /\ r[1] \in Int /\ y \in Int
      BY <1>6, <1>7, SMTT(30) DEF UpTo
    <3>2. r[1] = y => r = r0
      BY <3>1, <2>1, <1>2 DEF NoForks
    <3>3. r[1] = y \/ r[1] < y
      BY <3>1, SMTT(30)
    <3> QED BY <3>1, <3>2, <3>3
  <2>3. IsFiniteSet(B) /\ Cardinality(B) \in Nat
    BY <1>10, SMTT(30)
  <2>4. r0 \notin B
    BY <2>1, <1>6, SMTT(30)
  <2>5. IsFiniteSet(B \cup {r0}) /\ Cardinality(B \cup {r0}) = Cardinality(B) + 1
    <3> HIDE DEF B
    <3> QED BY <2>3, <2>4, FS_AddElement, SMTT(30)
  <2> HIDE DEF B
  <2>6. Cardinality(UpTo(under, y)) <= Cardinality(B \cup {r0})
    BY <2>2, <2>5, FS_Subset
  <2>7. j <= Cardinality(UpTo(under, y)) /\ UpTo(under, y) \subseteq under
    BY <1>11, SMTT(30) DEF UpTo
  <2>8. Cardinality(UpTo(under, y)) \in Nat
    BY <2>7, <1>10
  <2>9. i <= Cardinality(B) /\ Cardinality(B) # 0
    BY <2>3, <2>5, <2>6, <2>7, <2>8, <1>4, <1>11, SMTT(30)
  <2>10. B # {} /\ B \subseteq under
    BY <2>9, FS_EmptySet DEF B
  <2> DEFINE H == HeightsOf(B)
  <2>11. H # {} /\ H \subseteq hs
    BY <2>10 DEF HeightsOf
  <2>12. H \subseteq 0..n
    BY <2>11, <1>5
  <2>13. PICK z \in H : \A x \in H : x <= z
    <3> HIDE DEF H
    <3> QED BY <2>11, <2>12, GreatestNat
  <2>14. z < y /\ z \in hs
    <3>1. PICK r \in B : z = r[1]
      BY DEF HeightsOf
    <3> QED BY <3>1, <2>11 DEF B
  <2>15. B \subseteq UpTo(under, z)
    <3> SUFFICES ASSUME NEW r \in B PROVE r \in UpTo(under, z)
      BY SMTT(30)
    <3>1. r[1] \in H
      BY DEF HeightsOf
    <3> QED BY <3>1, <2>10, <2>13 DEF UpTo
  <2>16. UpTo(under, z) \subseteq under
    BY DEF UpTo
  <2>17. IsFiniteSet(UpTo(under, z)) /\ Cardinality(UpTo(under, z)) \in Nat
    BY <2>16, <1>10
  <2>18. Cardinality(B) <= Cardinality(UpTo(under, z))
    BY <2>15, <2>17, FS_Subset
  <2>19. i <= Cardinality(UpTo(under, z))
    BY <2>3, <2>9, <2>17, <2>18, <1>4, SMTT(30)
  <2> QED BY <2>14, <2>19
<1>12. ASSUME NEW i \in 1..c PROVE T(i) # {}
  <2>1. hs # {}
    <3>1. under # {}
      BY <1>4, FS_EmptySet, SMTT(30)
    <3> QED BY <3>1, <1>7
  <2>2. PICK m \in hs : \A h \in hs : h <= m
    <3> HIDE DEF hs
    <3> QED BY <2>1, <1>5, GreatestNat
  <2>3. UpTo(under, m) = under
    BY <2>2, <1>7, SMTT(30) DEF UpTo
  <2> QED BY <2>3, <1>4, SMTT(30)
<1>13. ASSUME NEW i \in 1..c
       PROVE  list[i] \in T(i) /\ \A h \in T(i) : list[i] <= h
  <2> HIDE DEF T
  <2> QED BY <1>8, <1>9, <1>12, LeastIsLeast
<1>14. ASSUME NEW i \in 1..c, NEW j \in 1..c, i < j
       PROVE  list[i] < list[j]
  <2>1. list[j] \in hs /\ list[j] \in T(j) /\ list[i] \in hs
    BY <1>8, <1>13
  <2>2. PICK z \in hs : z \in T(i) /\ z < list[j]
    BY <2>1, <1>11, <1>14
  <2>3. list[i] <= z
    BY <2>2, <1>13
  <2>4. list[i] \in Int /\ list[j] \in Int /\ z \in Int
    BY <2>1, <1>6
  <2> QED BY <2>2, <2>3, <2>4, SMTT(30)
<1> QED BY <1>3, <1>14 DEF list

\* Two lists of gaps put together, that have no height in common.
LEMMA ApartConcat ==
    ASSUME NEW S, NEW s \in Seq(S), NEW t \in Seq(S), Apart(s), Apart(t),
           HeightsIn(s) \cap HeightsIn(t) = {}
    PROVE  Apart(s \o t)
<1> DEFINE u == s \o t
           m == Len(s)
<1>1. /\ Len(u) = m + Len(t) /\ DOMAIN u = 1..(m + Len(t))
      /\ \A i \in 1..(m + Len(t)) : u[i] = IF i <= m THEN s[i] ELSE t[i - m]
  BY SMTT(30)
<1>2. DOMAIN s = 1..m /\ DOMAIN t = 1..Len(t) /\ m \in Nat /\ Len(t) \in Nat
  BY SMTT(30)
<1> HIDE DEF u, m
<1>3. ASSUME NEW i \in DOMAIN u
      PROVE  \/ i \in DOMAIN s /\ u[i] = s[i]
             \/ i - m \in DOMAIN t /\ u[i] = t[i - m]
  <2>1. i <= m => i \in 1..m
    BY <1>1, <1>2, SMTT(30)
  <2>2. ~(i <= m) => i - m \in 1..Len(t)
    BY <1>1, <1>2, SMTT(30)
  <2> QED BY <2>1, <2>2, <1>1, <1>2
<1> DEFINE I(g, i) == g[i].start..g[i].stop
<1>4. /\ \A i \in DOMAIN s : I(s, i) \subseteq HeightsIn(s)
      /\ \A i \in DOMAIN t : I(t, i) \subseteq HeightsIn(t)
  BY DEF HeightsIn
<1>5. /\ \A i, j \in DOMAIN s : i # j => I(s, i) \cap I(s, j) = {}
      /\ \A i, j \in DOMAIN t : i # j => I(t, i) \cap I(t, j) = {}
  BY DEF Apart
<1>6. ASSUME NEW i \in DOMAIN u PROVE u[i] = s[i] => I(u, i) = I(s, i)
  BY SMTT(30)
<1>7. ASSUME NEW i \in DOMAIN u PROVE u[i] = t[i - m] => I(u, i) = I(t, i - m)
  BY SMTT(30)
<1> HIDE DEF I
<1>8. ASSUME NEW i \in DOMAIN u, NEW j \in DOMAIN u, i # j
      PROVE  I(u, i) \cap I(u, j) = {}
  <2>1. i - m # j - m
    BY <1>1, <1>2, <1>8, SMTT(30)
  <2>2. CASE i \in DOMAIN s /\ u[i] = s[i] /\ j \in DOMAIN s /\ u[j] = s[j]
    BY <2>2, <1>5, <1>6, <1>8
  <2>3. CASE i - m \in DOMAIN t /\ u[i] = t[i - m] /\ j - m \in DOMAIN t /\ u[j] = t[j - m]
    BY <2>1, <2>3, <1>5, <1>7
  <2>4. CASE i \in DOMAIN s /\ u[i] = s[i] /\ j - m \in DOMAIN t /\ u[j] = t[j - m]
    BY <2>4, <1>4, <1>6, <1>7
  <2>5. CASE i - m \in DOMAIN t /\ u[i] = t[i - m] /\ j \in DOMAIN s /\ u[j] = s[j]
    BY <2>5, <1>4, <1>6, <1>7
  <2> QED BY <2>2, <2>3, <2>4, <2>5, <1>3
<1> QED BY <1>8 DEF Apart, I, u

\* First statement: every height of the initial gap is below every row.
LEMMA InitialGapApart ==
    ASSUME NEW n \in Nat, NEW rs, HeightsOf(rs) \subseteq 0..n, rs # {}
    PROVE  LET gs == InitialGap(rs)
           IN  /\ gs \in Seq(GapsUpTo(n)) /\ Apart(gs)
               /\ \A x \in HeightsIn(gs) : \A h \in HeightsOf(rs) : x < h
<1> DEFINE gs == InitialGap(rs)
           first == RetrieveFirstBlockNumber(rs)
<1>1. first \in HeightsOf(rs) /\ (\A h \in HeightsOf(rs) : first <= h)
      /\ \A h \in HeightsOf(rs) : h \in Int
  BY FirstAndLast, InInterval, SMTT(30)
<1>2. gs \in Seq(GapsUpTo(n)) /\ Len(gs) <= 1 /\ HeightsIn(gs) = 0..(first - 1)
  BY InitialGapCovered
<1> HIDE DEF gs, first
<1>3. \A i, j \in DOMAIN gs : i = j
  BY <1>2, SMTT(30)
<1>4. \A x \in 0..(first - 1) : \A h \in HeightsOf(rs) : x < h
  BY <1>1, SMTT(30)
<1> QED BY <1>2, <1>3, <1>4 DEF Apart, gs

\* Second statement: the self-join finds heights without a row, none of them
\* below every row.
LEMMA EmptyGapsApart ==
    ASSUME NEW n \in Nat, NEW rs, HeightsOf(rs) \subseteq 0..n
    PROVE  LET gs == EmptyGaps(rs)
           IN  /\ gs \in Seq(GapsUpTo(n)) /\ Apart(gs)
               /\ HeightsIn(gs) \cap HeightsOf(rs) = {}
               /\ \A x \in HeightsIn(gs) : \E h \in HeightsOf(rs) : ~(x < h)
<1> DEFINE gs == EmptyGaps(rs)
           first == RetrieveFirstBlockNumber(rs)
           last == RetrieveLastBlockNumber(rs)
<1>1. CASE rs # {}
  <2>1. gs \in Seq(GapsUpTo(n)) /\ HeightsIn(gs) = (first..last) \ HeightsOf(rs)
    BY <1>1, EmptyGapsCovered
  <2>2. Apart(gs)
    BY <2>1, EmptyGapsRising, RisingApart
  <2>3. first \in HeightsOf(rs) /\ last \in HeightsOf(rs)
        /\ \A h \in HeightsOf(rs) : h \in Int
    BY <1>1, FirstAndLast, InInterval, SMTT(30)
  <2> HIDE DEF gs, first, last
  <2>4. \A x \in first..last : ~(x < first)
    BY <2>3, SMTT(30)
  <2> QED BY <2>1, <2>2, <2>3, <2>4 DEF gs
<1>2. CASE rs = {}
  <2> DEFINE hs == HeightsOf(rs)
             starts == {h \in hs : h + 1 \notin hs /\ {k \in hs : k > h} # {}}
  <2>1. starts = {}
    BY <1>2 DEF HeightsOf
  <2>2. DOMAIN gs = 1..Cardinality(starts)
    BY DEF EmptyGaps
  <2> HIDE DEF starts
  <2>3. Cardinality(starts) = 0
    BY <2>1, FS_EmptySet
  <2>4. DOMAIN gs = {}
    BY <2>2, <2>3, SMTT(30)
  <2>5. gs = [i \in 1..0 |-> Gap(Ascending(starts)[i] + 1,
                                  Least({k \in hs : k > Ascending(starts)[i]}) - 1)]
    BY <2>3 DEF EmptyGaps, starts
  <2>6. gs \in Seq(GapsUpTo(n))
    BY <2>5, SMTT(30)
  <2> HIDE DEF gs
  <2> QED BY <2>4, <2>6 DEF Apart, HeightsIn, gs
<1> QED BY <1>1, <1>2

\* Third statement: the gaps of the rows below the validation level have no height
\* in common when no two rows have the same height.
LEMMA UnderValidatedApart ==
    ASSUME NEW n \in Nat, NEW rs, IsFiniteSet(rs), NoForks(rs),
           HeightsOf(rs) \subseteq 0..n, NEW val, NEW level
    PROVE  LET gs == MissingHeightsToGaps(UnderValidatedHeights(rs, val, level))
           IN  gs \in Seq(GapsUpTo(n)) /\ Apart(gs) /\ HeightsIn(gs) \subseteq HeightsOf(rs)
<1> DEFINE list == UnderValidatedHeights(rs, val, level)
           gs == MissingHeightsToGaps(list)
<1>1. gs \in Seq(GapsUpTo(n)) /\ HeightsIn(gs) \subseteq HeightsOf(rs)
  BY UnderValidatedCovered
<1>2. list \in Seq(0..n) /\ \A i, j \in 1..Len(list) : i < j => list[i] < list[j]
  BY UnderValidatedListed, UnderValidatedRising
<1> HIDE DEF list
<1>3. CASE Len(list) >= 2
  BY <1>1, <1>2, <1>3, MissingHeightsRising, RisingApart DEF list
<1>4. CASE ~(Len(list) >= 2)
  <2>1. Len(list) < 2
    BY <1>2, <1>4, SMTT(30)
  <2>2. gs = <<>> /\ DOMAIN <<>> = {}
    BY <2>1, SMTT(30) DEF MissingHeightsToGaps
  <2> QED BY <1>1, <2>2 DEF Apart, list
<1> QED BY <1>3, <1>4, SMTT(30)

\* The gaps RetrieveGapsInData returns have no height in common when no two rows
\* have the same height.
LEMMA GapsApart ==
    ASSUME NEW n \in Nat, NEW rs, IsFiniteSet(rs), rs # {}, NoForks(rs),
           HeightsOf(rs) \subseteq 0..n, NEW val, NEW level
    PROVE  Apart(RetrieveGapsInData(rs, val, level))
<1> DEFINE list == UnderValidatedHeights(rs, val, level)
           g1 == InitialGap(rs)
           g2 == EmptyGaps(rs)
           g3 == MissingHeightsToGaps(list)
           G == GapsUpTo(n)
           hs == HeightsOf(rs)
<1>1. \A h \in hs : h \in Int /\ ~(h < h)
  BY InInterval, SMTT(30)
<1>2. g1 \in Seq(G) /\ Apart(g1) /\ \A x \in HeightsIn(g1) : \A h \in hs : x < h
  BY InitialGapApart
<1>3. /\ g2 \in Seq(G) /\ Apart(g2) /\ HeightsIn(g2) \cap hs = {}
      /\ \A x \in HeightsIn(g2) : \E h \in hs : ~(x < h)
  BY EmptyGapsApart
<1>4. g3 \in Seq(G) /\ HeightsIn(g3) \subseteq hs /\ Apart(g3)
  BY UnderValidatedApart
<1>5. RetrieveGapsInData(rs, val, level) = g1 \o g2 \o g3
  BY DEF RetrieveGapsInData
<1> DEFINE g12 == g1 \o g2
<1> HIDE DEF list, g1, g2, g3, G, hs
<1>6. /\ HeightsIn(g1) \cap HeightsIn(g2) = {}
      /\ (HeightsIn(g1) \cup HeightsIn(g2)) \cap HeightsIn(g3) = {}
  BY <1>1, <1>2, <1>3, <1>4
<1>7. g12 \in Seq(G) /\ Apart(g12) /\ HeightsIn(g12) = HeightsIn(g1) \cup HeightsIn(g2)
  <2>1. g1 \in Seq(G) /\ g2 \in Seq(G)
    BY <1>2, <1>3
  <2>2. g12 \in Seq(G)
    BY <2>1, SMTT(30)
  <2>3. Apart(g1) /\ Apart(g2) /\ HeightsIn(g1) \cap HeightsIn(g2) = {}
    BY <1>2, <1>3, <1>6
  <2>4. Apart(g12)
    BY <2>1, <2>3, ApartConcat
  <2>5. HeightsIn(g12) = HeightsIn(g1) \cup HeightsIn(g2)
    BY <2>1, HeightsInConcat, SMTT(30)
  <2> QED BY <2>2, <2>4, <2>5
<1> HIDE DEF g12
<1>8. HeightsIn(g12) \cap HeightsIn(g3) = {}
  BY <1>6, <1>7
<1>9. Apart(g12 \o g3)
  BY <1>4, <1>7, <1>8, ApartConcat
<1> QED BY <1>5, <1>9 DEF g12

-----------------------------------------------------------------------------
(***************************************************************************)
(* The header table.                                                        *)
(***************************************************************************)
\* The table operations keep the type of the table.
LEMMA TableOperationsType ==
    ASSUME TableTypeOK
    PROVE  /\ \A r \in Keys : IndexHeader(r) => TableTypeOK'
           /\ \A lo, hi \in Heights : ResetValidation(lo, hi) => TableTypeOK'
           /\ \A lo, hi \in Heights : CleanFull(lo, hi) => TableTypeOK'
<1> USE HeaderIndexAssumption
<1>1. ASSUME NEW r \in Keys, IndexHeader(r)
      PROVE  TableTypeOK'
  <2>1. tv[r] \in 0..MaxValidated
    BY DEF TableTypeOK
  <2>2. (IF tv[r] < MaxValidated THEN tv[r] + 1 ELSE tv[r]) \in 0..MaxValidated
    BY <2>1, SMTT(30)
  <2> QED BY <1>1, <2>2 DEF TableTypeOK, IndexHeader
<1>2. ASSUME NEW lo \in Heights, NEW hi \in Heights, ResetValidation(lo, hi)
      PROVE  TableTypeOK'
  <2>1. 0 \in 0..MaxValidated
    BY SMTT(30)
  <2> QED BY <1>2, <2>1 DEF TableTypeOK, ResetValidation
<1>3. ASSUME NEW lo \in Heights, NEW hi \in Heights, CleanFull(lo, hi)
      PROVE  TableTypeOK'
  <2>1. 0 \in 0..MaxValidated
    BY SMTT(30)
  <2> QED BY <1>3, <2>1 DEF TableTypeOK, CleanFull
<1> QED BY <1>1, <1>2, <1>3

\* The table has its type in every reachable state.
THEOREM TableTypeInvariant == TableSpec => []TableTypeOK
<1>1. EmptyTable => TableTypeOK
  <2>1. 0 \in 0..MaxValidated
    BY HeaderIndexAssumption, SMTT(30)
  <2> QED BY <2>1 DEF EmptyTable, TableTypeOK
<1>2. TableTypeOK /\ [TableNext]_<<rows, tv>> => TableTypeOK'
  <2> SUFFICES ASSUME TableTypeOK, [TableNext]_<<rows, tv>>
               PROVE  TableTypeOK'
    OBVIOUS
  <2>1. CASE TableNext
    BY <2>1, TableOperationsType DEF TableNext
  <2>2. CASE UNCHANGED <<rows, tv>>
    BY <2>2 DEF TableTypeOK
  <2> QED BY <2>1, <2>2
<1> QED BY <1>1, <1>2, PTL DEF TableSpec

\* A table of that type has finitely many rows, at known heights.
LEMMA TableFinite ==
    ASSUME TableTypeOK
    PROVE  MaxHeight \in Nat /\ IsFiniteSet(rows) /\ HeightsOf(rows) \subseteq 0..MaxHeight
<1>1. IsFiniteSet(Heights) /\ IsFiniteSet(Hashes)
  BY HeaderIndexAssumption, FS_Interval, SMTT(30) DEF Heights
<1>2. IsFiniteSet(Keys)
  BY <1>1, FS_Product DEF Keys
<1>3. IsFiniteSet(rows)
  BY <1>2, FS_Subset DEF TableTypeOK
<1> QED BY <1>3, HeaderIndexAssumption DEF TableTypeOK, HeightsOf, Keys, Heights

\* GapsCover holds for every number of heights, hashes and validations: the
\* gaps RetrieveGapsInData returns are exactly the heights without a header
\* and the heights below the validation level, unless one single row is.
THEOREM GapsCoverHolds == TableSpec => []GapsCover
<1>1. TableTypeOK => GapsCover
  <2> SUFFICES ASSUME TableTypeOK, NEW level \in Levels, rows # {},
                      Len(UnderValidatedHeights(rows, tv, level)) # 1
               PROVE  HeightsIn(RetrieveGapsInData(rows, tv, level))
                        = Missing \cup UnderValidated(level)
    BY DEF GapsCover
  <2>1. MaxHeight \in Nat /\ IsFiniteSet(rows) /\ HeightsOf(rows) \subseteq 0..MaxHeight
    BY TableFinite
  <2>2. Len(UnderValidatedHeights(rows, tv, level))
          = Cardinality(RowsBelow(rows, tv, level))
    BY <2>1, UnderValidatedListed
  <2>3. HeightsIn(RetrieveGapsInData(rows, tv, level))
          = ((0..RetrieveLastBlockNumber(rows)) \ HeightsOf(rows))
              \cup HeightsOf(RowsBelow(rows, tv, level))
    BY <2>1, <2>2, GapsFound
  <2> QED BY <2>3 DEF Missing, UnderValidated
<1> QED BY <1>1, TableTypeInvariant, PTL

\* NoOverlap holds for every number of heights, hashes and validations: gaps of
\* under-validated rows never reach into a range without data.
THEOREM NoOverlapHolds == TableSpec => []NoOverlap
<1>1. TableTypeOK => NoOverlap
  <2> SUFFICES ASSUME TableTypeOK, NEW level \in Levels
               PROVE  HeightsIn(MissingHeightsToGaps(
                        UnderValidatedHeights(rows, tv, level))) \cap Missing = {}
    BY DEF NoOverlap
  <2> DEFINE list == UnderValidatedHeights(rows, tv, level)
  <2>1. MaxHeight \in Nat /\ IsFiniteSet(rows) /\ HeightsOf(rows) \subseteq 0..MaxHeight
    BY TableFinite
  <2>2. /\ list \in Seq(0..MaxHeight)
        /\ {list[j] : j \in 1..Len(list)} = HeightsOf(RowsBelow(rows, tv, level))
    BY <2>1, UnderValidatedListed
  <2> HIDE DEF list
  <2>3. HeightsIn(MissingHeightsToGaps(list)) \subseteq HeightsOf(rows)
    <3>1. CASE Len(list) >= 2
      <4>1. HeightsIn(MissingHeightsToGaps(list))
              = HeightsOf(RowsBelow(rows, tv, level))
        BY <3>1, <2>1, <2>2, MissingHeightsCovered, ZenonT(30)
      <4> QED BY <4>1 DEF HeightsOf, RowsBelow
    <3>2. CASE Len(list) < 2
      BY <3>2, SMTT(30) DEF MissingHeightsToGaps, HeightsIn
    <3>3. Len(list) \in Nat
      BY <2>2, SMTT(30)
    <3> QED BY <3>1, <3>2, <3>3, SMTT(30)
  <2> QED BY <2>3 DEF Missing, list
<1> QED BY <1>1, TableTypeInvariant, PTL

\* GapsDisjoint holds for every table: RetrieveGapsInData puts no height in two
\* gaps when there are no forks, so that no two workers of a pass are
\* given the same block; with them at least no height is both in a gap of missing
\* and in one of under-validated data.
THEOREM GapsDisjointHolds == TableSpec => []GapsDisjoint
<1>1. TableTypeOK /\ NoOverlap => GapsDisjoint
  <2> SUFFICES ASSUME TableTypeOK, NoForks(rows), rows # {}, NEW level \in Levels
               PROVE  Apart(RetrieveGapsInData(rows, tv, level))
    BY DEF GapsDisjoint, NoForks, Apart
  <2>1. MaxHeight \in Nat /\ IsFiniteSet(rows) /\ HeightsOf(rows) \subseteq 0..MaxHeight
    BY TableFinite
  <2> QED BY <2>1, GapsApart
<1> QED BY <1>1, TableTypeInvariant, NoOverlapHolds, PTL

-----------------------------------------------------------------------------
(***************************************************************************)
(* The backfill service.                                                    *)
(***************************************************************************)
IInv == TypeOK /\ PassInv

\* The workers that have returned.
Gone == {w \in Workers : worker[w] = "gone"}

\* The returned workers can be counted, and all are gone when BatchNumber are.
LEMMA WorkersFinite ==
    /\ IsFiniteSet(Workers) /\ Cardinality(Workers) = BatchNumber
    /\ IsFiniteSet(Gone) /\ Cardinality(Gone) \in Nat
    /\ Cardinality(Gone) <= BatchNumber
    /\ Cardinality(Gone) = BatchNumber => Gone = Workers
<1>0. BatchNumber \in Nat \ {0}
  BY BackFillAssumption
<1>1. IsFiniteSet(Workers) /\ Cardinality(Workers) = BatchNumber
  BY <1>0, FS_Interval, SMTT(30) DEF Workers
<1>2. Gone \subseteq Workers
  BY DEF Gone
<1>3. IsFiniteSet(Gone) /\ Cardinality(Gone) <= Cardinality(Workers)
      /\ (Cardinality(Workers) = Cardinality(Gone) => Workers = Gone)
  BY <1>1, <1>2, FS_Subset
<1> QED BY <1>1, <1>3, FS_CardinalityType

\* A fresh process on an empty table satisfies IInv.
LEMMA InitIInv == Init => IInv
<1> SUFFICES ASSUME Init PROVE IInv
  OBVIOUS
<1>1. TableTypeOK
  <2>1. 0 \in 0..MaxValidated
    BY HeaderIndexAssumption, SMTT(30)
  <2> QED BY <2>1 DEF Init, EmptyTable, TableTypeOK
<1>2. TypeOK
  <2>1. 0 \in 0..BatchNumber /\ 0 \in 0..MaxFaults /\ 0 \in 0..MaxOutside
        /\ 0 \in 0..MaxRestarts
    BY BackFillAssumption, SMTT(30)
  <2>2. torn \in BOOLEAN
    BY DEF Init
  <2>3. <<>> \in Seq([start : Heights, stop : Heights]) /\ <<>> \in Seq(Seq(Heights) \ {<<>>})
        /\ <<>> \in Seq(Heights) /\ <<>> \in Seq(Heights \cup {Nil})
    BY SMTT(30)
  <2> QED BY <1>1, <2>1, <2>2, <2>3 DEF Init, TypeOK, MainStates, WorkerStates
<1>3. PassInv
  BY DEF Init, PassInv, Busy
<1> QED BY <1>2, <1>3 DEF IInv

-----------------------------------------------------------------------------
(***************************************************************************)
(* Each action preserves IInv.                                             *)
(***************************************************************************)
\* The steps of the BackFill goroutine that leave bins, workers and counters
\* alone.
LEMMA MainStepsIInv ==
    ASSUME IInv, Start \/ MainQuit \/ CheckQuit \/ AllSent \/ SendOnClosed
    PROVE  IInv'
<1> USE DEF IInv, TypeOK, TableTypeOK, PassInv, Busy, Running, QuitClosed, MainStates,
            Searching, table, bounds, work, Main
<1>0. \A w \in Workers : w # 0
  BY BackFillAssumption, SMTT(30) DEF Workers
<1>1. CASE Start
  BY <1>1 DEF Start
<1>2. CASE MainQuit
  BY <1>0, <1>2 DEF MainQuit
<1>3. CASE CheckQuit
  BY <1>0, <1>3 DEF CheckQuit
<1>4. CASE AllSent
  <2>1. proc = "up" => Gone = {}
    BY <1>4 DEF AllSent, Gone
  <2>2. proc = "up" => quits = Cardinality(Gone)
    BY <2>1, <1>4, FS_EmptySet DEF AllSent
  <2> QED BY <2>2, <1>4 DEF AllSent, Gone
<1>5. CASE SendOnClosed
  BY <1>5 DEF SendOnClosed
<1> QED BY <1>1, <1>2, <1>3, <1>4, <1>5

\* A list of ranges of heights.
Ranges == Seq([start : Heights, stop : Heights])

\* What each statement of RetrieveGapsInData adds is a list of ranges of heights.
LEMMA SearchRanges ==
    ASSUME TableTypeOK
    PROVE  /\ rows # {} => InitialGap(rows) \in Ranges
           /\ EmptyGaps(rows) \in Ranges
           /\ MissingHeightsToGaps(UnderValidatedHeights(rows, tv, ValidationLevel)) \in Ranges
<1>1. MaxHeight \in Nat /\ IsFiniteSet(rows) /\ HeightsOf(rows) \subseteq 0..MaxHeight
  BY TableFinite
<1>2. Ranges = Seq(GapsUpTo(MaxHeight))
  BY DEF GapsUpTo, Heights, Ranges
<1>3. rows # {} => InitialGap(rows) \in Ranges
  BY <1>1, <1>2, InitialGapCovered
<1>4. EmptyGaps(rows) \in Ranges
  BY <1>1, <1>2, EmptyGapsApart
<1>5. MissingHeightsToGaps(UnderValidatedHeights(rows, tv, ValidationLevel)) \in Ranges
  BY <1>1, <1>2, UnderValidatedCovered
<1> QED BY <1>3, <1>4, <1>5

\* The statements of a search, each on the table as it is then.
LEMMA SearchIInv ==
    ASSUME IInv, Search \/ SearchGaps \/ SearchHeights \/ SearchFails
    PROVE  IInv'
<1>0. TableTypeOK /\ gaps \in Ranges
  BY DEF IInv, TypeOK, Ranges
<1>1. CASE Search
  <2>1. gaps' \in Ranges
    BY <1>0, <1>1, SearchRanges DEF Search
  <2>2. TypeOK'
    BY <1>1, <2>1 DEF IInv, TypeOK, TableTypeOK, Search, table, bounds, Searching,
                      MainStates, Ranges
  <2>3. PassInv'
    BY <1>1 DEF IInv, PassInv, Search, Busy, Searching
  <2> QED BY <2>2, <2>3 DEF IInv
<1>2. CASE SearchGaps
  <2>1. gaps' \in Ranges
    <3>1. EmptyGaps(rows) \in Ranges
      BY <1>0, SearchRanges
    <3> QED BY <1>0, <1>2, <3>1, SMTT(30) DEF SearchGaps, Ranges
  <2>2. TypeOK'
    BY <1>2, <2>1 DEF IInv, TypeOK, TableTypeOK, SearchGaps, table, bounds, Searching,
                      MainStates, Ranges
  <2>3. PassInv'
    BY <1>2 DEF IInv, PassInv, SearchGaps, Busy, Searching
  <2> QED BY <2>2, <2>3 DEF IInv
<1>3. CASE SearchHeights
  <2>1. gaps' \in Ranges
    <3> DEFINE found == MissingHeightsToGaps(UnderValidatedHeights(rows, tv, ValidationLevel))
    <3>1. found \in Ranges /\ gaps' = gaps \o found
      BY <1>0, <1>3, SearchRanges DEF SearchHeights
    <3> HIDE DEF found
    <3> QED BY <1>0, <3>1, SMTT(30) DEF Ranges
  <2>2. 0 \in 0..BatchNumber
    BY BackFillAssumption, SMTT(30)
  <2>3. TypeOK'
    BY <1>3, <2>1, <2>2 DEF IInv, TypeOK, TableTypeOK, SearchHeights, table, bounds,
                            MainStates, WorkerStates, Ranges
  <2>4. PassInv'
    BY <1>3 DEF IInv, TypeOK, PassInv, SearchHeights, Busy, Searching
  <2> QED BY <2>3, <2>4 DEF IInv
<1>4. CASE SearchFails
  <2>1. faults' \in 0..MaxFaults
    BY <1>4, BackFillAssumption, SMTT(30) DEF IInv, TypeOK, SearchFails
  <2>2. gaps' \in Ranges
    BY <1>4, SMTT(30) DEF SearchFails, Ranges
  <2>3. TypeOK'
    BY <1>4, <2>1, <2>2 DEF IInv, TypeOK, TableTypeOK, SearchFails, table, MainStates,
                            Ranges
  <2>4. PassInv'
    BY <1>4 DEF IInv, PassInv, SearchFails, Busy, Searching
  <2> QED BY <2>3, <2>4 DEF IInv
<1> QED BY <1>1, <1>2, <1>3, <1>4

\* The first element and the rest of a non-empty list.
LEMMA HeadAndTail ==
    ASSUME NEW S, NEW s \in Seq(S), s # <<>>
    PROVE  /\ Head(s) \in S /\ Tail(s) \in Seq(S)
           /\ Len(s) \in Nat \ {0} /\ Len(Tail(s)) = Len(s) - 1
  BY SMTT(30)

\* A list is empty when its length is 0.
LEMMA EmptyList == ASSUME NEW S, NEW s \in Seq(S) PROVE s = <<>> <=> Len(s) = 0
  BY SMTT(30)

\* The bins of a gap are non-empty lists of heights.
LEMMA NextGapIInv ==
    ASSUME IInv, NextGap
    PROVE  IInv'
<1> DEFINE gap == Head(gaps)
<1>1. gap \in [start : Heights, stop : Heights]
      /\ Tail(gaps) \in Seq([start : Heights, stop : Heights])
  BY HeadAndTail DEF IInv, TypeOK, NextGap
<1>2. bins' \in Seq(Seq(Heights) \ {<<>>})
  <2>1. CASE BinsErr(gap.start, gap.stop, BatchSize)
    BY <2>1, SMTT(30) DEF NextGap
  <2>2. CASE ~BinsErr(gap.start, gap.stop, BatchSize)
    <3> DEFINE a == gap.start
               b == gap.stop
    <3>1. a \in 0..MaxHeight /\ b \in 0..MaxHeight /\ MaxHeight \in Nat
      BY <1>1, HeaderIndexAssumption DEF Heights
    <3>2. bins' = GetBlockHeightBins(a, b, BatchSize)
      BY <2>2 DEF NextGap
    <3>3. ~(b < a)
      BY <2>2 DEF BinsErr
    <3> HIDE DEF a, b
    <3>4. a \in Nat /\ b \in Nat /\ a <= b /\ b + BatchSize < UintMod
          /\ BatchSize \in Nat \ {0} /\ a..b \subseteq Heights
      BY <3>1, <3>3, BackFillAssumption, UintModAssumption, SMTT(30) DEF Heights
    <3>5. bins' \in Seq(Seq(a..b) \ {<<>>})
      BY <3>2, <3>4, BinsType
    <3>6. Seq(a..b) \ {<<>>} \subseteq Seq(Heights) \ {<<>>}
      BY <3>4, SMTT(30)
    <3> QED BY <3>5, <3>6, SMTT(30)
  <2> QED BY <2>1, <2>2
<1>3. TypeOK'
  BY <1>1, <1>2 DEF IInv, TypeOK, TableTypeOK, NextGap, table, bounds
<1>4. PassInv'
  BY DEF IInv, PassInv, NextGap, Busy, Searching
<1> QED BY <1>3, <1>4 DEF IInv

\* A worker that takes a bin from heightsChan has heights in hand.
LEMMA HandOutIInv ==
    ASSUME IInv, NEW w \in Workers, HandOut(w)
    PROVE  IInv'
<1>1. bins # <<>>
  BY DEF IInv, PassInv, HandOut
<1>2. Head(bins) \in Seq(Heights) \ {<<>>}
      /\ Tail(bins) \in Seq(Seq(Heights) \ {<<>>})
  BY <1>1, SMTT(30) DEF IInv, TypeOK
<1>3. TypeOK'
  BY <1>2 DEF IInv, TypeOK, TableTypeOK, HandOut, table, bounds, MainStates,
              WorkerStates
<1>4. PassInv'
  BY <1>2 DEF IInv, TypeOK, PassInv, HandOut, Busy, Searching
<1> QED BY <1>3, <1>4 DEF IInv

\* A quit signal: the worker that takes it is the one more that is gone.
LEMMA SignalQuitIInv ==
    ASSUME IInv, NEW w \in Workers, SignalQuit(w)
    PROVE  IInv'
<1>1. quits = Cardinality(Gone) /\ w \notin Gone
  BY DEF IInv, PassInv, SignalQuit, Gone
<1>2. Gone' = Gone \cup {w}
  BY DEF IInv, TypeOK, SignalQuit, Gone
<1>3. Cardinality(Gone') = quits + 1
  BY <1>1, <1>2, WorkersFinite, FS_AddElement
<1>4. quits + 1 \in 0..BatchNumber
  <2>1. IsFiniteSet(Workers) /\ Gone' \subseteq Workers
    BY WorkersFinite DEF Gone
  <2>2. Cardinality(Gone') <= BatchNumber
    BY <2>1, WorkersFinite, FS_Subset
  <2> QED BY <2>2, <1>3, BackFillAssumption, SMTT(30) DEF IInv, TypeOK
<1>5. quits + 1 = BatchNumber => Gone' = Workers
  <2>1. IsFiniteSet(Workers) /\ Gone' \subseteq Workers
        /\ Cardinality(Workers) = BatchNumber
    BY WorkersFinite DEF Gone
  <2> QED BY <2>1, <1>3, FS_Subset
<1>6. TypeOK'
  BY <1>4 DEF IInv, TypeOK, TableTypeOK, SignalQuit, table, bounds, work,
              MainStates, WorkerStates
<1>7. PassInv'
  BY <1>3, <1>5 DEF IInv, TypeOK, PassInv, SignalQuit, Busy, work, Gone
<1> QED BY <1>6, <1>7 DEF IInv

\* The worker's step to its next payload keeps the heights in hand and the
\* place of the worker in agreement.
LEMMA NextPayloadType ==
    ASSUME IInv, NEW w \in Workers, Busy(w), NextPayload(w)
    PROVE  /\ task' \in [Workers -> Seq(Heights)]
           /\ worker' \in [Workers -> WorkerStates]
           /\ \A v \in Workers \ {w} :
                task'[v] = task[v] /\ worker'[v] = worker[v]
           /\ task'[w] = Tail(task[w])
           /\ \/ worker'[w] = "select" /\ task'[w] = <<>>
              \/ worker'[w] = "convert" /\ task'[w] # <<>>
<1>1. task \in [Workers -> Seq(Heights)] /\ task[w] # <<>>
      /\ worker \in [Workers -> WorkerStates]
  BY DEF IInv, TypeOK, PassInv
<1>2. Tail(task[w]) \in Seq(Heights) /\ Len(Tail(task[w])) = Len(task[w]) - 1
      /\ Len(task[w]) \in Nat
  BY <1>1, HeadAndTail
<1>3. Len(task[w]) = 1 <=> Tail(task[w]) = <<>>
  <2>1. Tail(task[w]) = <<>> <=> Len(Tail(task[w])) = 0
    BY <1>2, EmptyList
  <2> QED BY <1>2, <2>1, SMTT(30)
<1> QED BY <1>1, <1>2, <1>3 DEF NextPayload, WorkerStates

\* A step in which one worker, counted by the WaitGroup, goes from one place to
\* another without touching anything else the invariant depends on.
LEMMA WorkerMovesIInv ==
    ASSUME IInv, NEW w \in Workers, NEW place \in WorkerStates,
           worker[w] \notin {"gone", "spawned"}, place \notin {"gone", "spawned"},
           worker' = [worker EXCEPT ![w] = place],
           task' \in [Workers -> Seq(Heights)],
           \A v \in Workers \ {w} : task'[v] = task[v],
           (place # "select") <=> (task'[w] # <<>>),
           TableTypeOK', faults' \in 0..MaxFaults,
           forward' \in Seq(Heights \cup {Nil}),
           UNCHANGED <<proc, pc, gaps, bins, torn, quits, wg, outside, restarts>>
    PROVE  IInv'
<1>1. TypeOK'
  BY DEF IInv, TypeOK
<1>2. /\ worker'[w] = place
      /\ \A v \in Workers \ {w} : worker'[v] = worker[v]
      /\ Gone' = Gone
  BY DEF IInv, TypeOK, Gone
<1>3. \A v \in Workers : /\ Busy(v)' <=> task'[v] # <<>>
                         /\ worker'[v] \notin {"gone", "spawned"} => v \in wg'
  BY <1>2 DEF IInv, PassInv, Busy
<1>4. /\ pc # "spawned" /\ pc # "select"
      /\ \A v \in Workers : worker'[v] = "gone" <=> worker[v] = "gone"
  BY <1>2 DEF IInv, PassInv
<1>5. PassInv'
  BY <1>2, <1>3, <1>4 DEF IInv, PassInv, Gone
<1> QED BY <1>1, <1>5 DEF IInv

\* Forwarding a payload or a nil keeps the type of the channel.
LEMMA ForwardType ==
    ASSUME IInv, NEW x \in Heights \cup {Nil}, Forward(x)
    PROVE  forward' \in Seq(Heights \cup {Nil})
BY SMTT(30) DEF IInv, TypeOK, Forward

\* A worker registers with the WaitGroup, or returns on the closed QuitChan.
LEMMA WorkerStartQuitIInv ==
    ASSUME IInv, NEW w \in Workers, WorkerStart(w) \/ WorkerQuit(w)
    PROVE  IInv'
<1>1. CASE WorkerStart(w)
  <2>1. TypeOK'
    BY <1>1 DEF IInv, TypeOK, TableTypeOK, WorkerStart, table, bounds, work,
                WorkerStates
  <2>2. /\ worker'[w] = "select"
        /\ \A v \in Workers \ {w} : worker'[v] = worker[v]
        /\ Gone' = Gone
    BY <1>1 DEF IInv, TypeOK, WorkerStart, Gone
  <2>3. \A v \in Workers : /\ Busy(v)' <=> task'[v] # <<>>
                           /\ worker'[v] \notin {"gone", "spawned"} => v \in wg'
    BY <1>1, <2>2 DEF IInv, PassInv, WorkerStart, Busy
  <2>4. /\ pc # "spawned" /\ pc # "select" /\ proc # "exited"
        /\ \A v \in Workers : worker'[v] = "gone" <=> worker[v] = "gone"
    BY <1>1, <2>2 DEF IInv, PassInv, WorkerStart, Running
  <2>5. UNCHANGED <<proc, pc, gaps, bins, quits>>
    BY <1>1 DEF WorkerStart, work
  <2>6. PassInv'
    BY <2>2, <2>3, <2>4, <2>5 DEF IInv, PassInv, Gone
  <2> QED BY <2>1, <2>6 DEF IInv
<1>2. CASE WorkerQuit(w)
  <2>1. TypeOK'
    BY <1>2 DEF IInv, TypeOK, TableTypeOK, WorkerQuit, table, bounds, work,
                WorkerStates
  <2>2. PassInv'
    BY <1>2 DEF IInv, TypeOK, PassInv, WorkerQuit, QuitClosed, Busy, work
  <2> QED BY <2>1, <2>2 DEF IInv
<1> QED BY <1>1, <1>2

\* A busy worker has a first height, and its row is a key of the table.
LEMMA RowType ==
    ASSUME IInv, NEW w \in Workers, Busy(w)
    PROVE  Head(task[w]) \in Heights /\ Row(w) \in Keys
<1>1. task[w] \in Seq(Heights) /\ task[w] # <<>>
  BY DEF IInv, TypeOK, PassInv
<1>2. Head(task[w]) \in Heights
  BY <1>1, SMTT(30)
<1> QED BY <1>2, BackFillAssumption DEF Row, Keys

\* The steps of a worker on the bin in its hands.
LEMMA WorkerStepsIInv ==
    ASSUME IInv, NEW w \in Workers,
           \/ Fetch(w) \/ Convert(w) \/ Publish(w) \/ Index(w)
           \/ FetchFails(w) \/ ConvertFails(w) \/ PublishFails(w)
           \/ CommitFails(w) \/ IndexFails(w)
    PROVE  IInv'
<1>0. /\ TableTypeOK /\ task \in [Workers -> Seq(Heights)]
      /\ faults \in 0..MaxFaults /\ MaxFaults \in Nat
      /\ forward \in Seq(Heights \cup {Nil})
      /\ worker[w] \in {"fetch", "convert", "publish", "index"}
      /\ Busy(w) /\ task[w] # <<>>
  <2>1. worker[w] \in {"fetch", "convert", "publish", "index"}
    BY DEF Fetch, Convert, Publish, Index, FetchFails, ConvertFails,
           PublishFails, CommitFails, IndexFails
  <2>2. Busy(w)
    BY <2>1 DEF Busy
  <2> QED BY <2>1, <2>2, BackFillAssumption DEF IInv, TypeOK, PassInv
<1>1. UNCHANGED table => TableTypeOK'
  BY <1>0 DEF table, TableTypeOK
<1>2. faults < MaxFaults /\ faults' = faults + 1 => faults' \in 0..MaxFaults
  BY <1>0, SMTT(30)
<1>3. CASE Fetch(w)
  BY <1>0, <1>1, <1>3, WorkerMovesIInv DEF Fetch, bounds, work, WorkerStates
<1>4. CASE Convert(w)
  <2>1. forward' \in Seq(Heights \cup {Nil})
    BY <1>0, <1>4, RowType, ForwardType DEF Convert
  <2> QED BY <1>0, <1>1, <1>4, <2>1, WorkerMovesIInv
          DEF Convert, bounds, work, WorkerStates
<1>5. CASE Publish(w)
  <2>1. TableTypeOK'
    BY <1>0, <1>1, <1>5, RowType, TableOperationsType DEF Publish
  <2> QED BY <1>0, <1>5, <2>1, WorkerMovesIInv
          DEF Publish, bounds, work, WorkerStates
<1>6. CASE CommitFails(w)
  BY <1>0, <1>1, <1>2, <1>6, WorkerMovesIInv DEF CommitFails, work, WorkerStates
<1>7. CASE FetchFails(w)
  <2>1. task' \in [Workers -> Seq(Heights)] /\ task'[w] = <<>>
        /\ \A v \in Workers \ {w} : task'[v] = task[v]
    BY <1>0, <1>7, SMTT(30) DEF FetchFails
  <2> QED BY <1>0, <1>1, <1>2, <1>7, <2>1, WorkerMovesIInv
          DEF FetchFails, work, WorkerStates
<1>8. ASSUME NextPayload(w), TableTypeOK', faults' \in 0..MaxFaults,
             forward' \in Seq(Heights \cup {Nil}),
             UNCHANGED <<proc, pc, gaps, bins, torn, quits, wg, outside, restarts>>
      PROVE  IInv'
  <2> DEFINE place == IF Len(task[w]) = 1 THEN "select" ELSE "convert"
  <2>1. worker' = [worker EXCEPT ![w] = place]
    BY <1>8 DEF NextPayload
  <2>2. /\ task' \in [Workers -> Seq(Heights)]
        /\ \A v \in Workers \ {w} : task'[v] = task[v]
        /\ worker'[w] = "select" <=> task'[w] = <<>>
    BY <1>0, <1>8, NextPayloadType
  <2>3. worker'[w] = place
    BY <2>1 DEF IInv, TypeOK
  <2>4. place \in WorkerStates /\ place \notin {"gone", "spawned"}
    BY DEF WorkerStates
  <2> HIDE DEF place
  <2> QED BY <1>0, <1>8, <2>1, <2>2, <2>3, <2>4, WorkerMovesIInv
<1>9. CASE ConvertFails(w)
  <2>1. forward' \in Seq(Heights \cup {Nil})
    BY <1>9, ForwardType DEF ConvertFails
  <2> QED BY <1>1, <1>2, <1>8, <1>9, <2>1 DEF ConvertFails, work
<1>10. CASE PublishFails(w)
  BY <1>0, <1>1, <1>2, <1>8, <1>10 DEF PublishFails, work
<1>11. CASE IndexFails(w)
  BY <1>0, <1>1, <1>2, <1>8, <1>11 DEF IndexFails, work
<1>12. CASE Index(w)
  <2>1. TableTypeOK'
    BY <1>0, <1>1, <1>12, RowType, TableOperationsType DEF Index
  <2> QED BY <1>0, <1>8, <1>12, <2>1 DEF Index, bounds, work
<1> QED BY <1>3, <1>4, <1>5, <1>6, <1>7, <1>9, <1>10, <1>11, <1>12

\* The steps of the rest of the process and of the other writers.
LEMMA EnvironmentIInv ==
    ASSUME IInv, Stop \/ Exit \/ Crash \/ Restart \/ ServeReceives \/ Outside
    PROVE  IInv'
<1>1. CASE Stop
  <2>1. TypeOK'
    BY <1>1 DEF IInv, TypeOK, TableTypeOK, Stop, table, bounds, work
  <2>2. PassInv'
    BY <1>1 DEF IInv, PassInv, Stop, work, Busy
  <2> QED BY <2>1, <2>2 DEF IInv
<1>2. CASE Exit
  <2>1. TypeOK'
    BY <1>2 DEF IInv, TypeOK, TableTypeOK, Exit, table, bounds, work
  <2>2. PassInv'
    BY <1>2 DEF IInv, PassInv, Exit, work, Busy
  <2> QED BY <2>1, <2>2 DEF IInv
<1>3. CASE Crash
  <2>1. TypeOK'
    BY <1>3 DEF IInv, TypeOK, TableTypeOK, Crash, table, bounds, work
  <2>2. PassInv'
    BY <1>3 DEF IInv, PassInv, Crash, work, Busy
  <2> QED BY <2>1, <2>2 DEF IInv
<1>4. CASE Restart
  <2>1. 0 \in 0..BatchNumber /\ restarts' \in 0..MaxRestarts
    BY <1>4, BackFillAssumption, SMTT(30) DEF IInv, TypeOK, Restart
  <2>2. TypeOK'
    <3>1. <<>> \in Seq([start : Heights, stop : Heights])
          /\ <<>> \in Seq(Seq(Heights) \ {<<>>})
          /\ <<>> \in Seq(Heights) /\ <<>> \in Seq(Heights \cup {Nil})
      BY SMTT(30)
    <3> QED BY <1>4, <2>1, <3>1 DEF IInv, TypeOK, TableTypeOK, Restart, table, MainStates,
                                    WorkerStates
  <2>3. PassInv'
    BY <1>4 DEF PassInv, Restart, Busy
  <2> QED BY <2>2, <2>3 DEF IInv
<1>5. CASE ServeReceives
  <2>1. forward' \in Seq(Heights \cup {Nil})
    BY <1>5, SMTT(30) DEF IInv, TypeOK, ServeReceives
  <2>2. TypeOK'
    BY <1>5, <2>1 DEF IInv, TypeOK, TableTypeOK, ServeReceives, table, bounds,
                      work
  <2>3. PassInv'
    BY <1>5 DEF IInv, PassInv, ServeReceives, work, Busy
  <2> QED BY <2>2, <2>3 DEF IInv
<1>6. CASE Outside
  <2>1. TableTypeOK
    BY DEF IInv, TypeOK
  <2>2. TableTypeOK'
    BY <1>6, <2>1, TableOperationsType DEF Outside
  <2>3. outside' \in 0..MaxOutside
    BY <1>6, BackFillAssumption, SMTT(30) DEF IInv, TypeOK, Outside
  <2>4. torn' \in BOOLEAN
    BY <1>6 DEF Outside
  <2>5. TypeOK'
    BY <1>6, <2>2, <2>3, <2>4 DEF IInv, TypeOK, Outside
  <2>6. PassInv'
    BY <1>6 DEF IInv, PassInv, Outside, Busy
  <2> QED BY <2>5, <2>6 DEF IInv
<1> QED BY <1>1, <1>2, <1>3, <1>4, <1>5, <1>6

\* IInv is inductive: every step of the service preserves it.
LEMMA NextIInv == IInv /\ [Next]_vars => IInv'
<1> SUFFICES ASSUME IInv, [Next]_vars PROVE IInv'
  OBVIOUS
<1>1. CASE MainStep \/ SearchFails
  BY <1>1, MainStepsIInv, SearchIInv, NextGapIInv DEF MainStep
<1>2. ASSUME NEW w \in Workers, WorkerStep(w) \/ WorkerFault(w)
      PROVE  IInv'
  BY <1>2, HandOutIInv, SignalQuitIInv, WorkerStartQuitIInv, WorkerStepsIInv
     DEF WorkerStep, WorkerFault
<1>3. CASE Stop \/ Exit \/ Crash \/ Restart \/ ServeReceives \/ Outside
  BY <1>3, EnvironmentIInv
<1>4. CASE UNCHANGED vars
  <2>1. TypeOK'
    BY <1>4 DEF IInv, TypeOK, TableTypeOK, vars
  <2>2. PassInv'
    BY <1>4 DEF IInv, PassInv, vars, Busy
  <2> QED BY <2>1, <2>2 DEF IInv
<1>5. CASE SearchEmpty
  BY <1>4, <1>5 DEF SearchEmpty
<1> QED BY <1>1, <1>2, <1>3, <1>4, <1>5 DEF Next

-----------------------------------------------------------------------------
\* IInv holds in every reachable state of the service.
LEMMA IInvHolds == Spec => []IInv
BY InitIInv, NextIInv, PTL DEF Spec

\* Type correctness: among others, every bin a worker receives has a height.
THEOREM TypeInvariant == Spec => []TypeOK
<1>1. IInv => TypeOK
  BY DEF IInv
<1> QED BY <1>1, IInvHolds, PTL

\* The bookkeeping of a pass, for every number of workers.
THEOREM PassInvariant == Spec => []PassInv
<1>1. IInv => PassInv
  BY DEF IInv
<1> QED BY <1>1, IInvHolds, PTL

\* PassIsOver holds for every number of workers, batch size, chain and sequence
\* of faults: a search for gaps never runs beside workers of the pass before.
THEOREM PassIsOverHolds == Spec => []PassIsOver
<1>1. IInv => PassIsOver
  <2> SUFFICES ASSUME IInv, Running, pc \in {"spawned", "select"}
               PROVE  (\A w \in Workers : worker[w] = "gone") /\ Pending = {}
    BY DEF PassIsOver
  <2>1. \A w \in Workers : worker[w] = "gone" /\ task[w] = <<>>
    BY DEF IInv, PassInv, Busy
  <2>2. gaps = <<>> /\ bins = <<>>
    BY DEF IInv, PassInv
  <2>3. HeightsIn(gaps) = {} /\ (UNION {Range(bins[i]) : i \in DOMAIN bins}) = {}
    <3>1. DOMAIN gaps = {} /\ DOMAIN bins = {}
      BY <2>2, SMTT(30)
    <3>2. HeightsIn(gaps) = {}
      BY <3>1 DEF HeightsIn
    <3>3. (UNION {Range(bins[i]) : i \in DOMAIN bins}) = {}
      BY <3>1
    <3> QED BY <3>2, <3>3
  <2>4. \A w \in Workers : Range(task[w]) = {}
    BY <2>1, SMTT(30) DEF Range
  <2> QED BY <2>1, <2>3, <2>4 DEF Pending
<1> QED BY <1>1, IInvHolds, PTL

\* QuietExit holds for every number of workers: wg.Wait returns only when no
\* worker has a bin in hand, although wg.Add is called inside the goroutines.
THEOREM QuietExitHolds == Spec => []QuietExit
<1>1. IInv => QuietExit
  BY DEF IInv, PassInv, QuietExit, Busy
<1> QED BY <1>1, IInvHolds, PTL

-----------------------------------------------------------------------------
(***************************************************************************)
(* The service implements the abstract pass of BackFillPass.               *)
(***************************************************************************)
\* What BackFillPass sees as pending.
pending == IF phase = "pass" THEN Pending ELSE {}

\* The elements of a sequence.
LEMMA SeqElements ==
    ASSUME NEW S, NEW s \in Seq(S)
    PROVE  (\A i \in DOMAIN s : s[i] \in S) /\ Range(s) \subseteq S
<1>1. \A i \in DOMAIN s : s[i] \in S
  BY SMTT(30)
<1> QED BY <1>1 DEF Range

\* A height is pending in a gap, in a bin, or in the hands of a worker.
LEMMA PendingIs ==
    \A x : x \in Pending <=>
             \/ \E i \in DOMAIN gaps : x \in gaps[i].start..gaps[i].stop
             \/ \E i \in DOMAIN bins : x \in Range(bins[i])
             \/ \E w \in Workers : x \in Range(task[w])
<1> TAKE x
<1> DEFINE B == UNION {Range(bins[i]) : i \in DOMAIN bins}
           T == UNION {Range(task[w]) : w \in Workers}
<1>1. x \in HeightsIn(gaps) <=>
        \E i \in DOMAIN gaps : x \in gaps[i].start..gaps[i].stop
  BY DEF HeightsIn
<1>2. x \in B <=>
        \E i \in DOMAIN bins : x \in Range(bins[i])
  OBVIOUS
<1>3. x \in T <=>
        \E w \in Workers : x \in Range(task[w])
  OBVIOUS
<1>4. Pending = HeightsIn(gaps) \cup B \cup T
  BY DEF Pending
<1> HIDE DEF B, T
<1> QED BY <1>1, <1>2, <1>3, <1>4

\* Pending heights are heights of the chain.
LEMMA PendingHeights == TypeOK => Pending \subseteq Heights
<1> SUFFICES ASSUME TypeOK, NEW x \in Pending PROVE x \in Heights
  OBVIOUS
<1>1. ASSUME NEW i \in DOMAIN gaps, x \in gaps[i].start..gaps[i].stop
      PROVE  x \in Heights
  <2>1. gaps[i] \in [start : Heights, stop : Heights]
    BY <1>1, SeqElements DEF TypeOK
  <2>2. gaps[i].start \in 0..MaxHeight /\ gaps[i].stop \in 0..MaxHeight
    BY <2>1 DEF Heights
  <2>3. MaxHeight \in Nat
    BY HeaderIndexAssumption
  <2> QED BY <1>1, <2>2, <2>3, SMTT(30) DEF Heights
<1>2. ASSUME NEW i \in DOMAIN bins, x \in Range(bins[i])
      PROVE  x \in Heights
  <2>1. bins[i] \in Seq(Heights)
    BY <1>2, SMTT(30) DEF TypeOK
  <2> QED BY <1>2, <2>1, SMTT(30) DEF Range
<1>3. ASSUME NEW w \in Workers, x \in Range(task[w])
      PROVE  x \in Heights
  <2>1. task[w] \in Seq(Heights)
    BY <1>3 DEF TypeOK
  <2> QED BY <1>3, <2>1, SMTT(30) DEF Range
<1> QED BY <1>1, <1>2, <1>3, PendingIs

\* The same after a step.
LEMMA PendingHeightsAfter == TypeOK' => Pending' \subseteq Heights
<1>1. (TypeOK => Pending \subseteq Heights)'
  BY PendingHeights, PTL
<1> QED BY <1>1 DEF Heights

\* Steps that leave gaps, bins and the heights in hand alone.
LEMMA PendingUnchanged == UNCHANGED <<gaps, bins, task>> => Pending' = Pending
BY DEF Pending

\* A worker that drops heights of its bin adds none.
LEMMA TaskShrinks ==
    ASSUME TypeOK, UNCHANGED <<gaps, bins>>, NEW w \in Workers,
           \/ task' = [task EXCEPT ![w] = <<>>]
           \/ task' = [task EXCEPT ![w] = Tail(@)] /\ task[w] # <<>>
    PROVE  Pending' \subseteq Pending
<1>1. \A v \in Workers : Range(task'[v]) \subseteq Range(task[v])
  <2> SUFFICES ASSUME NEW v \in Workers
               PROVE  Range(task'[v]) \subseteq Range(task[v])
    OBVIOUS
  <2>0. task[v] \in Seq(Heights) /\ task \in [Workers -> Seq(Heights)]
    BY DEF TypeOK
  <2>1. CASE task'[v] = task[v]
    BY <2>1
  <2>2. CASE task'[v] = <<>>
    BY <2>2, SMTT(30) DEF Range
  <2>3. CASE task'[v] = Tail(task[v]) /\ task[v] # <<>>
    <3> DEFINE s == task[v]
    <3>1. s \in Seq(Heights) /\ s # <<>>
      BY <2>0, <2>3
    <3> HIDE DEF s
    <3>2. /\ DOMAIN Tail(s) = 1..Len(s) - 1 /\ DOMAIN s = 1..Len(s)
          /\ Len(s) \in Nat
          /\ \A i \in 1..Len(s) - 1 : Tail(s)[i] = s[i + 1]
      BY <3>1, SMTT(30)
    <3>3. Range(Tail(s)) \subseteq Range(s)
      BY <3>2, SMTT(30) DEF Range
    <3> QED BY <2>3, <3>3 DEF s
  <2> QED BY <2>0, <2>1, <2>2, <2>3
<1>2. Pending' = HeightsIn(gaps)
                   \cup (UNION {Range(bins[i]) : i \in DOMAIN bins})
                   \cup (UNION {Range(task'[v]) : v \in Workers})
  BY DEF Pending, HeightsIn
<1> DEFINE kept == HeightsIn(gaps) \cup (UNION {Range(bins[i]) : i \in DOMAIN bins})
           held == UNION {Range(task[v]) : v \in Workers}
           left == UNION {Range(task'[v]) : v \in Workers}
<1>3. left \subseteq held
  BY <1>1
<1>4. Pending = kept \cup held /\ Pending' = kept \cup left
  BY <1>2 DEF Pending
<1> HIDE DEF kept, held, left
<1> QED BY <1>3, <1>4

\* The bins of a gap hold heights of the gap only.
LEMMA NextGapPending == IInv /\ NextGap => Pending' \subseteq Pending
<1> SUFFICES ASSUME IInv, NextGap, NEW x \in Pending' PROVE x \in Pending
  OBVIOUS
<1> DEFINE a == Head(gaps).start
           b == Head(gaps).stop
<1>1. gaps \in Seq([start : Heights, stop : Heights]) /\ gaps # <<>>
  BY DEF IInv, TypeOK, NextGap
<1>2. /\ a \in 0..MaxHeight /\ b \in 0..MaxHeight /\ MaxHeight \in Nat
      /\ 1 \in DOMAIN gaps /\ a = gaps[1].start /\ b = gaps[1].stop
  <2>1. Head(gaps) \in [start : Heights, stop : Heights]
    BY <1>1, HeadAndTail
  <2> QED BY <1>1, <2>1, HeaderIndexAssumption, SMTT(30) DEF Heights
<1>3. Pending' = HeightsIn(Tail(gaps))
                   \cup (UNION {Range(bins'[i]) : i \in DOMAIN bins'})
                   \cup (UNION {Range(task[v]) : v \in Workers})
  <2>1. gaps' = Tail(gaps) /\ task' = task
    BY DEF NextGap
  <2>2. Pending' = HeightsIn(gaps') \cup (UNION {Range(bins'[i]) : i \in DOMAIN bins'})
                                    \cup (UNION {Range(task'[v]) : v \in Workers})
    BY DEF Pending
  <2> QED BY <2>1, <2>2
<1>4. CASE x \in HeightsIn(Tail(gaps))
  <2>1. PICK i \in DOMAIN Tail(gaps) :
          x \in Tail(gaps)[i].start..Tail(gaps)[i].stop
    BY <1>4 DEF HeightsIn
  <2>2. i + 1 \in DOMAIN gaps /\ Tail(gaps)[i] = gaps[i + 1]
    BY <1>1, SMTT(30)
  <2> QED BY <2>1, <2>2, PendingIs
<1>5. CASE \E i \in DOMAIN bins' : x \in Range(bins'[i])
  <2>1. ~BinsErr(a, b, BatchSize)
    <3> SUFFICES ASSUME BinsErr(a, b, BatchSize) PROVE FALSE
      OBVIOUS
    <3>1. bins' = <<>>
      BY DEF NextGap
    <3>2. DOMAIN <<>> = {}
      BY SMTT(30)
    <3> QED BY <1>5, <3>1, <3>2
  <2>2. bins' = GetBlockHeightBins(a, b, BatchSize) /\ ~(b < a)
    BY <2>1 DEF NextGap, BinsErr
  <2> HIDE DEF a, b
  <2>3. a \in Nat /\ b \in Nat /\ a <= b /\ b + BatchSize < UintMod
        /\ BatchSize \in Nat \ {0}
    BY <1>2, <2>2, BackFillAssumption, UintModAssumption, SMTT(30)
  <2>4. bins' \in Seq(Seq(a..b) \ {<<>>})
    BY <2>2, <2>3, BinsType
  <2>5. PICK i \in DOMAIN bins' : x \in Range(bins'[i])
    BY <1>5
  <2>6. bins'[i] \in Seq(a..b)
    BY <2>4, <2>5, SMTT(30)
  <2>7. x \in a..b
    BY <2>5, <2>6, SeqElements
  <2> QED BY <1>2, <2>7, PendingIs
<1>6. CASE \E v \in Workers : x \in Range(task[v])
  BY <1>6, PendingIs
<1>7. x \in HeightsIn(Tail(gaps)) \/ (\E i \in DOMAIN bins' : x \in Range(bins'[i]))
      \/ \E v \in Workers : x \in Range(task[v])
  <2> DEFINE B == UNION {Range(bins'[i]) : i \in DOMAIN bins'}
             T == UNION {Range(task[v]) : v \in Workers}
  <2>1. x \in HeightsIn(Tail(gaps)) \/ x \in B \/ x \in T
    BY <1>3
  <2> QED BY <2>1
<1> QED BY <1>4, <1>5, <1>6, <1>7

\* The bin a worker receives is the first of the bins.
LEMMA HandOutPending ==
    ASSUME IInv, NEW w \in Workers, HandOut(w)
    PROVE  Pending' \subseteq Pending
<1> SUFFICES ASSUME NEW x \in Pending' PROVE x \in Pending
  OBVIOUS
<1>1. bins \in Seq(Seq(Heights) \ {<<>>}) /\ bins # <<>>
  BY DEF IInv, TypeOK, PassInv, HandOut
<1>2. Pending' = HeightsIn(gaps)
                   \cup (UNION {Range(Tail(bins)[i]) : i \in DOMAIN Tail(bins)})
                   \cup (UNION {Range(task'[v]) : v \in Workers})
  BY DEF Pending, HeightsIn, HandOut
<1>3. CASE x \in HeightsIn(gaps)
  BY <1>3 DEF Pending
<1>4. CASE \E i \in DOMAIN Tail(bins) : x \in Range(Tail(bins)[i])
  <2>1. PICK i \in DOMAIN Tail(bins) : x \in Range(Tail(bins)[i])
    BY <1>4
  <2>2. i + 1 \in DOMAIN bins /\ Tail(bins)[i] = bins[i + 1]
    BY <1>1, SMTT(30)
  <2> QED BY <2>1, <2>2, PendingIs
<1>5. CASE \E v \in Workers : x \in Range(task'[v])
  <2>1. PICK v \in Workers : x \in Range(task'[v])
    BY <1>5
  <2>2. task'[v] = task[v] \/ task'[v] = Head(bins)
    BY DEF IInv, TypeOK, HandOut
  <2>3. 1 \in DOMAIN bins /\ Head(bins) = bins[1]
    BY <1>1, SMTT(30)
  <2> QED BY <2>1, <2>2, <2>3, PendingIs
<1>6. x \in HeightsIn(gaps) \/ (\E i \in DOMAIN Tail(bins) : x \in Range(Tail(bins)[i]))
      \/ \E v \in Workers : x \in Range(task'[v])
  <2> DEFINE B == UNION {Range(Tail(bins)[i]) : i \in DOMAIN Tail(bins)}
             T == UNION {Range(task'[v]) : v \in Workers}
  <2>1. x \in HeightsIn(gaps) \/ x \in B \/ x \in T
    BY <1>2
  <2> QED BY <2>1
<1> QED BY <1>3, <1>4, <1>5, <1>6

-----------------------------------------------------------------------------
\* The initial states are initial states of the abstract pass.
LEMMA InitPass == Init => Pass!Init
<1> SUFFICES ASSUME Init PROVE phase = "idle" /\ pending = {}
  BY DEF Pass!Init, pending
<1>1. phase = "idle"
  BY DEF Init, phase, Running
<1>2. Pending = {}
  BY SMTT(30) DEF Init, Pending, HeightsIn, Range
<1> QED BY <1>1, <1>2 DEF pending

\* A step to a process that is down, one that leaves phase and pending heights
\* alone, one of an idle service, and one that settles some heights of a pass, are abstract steps.
LEMMA AbstractSteps ==
    /\ phase' = "down" => Pass!Next
    /\ phase' = phase /\ Pending' = Pending => UNCHANGED Pass!vars
    /\ phase = "idle" /\ phase' = "idle" => UNCHANGED Pass!vars
    /\ phase = "pass" /\ phase' = "pass" /\ Pending' \subseteq Pending => Pass!Next
<1>1. phase' = "down" => Pass!Down
  BY DEF Pass!Down
<1>2. phase = "pass" /\ phase' = "pass" /\ Pending' \subseteq Pending => Pass!Settle
  BY DEF Pass!Settle
<1>3. phase' = phase /\ Pending' = Pending => UNCHANGED Pass!vars
  BY DEF Pass!vars
<1>4. phase = "idle" /\ phase' = "idle" => UNCHANGED Pass!vars
  BY DEF Pass!vars
<1> QED BY <1>1, <1>2, <1>3, <1>4 DEF Pass!Next

\* The steps of the BackFill goroutine.
LEMMA MainStepPass ==
    ASSUME IInv, IInv', MainStep \/ SearchFails
    PROVE  Pass!Next \/ UNCHANGED Pass!vars
<1> USE DEF Running, QuitClosed, work, Searching
<1>1. CASE Start
  <2>1. phase' = phase /\ Pending' = Pending
    BY <1>1, PendingUnchanged DEF Start, phase
  <2> QED BY <2>1, AbstractSteps
<1>2. CASE MainQuit
  BY <1>2, AbstractSteps DEF MainQuit, phase
<1>3. CASE SearchHeights
  <2>1. phase = "idle" /\ phase' = "pass"
    BY <1>3 DEF SearchHeights, phase
  <2>2. Pending' \subseteq Heights
    BY PendingHeightsAfter DEF IInv
  <2> QED BY <2>1, <2>2 DEF Pass!Next, Pass!Begin
<1>4. CASE Search \/ SearchGaps \/ SearchFails
  <2>1. phase = "idle" /\ phase' = "idle"
    BY <1>4 DEF Search, SearchGaps, SearchFails, phase
  <2> QED BY <2>1, AbstractSteps
<1>5. CASE NextGap
  <2>1. phase = "pass" /\ phase' = "pass"
    BY <1>5 DEF NextGap, phase
  <2> QED BY <1>5, <2>1, NextGapPending, AbstractSteps
<1>6. CASE CheckQuit
  <2>1. phase' = "down" \/ (phase' = phase /\ Pending' = Pending)
    BY <1>6, PendingUnchanged DEF CheckQuit, phase
  <2> QED BY <2>1, AbstractSteps
<1>7. CASE AllSent
  <2>1. phase' = phase /\ Pending' = Pending
    BY <1>7, PendingUnchanged DEF AllSent, phase
  <2> QED BY <2>1, AbstractSteps
<1>8. CASE SendOnClosed
  BY <1>8, AbstractSteps DEF SendOnClosed, phase
<1> QED BY <1>1, <1>2, <1>3, <1>4, <1>5, <1>6, <1>7, <1>8 DEF MainStep

\* The last quit signal ends the pass: it finds nothing pending.
LEMMA SignalQuitPass ==
    ASSUME IInv, IInv', NEW w \in Workers, SignalQuit(w)
    PROVE  Pass!Next \/ UNCHANGED Pass!vars
<1>1. Pending' = Pending
  BY PendingUnchanged DEF SignalQuit, work
<1>2. CASE pc' = "signal"
  <2>1. phase' = phase
    BY <1>2 DEF SignalQuit, phase, Running
  <2> QED BY <1>1, <2>1, AbstractSteps
<1>3. CASE pc' = "select"
  <2>1. phase = "pass" /\ phase' = "idle"
    BY <1>3 DEF SignalQuit, phase, Running, Searching
  <2>2. /\ gaps' = <<>> /\ bins' = <<>>
        /\ \A v \in Workers : worker'[v] = "gone"
    BY <1>3 DEF IInv, PassInv
  <2>3. \A v \in Workers : task'[v] = <<>>
    BY <2>2 DEF IInv, PassInv, Busy
  <2>4. Pending' = {}
    BY <2>2, <2>3, SMTT(30) DEF Pending, HeightsIn, Range
  <2> QED BY <1>1, <2>1, <2>4 DEF Pass!Next, Pass!End
<1> QED BY <1>2, <1>3 DEF SignalQuit

\* The steps of a worker: a worker has work only during a pass, or when the
\* process is on its way down.
LEMMA WorkerStepPass ==
    ASSUME IInv, IInv', NEW w \in Workers, WorkerStep(w) \/ WorkerFault(w)
    PROVE  Pass!Next \/ UNCHANGED Pass!vars
<1>1. CASE SignalQuit(w)
  BY <1>1, SignalQuitPass
<1>2. CASE HandOut(w)
  <2>1. phase = "pass" /\ phase' = "pass"
    BY <1>2 DEF HandOut, phase, Running, Searching
  <2> QED BY <1>2, <2>1, HandOutPending, AbstractSteps
<1>3. CASE UNCHANGED <<proc, pc, gaps, bins, task>>
  <2>1. phase' = phase /\ Pending' = Pending
    BY <1>3, PendingUnchanged DEF phase, Running
  <2> QED BY <2>1, AbstractSteps
<1>4. CASE /\ UNCHANGED <<proc, pc, gaps, bins>> /\ Busy(w)
           /\ \/ task' = [task EXCEPT ![w] = <<>>]
              \/ task' = [task EXCEPT ![w] = Tail(@)]
  <2>1. task[w] # <<>> /\ pc \notin {"spawned", "select"} \cup Searching
    BY <1>4 DEF IInv, PassInv, Busy
  <2>2. Pending' \subseteq Pending
    BY <1>4, <2>1, TaskShrinks DEF IInv
  <2>3. phase' = phase /\ phase \in {"pass", "down"}
    BY <1>4, <2>1 DEF phase, Running
  <2> QED BY <2>2, <2>3, AbstractSteps
<1> QED
  <2>1. CASE WorkerStart(w) \/ WorkerQuit(w) \/ Fetch(w) \/ Convert(w)
             \/ Publish(w) \/ CommitFails(w)
    BY <1>3, <2>1 DEF WorkerStart, WorkerQuit, Fetch, Convert, Publish,
                      CommitFails, work
  <2>2. CASE FetchFails(w) \/ ConvertFails(w) \/ PublishFails(w) \/ Index(w)
             \/ IndexFails(w)
    BY <1>4, <2>2 DEF FetchFails, ConvertFails, PublishFails, Index, IndexFails,
                      NextPayload, Busy, work
  <2> QED BY <1>1, <1>2, <2>1, <2>2 DEF WorkerStep, WorkerFault

\* The rest of the process and the other writers.
LEMMA EnvironmentPass ==
    ASSUME IInv, Stop \/ Exit \/ Crash \/ Restart \/ ServeReceives \/ Outside
    PROVE  Pass!Next \/ UNCHANGED Pass!vars
<1>1. CASE Stop \/ ServeReceives \/ Outside
  <2>1. phase' = phase /\ UNCHANGED <<gaps, bins, task>>
    BY <1>1 DEF Stop, ServeReceives, Outside, phase, Running, work
  <2> QED BY <2>1, PendingUnchanged, AbstractSteps
<1>2. CASE Exit \/ Crash
  <2>1. phase' = "down"
    BY <1>2 DEF Exit, Crash, phase, Running
  <2> QED BY <2>1, AbstractSteps
<1>3. CASE Restart
  <2>1. phase = "down" /\ phase' = "idle"
    BY <1>3 DEF Restart, phase, Running
  <2>2. Pending' = {}
    <3>1. gaps' = <<>> /\ bins' = <<>> /\ task' = [w \in Workers |-> <<>>]
      BY <1>3 DEF Restart
    <3>2. DOMAIN <<>> = {}
      BY SMTT(30)
    <3>3. HeightsIn(<<>>) = {} /\ Range(<<>>) = {}
      BY <3>2 DEF HeightsIn, Range
    <3>4. HeightsIn(gaps') = {} /\ DOMAIN bins' = {}
      BY <3>1, <3>2, <3>3
    <3>5. \A w \in Workers : Range(task'[w]) = {}
      BY <3>1, <3>3
    <3>6. Pending' = HeightsIn(gaps') \cup (UNION {Range(bins'[i]) : i \in DOMAIN bins'})
                                      \cup (UNION {Range(task'[w]) : w \in Workers})
      BY DEF Pending
    <3> QED BY <3>4, <3>5, <3>6
  <2> QED BY <2>1, <2>2 DEF Pass!Next, Pass!Up
<1> QED BY <1>1, <1>2, <1>3

\* Every step of the service is a step of the abstract pass or a stutter.
LEMMA NextPass == IInv /\ IInv' /\ [Next]_vars => [Pass!Next]_(Pass!vars)
<1> SUFFICES ASSUME IInv, IInv', [Next]_vars
             PROVE  Pass!Next \/ UNCHANGED Pass!vars
  OBVIOUS
<1>1. CASE MainStep \/ SearchFails
  BY <1>1, MainStepPass
<1>2. CASE \E w \in Workers : WorkerStep(w) \/ WorkerFault(w)
  BY <1>2, WorkerStepPass
<1>3. CASE Stop \/ Exit \/ Crash \/ Restart \/ ServeReceives \/ Outside
  BY <1>3, EnvironmentPass
<1>4. CASE SearchEmpty \/ UNCHANGED vars
  <2>1. phase' = phase /\ UNCHANGED <<gaps, bins, task>>
    BY <1>4 DEF SearchEmpty, vars, phase, Running
  <2> QED BY <2>1, PendingUnchanged, AbstractSteps
<1> QED BY <1>1, <1>2, <1>3, <1>4 DEF Next

\* The goroutines and channels of pkg/historical implement the abstract pass:
\* whatever fails and however the workers interleave, the heights of a pass
\* only shrink, and the next search begins after the last of them is settled.
THEOREM ImplementsPassHolds == Spec => ImplementsPass
<1>1. Spec => []IInv
  BY IInvHolds
<1> QED BY <1>1, InitPass, NextPass, PTL DEF Spec, ImplementsPass, Pass!Spec

-----------------------------------------------------------------------------
(***************************************************************************)
(* No two workers of a pass have the same height.                           *)
(***************************************************************************)
\* No two bins have a height in common.
Split(bs) == \A i, j \in DOMAIN bs : i # j => Range(bs[i]) \cap Range(bs[j]) = {}

\* What is left of the pass is a division of it.
Division ==
    /\ NoSharedWork
    /\ Apart(gaps) /\ Split(bins)
    /\ \A i \in DOMAIN bins : Range(bins[i]) \cap HeightsIn(gaps) = {}

\* Between its statements the search has found heights that are below every row
\* of the table as it is now, and then heights that have no row.
SearchInv ==
    /\ pc = "emptyGaps" => \A x \in HeightsIn(gaps) : \A h \in HeightsOf(rows) : x < h
    /\ pc = "heights" => HeightsIn(gaps) \cap HeightsOf(rows) = {}

\* The inductive invariant.
ShareInv == Hashes = {Canonical} /\ ~torn => Division /\ SearchInv

\* The empty list has no heights.
LEMMA NothingIn == DOMAIN <<>> = {} /\ Range(<<>>) = {} /\ HeightsIn(<<>>) = {}
                   /\ Apart(<<>>) /\ Split(<<>>)
<1>1. DOMAIN <<>> = {}
  BY SMTT(30)
<1> QED BY <1>1 DEF Range, HeightsIn, Apart, Split

\* Each bin ends before the next one begins.
LEMMA BinsSplit ==
    ASSUME NEW a \in Nat, NEW b \in Nat, NEW size \in Nat \ {0}, a <= b, b + size < UintMod
    PROVE  Split(GetBlockHeightBins(a, b, size))
<1> DEFINE bs == GetBlockHeightBins(a, b, size)
<1>1. ~BinsErr(a, b, size)
  BY SMTT(30) DEF BinsErr
<1>2. /\ \A i \in DOMAIN bs : Len(bs[i]) \in 1..size
      /\ \A i \in DOMAIN bs : \A k \in DOMAIN bs[i] : bs[i][k] = a + (i - 1) * size + k - 1
  <2>1. BinsPartition(a, b, size)
    BY BinsPartitionHolds
  <2> QED BY <2>1, <1>1 DEF BinsPartition
<1>3. bs \in Seq(Seq(a..b) \ {<<>>})
  BY BinsType
<1> HIDE DEF bs
<1>4. /\ \A i \in DOMAIN bs : i \in Nat \ {0}
      /\ \A i \in DOMAIN bs : DOMAIN bs[i] = 1..Len(bs[i])
  <2>1. \A i \in DOMAIN bs : i \in Nat \ {0} /\ bs[i] \in Seq(a..b)
    BY <1>3, SMTT(30)
  <2>2. \A s \in Seq(a..b) : DOMAIN s = 1..Len(s)
    BY SMTT(30)
  <2> QED BY <2>1, <2>2
<1>5. ASSUME NEW i \in DOMAIN bs, NEW x \in Range(bs[i])
      PROVE  \E k \in 1..size : x = a + (i - 1) * size + k - 1
  <2>1. PICK k \in DOMAIN bs[i] : x = bs[i][k]
    BY DEF Range
  <2>2. k \in 1..Len(bs[i]) /\ Len(bs[i]) \in 1..size
    BY <1>2, <1>4
  <2>3. k \in 1..size
    BY <2>2, SMTT(30)
  <2>4. x = a + (i - 1) * size + k - 1
    BY <2>1, <1>2
  <2> QED BY <2>3, <2>4
<1>6. ASSUME NEW i \in DOMAIN bs, NEW j \in DOMAIN bs, i < j,
             NEW x \in Range(bs[i]), x \in Range(bs[j])
      PROVE  FALSE
  <2>1. PICK k \in 1..size : x = a + (i - 1) * size + k - 1
    BY <1>5
  <2>2. PICK l \in 1..size : x = a + (j - 1) * size + l - 1
    BY <1>5, <1>6
  <2>3. i \in Nat \ {0} /\ j \in Nat \ {0}
    BY <1>4
  <2>4. i \in Nat /\ j - 1 \in Nat /\ i <= j - 1
    BY <2>3, <1>6, SMTT(30)
  <2>5. i * size \in Nat /\ (j - 1) * size \in Nat /\ i * size <= (j - 1) * size
    BY <2>4, TimesMonotonic
  <2>6. i * size = (i - 1) * size + size
    BY <2>3, SMTT(30)
  <2> DEFINE p == (i - 1) * size
             q == (j - 1) * size
             r == i * size
  <2>7. p \in Int /\ q \in Int /\ r = p + size /\ r <= q
        /\ x = a + p + k - 1 /\ x = a + q + l - 1
    <3>1. (i - 1) * size \in Int
      BY <2>3, SMTT(30)
    <3>2. (j - 1) * size \in Int
      BY <2>5, SMTT(30)
    <3> QED BY <3>1, <3>2, <2>1, <2>2, <2>5, <2>6
  <2> HIDE DEF p, q, r
  <2> QED BY <2>7, SMTT(30)
<1>7. \A i, j \in DOMAIN bs : i # j => i < j \/ j < i
  BY <1>4, SMTT(30)
<1> QED BY <1>6, <1>7 DEF Split, bs

\* The first gap and the others.
LEMMA GapsCut ==
    ASSUME NEW S, NEW gs \in Seq(S), gs # <<>>
    PROVE  /\ HeightsIn(gs) = (Head(gs).start..Head(gs).stop) \cup HeightsIn(Tail(gs))
           /\ Apart(gs) => /\ Apart(Tail(gs))
                           /\ (Head(gs).start..Head(gs).stop) \cap HeightsIn(Tail(gs)) = {}
<1> DEFINE rest == Tail(gs)
           I(g) == g.start..g.stop
<1>1. /\ DOMAIN gs = 1..Len(gs) /\ Len(gs) \in Nat \ {0} /\ Head(gs) = gs[1]
      /\ DOMAIN rest = 1..(Len(gs) - 1)
      /\ \A i \in 1..(Len(gs) - 1) : rest[i] = gs[i + 1]
  BY SMTT(30)
<1> HIDE DEF rest
<1>2. 1 \in DOMAIN gs
  BY <1>1, SMTT(30)
<1>3. \A i \in DOMAIN rest : i + 1 \in DOMAIN gs /\ i + 1 # 1 /\ rest[i] = gs[i + 1]
  BY <1>1, SMTT(30)
<1>4. \A j \in DOMAIN gs : j = 1 \/ \E i \in DOMAIN rest : rest[i] = gs[j]
  <2> SUFFICES ASSUME NEW j \in DOMAIN gs, j # 1 PROVE \E i \in DOMAIN rest : rest[i] = gs[j]
    OBVIOUS
  <2>1. j - 1 \in 1..(Len(gs) - 1) /\ (j - 1) + 1 = j
    BY <1>1, SMTT(30)
  <2> QED BY <2>1, <1>1
<1>5. \A i, j \in DOMAIN rest : i # j => i + 1 # j + 1
  BY <1>1, SMTT(30)
<1>6. HeightsIn(gs) = I(Head(gs)) \cup HeightsIn(rest)
  <2>1. \A x : x \in HeightsIn(gs) <=> \E j \in DOMAIN gs : x \in I(gs[j])
    BY DEF HeightsIn
  <2>2. \A x : x \in HeightsIn(rest) <=> \E j \in DOMAIN rest : x \in I(rest[j])
    BY DEF HeightsIn
  <2>3. Head(gs) = gs[1]
    BY <1>1
  <2> HIDE DEF I
  <2>4. \A x : x \in HeightsIn(gs) => x \in I(Head(gs)) \cup HeightsIn(rest)
    BY <2>1, <2>2, <2>3, <1>4
  <2>5. \A x : x \in I(Head(gs)) \cup HeightsIn(rest) => x \in HeightsIn(gs)
    BY <2>1, <2>2, <2>3, <1>2, <1>3
  <2> QED BY <2>4, <2>5
<1>7. ASSUME Apart(gs) PROVE Apart(rest) /\ I(Head(gs)) \cap HeightsIn(rest) = {}
  <2>1. \A i, j \in DOMAIN gs : i # j => I(gs[i]) \cap I(gs[j]) = {}
    BY <1>7 DEF Apart
  <2>2. \A x : x \in HeightsIn(rest) <=> \E j \in DOMAIN rest : x \in I(rest[j])
    BY DEF HeightsIn
  <2>3. Head(gs) = gs[1]
    BY <1>1
  <2>4. Apart(rest) <=> \A i, j \in DOMAIN rest : i # j => I(rest[i]) \cap I(rest[j]) = {}
    BY DEF Apart
  <2> HIDE DEF I
  <2>5. \A i, j \in DOMAIN rest : i # j => I(rest[i]) \cap I(rest[j]) = {}
    BY <2>1, <1>3, <1>5
  <2>6. \A j \in DOMAIN rest : I(gs[1]) \cap I(rest[j]) = {}
    BY <2>1, <1>2, <1>3
  <2> QED BY <2>2, <2>3, <2>4, <2>5, <2>6
<1> QED BY <1>6, <1>7 DEF rest

\* What is left of a list.
LEMMA RangeOfTail ==
    ASSUME NEW S, NEW s \in Seq(S), s # <<>> PROVE Range(Tail(s)) \subseteq Range(s)
<1>1. /\ DOMAIN Tail(s) = 1..Len(s) - 1 /\ DOMAIN s = 1..Len(s)
      /\ Len(s) \in Nat
      /\ \A i \in 1..Len(s) - 1 : Tail(s)[i] = s[i + 1]
  BY SMTT(30)
<1>2. \A i \in 1..Len(s) - 1 : i + 1 \in 1..Len(s)
  BY <1>1, SMTT(30)
<1> QED BY <1>1, <1>2 DEF Range

\* The first bin and the others.
LEMMA BinsCut ==
    ASSUME NEW S, NEW bs \in Seq(S), bs # <<>>
    PROVE  /\ \E j \in DOMAIN bs : Head(bs) = bs[j]
           /\ \A i \in DOMAIN Tail(bs) : \E j \in DOMAIN bs : Tail(bs)[i] = bs[j]
           /\ Split(bs) => /\ Split(Tail(bs))
                           /\ \A i \in DOMAIN Tail(bs) :
                                Range(Head(bs)) \cap Range(Tail(bs)[i]) = {}
<1> DEFINE rest == Tail(bs)
<1>1. /\ DOMAIN bs = 1..Len(bs) /\ Len(bs) \in Nat \ {0} /\ Head(bs) = bs[1]
      /\ DOMAIN rest = 1..(Len(bs) - 1)
      /\ \A i \in 1..(Len(bs) - 1) : rest[i] = bs[i + 1]
  BY SMTT(30)
<1> HIDE DEF rest
<1>2. 1 \in DOMAIN bs
  BY <1>1, SMTT(30)
<1>3. \A i \in DOMAIN rest : i + 1 \in DOMAIN bs /\ i + 1 # 1 /\ rest[i] = bs[i + 1]
  BY <1>1, SMTT(30)
<1>4. \A i, j \in DOMAIN rest : i # j => i + 1 # j + 1
  BY <1>1, SMTT(30)
<1>5. ASSUME Split(bs)
      PROVE  /\ Split(rest)
             /\ \A i \in DOMAIN rest : Range(Head(bs)) \cap Range(rest[i]) = {}
  <2>1. \A i, j \in DOMAIN bs : i # j => Range(bs[i]) \cap Range(bs[j]) = {}
    BY <1>5 DEF Split
  <2>2. \A i, j \in DOMAIN rest : i # j => Range(rest[i]) \cap Range(rest[j]) = {}
    BY <2>1, <1>3, <1>4
  <2>3. \A i \in DOMAIN rest : Range(bs[1]) \cap Range(rest[i]) = {}
    BY <2>1, <1>2, <1>3
  <2> QED BY <2>2, <2>3, <1>1 DEF Split
<1> QED BY <1>1, <1>2, <1>3, <1>5 DEF rest

\* There is no work yet.
LEMMA InitShare == Init => ShareInv
<1> SUFFICES ASSUME Init PROVE ShareInv
  OBVIOUS
<1>1. gaps = <<>> /\ bins = <<>> /\ pc = "spawned" /\ \A w \in Workers : task[w] = <<>>
  BY DEF Init
<1> QED BY <1>1, NothingIn DEF ShareInv, Division, SearchInv, NoSharedWork

\* Nobody has work while gaps are searched.
LEMMA IdleDivision ==
    ASSUME bins' = <<>>, \A w \in Workers : task'[w] = <<>>, Apart(gaps')
    PROVE  Division'
<1>1. Split(bins') /\ DOMAIN bins' = {} /\ \A w \in Workers : Range(task'[w]) = {}
  BY NothingIn
<1>2. NoSharedWork'
  BY <1>1 DEF NoSharedWork
<1> QED BY <1>1, <1>2 DEF Division

\* The statements of a search find gaps that have no height in common, although
\* rows may be removed between them.
LEMMA SearchShare ==
    ASSUME IInv, ShareInv, Search \/ SearchGaps \/ SearchHeights
    PROVE  ShareInv'
<1> SUFFICES ASSUME Hashes = {Canonical}, ~torn'
             PROVE  Division' /\ SearchInv'
  BY DEF ShareInv
<1>1. bins' = <<>> /\ \A w \in Workers : task'[w] = <<>>
  BY DEF IInv, PassInv, Search, SearchGaps, SearchHeights, Busy, Searching
<1>2. MaxHeight \in Nat /\ IsFiniteSet(rows) /\ HeightsOf(rows) \subseteq 0..MaxHeight
      /\ TableTypeOK /\ rows' = rows
  BY TableFinite DEF IInv, TypeOK, Search, SearchGaps, SearchHeights, table
<1>3. gaps \in Seq(GapsUpTo(MaxHeight))
  BY DEF IInv, TypeOK, GapsUpTo, Heights
<1>4. CASE Search
  <2>1. /\ Apart(gaps') /\ pc' = "emptyGaps"
        /\ \A x \in HeightsIn(gaps') : \A h \in HeightsOf(rows) : x < h
    BY <1>2, <1>4, InitialGapApart DEF Search
  <2> QED BY <1>1, <1>2, <2>1, IdleDivision DEF SearchInv
<1>5. CASE SearchGaps
  <2> DEFINE found == EmptyGaps(rows)
  <2>1. Apart(gaps) /\ \A x \in HeightsIn(gaps) : \A h \in HeightsOf(rows) : x < h
    BY <1>5 DEF ShareInv, Division, SearchInv, SearchGaps
  <2>2. /\ found \in Seq(GapsUpTo(MaxHeight)) /\ Apart(found)
        /\ HeightsIn(found) \cap HeightsOf(rows) = {}
        /\ \A x \in HeightsIn(found) : \E h \in HeightsOf(rows) : ~(x < h)
    BY <1>2, EmptyGapsApart
  <2>3. gaps' = gaps \o found /\ pc' = "heights"
    BY <1>5 DEF SearchGaps
  <2>4. \A h \in HeightsOf(rows) : ~(h < h)
    BY <1>2, InInterval, SMTT(30)
  <2> HIDE DEF found
  <2>5. HeightsIn(gaps) \cap HeightsIn(found) = {}
    BY <2>1, <2>2
  <2>6. Apart(gaps')
    BY <1>3, <2>1, <2>2, <2>3, <2>5, ApartConcat
  <2>7. HeightsIn(gaps') = HeightsIn(gaps) \cup HeightsIn(found)
    <3>1. found \in Seq(GapsUpTo(MaxHeight))
      BY <2>2
    <3>2. HeightsIn(gaps \o found) = HeightsIn(gaps) \cup HeightsIn(found)
      BY <1>3, <3>1, HeightsInConcat, SMTT(30)
    <3> QED BY <2>3, <3>2
  <2>8. HeightsIn(gaps') \cap HeightsOf(rows) = {}
    BY <2>1, <2>2, <2>4, <2>7
  <2> QED BY <1>1, <1>2, <2>3, <2>6, <2>8, IdleDivision DEF SearchInv
<1>6. CASE SearchHeights
  <2> DEFINE found == MissingHeightsToGaps(UnderValidatedHeights(rows, tv, ValidationLevel))
  <2>1. Apart(gaps) /\ HeightsIn(gaps) \cap HeightsOf(rows) = {}
    BY <1>6 DEF ShareInv, Division, SearchInv, SearchHeights
  <2>2. NoForks(rows)
    <3> SUFFICES ASSUME NEW r \in rows, NEW s \in rows, r[1] = s[1] PROVE r = s
      BY DEF NoForks
    <3>1. r \in Heights \X {Canonical} /\ s \in Heights \X {Canonical}
      BY <1>2 DEF TableTypeOK, Keys
    <3> QED BY <3>1, SMTT(30)
  <2>3. /\ found \in Seq(GapsUpTo(MaxHeight)) /\ Apart(found)
        /\ HeightsIn(found) \subseteq HeightsOf(rows)
    BY <1>2, <2>2, UnderValidatedApart
  <2>4. gaps' = gaps \o found /\ pc' = "dispatch"
    BY <1>6 DEF SearchHeights
  <2> HIDE DEF found
  <2>5. HeightsIn(gaps) \cap HeightsIn(found) = {}
    BY <2>1, <2>3
  <2>6. Apart(gaps')
    BY <1>3, <2>1, <2>3, <2>4, <2>5, ApartConcat
  <2> QED BY <1>1, <2>4, <2>6, IdleDivision DEF SearchInv
<1> QED BY <1>4, <1>5, <1>6

\* The heights of a gap go to its bins.
LEMMA NextGapShare == ASSUME IInv, ShareInv, NextGap PROVE ShareInv'
<1> SUFFICES ASSUME Hashes = {Canonical}, ~torn'
             PROVE  Division' /\ SearchInv'
  BY DEF ShareInv
<1>0. Division /\ ~torn /\ SearchInv'
  BY DEF ShareInv, SearchInv, NextGap
<1> DEFINE a == Head(gaps).start
           b == Head(gaps).stop
<1>1. gaps \in Seq([start : Heights, stop : Heights]) /\ gaps # <<>> /\ gaps' = Tail(gaps)
      /\ task' = task
  BY DEF IInv, TypeOK, NextGap
<1>2. a \in 0..MaxHeight /\ b \in 0..MaxHeight /\ MaxHeight \in Nat
  <2>1. Head(gaps) \in [start : Heights, stop : Heights]
    BY <1>1, HeadAndTail
  <2> QED BY <2>1, HeaderIndexAssumption DEF Heights
<1>3. /\ HeightsIn(gaps) = (a..b) \cup HeightsIn(gaps')
      /\ Apart(gaps') /\ (a..b) \cap HeightsIn(gaps') = {}
  <2>1. Apart(gaps)
    BY <1>0 DEF Division
  <2> QED BY <2>1, <1>1, GapsCut
<1>4. \A w \in Workers : Range(task[w]) \cap HeightsIn(gaps) = {}
  BY <1>0 DEF Division, NoSharedWork
<1>5. Split(bins') /\ \A i \in DOMAIN bins' : Range(bins'[i]) \subseteq a..b
  <2>1. CASE BinsErr(a, b, BatchSize)
    <3>1. bins' = <<>>
      BY <2>1 DEF NextGap
    <3> QED BY <3>1, NothingIn
  <2>2. CASE ~BinsErr(a, b, BatchSize)
    <3>1. bins' = GetBlockHeightBins(a, b, BatchSize) /\ ~(b < a)
      BY <2>2 DEF NextGap, BinsErr
    <3> HIDE DEF a, b
    <3>2. a \in Nat /\ b \in Nat /\ a <= b /\ b + BatchSize < UintMod
          /\ BatchSize \in Nat \ {0}
      BY <1>2, <3>1, BackFillAssumption, UintModAssumption, SMTT(30)
    <3>3. bins' \in Seq(Seq(a..b) \ {<<>>}) /\ Split(bins')
      BY <3>1, <3>2, BinsType, BinsSplit
    <3>4. \A i \in DOMAIN bins' : bins'[i] \in Seq(a..b)
      BY <3>3, SMTT(30)
    <3> QED BY <3>3, <3>4, SeqElements
  <2> QED BY <2>1, <2>2
<1> HIDE DEF a, b
<1>6. \A i \in DOMAIN bins' : Range(bins'[i]) \cap HeightsIn(gaps') = {}
  BY <1>3, <1>5
<1>7. NoSharedWork'
  <2>1. \A w \in Workers : \A i \in DOMAIN bins' : Range(task'[w]) \cap Range(bins'[i]) = {}
    BY <1>1, <1>3, <1>4, <1>5
  <2>2. \A w \in Workers : Range(task'[w]) \cap HeightsIn(gaps') = {}
    BY <1>1, <1>3, <1>4
  <2>3. \A v, w \in Workers : v # w => Range(task'[v]) \cap Range(task'[w]) = {}
    BY <1>0, <1>1 DEF Division, NoSharedWork
  <2> QED BY <2>1, <2>2, <2>3 DEF NoSharedWork
<1> QED BY <1>0, <1>3, <1>5, <1>6, <1>7 DEF Division

\* The bin a worker takes is nobody else's.
LEMMA HandOutShare == ASSUME IInv, ShareInv, NEW w \in Workers, HandOut(w) PROVE ShareInv'
<1> SUFFICES ASSUME Hashes = {Canonical}, ~torn'
             PROVE  Division' /\ SearchInv'
  BY DEF ShareInv
<1>0. ~torn /\ SearchInv'
  BY DEF SearchInv, HandOut
<1>1. bins \in Seq(Seq(Heights) \ {<<>>}) /\ bins # <<>> /\ bins' = Tail(bins) /\ gaps' = gaps
      /\ task'[w] = Head(bins) /\ \A v \in Workers \ {w} : task'[v] = task[v]
  BY DEF IInv, TypeOK, PassInv, HandOut
<1>2. NoSharedWork /\ Apart(gaps) /\ Split(bins)
      /\ \A i \in DOMAIN bins : Range(bins[i]) \cap HeightsIn(gaps) = {}
  BY <1>0 DEF ShareInv, Division
<1>3. /\ \E j \in DOMAIN bins : task'[w] = bins[j]
      /\ \A i \in DOMAIN bins' : \E j \in DOMAIN bins : bins'[i] = bins[j]
      /\ Split(bins')
      /\ \A i \in DOMAIN bins' : Range(task'[w]) \cap Range(bins'[i]) = {}
  <2>1. /\ \E j \in DOMAIN bins : Head(bins) = bins[j]
        /\ \A i \in DOMAIN Tail(bins) : \E j \in DOMAIN bins : Tail(bins)[i] = bins[j]
        /\ Split(Tail(bins))
        /\ \A i \in DOMAIN Tail(bins) : Range(Head(bins)) \cap Range(Tail(bins)[i]) = {}
    <3>1. bins \in Seq(Seq(Heights) \ {<<>>}) /\ bins # <<>> /\ Split(bins)
      BY <1>1, <1>2
    <3> QED BY <3>1, BinsCut
  <2> QED BY <2>1, <1>1
<1>4. \A v, u \in Workers : v # u => Range(task'[v]) \cap Range(task'[u]) = {}
  <2>1. \A v \in Workers \ {w} : Range(task'[v]) \cap Range(task'[w]) = {}
    BY <1>0, <1>1, <1>2, <1>3 DEF NoSharedWork
  <2>2. \A v, u \in Workers \ {w} : v # u => Range(task'[v]) \cap Range(task'[u]) = {}
    BY <1>0, <1>1, <1>2 DEF NoSharedWork
  <2> QED BY <2>1, <2>2
<1>5. \A v \in Workers : \A i \in DOMAIN bins' : Range(task'[v]) \cap Range(bins'[i]) = {}
  <2>1. \A v \in Workers : \A j \in DOMAIN bins : Range(task[v]) \cap Range(bins[j]) = {}
    BY <1>0, <1>2 DEF NoSharedWork
  <2>2. \A v \in Workers \ {w} : \A i \in DOMAIN bins' :
          Range(task'[v]) \cap Range(bins'[i]) = {}
    <3> TAKE v \in Workers \ {w}
    <3> TAKE i \in DOMAIN bins'
    <3>1. task'[v] = task[v] /\ \E j \in DOMAIN bins : bins'[i] = bins[j]
      BY <1>1, <1>3
    <3> QED BY <2>1, <3>1
  <2> QED BY <2>2, <1>3
<1>6. \A v \in Workers : Range(task'[v]) \cap HeightsIn(gaps') = {}
  <2>1. Range(task'[w]) \cap HeightsIn(gaps) = {}
    BY <1>2, <1>3
  <2>2. \A v \in Workers \ {w} : Range(task'[v]) \cap HeightsIn(gaps) = {}
    BY <1>0, <1>1, <1>2 DEF NoSharedWork
  <2> QED BY <2>1, <2>2, <1>1
<1>7. \A i \in DOMAIN bins' : Range(bins'[i]) \cap HeightsIn(gaps') = {}
  BY <1>1, <1>2, <1>3
<1>8. NoSharedWork'
  BY <1>4, <1>5, <1>6 DEF NoSharedWork
<1> QED BY <1>0, <1>1, <1>2, <1>3, <1>7, <1>8 DEF Division

\* Steps in which no worker gets a height and, during a search, no row is added.
LEMMA LessShare ==
    ASSUME ShareInv, UNCHANGED <<gaps, bins>>, torn => torn',
           \/ pc' \notin Searching
           \/ pc' = pc /\ (torn' \/ rows' \subseteq rows),
           \A w \in Workers : Range(task'[w]) \subseteq Range(task[w])
    PROVE  ShareInv'
<1> SUFFICES ASSUME Hashes = {Canonical}, ~torn'
             PROVE  Division' /\ SearchInv'
  BY DEF ShareInv
<1>1. /\ NoSharedWork /\ Apart(gaps) /\ Split(bins) /\ SearchInv /\ ~torn
      /\ \A i \in DOMAIN bins : Range(bins[i]) \cap HeightsIn(gaps) = {}
  BY DEF ShareInv, Division
<1>2. \A v, w \in Workers : v # w => Range(task'[v]) \cap Range(task'[w]) = {}
  BY <1>1 DEF NoSharedWork
<1>3. \A w \in Workers : \A i \in DOMAIN bins : Range(task'[w]) \cap Range(bins[i]) = {}
  BY <1>1 DEF NoSharedWork
<1>4. \A w \in Workers : Range(task'[w]) \cap HeightsIn(gaps) = {}
  BY <1>1 DEF NoSharedWork
<1>5. Division'
  BY <1>1, <1>2, <1>3, <1>4 DEF Division, NoSharedWork
<1>6. SearchInv'
  <2>1. CASE pc' \notin Searching
    BY <2>1 DEF SearchInv, Searching
  <2>2. CASE pc' = pc /\ rows' \subseteq rows
    <3>1. HeightsOf(rows') \subseteq HeightsOf(rows)
      BY <2>2 DEF HeightsOf
    <3> QED BY <1>1, <2>2, <3>1 DEF SearchInv
  <2> QED BY <2>1, <2>2
<1> QED BY <1>5, <1>6

\* What a worker does with the heights it has.
LEMMA WorkerShare ==
    ASSUME IInv, ShareInv, NEW w \in Workers, WorkerStep(w) \/ WorkerFault(w)
    PROVE  ShareInv'
<1>0. pc' \notin Searching
  <2>1. worker[w] # "gone"
    BY DEF WorkerStep, WorkerFault, WorkerStart, WorkerQuit, HandOut, SignalQuit, Fetch,
           Convert, Publish, Index, FetchFails, ConvertFails, PublishFails, CommitFails,
           IndexFails
  <2>2. pc \notin Searching
    BY <2>1 DEF IInv, PassInv
  <2>3. pc' \in {pc, "dispatch", "select", "signal"}
    BY DEF WorkerStep, WorkerFault, WorkerStart, WorkerQuit, HandOut, SignalQuit, Fetch,
           Convert, Publish, Index, FetchFails, ConvertFails, PublishFails, CommitFails,
           IndexFails
  <2> QED BY <2>2, <2>3 DEF Searching
<1>1. CASE HandOut(w)
  BY <1>1, HandOutShare
<1>2. CASE UNCHANGED <<gaps, bins, torn, task>>
  BY <1>0, <1>2, LessShare
<1>3. CASE /\ UNCHANGED <<gaps, bins, torn>> /\ Busy(w)
           /\ \/ task' = [task EXCEPT ![w] = <<>>]
              \/ task' = [task EXCEPT ![w] = Tail(@)]
  <2>1. task \in [Workers -> Seq(Heights)] /\ task[w] # <<>>
    BY <1>3 DEF IInv, TypeOK, PassInv
  <2>2. ASSUME NEW v \in Workers PROVE Range(task'[v]) \subseteq Range(task[v])
    <3>1. CASE task'[v] = task[v]
      BY <3>1
    <3>2. CASE task'[v] = <<>>
      BY <3>2, NothingIn
    <3>3. CASE task'[v] = Tail(task[v]) /\ task[v] # <<>>
      <4>1. task[v] \in Seq(Heights)
        BY <2>1
      <4> QED BY <4>1, <3>3, RangeOfTail
    <3> QED BY <2>1, <3>1, <3>2, <3>3, <1>3
  <2> QED BY <1>0, <1>3, <2>2, LessShare
<1> QED
  <2>1. CASE WorkerStart(w) \/ WorkerQuit(w) \/ SignalQuit(w) \/ Fetch(w) \/ Convert(w)
             \/ Publish(w) \/ CommitFails(w)
    BY <1>2, <2>1 DEF WorkerStart, WorkerQuit, SignalQuit, Fetch, Convert, Publish,
                      CommitFails, work
  <2>2. CASE FetchFails(w) \/ ConvertFails(w) \/ PublishFails(w) \/ Index(w)
             \/ IndexFails(w)
    BY <1>3, <2>2 DEF FetchFails, ConvertFails, PublishFails, Index, IndexFails,
                      NextPayload, Busy, work
  <2> QED BY <1>1, <2>1, <2>2 DEF WorkerStep, WorkerFault

\* Every step keeps the division of the work.
LEMMA NextShare == IInv /\ ShareInv /\ [Next]_vars => ShareInv'
<1> SUFFICES ASSUME IInv, ShareInv, [Next]_vars PROVE ShareInv'
  OBVIOUS
<1>1. CASE /\ UNCHANGED <<gaps, bins, task>> /\ (torn => torn')
           /\ \/ pc' \notin Searching
              \/ pc' = pc /\ (torn' \/ rows' \subseteq rows)
  BY <1>1, LessShare
<1>2. CASE Restart \/ SearchFails
  <2>1. gaps' = <<>> /\ bins' = <<>> /\ pc' \in {"spawned", "select"}
        /\ \A w \in Workers : task'[w] = <<>>
    BY <1>2 DEF Restart, SearchFails, IInv, PassInv, Busy
  <2>2. Division'
    BY <2>1, NothingIn, IdleDivision
  <2> QED BY <2>1, <2>2 DEF ShareInv, SearchInv
<1>3. CASE MainStep
  <2>1. CASE Search \/ SearchGaps \/ SearchHeights
    BY <2>1, SearchShare
  <2>2. CASE Start \/ MainQuit \/ CheckQuit \/ AllSent \/ SendOnClosed
    <3>1. UNCHANGED <<gaps, bins, task, torn>>
      BY <2>2 DEF Start, MainQuit, CheckQuit, AllSent, SendOnClosed, work
    <3>2. pc' \notin Searching
      BY <2>2 DEF Start, MainQuit, CheckQuit, AllSent, SendOnClosed, Searching
    <3> QED BY <1>1, <3>1, <3>2
  <2> QED BY <1>3, <2>1, <2>2, NextGapShare DEF MainStep
<1>4. CASE SearchEmpty \/ Stop \/ Exit \/ Crash \/ ServeReceives \/ UNCHANGED vars
  <2>1. UNCHANGED <<gaps, bins, task, torn, pc, rows>>
    BY <1>4 DEF SearchEmpty, Stop, Exit, Crash, ServeReceives, work, vars, table
  <2> QED BY <1>1, <2>1
<1>5. CASE Outside
  BY <1>1, <1>5 DEF Outside
<1> QED BY <1>2, <1>3, <1>4, <1>5, WorkerShare DEF Next

\* NoSharedWork holds for every number of workers and heights and every size of a
\* bin: without reorgs no two workers of a backfill pass fetch the same height,
\* and none fetches one that is to be handed out again, although the three
\* statements of the search may see three tables and other processes write during
\* the pass.  The exception is a row that is added between these statements.
THEOREM NoSharedWorkHolds == Spec => []NoSharedWork
<1>1. ShareInv => NoSharedWork
  BY DEF ShareInv, Division, NoSharedWork
<1> QED BY <1>1, InitShare, NextShare, IInvHolds, PTL DEF Spec
=============================================================================
