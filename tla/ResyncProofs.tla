---------------------------- MODULE ResyncProofs ----------------------------
(***************************************************************************)
(* The resync command beside a watcher, for all blocks and their data, all  *)
(* settings, every number of workers, batch size and number of faults:      *)
(* where Resync and its workers are (Control), what the store holds         *)
(* (Contents), and what follows from both.                                  *)
(***************************************************************************)
EXTENDS Resync, GapFindingProofs, IndexStoreProofs

\* The time allowed to a prover for a leaf: Zenon, unless the leaf asks for the
\* SMT solver.
USE ZenonT(30)

-----------------------------------------------------------------------------
(***************************************************************************)
(* Where Resync and its workers are.                                        *)
(***************************************************************************)
Gone == {w \in Workers : worker[w] = "gone"}
Bin == Seq(Covered) \ {<<>>}

Shape ==
    /\ cfg \in Configs
    /\ pc \in {"reset", "clean", "ranges", "signal", "failed", "returned"}
    /\ worker \in [Workers -> {"select", "fetch", "publish", "index", "gone"}]
    /\ ranges \in Seq(Range(cfg.ranges))
    /\ bins \in Seq(Bin)
    /\ heights \in [Workers -> Seq(Covered)]
    /\ outside \subseteq ChainBlocks(cfg.chain)

\* A worker has heights to do exactly when it is at work.
AtWork == \A w \in Workers : heights[w] = <<>> <=> worker[w] \in {"select", "gone"}

\* How far Resync has come, and what is then behind it.
Progress ==
    /\ signals = Cardinality(Gone)
    /\ pc \in {"reset", "clean"} =>
         (\A w \in Workers : worker[w] = "select") /\ ranges = cfg.ranges /\ bins = <<>>
    /\ pc = "ranges" => signals = 0
    /\ pc = "signal" => signals < BatchNumber
    /\ pc \in {"signal", "returned"} => bins = <<>> /\ ranges = <<>>
    /\ pc = "returned" => signals = BatchNumber

Control == Shape /\ AtWork /\ Progress

\* The workers can be counted, and all are gone when BatchNumber are.
LEMMA WorkersCounted ==
    /\ IsFiniteSet(Workers) /\ Cardinality(Workers) = BatchNumber
    /\ IsFiniteSet(Gone) /\ Cardinality(Gone) \in Nat
    /\ Cardinality(Gone) <= BatchNumber
    /\ Cardinality(Gone) = BatchNumber => Gone = Workers
    /\ Cardinality(Gone) = 0 => Gone = {}
<1>0. BatchNumber \in Nat \ {0}
  BY ResyncAssumption
<1>1. IsFiniteSet(Workers) /\ Cardinality(Workers) = BatchNumber
  BY <1>0, FS_Interval, SMTT(30) DEF Workers
<1>2. Gone \subseteq Workers
  BY DEF Gone
<1>3. IsFiniteSet(Gone) /\ Cardinality(Gone) <= Cardinality(Workers)
      /\ (Cardinality(Gone) = Cardinality(Workers) => Gone = Workers)
  BY <1>1, <1>2, FS_Subset
<1>4. Cardinality(Gone) \in Nat /\ (Cardinality(Gone) = 0 => Gone = {})
  BY <1>3, FS_CardinalityType, FS_EmptySet
<1> QED BY <1>1, <1>3, <1>4

\* A worker leaves.
LEMMA OneMoreGone ==
    ASSUME worker \in [Workers -> {"select", "fetch", "publish", "index", "gone"}],
           NEW w \in Workers, worker[w] = "select",
           worker' = [worker EXCEPT ![w] = "gone"]
    PROVE  Cardinality(Gone') = Cardinality(Gone) + 1
<1>1. worker'[w] = "gone" /\ \A v \in Workers \ {w} : worker'[v] = worker[v]
  BY SMTT(30)
<1>2. Workers' = Workers
  BY DEF Workers
<1>3. "select" # "gone"
  OBVIOUS
<1>4. Gone' = Gone \cup {w} /\ w \notin Gone
  BY <1>1, <1>2, <1>3 DEF Gone
<1>5. IsFiniteSet(Gone)
  BY WorkersCounted
<1> QED BY <1>4, <1>5, FS_AddElement

\* Nobody leaves as long as a worker only gets work, does it or drops it.
LEMMA NobodyGone ==
    ASSUME worker \in [Workers -> {"select", "fetch", "publish", "index", "gone"}],
           NEW w \in Workers, worker[w] # "gone", NEW p \in {"select", "fetch", "publish", "index"},
           worker' = [worker EXCEPT ![w] = p]
    PROVE  /\ Gone' = Gone
           /\ worker' \in [Workers -> {"select", "fetch", "publish", "index", "gone"}]
           /\ worker'[w] = p /\ \A v \in Workers \ {w} : worker'[v] = worker[v]
<1>1. worker'[w] = p /\ \A v \in Workers \ {w} : worker'[v] = worker[v]
  BY SMTT(30)
<1>2. worker' \in [Workers -> {"select", "fetch", "publish", "index", "gone"}]
  BY SMTT(30)
<1>3. Workers' = Workers /\ p # "gone"
  BY DEF Workers
<1>4. Gone' = Gone
  BY <1>1, <1>3 DEF Gone
<1> QED BY <1>1, <1>2, <1>4

\* The range that Resync comes to next, in bins.
LEMMA BinsOfRange ==
    ASSUME Shape, ranges # <<>>
    PROVE  LET rng == Head(ranges)
           IN  /\ Tail(ranges) \in Seq(Range(cfg.ranges))
               /\ Valid(rng) => /\ rng[1] \in Nat /\ rng[2] \in Nat
                                /\ rng[1]..rng[2] \subseteq Covered
                                /\ rng[2] + BatchSize < UintMod
                                /\ GetBlockHeightBins(rng[1], rng[2], BatchSize) \in Seq(Bin)
<1> DEFINE rng == Head(ranges)
           R == Range(cfg.ranges)
<1>1. cfg.ranges \in Seq(Nat \X Nat) /\ BatchSize \in Nat \ {0} /\ ranges \in Seq(R)
      /\ \A i \in DOMAIN cfg.ranges : Valid(cfg.ranges[i]) => cfg.ranges[i][2] + BatchSize < UintMod
  BY ResyncAssumption DEF Shape
<1>2. Tail(ranges) \in Seq(R) /\ rng \in R
  <2> HIDE DEF R
  <2> QED BY <1>1, SMTT(30)
<1>3. PICK i \in DOMAIN cfg.ranges : rng = cfg.ranges[i]
  BY <1>2 DEF Range
<1>4. rng \in Nat \X Nat
  <2>1. cfg.ranges[i] \in Nat \X Nat
    BY <1>1, SMTT(30)
  <2> QED BY <1>3, <2>1
<1> HIDE DEF rng
<1>5. rng[1] \in Nat /\ rng[2] \in Nat
  BY <1>4
<1>6. rng[1]..rng[2] \subseteq Covered
  BY <1>2 DEF Covered
<1>7. ASSUME Valid(rng)
      PROVE  /\ rng[2] + BatchSize < UintMod
             /\ GetBlockHeightBins(rng[1], rng[2], BatchSize) \in Seq(Bin)
  <2>1. rng[2] + BatchSize < UintMod /\ rng[1] <= rng[2]
    BY <1>1, <1>3, <1>7 DEF Valid
  <2> DEFINE hs == rng[1]..rng[2]
             bs == GetBlockHeightBins(rng[1], rng[2], BatchSize)
  <2>2. bs \in Seq(Seq(hs) \ {<<>>})
    BY <1>1, <1>5, <2>1, BinsType
  <2> HIDE DEF bs, hs
  <2>3. hs \subseteq Covered
    BY <1>6 DEF hs
  <2>4. Seq(hs) \subseteq Seq(Covered)
    BY <2>3, SMTT(30)
  <2>5. Seq(hs) \ {<<>>} \subseteq Bin
    BY <2>4 DEF Bin
  <2> DEFINE small == Seq(hs) \ {<<>>}
  <2> HIDE DEF small
  <2>6. bs \in Seq(small) /\ small \subseteq Bin
    BY <2>2, <2>5 DEF small
  <2>7. bs \in Seq(Bin)
    BY <2>6, SMTT(30)
  <2> QED BY <2>1, <2>7 DEF bs
<1> QED BY <1>2, <1>5, <1>6, <1>7 DEF rng

LEMMA InitControl == Init => Control
<1> SUFFICES ASSUME Init PROVE Control
  OBVIOUS
<1> DEFINE R == Range(cfg.ranges)
<1>1. /\ cfg \in Configs /\ pc = "reset" /\ ranges = cfg.ranges /\ bins = <<>> /\ signals = 0
      /\ worker = [w \in Workers |-> "select"] /\ heights = [w \in Workers |-> <<>>]
      /\ outside = {}
  BY DEF Init
<1>2. cfg.ranges \in Seq(Nat \X Nat)
  BY <1>1, ResyncAssumption
<1>3. cfg.ranges \in Seq(R)
  <2> DEFINE n == Len(cfg.ranges)
  <2>1. n \in Nat /\ cfg.ranges \in [1..n -> Nat \X Nat]
    BY <1>2, SMTT(30)
  <2>2. cfg.ranges \in [1..n -> R]
    BY <2>1 DEF Range
  <2> HIDE DEF R, n
  <2> QED BY <2>1, <2>2, SMTT(30)
<1>4. /\ worker \in [Workers -> {"select", "fetch", "publish", "index", "gone"}]
      /\ \A w \in Workers : worker[w] = "select" /\ heights[w] = <<>>
  BY <1>1
<1>5. <<>> \in Seq(Bin) /\ <<>> \in Seq(Covered)
  BY SMTT(30)
<1>6. Shape
  BY <1>1, <1>3, <1>4, <1>5 DEF Shape
<1>7. AtWork
  BY <1>4 DEF AtWork
<1>8. Gone = {}
  BY <1>4 DEF Gone
<1>9. Cardinality(Gone) = 0
  BY <1>8, FS_EmptySet
<1>10. Progress
  BY <1>1, <1>4, <1>9 DEF Progress
<1> QED BY <1>6, <1>7, <1>10 DEF Control

\* The steps of Resync before it hands out work: nobody else has begun.
LEMMA SetupControl ==
    ASSUME Control, Reset \/ Clean \/ ResetOrCleanFails \/ VacuumFails
    PROVE  Control'
<1>1. /\ UNCHANGED <<cfg, ranges, bins, signals, worker, heights, outside>>
      /\ pc \in {"reset", "clean"} /\ pc' \in {"clean", "ranges", "failed"}
  BY DEF Reset, Clean, CleanStep, ResetOrCleanFails, VacuumFails, pool, watcher
<1>2. Covered' = Covered /\ Bin' = Bin /\ Gone' = Gone
  BY <1>1 DEF Covered, Bin, Gone, Workers
<1>3. Shape'
  BY <1>1, <1>2 DEF Control, Shape, Workers
<1>4. AtWork'
  BY <1>1 DEF Control, AtWork, Workers
<1>5. \A w \in Workers : worker[w] = "select"
  BY <1>1 DEF Control, Progress
<1>6. Gone = {}
  BY <1>5 DEF Gone
<1>7. signals = 0
  BY <1>6, FS_EmptySet DEF Control, Progress
<1>8. ranges = cfg.ranges /\ bins = <<>> /\ signals = Cardinality(Gone)
  BY <1>1 DEF Control, Progress
<1>9. Progress'
  BY <1>1, <1>2, <1>5, <1>7, <1>8 DEF Progress, Workers
<1> QED BY <1>3, <1>4, <1>9 DEF Control

LEMMA NextRangeControl ==
    ASSUME Control, NextRange
    PROVE  Control'
<1>1. /\ UNCHANGED <<cfg, pc, signals, worker, heights, outside>>
      /\ pc = "ranges" /\ ranges # <<>> /\ ranges' = Tail(ranges)
      /\ bins' = IF Valid(Head(ranges))
                 THEN GetBlockHeightBins(Head(ranges)[1], Head(ranges)[2], BatchSize) ELSE <<>>
  BY DEF NextRange, pool, watcher
<1>2. Covered' = Covered /\ Bin' = Bin /\ Gone' = Gone
  BY <1>1 DEF Covered, Bin, Gone, Workers
<1>3. ranges' \in Seq(Range(cfg.ranges))
  BY <1>1, BinsOfRange DEF Control
<1>4. <<>> \in Seq(Bin)
  BY SMTT(30)
<1>5. bins' \in Seq(Bin)
  BY <1>1, <1>4, BinsOfRange DEF Control
<1>6. Shape'
  BY <1>1, <1>2, <1>3, <1>5 DEF Control, Shape, Workers
<1>7. AtWork'
  BY <1>1 DEF Control, AtWork, Workers
<1>8. signals = 0 /\ signals = Cardinality(Gone)
  BY <1>1 DEF Control, Progress
<1>9. Progress'
  BY <1>1, <1>2, <1>8 DEF Progress
<1> QED BY <1>6, <1>7, <1>9 DEF Control

LEMMA RangesDoneControl ==
    ASSUME Control, RangesDone
    PROVE  Control'
<1>1. /\ UNCHANGED <<cfg, ranges, bins, signals, worker, heights, outside>>
      /\ pc = "ranges" /\ pc' = "signal" /\ bins = <<>> /\ ranges = <<>>
  BY DEF RangesDone, pool, watcher
<1>2. Covered' = Covered /\ Bin' = Bin /\ Gone' = Gone
  BY <1>1 DEF Covered, Bin, Gone, Workers
<1>3. Shape'
  BY <1>1, <1>2 DEF Control, Shape, Workers
<1>4. AtWork'
  BY <1>1 DEF Control, AtWork, Workers
<1>5. signals = 0 /\ signals = Cardinality(Gone)
  BY <1>1 DEF Control, Progress
<1>6. 0 < BatchNumber
  BY ResyncAssumption, SMTT(30)
<1>7. Progress'
  BY <1>1, <1>2, <1>5, <1>6 DEF Progress
<1> QED BY <1>3, <1>4, <1>7 DEF Control

LEMMA HandOutControl ==
    ASSUME Control, NEW w \in Workers, HandOut(w)
    PROVE  Control'
<1>1. /\ UNCHANGED <<cfg, pc, ranges, signals, outside>>
      /\ pc = "ranges" /\ bins # <<>> /\ bins' = Tail(bins)
      /\ worker[w] = "select" /\ worker' = [worker EXCEPT ![w] = "fetch"]
      /\ heights' = [heights EXCEPT ![w] = Head(bins)]
  BY DEF HandOut, watcher
<1>2. worker \in [Workers -> {"select", "fetch", "publish", "index", "gone"}]
      /\ heights \in [Workers -> Seq(Covered)] /\ bins \in Seq(Bin)
  BY DEF Control, Shape
<1>3. /\ Gone' = Gone
      /\ worker' \in [Workers -> {"select", "fetch", "publish", "index", "gone"}]
      /\ worker'[w] = "fetch" /\ \A v \in Workers \ {w} : worker'[v] = worker[v]
  BY <1>1, <1>2, NobodyGone
<1>4. Covered' = Covered /\ Bin' = Bin
  BY <1>1 DEF Covered, Bin
<1>5. Head(bins) \in Bin /\ Tail(bins) \in Seq(Bin)
  BY <1>1, <1>2, SMTT(30)
<1>6. Head(bins) \in Seq(Covered) /\ Head(bins) # <<>>
  BY <1>5 DEF Bin
<1>7. /\ heights' \in [Workers -> Seq(Covered)] /\ heights'[w] = Head(bins)
      /\ \A v \in Workers \ {w} : heights'[v] = heights[v]
  BY <1>1, <1>2, <1>6, SMTT(30)
<1>8. Shape'
  BY <1>1, <1>3, <1>4, <1>5, <1>7 DEF Control, Shape, Workers
<1>9. AtWork'
  <2>1. \A v \in Workers : heights'[v] = <<>> <=> worker'[v] \in {"select", "gone"}
    BY <1>3, <1>6, <1>7 DEF Control, AtWork
  <2> QED BY <2>1 DEF AtWork, Workers
<1>10. signals = 0 /\ signals = Cardinality(Gone)
  BY <1>1 DEF Control, Progress
<1>11. Progress'
  BY <1>1, <1>3, <1>10 DEF Progress
<1> QED BY <1>8, <1>9, <1>11 DEF Control

LEMMA SignalQuitControl ==
    ASSUME Control, NEW w \in Workers, SignalQuit(w)
    PROVE  Control'
<1>1. /\ UNCHANGED <<cfg, ranges, bins, heights, outside>>
      /\ pc = "signal" /\ signals' = signals + 1
      /\ pc' = IF signals + 1 = BatchNumber THEN "returned" ELSE "signal"
      /\ worker[w] = "select" /\ worker' = [worker EXCEPT ![w] = "gone"]
  BY DEF SignalQuit, watcher
<1>2. worker \in [Workers -> {"select", "fetch", "publish", "index", "gone"}]
  BY DEF Control, Shape
<1>3. /\ worker' \in [Workers -> {"select", "fetch", "publish", "index", "gone"}]
      /\ worker'[w] = "gone" /\ \A v \in Workers \ {w} : worker'[v] = worker[v]
  BY <1>1, <1>2, SMTT(30)
<1>4. Covered' = Covered /\ Bin' = Bin
  BY <1>1 DEF Covered, Bin
<1>5. Shape'
  BY <1>1, <1>3, <1>4 DEF Control, Shape, Workers
<1>6. AtWork'
  <2>1. \A v \in Workers : heights'[v] = <<>> <=> worker'[v] \in {"select", "gone"}
    BY <1>1, <1>3 DEF Control, AtWork
  <2> QED BY <2>1 DEF AtWork, Workers
<1>7. signals = Cardinality(Gone) /\ signals < BatchNumber /\ bins = <<>> /\ ranges = <<>>
  BY <1>1 DEF Control, Progress
<1>8. Cardinality(Gone') = signals'
  BY <1>1, <1>2, <1>7, OneMoreGone
<1>9. BatchNumber \in Nat /\ signals \in Nat
  BY <1>7, WorkersCounted, ResyncAssumption
<1>10. signals + 1 # BatchNumber => signals + 1 < BatchNumber
  BY <1>7, <1>9, SMTT(30)
<1>11. Progress'
  <2>1. CASE signals + 1 = BatchNumber
    BY <1>1, <1>7, <1>8, <2>1 DEF Progress
  <2>2. CASE signals + 1 # BatchNumber
    BY <1>1, <1>7, <1>8, <1>10, <2>2 DEF Progress
  <2> QED BY <2>1, <2>2
<1> QED BY <1>5, <1>6, <1>11 DEF Control

\* A worker goes on to p with the heights hs left to do.
LEMMA WorkerControl ==
    ASSUME Control, NEW w \in Workers, worker[w] \in {"fetch", "publish", "index"},
           NEW p \in {"select", "publish", "index"}, NEW hs \in Seq(Covered),
           hs = <<>> <=> p = "select",
           worker' = [worker EXCEPT ![w] = p], heights' = [heights EXCEPT ![w] = hs],
           UNCHANGED <<main, outside>>
    PROVE  Control'
<1>1. UNCHANGED <<cfg, pc, ranges, bins, signals, outside>>
  BY DEF main
<1>2. worker \in [Workers -> {"select", "fetch", "publish", "index", "gone"}]
      /\ heights \in [Workers -> Seq(Covered)]
  BY DEF Control, Shape
<1>3. p \in {"select", "fetch", "publish", "index"} /\ worker[w] # "gone" /\ worker[w] # "select"
  OBVIOUS
<1>4. /\ Gone' = Gone
      /\ worker' \in [Workers -> {"select", "fetch", "publish", "index", "gone"}]
      /\ worker'[w] = p /\ \A v \in Workers \ {w} : worker'[v] = worker[v]
  BY <1>2, <1>3, NobodyGone
<1>5. /\ heights' \in [Workers -> Seq(Covered)] /\ heights'[w] = hs
      /\ \A v \in Workers \ {w} : heights'[v] = heights[v]
  BY <1>2, SMTT(30)
<1>6. Covered' = Covered /\ Bin' = Bin
  BY <1>1 DEF Covered, Bin
<1>7. Shape'
  BY <1>1, <1>4, <1>5, <1>6 DEF Control, Shape, Workers
<1>8. AtWork'
  <2>1. heights'[w] = <<>> <=> worker'[w] \in {"select", "gone"}
    BY <1>4, <1>5
  <2>2. \A v \in Workers \ {w} : heights'[v] = <<>> <=> worker'[v] \in {"select", "gone"}
    BY <1>4, <1>5 DEF Control, AtWork
  <2> QED BY <2>1, <2>2 DEF AtWork, Workers
<1>9. pc \notin {"reset", "clean"}
  BY <1>3 DEF Control, Progress
<1>10. Progress'
  BY <1>1, <1>4, <1>9 DEF Control, Progress
<1> QED BY <1>7, <1>8, <1>10 DEF Control

LEMMA PayloadControl ==
    ASSUME Control, NEW w \in Workers, worker[w] \in {"publish", "index"}, NextPayload(w),
           UNCHANGED <<main, outside>>
    PROVE  Control'
<1> DEFINE hs == Tail(heights[w])
           p == IF hs = <<>> THEN "select" ELSE "publish"
<1>1. heights[w] \in Seq(Covered) /\ heights[w] # <<>>
  BY DEF Control, Shape, AtWork
<1>2. hs \in Seq(Covered)
  BY <1>1, SMTT(30)
<1>3. worker' = [worker EXCEPT ![w] = p] /\ heights' = [heights EXCEPT ![w] = hs]
  BY DEF NextPayload
<1>4. p \in {"select", "publish", "index"} /\ (hs = <<>> <=> p = "select")
  OBVIOUS
<1> HIDE DEF hs, p
<1>5. worker[w] \in {"fetch", "publish", "index"}
  OBVIOUS
<1> QED BY <1>2, <1>3, <1>4, <1>5, WorkerControl

LEMMA WorkerStepControl ==
    ASSUME Control, NEW w \in Workers,
           WorkerStep(w) \/ FetchFails(w) \/ PublishFails(w) \/ IndexFails(w)
    PROVE  Control'
<1>1. heights \in [Workers -> Seq(Covered)] /\ heights[w] \in Seq(Covered)
      /\ heights = [heights EXCEPT ![w] = heights[w]]
  <2>1. heights \in [Workers -> Seq(Covered)]
    BY DEF Control, Shape
  <2> QED BY <2>1, SMTT(30)
<1>2. ASSUME worker[w] \in {"fetch", "publish"}, NEW p \in {"publish", "index"},
             worker' = [worker EXCEPT ![w] = p], UNCHANGED <<main, heights, outside>>
      PROVE  Control'
  <2>1. heights[w] # <<>>
    BY <1>2 DEF Control, AtWork
  <2>2. heights' = [heights EXCEPT ![w] = heights[w]] /\ UNCHANGED <<main, outside>>
    BY <1>1, <1>2
  <2>3. p \in {"select", "publish", "index"} /\ (heights[w] = <<>> <=> p = "select")
        /\ worker[w] \in {"fetch", "publish", "index"}
    BY <1>2, <2>1
  <2> QED BY <1>1, <1>2, <2>2, <2>3, WorkerControl
<1>3. CASE Fetch(w)
  <2>1. worker[w] = "fetch" /\ worker' = [worker EXCEPT ![w] = "publish"]
        /\ UNCHANGED <<main, heights, outside>>
    BY <1>3 DEF Fetch, watcher
  <2> QED BY <1>2, <2>1
<1>4. CASE FetchFails(w)
  <2>1. worker[w] = "fetch" /\ worker' = [worker EXCEPT ![w] = "select"]
        /\ heights' = [heights EXCEPT ![w] = <<>>] /\ UNCHANGED <<main, outside>>
    BY <1>4 DEF FetchFails, watcher
  <2>2. <<>> \in Seq(Covered)
    BY SMTT(30)
  <2> QED BY <2>1, <2>2, WorkerControl
<1>5. CASE Publish(w)
  <2>1. worker[w] = "publish" /\ UNCHANGED <<main, outside>>
    BY <1>5 DEF Publish, watcher
  <2>2. CASE cfg.direct
    <3>1. NextPayload(w)
      BY <1>5, <2>2 DEF Publish
    <3> QED BY <2>1, <3>1, PayloadControl
  <2>3. CASE ~cfg.direct
    <3>1. worker' = [worker EXCEPT ![w] = "index"] /\ UNCHANGED heights
      BY <1>5, <2>3 DEF Publish
    <3> QED BY <1>2, <2>1, <3>1
  <2> QED BY <2>2, <2>3
<1>6. CASE PublishFails(w) \/ Index(w) \/ IndexFails(w)
  <2>1. worker[w] \in {"publish", "index"} /\ NextPayload(w) /\ UNCHANGED <<main, outside>>
    BY <1>6 DEF PublishFails, Index, IndexFails, watcher
  <2> QED BY <2>1, PayloadControl
<1> QED BY <1>3, <1>4, <1>5, <1>6 DEF WorkerStep

LEMMA OutsideControl ==
    ASSUME Control, (\E b \in Blocks : OutsidePublishes(b)) \/ OutsideIndexes
    PROVE  Control'
<1>1. UNCHANGED <<main, worker, heights>> /\ outside' \subseteq ChainBlocks(cfg.chain)
  BY DEF OutsidePublishes, OutsideIndexes, pool
<1>2. UNCHANGED <<cfg, pc, ranges, bins, signals, worker, heights>>
  BY <1>1 DEF main
<1>3. Covered' = Covered /\ Bin' = Bin /\ Gone' = Gone
  BY <1>2 DEF Covered, Bin, Gone, Workers
<1>4. Shape'
  BY <1>1, <1>2, <1>3 DEF Control, Shape, Workers
<1>5. AtWork'
  BY <1>2 DEF Control, AtWork, Workers
<1>6. Progress'
  BY <1>2, <1>3 DEF Control, Progress, Workers
<1> QED BY <1>4, <1>5, <1>6 DEF Control

LEMMA NextControl ==
    ASSUME Control, [Next]_vars
    PROVE  Control'
<1>1. CASE MainStep
  BY <1>1, SetupControl, NextRangeControl, RangesDoneControl, HandOutControl, SignalQuitControl
     DEF MainStep
<1>2. CASE Faulty
  BY <1>2, SetupControl, WorkerStepControl DEF Faulty
<1>3. CASE \E w \in Workers : WorkerStep(w)
  BY <1>3, WorkerStepControl
<1>4. CASE (\E b \in Blocks : OutsidePublishes(b)) \/ OutsideIndexes
  BY <1>4, OutsideControl
<1>5. CASE UNCHANGED vars
  <2>1. UNCHANGED <<cfg, pc, ranges, bins, signals, worker, heights, outside>>
    BY <1>5 DEF vars
  <2>2. Covered' = Covered /\ Bin' = Bin /\ Gone' = Gone
    BY <2>1 DEF Covered, Bin, Gone, Workers
  <2>3. Shape' /\ AtWork'
    BY <2>1, <2>2 DEF Control, Shape, AtWork, Workers
  <2>4. Progress'
    BY <2>1, <2>2 DEF Control, Progress, Workers
  <2> QED BY <2>3, <2>4 DEF Control
<1> QED BY <1>1, <1>2, <1>3, <1>4, <1>5 DEF Next

LEMMA ControlHolds == Spec => []Control
<1>1. Init => Control
  BY InitControl
<1>2. Control /\ [Next]_vars => Control'
  BY NextControl
<1> QED BY <1>1, <1>2, PTL DEF Spec

LEMMA ControlReturn == Control => ReturnMeansDone
<1> SUFFICES ASSUME Control, pc = "returned"
             PROVE  /\ \A w \in Workers : worker[w] = "gone" /\ heights[w] = <<>>
                    /\ bins = <<>>
  BY DEF ReturnMeansDone
<1>1. bins = <<>> /\ Cardinality(Gone) = BatchNumber
  BY DEF Control, Progress
<1>2. Gone = Workers
  BY <1>1, WorkersCounted
<1>3. \A w \in Workers : worker[w] = "gone"
  BY <1>2 DEF Gone
<1>4. \A w \in Workers : heights[w] = <<>>
  BY <1>3 DEF Control, AtWork
<1> QED BY <1>1, <1>3, <1>4

\* ReturnMeansDone holds for every number of workers, batch size and faults: when
\* Resync returns, and the process ends, no worker is at work and no bin is left.
THEOREM ReturnMeansDoneHolds == Spec => []ReturnMeansDone
BY ControlHolds, ControlReturn, PTL

\* SomebodyTakes holds for every number of workers: as long as Resync runs there is
\* a worker that has not received its quit signal.
THEOREM SomebodyTakesHolds == Spec => []SomebodyTakes
<1>1. Control => SomebodyTakes
  <2> SUFFICES ASSUME Control, Running PROVE \E w \in Workers : worker[w] # "gone"
    BY DEF SomebodyTakes
  <2>1. pc \in {"reset", "clean", "ranges", "signal"}
    BY DEF Control, Shape, Running
  <2>2. 1 \in Workers /\ 0 < BatchNumber
    BY ResyncAssumption, SMTT(30) DEF Workers
  <2>3. CASE pc \in {"reset", "clean"}
    <3>1. worker[1] = "select"
      BY <2>2, <2>3 DEF Control, Progress
    <3> QED BY <2>2, <3>1
  <2>4. CASE pc \in {"ranges", "signal"}
    <3>1. Cardinality(Gone) < BatchNumber
      BY <2>2, <2>4 DEF Control, Progress
    <3>2. Gone # Workers
      BY <3>1, WorkersCounted, SMTT(30)
    <3> QED BY <3>2 DEF Gone
  <2> QED BY <2>1, <2>3, <2>4
<1> QED BY <1>1, ControlHolds, PTL

-----------------------------------------------------------------------------
(***************************************************************************)
(* What the store holds.                                                    *)
(***************************************************************************)
\* The block of a covered height, and so that of a worker at work, is one of the
\* chain.
LEMMA BlockOfHeight ==
    ASSUME Control, NEW h \in Covered
    PROVE  Canonical[cfg.chain][h] \in ChainBlocks(cfg.chain) /\ Canonical[cfg.chain][h] \in Blocks
<1>1. PICK rng \in Range(cfg.ranges) : h \in rng[1]..rng[2]
  BY DEF Covered
<1>2. PICK i \in DOMAIN cfg.ranges : rng = cfg.ranges[i]
  BY DEF Range
<1>3. /\ cfg.ranges \in Seq(Nat \X Nat) /\ cfg.chain \in {"eth", "btc"}
      /\ Valid(rng) => \A g \in rng[1]..rng[2] : Canonical[cfg.chain][g] \in ChainBlocks(cfg.chain)
  BY <1>2, ResyncAssumption DEF Control, Shape
<1>4. rng[1] \in Nat /\ rng[2] \in Nat
  <2>1. cfg.ranges[i] \in Nat \X Nat
    BY <1>3, SMTT(30)
  <2> QED BY <1>2, <2>1
<1>5. Valid(rng)
  BY <1>1, <1>4, SMTT(30) DEF Valid
<1>6. Canonical[cfg.chain][h] \in ChainBlocks(cfg.chain)
  BY <1>1, <1>3, <1>5
<1> QED BY <1>6 DEF ChainBlocks, Blocks

LEMMA BlockOfWorker ==
    ASSUME Control, NEW w \in Workers, worker[w] \in {"publish", "index"}
    PROVE  Block(w) \in ChainBlocks(cfg.chain) /\ Block(w) \in Blocks
<1>1. heights[w] \in Seq(Covered) /\ heights[w] # <<>>
  BY DEF Control, Shape, AtWork
<1>2. Head(heights[w]) \in Covered
  BY <1>1, SMTT(30)
<1> QED BY <1>2, BlockOfHeight DEF Block

\* The block that the watcher is writing is one of the chain.
LEMMA BlockOfWatcher ==
    Control => outside \subseteq Blocks /\ outside \subseteq ChainBlocks(cfg.chain)
BY DEF Control, Shape, ChainBlocks, Blocks

\* A block is upserted, and is whole from then on, unlike those that lose a
\* transaction to it.
Indexes(b) == Upserts(store, b, store') /\ exposed' = (exposed \ {b}) \cup Rivals(b)

LEMMA PublishStore ==
    ASSUME Control, store \in Sound, NEW w \in Workers, Publish(w)
    PROVE  IF cfg.direct THEN Indexes(Block(w))
           ELSE /\ Adds(store, store') /\ UNCHANGED exposed
                /\ KeysOf(Block(w), Range(Publishes(Block(w)))) \subseteq store'.ipld
<1>1. Block(w) \in Blocks
  BY BlockOfWorker DEF Publish
<1>2. CASE cfg.direct
  <2>1. store' = PublishedAndIndexed(store, Block(w))
        /\ exposed' = (exposed \ {Block(w)}) \cup Rivals(Block(w))
    BY <1>2 DEF Publish
  <2>2. Upserts(store, Block(w), store')
    BY <1>1, <2>1, DirectUpserts
  <2> QED BY <1>2, <2>1, <2>2 DEF Indexes
<1>3. CASE ~cfg.direct
  <2>1. store' = Published(store, Block(w), Range(Publishes(Block(w)))) /\ UNCHANGED exposed
    BY <1>3 DEF Publish
  <2>2. /\ Adds(store, store')
        /\ KeysOf(Block(w), Range(Publishes(Block(w)))) \subseteq store'.ipld
    BY <1>1, <2>1, PublishedAdds
  <2> QED BY <1>3, <2>1, <2>2
<1> QED BY <1>2, <1>3

LEMMA IndexStep ==
    ASSUME store \in Sound, NEW b \in Blocks, store' = Indexed(store, b),
           exposed' = IF ForeignKeysHold(Upserted(store, b))
                      THEN (exposed \ {b}) \cup Rivals(b) ELSE exposed
    PROVE  /\ Indexes(b) \/ UNCHANGED <<store, exposed>>
           /\ KeysOf(b, Range(Publishes(b))) \subseteq store.ipld => Indexes(b)
<1>1. CASE ForeignKeysHold(Upserted(store, b))
  <2>1. Upserts(store, b, store')
    BY <1>1, IndexedUpserts
  <2> QED BY <1>1, <2>1 DEF Indexes
<1>2. CASE ~ForeignKeysHold(Upserted(store, b))
  <2>1. store' = store
    BY <1>2, IndexedUpserts
  <2>2. ~(KeysOf(b, Range(Publishes(b))) \subseteq store.ipld)
    BY <1>2, IndexedUpserts
  <2> QED BY <1>2, <2>1, <2>2
<1> QED BY <1>1, <1>2

\* The store is cleaned, and the vacuum succeeds or not.
Cleans == CleanStep(pc') /\ pc' \in {"ranges", "failed"}

\* What a step does to the store.
LEMMA StoreSteps ==
    ASSUME Control, store \in Sound, Next
    PROVE  \/ UNCHANGED <<store, exposed>>
           \/ Adds(store, store') /\ UNCHANGED exposed
           \/ \E b \in Blocks : b \in ChainBlocks(cfg.chain) /\ Indexes(b)
           \/ Reset \/ Cleans
<1>1. CASE MainStep \/ ResetOrCleanFails \/ VacuumFails
  <2>1. CASE Clean \/ VacuumFails
    BY <2>1 DEF Clean, VacuumFails, CleanStep, Cleans
  <2>2. CASE \/ NextRange \/ RangesDone \/ ResetOrCleanFails
             \/ \E w \in Workers : HandOut(w) \/ SignalQuit(w)
    BY <2>2 DEF NextRange, RangesDone, ResetOrCleanFails, HandOut, SignalQuit
  <2> QED BY <1>1, <2>1, <2>2 DEF MainStep
<1>2. ASSUME NEW w \in Workers, Fetch(w) \/ FetchFails(w) \/ IndexFails(w)
      PROVE  UNCHANGED <<store, exposed>>
  BY <1>2 DEF Fetch, FetchFails, IndexFails
<1>3. ASSUME NEW w \in Workers, Publish(w)
      PROVE  \/ Adds(store, store') /\ UNCHANGED exposed
             \/ \E b \in Blocks : b \in ChainBlocks(cfg.chain) /\ Indexes(b)
  <2>1. Block(w) \in Blocks /\ Block(w) \in ChainBlocks(cfg.chain)
    BY <1>3, BlockOfWorker DEF Publish
  <2> QED BY <1>3, <2>1, PublishStore
<1>4. ASSUME NEW w \in Workers, PublishFails(w)
      PROVE  Adds(store, store') /\ UNCHANGED exposed
  <2>1. Block(w) \in Blocks /\ UNCHANGED exposed
    BY <1>4, BlockOfWorker DEF PublishFails
  <2>2. PICK n : store' = Published(store, Block(w), Range(SubSeq(Publishes(Block(w)), 1, n)))
    BY <1>4 DEF PublishFails
  <2> QED BY <2>1, <2>2, PublishedAdds
<1>5. ASSUME NEW w \in Workers, Index(w)
      PROVE  \/ UNCHANGED <<store, exposed>>
             \/ \E b \in Blocks : b \in ChainBlocks(cfg.chain) /\ Indexes(b)
  <2>1. Block(w) \in Blocks /\ Block(w) \in ChainBlocks(cfg.chain)
    BY <1>5, BlockOfWorker DEF Index
  <2>2. /\ store' = Indexed(store, Block(w))
        /\ exposed' = IF ForeignKeysHold(Upserted(store, Block(w)))
                      THEN (exposed \ {Block(w)}) \cup Rivals(Block(w)) ELSE exposed
    BY <1>5 DEF Index
  <2>3. Indexes(Block(w)) \/ UNCHANGED <<store, exposed>>
    BY <2>1, <2>2, IndexStep
  <2> QED BY <2>1, <2>3
<1>6. ASSUME NEW b \in Blocks, OutsidePublishes(b)
      PROVE  Adds(store, store') /\ UNCHANGED exposed
  <2>1. store' = Published(store, b, Range(Publishes(b))) /\ UNCHANGED exposed
    BY <1>6 DEF OutsidePublishes
  <2> QED BY <2>1, PublishedAdds
<1>7. ASSUME OutsideIndexes
      PROVE  \/ UNCHANGED <<store, exposed>>
             \/ \E b \in Blocks : b \in ChainBlocks(cfg.chain) /\ Indexes(b)
  <2>1. PICK b \in outside :
             /\ store' = Indexed(store, b)
             /\ exposed' = IF ForeignKeysHold(Upserted(store, b))
                           THEN (exposed \ {b}) \cup Rivals(b) ELSE exposed
    BY <1>7 DEF OutsideIndexes
  <2>2. b \in Blocks /\ b \in ChainBlocks(cfg.chain)
    BY BlockOfWatcher
  <2>3. Indexes(b) \/ UNCHANGED <<store, exposed>>
    BY <2>1, <2>2, IndexStep
  <2> QED BY <2>2, <2>3
<1> QED BY <1>1, <1>2, <1>3, <1>4, <1>5, <1>6, <1>7 DEF Next, Faulty, WorkerStep

-----------------------------------------------------------------------------
\* The rows belong to blocks of the chain.
Mine == \A r \in store.rows : r.block \in ChainBlocks(cfg.chain)

\* The rows of the store and their IPLDs belong together, a block is whole or
\* exposed, and no row is there twice.
Contents == store \in Sound /\ Whole(store, exposed) /\ Unique(store) /\ Mine

\* The blocks that have lost a transaction after n blocks of the past.
Lost(past, n) == {b \in Blocks : \E i, j \in 1..n : i < j /\ past[i] = b /\ past[j] \in Rivals(b)}

\* What the store holds after n blocks of the past.
Remembers(past, n, st) ==
    /\ Whole(st, Lost(past, n)) /\ Unique(st)
    /\ \A b \in Blocks : Header(b) \in st.rows => \E i \in 1..n : past[i] = b

LEMMA PastStep ==
    ASSUME NEW n \in Nat, n > 0, NEW past, past[n] \in Blocks, NEW st, NEW new,
           Upserts(st, past[n], new), Remembers(past, n - 1, st)
    PROVE  Remembers(past, n, new)
<1> DEFINE b == past[n]
<1>0. n \in 1..n /\ \A i \in 1..(n - 1) : i \in 1..n /\ i < n
  BY SMTT(30)
<1>1. Unique(new)
  BY UpsertsUnique DEF Remembers
<1>2. ASSUME NEW c \in Blocks, Header(c) \in new.rows, c # b
      PROVE  \E i \in 1..(n - 1) : past[i] = c
  BY <1>2, OtherHeader DEF Remembers
<1>3. ASSUME NEW c \in Blocks, Header(c) \in new.rows
      PROVE  \E i \in 1..n : past[i] = c
  BY <1>0, <1>2, <1>3
<1>4. Whole(new, (Lost(past, n - 1) \ {b}) \cup {c \in Blocks \ {b} : TxId[c] = TxId[b]})
  BY UpsertsWhole DEF Remembers
<1>5. Lost(past, n - 1) \subseteq Lost(past, n)
  BY <1>0 DEF Lost
<1>6. ASSUME NEW c \in Blocks, Header(c) \in new.rows, c # b, TxId[c] = TxId[b]
      PROVE  c \in Lost(past, n)
  <2>1. PICK i \in 1..(n - 1) : past[i] = c
    BY <1>2, <1>6
  <2>2. b \in Rivals(c)
    BY <1>6 DEF Rivals
  <2> QED BY <1>0, <2>1, <2>2 DEF Lost
<1>7. Whole(new, Lost(past, n))
  <2> SUFFICES ASSUME NEW c \in Blocks \ Lost(past, n), Header(c) \in new.rows
               PROVE  RowsOf(c) \subseteq new.rows
    BY DEF Whole
  <2> DEFINE ex == (Lost(past, n - 1) \ {b}) \cup {d \in Blocks \ {b} : TxId[d] = TxId[b]}
  <2>1. c \notin ex
    BY <1>5, <1>6
  <2> HIDE DEF ex, b
  <2> QED BY <1>4, <2>1 DEF Whole, ex
<1> QED BY <1>1, <1>3, <1>7 DEF Remembers

LEMMA PastRemembered ==
    ASSUME NEW past \in Seq(Blocks)
    PROVE  LET st == ForEach(PublishedAndIndexed, EmptyStore, past)
           IN  st \in Sound /\ Remembers(past, Len(past), st)
<1> DEFINE N == Len(past)
           st == ForEach(PublishedAndIndexed, EmptyStore, past)
<1>1. N \in Nat /\ N \in 0..N /\ \A n \in 1..N : past[n] \in Blocks
  BY SMTT(30)
<1>2. \A n \in 1..N : n \in Nat /\ n > 0 /\ n - 1 \in 0..N
  BY <1>1, SMTT(30)
<1>3. PICK v : PastRun(past, v)
  BY PastSteps
<1>4. /\ v \in [0..N -> Sound] /\ v[0] = EmptyStore
      /\ \A n \in 1..N : v[n] = PublishedAndIndexed(v[n - 1], past[n])
      /\ st = v[N]
  BY <1>3 DEF PastRun
<1> DEFINE P == {n \in 0..N : Remembers(past, n, v[n])}
<1>5. 0 \in P
  <2>1. EmptyStore.rows = {} /\ 0 \in 0..N
    BY <1>1, SMTT(30) DEF EmptyStore
  <2>2. Remembers(past, 0, EmptyStore)
    BY <2>1 DEF Remembers, Whole, Unique
  <2> QED BY <1>4, <2>1, <2>2
<1> HIDE DEF N, st
<1>6. ASSUME NEW n \in 1..N, n - 1 \in P PROVE n \in P
  <2>1. v[n - 1] \in Sound /\ past[n] \in Blocks /\ n \in 0..N
    <3>1. n \in 0..N
      BY <1>1, SMTT(30)
    <3> QED BY <1>1, <1>2, <1>4, <3>1
  <2>2. Upserts(v[n - 1], past[n], v[n])
    BY <1>4, <2>1, DirectUpserts
  <2>3. Remembers(past, n - 1, v[n - 1])
    BY <1>6
  <2>4. Remembers(past, n, v[n])
    BY <1>2, <2>1, <2>2, <2>3, PastStep
  <2> QED BY <2>1, <2>4
<1>7. \A n \in 0..N : n \in P
  <2> HIDE DEF P
  <2> QED BY <1>1, <1>5, <1>6, Stepwise
<1>8. st \in Sound /\ Remembers(past, N, st)
  BY <1>1, <1>4, <1>7
<1> QED BY <1>8 DEF N, st

LEMMA InitContents == Init => Contents
<1> SUFFICES ASSUME Init PROVE Contents
  OBVIOUS
<1> DEFINE mine == ChainBlocks(cfg.chain)
<1>1. PICK n \in 0..Cardinality(mine) : \E past \in [1..n -> mine] :
         /\ store = ForEach(PublishedAndIndexed, EmptyStore, past)
         /\ exposed = {b \in Blocks : \E i, j \in DOMAIN past :
                          i < j /\ past[i] = b /\ past[j] \in Rivals(b)}
  BY DEF Init
<1>2. PICK past \in [1..n -> mine] :
         /\ store = ForEach(PublishedAndIndexed, EmptyStore, past)
         /\ exposed = {b \in Blocks : \E i, j \in DOMAIN past :
                          i < j /\ past[i] = b /\ past[j] \in Rivals(b)}
  BY <1>1
<1>3. mine \subseteq Blocks
  BY DEF ChainBlocks, Blocks
<1>4. n \in Nat
  <2>1. IsFiniteSet(mine)
    BY <1>3, ResyncAssumption, FS_Subset
  <2>2. Cardinality(mine) \in Nat
    BY <2>1, FS_CardinalityType
  <2> HIDE DEF mine
  <2> QED BY <2>2, SMTT(30)
<1> HIDE DEF mine
<1>5. past \in Seq(Blocks) /\ Len(past) = n /\ DOMAIN past = 1..n
  <2>1. past \in [1..n -> Blocks]
    BY <1>3
  <2> QED BY <1>4, <2>1, SMTT(30)
<1>6. exposed = Lost(past, n)
  BY <1>2, <1>5 DEF Lost
<1>7. store \in Sound /\ Remembers(past, n, store)
  BY <1>2, <1>5, PastRemembered
<1>8. ASSUME NEW r \in store.rows PROVE r.block \in mine
  <2>1. r.block \in Blocks /\ Header(r.block) \in store.rows
    BY <1>7, HeaderOfStore
  <2>2. PICK i \in 1..n : past[i] = r.block
    BY <1>7, <2>1 DEF Remembers
  <2> QED BY <2>2
<1> QED BY <1>6, <1>7, <1>8 DEF Contents, Remembers, Mine, mine

LEMMA CleanContents ==
    ASSUME Control, Contents, Cleans
    PROVE  Contents'
<1> DEFINE R == Nat \X Nat
<1>1. /\ cfg.chain \in {"eth", "btc"}
      /\ cfg.data \in IF cfg.chain = "eth" THEN EthTypes ELSE BtcTypes
      /\ cfg.ranges \in Seq(R)
  BY ResyncAssumption DEF Control, Shape
<1>2. store \in Sound /\ Whole(store, exposed) /\ Unique(store)
  BY DEF Contents
<1>3. store' = Cleaned(store, cfg.chain, cfg.ranges, cfg.data)
  BY DEF Cleans, CleanStep
<1>4. store' \in CutAll(store, cfg.chain, cfg.ranges)
  <2> HIDE DEF R
  <2> QED BY <1>1, <1>2, <1>3, CleanedStore
<1>5. /\ store' \in Sound /\ store'.rows \subseteq store.rows
      /\ \A r \in store.rows \ store'.rows :
           \E n \in DOMAIN cfg.ranges : Hit(r.block, cfg.chain, cfg.ranges[n])
  BY <1>4 DEF CutAll
<1>6. Unique(store')
  BY <1>2, <1>5 DEF Unique
<1>7. ASSUME NEW b \in Blocks, b \notin exposed', Header(b) \in store'.rows
      PROVE  RowsOf(b) \subseteq store'.rows
  <2>1. b \notin exposed /\ b \notin Exposed
    BY <1>7 DEF Cleans, CleanStep
  <2>2. RowsOf(b) \subseteq store.rows
    BY <1>2, <1>5, <1>7, <2>1 DEF Whole
  <2>3. ASSUME NEW r \in RowsOf(b), r \notin store'.rows PROVE FALSE
    <3>1. r.block = b
      BY RowOfBlock
    <3>2. PICK n \in DOMAIN cfg.ranges : Hit(b, cfg.chain, cfg.ranges[n])
      BY <1>5, <2>2, <2>3, <3>1
    <3>3. cfg.ranges[n] \in Range(cfg.ranges)
      BY DEF Range
    <3> QED BY <2>1, <3>2, <3>3 DEF Hit, Exposed
  <2> QED BY <2>3
<1>8. Mine'
  BY <1>5 DEF Contents, Mine, Cleans, CleanStep
<1> QED BY <1>5, <1>6, <1>7, <1>8 DEF Contents, Whole

LEMMA ConfigStays == Next => UNCHANGED cfg
BY DEF Next, MainStep, Faulty, WorkerStep, Reset, Clean, CleanStep, NextRange, RangesDone,
       HandOut, SignalQuit, ResetOrCleanFails, VacuumFails, Fetch, Publish, Index,
       FetchFails, PublishFails, IndexFails, OutsidePublishes, OutsideIndexes, main

LEMMA NextContents ==
    ASSUME Control, Contents, [Next]_vars
    PROVE  Contents'
<1>1. store \in Sound /\ Whole(store, exposed) /\ Unique(store)
  BY DEF Contents
<1>0. UNCHANGED cfg /\ Mine
  BY ConfigStays DEF vars, Contents
<1>2. CASE UNCHANGED <<store, exposed>>
  BY <1>0, <1>1, <1>2 DEF Contents, Whole, Unique, Mine
<1>3. CASE Adds(store, store') /\ UNCHANGED exposed
  BY <1>0, <1>1, <1>3 DEF Contents, Adds, Whole, Unique, Mine
<1>4. ASSUME NEW b \in Blocks, b \in ChainBlocks(cfg.chain), Indexes(b)
      PROVE  Contents'
  <2>1. Upserts(store, b, store')
        /\ exposed' = (exposed \ {b}) \cup {c \in Blocks \ {b} : TxId[c] = TxId[b]}
    BY <1>4 DEF Indexes, Rivals
  <2>2. Unique(store') /\ store' \in Sound
    BY <1>1, <2>1, UpsertsUnique DEF Upserts
  <2>3. Whole(store', exposed')
    BY <1>1, <2>1, UpsertsWhole
  <2>4. ASSUME NEW r \in store'.rows PROVE r.block \in ChainBlocks(cfg'.chain)
    <3>1. r \in RowsOf(b) \/ r \in store.rows
      BY <2>1 DEF Upserts, Kept
    <3>2. r \in RowsOf(b) => r.block = b
      BY RowOfBlock
    <3> QED BY <1>0, <1>4, <3>1, <3>2 DEF Mine
  <2> QED BY <2>2, <2>3, <2>4 DEF Contents, Whole, Unique, Mine
<1>5. CASE Reset
  <2>1. store' = (IF cfg.reset THEN ValidationReset(store, cfg.chain, cfg.ranges) ELSE store)
        /\ UNCHANGED exposed
    BY <1>5 DEF Reset
  <2>2. store' \in Sound /\ store'.rows = store.rows
    <3> DEFINE new == ValidationReset(store, cfg.chain, cfg.ranges)
    <3>0. store \in Sound
      BY <1>1
    <3>1. new \in Sound /\ new.rows = store.rows
      BY <3>0, ValidationResetStore
    <3> HIDE DEF new
    <3>2. store' = new \/ store' = store
      BY <2>1 DEF new
    <3> QED BY <1>1, <3>1, <3>2
  <2> QED BY <1>0, <1>1, <2>1, <2>2 DEF Contents, Whole, Unique, Mine
<1>6. CASE Cleans
  BY <1>6, CleanContents
<1>7. CASE UNCHANGED vars
  BY <1>2, <1>7 DEF vars
<1>8. CASE Next
  BY <1>1, <1>2, <1>3, <1>4, <1>5, <1>6, <1>8, StoreSteps
<1> QED BY <1>7, <1>8

LEMMA ContentsHolds == Spec => [](Control /\ Contents)
<1>1. Init => Control /\ Contents
  BY InitControl, InitContents
<1>2. Control /\ Contents /\ [Next]_vars => Control' /\ Contents'
  BY NextControl, NextContents
<1> QED BY <1>1, <1>2, PTL DEF Spec

\* HeaderMeansWhole holds for all blocks, data and settings: a header that the
\* gap search sees has all rows of its block with it, unless a clean or the
\* takeover of a transaction has cut into it since.
THEOREM HeaderMeansWholeHolds == Spec => []HeaderMeansWhole
<1>1. Contents => HeaderMeansWhole
  BY DEF Contents, Whole, HeaderMeansWhole
<1> QED BY <1>1, ContentsHolds, PTL

-----------------------------------------------------------------------------
(***************************************************************************)
(* What a run without errors restores.                                      *)
(***************************************************************************)
\* The block of a height is in the index, and validated.
InIndex(b) == store.tv[b] > 0 /\ \A r \in RowsOf(b) : \E s \in store.rows : Same(s, r)
Done(h) == InIndex(Canonical[cfg.chain][h])

\* The height is still to be done: it is in a range Resync has not come to, in a
\* bin nobody has taken, or with a worker.
Pending(h) == \/ \E i \in DOMAIN ranges : h \in ranges[i][1]..ranges[i][2]
              \/ \E i \in DOMAIN bins : h \in Range(bins[i])
              \/ \E w \in Workers : h \in Range(heights[w])

\* What a worker has published stays until it has indexed it.
Ready == \A w \in Workers : worker[w] = "index" =>
            KeysOf(Block(w), Range(Publishes(Block(w)))) \subseteq store.ipld

\* Without errors no height is forgotten.
Restored == /\ faults \in Nat /\ Ready
            /\ faults = 0 => \A h \in Covered : Pending(h) \/ Done(h)

\* A block in the index stays there when others are added.
LEMMA IndexesKeeps ==
    ASSUME NEW b \in Blocks, Indexes(b)
    PROVE  InIndex(b)' /\ \A c \in Blocks : InIndex(c) => InIndex(c)'
<1>1. Upserts(store, b, store')
  BY DEF Indexes
<1>2. InIndex(b)'
  <2>1. store'.tv[b] > 0 /\ RowsOf(b) \subseteq store'.rows
    BY <1>1 DEF Upserts
  <2> QED BY <2>1 DEF InIndex, Same
<1>3. ASSUME NEW c \in Blocks, InIndex(c), c # b PROVE InIndex(c)'
  <2>1. store'.tv[c] > 0
    BY <1>1, <1>3 DEF Upserts, InIndex
  <2>2. ASSUME NEW r \in RowsOf(c) PROVE \E s \in store'.rows : Same(s, r)
    <3>1. PICK s \in store.rows : Same(s, r)
      BY <1>3 DEF InIndex
    <3>2. PICK n \in store'.rows : Same(n, s)
      BY <1>1, UpsertsSame
    <3> QED BY <3>1, <3>2 DEF Same
  <2> QED BY <2>1, <2>2 DEF InIndex
<1> QED BY <1>2, <1>3

LEMMA AddsKeeps ==
    ASSUME Adds(store, store') \/ UNCHANGED store
    PROVE  \A c : InIndex(c) => InIndex(c)'
BY DEF InIndex, Adds

\* Without a clean no IPLD goes.
LEMMA KeysKept ==
    ASSUME Control, store \in Sound, Next, ~Cleans
    PROVE  store.ipld \subseteq store'.ipld
<1>1. CASE UNCHANGED <<store, exposed>>
  BY <1>1
<1>2. CASE Adds(store, store')
  BY <1>2 DEF Adds
<1>3. ASSUME NEW b \in Blocks, Indexes(b) PROVE store.ipld \subseteq store'.ipld
  BY <1>3 DEF Indexes, Upserts
<1>4. CASE Reset
  <2> DEFINE new == ValidationReset(store, cfg.chain, cfg.ranges)
  <2>1. new.ipld = store.ipld
    BY ValidationResetStore
  <2> HIDE DEF new
  <2>2. store' = new \/ store' = store
    BY <1>4 DEF Reset, new
  <2> QED BY <2>1, <2>2
<1> QED BY <1>1, <1>2, <1>3, <1>4, StoreSteps

\* The bins of a range hold all its heights.
LEMMA BinsHoldRange ==
    ASSUME Shape, ranges # <<>>, NEW h, h \in Head(ranges)[1]..Head(ranges)[2]
    PROVE  LET rng == Head(ranges)
               bs == GetBlockHeightBins(rng[1], rng[2], BatchSize)
           IN  Valid(rng) /\ \E i \in DOMAIN bs : h \in Range(bs[i])
<1> DEFINE rng == Head(ranges)
           bs == GetBlockHeightBins(rng[1], rng[2], BatchSize)
<1>1. PICK i \in DOMAIN cfg.ranges : rng = cfg.ranges[i]
  <2> DEFINE R == Range(cfg.ranges)
  <2>1. ranges \in Seq(R)
    BY DEF Shape
  <2> HIDE DEF R
  <2>2. rng \in R
    BY <2>1, SMTT(30)
  <2> QED BY <2>2 DEF R, Range
<1>2. cfg.ranges \in Seq(Nat \X Nat) /\ BatchSize \in Nat \ {0}
  BY ResyncAssumption DEF Shape
<1>3. cfg.ranges[i] \in Nat \X Nat
  BY <1>2, SMTT(30)
<1> HIDE DEF rng
<1>4. rng[1] \in Nat /\ rng[2] \in Nat
  BY <1>1, <1>3
<1>5. h \in rng[1]..rng[2]
  BY DEF rng
<1>6. Valid(rng)
  BY <1>4, <1>5, SMTT(30) DEF Valid
<1>7. rng[2] + BatchSize < UintMod
  BY <1>1, <1>6, ResyncAssumption DEF Shape
<1>8. ~BinsErr(rng[1], rng[2], BatchSize)
  BY <1>2, <1>4, <1>6, SMTT(30) DEF BinsErr, Valid
<1>9. BinsPartition(rng[1], rng[2], BatchSize)
  BY <1>2, <1>4, BinsPartitionHolds
<1>10. PICK j \in DOMAIN bs : \E k \in DOMAIN bs[j] : bs[j][k] = h
  BY <1>5, <1>7, <1>8, <1>9 DEF BinsPartition
<1> HIDE DEF bs
<1>11. h \in Range(bs[j])
  BY <1>10 DEF Range
<1> QED BY <1>6, <1>11 DEF rng, bs

\* No step forgets a height, except those that take it to the index.
LEMMA SetupPending ==
    ASSUME Control, Reset \/ Clean, NEW h \in Covered
    PROVE  Pending(h)'
<1>1. ranges' = ranges /\ ranges = cfg.ranges
  BY DEF Reset, Clean, CleanStep, Control, Progress
<1>2. PICK rng \in Range(cfg.ranges) : h \in rng[1]..rng[2]
  BY DEF Covered
<1>3. PICK i \in DOMAIN cfg.ranges : rng = cfg.ranges[i]
  BY DEF Range
<1> QED BY <1>1, <1>2, <1>3 DEF Pending

\* An element of a sequence is its head or in its tail.
LEMMA HeadOrTail ==
    ASSUME NEW S, NEW s \in Seq(S), NEW i \in DOMAIN s
    PROVE  /\ s # <<>>
           /\ s[i] = Head(s) \/ \E j \in DOMAIN Tail(s) : Tail(s)[j] = s[i]
<1>1. s # <<>> /\ Len(s) \in Nat /\ DOMAIN s = 1..Len(s) /\ i \in Int
  BY SMTT(30)
<1>2. CASE i = 1
  BY <1>1, <1>2, SMTT(30)
<1>3. CASE i # 1
  <2>1. i - 1 \in DOMAIN Tail(s) /\ Tail(s)[i - 1] = s[i]
    BY <1>1, <1>3, SMTT(30)
  <2> QED BY <1>1, <2>1
<1> QED BY <1>2, <1>3

LEMMA NextRangePending ==
    ASSUME Control, NextRange, NEW h, Pending(h)
    PROVE  Pending(h)'
<1>1. /\ bins = <<>> /\ ranges # <<>> /\ ranges' = Tail(ranges) /\ UNCHANGED heights
      /\ bins' = IF Valid(Head(ranges))
                 THEN GetBlockHeightBins(Head(ranges)[1], Head(ranges)[2], BatchSize) ELSE <<>>
  BY DEF NextRange, pool
<1>2. Workers' = Workers
  BY DEF Workers
<1>3. CASE \E w \in Workers : h \in Range(heights[w])
  BY <1>1, <1>2, <1>3 DEF Pending
<1>4. CASE \E i \in DOMAIN bins : h \in Range(bins[i])
  <2>1. DOMAIN bins = {}
    BY <1>1, SMTT(30)
  <2> QED BY <1>4, <2>1
<1>5. CASE \E i \in DOMAIN ranges : h \in ranges[i][1]..ranges[i][2]
  <2>1. PICK i \in DOMAIN ranges : h \in ranges[i][1]..ranges[i][2]
    BY <1>5
  <2>2. CASE ranges[i] = Head(ranges)
    <3>0. h \in Head(ranges)[1]..Head(ranges)[2] /\ Shape
      BY <2>1, <2>2 DEF Control
    <3> DEFINE bs == GetBlockHeightBins(Head(ranges)[1], Head(ranges)[2], BatchSize)
    <3>1. Valid(Head(ranges)) /\ \E j \in DOMAIN bs : h \in Range(bs[j])
      BY <1>1, <3>0, BinsHoldRange
    <3> HIDE DEF bs
    <3>2. bins' = bs
      BY <1>1, <3>1 DEF bs
    <3> QED BY <3>1, <3>2 DEF Pending
  <2>3. CASE \E j \in DOMAIN Tail(ranges) : Tail(ranges)[j] = ranges[i]
    BY <1>1, <2>1, <2>3 DEF Pending
  <2>4. ranges[i] = Head(ranges) \/ \E j \in DOMAIN Tail(ranges) : Tail(ranges)[j] = ranges[i]
    <3> DEFINE R == Range(cfg.ranges)
    <3>1. ranges \in Seq(R)
      BY DEF Control, Shape
    <3> HIDE DEF R
    <3> QED BY <3>1, HeadOrTail
  <2> QED BY <2>2, <2>3, <2>4
<1> QED BY <1>3, <1>4, <1>5 DEF Pending

LEMMA HandOutPending ==
    ASSUME Control, NEW w \in Workers, HandOut(w), NEW h, Pending(h)
    PROVE  Pending(h)'
<1>1. /\ worker[w] = "select" /\ heights' = [heights EXCEPT ![w] = Head(bins)]
      /\ bins' = Tail(bins) /\ UNCHANGED ranges
  BY DEF HandOut
<1>2. /\ Workers' = Workers /\ heights \in [Workers -> Seq(Covered)] /\ heights[w] = <<>>
      /\ bins \in Seq(Bin)
  BY <1>1 DEF Workers, Control, Shape, AtWork
<1>3. heights'[w] = Head(bins) /\ \A v \in Workers \ {w} : heights'[v] = heights[v]
  BY <1>1, <1>2, SMTT(30)
<1>4. CASE \E i \in DOMAIN ranges : h \in ranges[i][1]..ranges[i][2]
  BY <1>1, <1>4 DEF Pending
<1>5. CASE \E v \in Workers : h \in Range(heights[v])
  <2>1. PICK v \in Workers : h \in Range(heights[v])
    BY <1>5
  <2>2. Range(heights[w]) = {}
    <3>1. DOMAIN heights[w] = {}
      BY <1>2, SMTT(30)
    <3> QED BY <3>1 DEF Range
  <2>3. heights'[v] = heights[v]
    BY <1>3, <2>1, <2>2
  <2> QED BY <1>2, <2>1, <2>3 DEF Pending
<1>6. CASE \E i \in DOMAIN bins : h \in Range(bins[i])
  <2>1. PICK i \in DOMAIN bins : h \in Range(bins[i])
    BY <1>6
  <2>2. bins[i] = Head(bins) \/ \E j \in DOMAIN Tail(bins) : Tail(bins)[j] = bins[i]
    BY <1>2, HeadOrTail
  <2>3. CASE bins[i] = Head(bins)
    BY <1>2, <1>3, <2>1, <2>3 DEF Pending
  <2>4. CASE \E j \in DOMAIN Tail(bins) : Tail(bins)[j] = bins[i]
    BY <1>1, <2>1, <2>4 DEF Pending
  <2> QED BY <2>2, <2>3, <2>4
<1> QED BY <1>4, <1>5, <1>6 DEF Pending

\* A worker goes on with the next payload; the height it leaves is that of its block.
LEMMA PayloadPending ==
    ASSUME Control, NEW w \in Workers, worker[w] \in {"publish", "index"}, NextPayload(w),
           UNCHANGED main, NEW h, Pending(h)
    PROVE  Pending(h)' \/ h = Head(heights[w])
<1>1. heights' = [heights EXCEPT ![w] = Tail(heights[w])] /\ UNCHANGED <<bins, ranges>>
  BY DEF NextPayload, main
<1>2. heights \in [Workers -> Seq(Covered)] /\ Workers' = Workers
  BY DEF Control, Shape, Workers
<1>3. heights'[w] = Tail(heights[w]) /\ \A v \in Workers \ {w} : heights'[v] = heights[v]
  BY <1>1, <1>2, SMTT(30)
<1>4. CASE h \in Range(heights[w])
  <2>1. PICK i \in DOMAIN heights[w] : heights[w][i] = h
    BY <1>4 DEF Range
  <2>2. heights[w][i] = Head(heights[w])
        \/ \E j \in DOMAIN Tail(heights[w]) : Tail(heights[w])[j] = heights[w][i]
    BY <1>2, HeadOrTail
  <2>3. CASE \E j \in DOMAIN Tail(heights[w]) : Tail(heights[w])[j] = heights[w][i]
    <3>1. h \in Range(Tail(heights[w]))
      BY <2>1, <2>3 DEF Range
    <3> QED BY <1>2, <1>3, <3>1 DEF Pending
  <2> QED BY <2>1, <2>2, <2>3
<1>5. CASE h \notin Range(heights[w])
  BY <1>1, <1>2, <1>3, <1>5 DEF Pending
<1> QED BY <1>4, <1>5

\* What is done stays done.
LEMMA DoneStays ==
    ASSUME Control, UNCHANGED cfg, NEW h \in Covered, Done(h),
           Adds(store, store') \/ UNCHANGED store \/ \E b \in Blocks : Indexes(b)
    PROVE  Done(h)'
<1>1. PICK c \in Blocks : c = Canonical[cfg.chain][h]
  BY BlockOfHeight
<1>2. InIndex(c)
  BY <1>1 DEF Done
<1>3. InIndex(c)'
  BY <1>2, AddsKeeps, IndexesKeeps
<1>4. c = Canonical[cfg'.chain][h]
  BY <1>1
<1> QED BY <1>3, <1>4 DEF Done, InIndex

\* What a worker indexes is done.
LEMMA IndexesDone ==
    ASSUME Control, UNCHANGED cfg, NEW w \in Workers, worker[w] \in {"publish", "index"},
           Indexes(Block(w)), NEW h, h = Head(heights[w])
    PROVE  Done(h)'
<1>1. PICK b \in Blocks : b = Block(w)
  BY BlockOfWorker
<1>2. InIndex(b)'
  BY <1>1, IndexesKeeps
<1>3. b = Canonical[cfg'.chain][h]
  BY <1>1 DEF Block
<1> QED BY <1>2, <1>3 DEF Done, InIndex

\* A worker that is about to index has published, in this step or before.
LEMMA AboutToIndex ==
    ASSUME Control, Next, NEW v \in Workers, worker'[v] = "index"
    PROVE  /\ UNCHANGED cfg /\ heights'[v] = heights[v]
           /\ worker[v] = "index" \/ (Publish(v) /\ ~cfg.direct)
<1>0. /\ worker \in [Workers -> {"select", "fetch", "publish", "index", "gone"}]
      /\ heights \in [Workers -> Seq(Covered)]
  BY DEF Control, Shape
<1>1. CASE UNCHANGED <<cfg, worker, heights>>
  BY <1>1
<1>2. ASSUME NEW w \in Workers, NEW p, p # "index", UNCHANGED cfg,
             worker' = [worker EXCEPT ![w] = p],
             NEW hs, heights' = [heights EXCEPT ![w] = hs]
      PROVE  UNCHANGED cfg /\ heights'[v] = heights[v] /\ worker[v] = "index"
  <2>1. worker'[w] = p
    BY <1>0, <1>2, SMTT(30)
  <2>2. v # w
    BY <1>2, <2>1
  <2> QED BY <1>0, <1>2, <2>2, SMTT(30)
<1>3. ASSUME NEW w \in Workers, NextPayload(w), UNCHANGED cfg
      PROVE  UNCHANGED cfg /\ heights'[v] = heights[v] /\ worker[v] = "index"
  <2> DEFINE p == IF Tail(heights[w]) = <<>> THEN "select" ELSE "publish"
             hs == Tail(heights[w])
  <2>1. p # "index" /\ worker' = [worker EXCEPT ![w] = p] /\ heights' = [heights EXCEPT ![w] = hs]
    BY <1>3 DEF NextPayload
  <2> HIDE DEF p, hs
  <2> QED BY <1>2, <1>3, <2>1
<1>4. CASE Reset \/ Clean \/ NextRange \/ RangesDone \/ ResetOrCleanFails \/ VacuumFails
           \/ OutsideIndexes \/ \E b \in Blocks : OutsidePublishes(b)
  BY <1>1, <1>4 DEF Reset, Clean, CleanStep, NextRange, RangesDone, ResetOrCleanFails,
                    VacuumFails, OutsideIndexes, OutsidePublishes, main, pool
<1>5. ASSUME NEW w \in Workers, HandOut(w) \/ FetchFails(w)
      PROVE  UNCHANGED cfg /\ heights'[v] = heights[v] /\ worker[v] = "index"
  BY <1>2, <1>5 DEF HandOut, FetchFails, main
<1>6. ASSUME NEW w \in Workers, SignalQuit(w) \/ Fetch(w)
      PROVE  UNCHANGED cfg /\ heights'[v] = heights[v] /\ worker[v] = "index"
  <2>1. PICK p : p # "index" /\ worker' = [worker EXCEPT ![w] = p]
    BY <1>6 DEF SignalQuit, Fetch
  <2>2. UNCHANGED <<cfg, heights>> /\ heights' = [heights EXCEPT ![w] = heights[w]]
    <3>1. UNCHANGED <<cfg, heights>>
      BY <1>6 DEF SignalQuit, Fetch, main
    <3> QED BY <1>0, <3>1, SMTT(30)
  <2> QED BY <1>2, <2>1, <2>2
<1>7. ASSUME NEW w \in Workers, Index(w) \/ PublishFails(w) \/ IndexFails(w)
      PROVE  UNCHANGED cfg /\ heights'[v] = heights[v] /\ worker[v] = "index"
  BY <1>3, <1>7 DEF Index, PublishFails, IndexFails, main
<1>8. ASSUME NEW w \in Workers, Publish(w)
      PROVE  /\ UNCHANGED cfg /\ heights'[v] = heights[v]
             /\ worker[v] = "index" \/ (Publish(v) /\ ~cfg.direct)
  <2>1. UNCHANGED cfg
    BY <1>8 DEF Publish, main
  <2>2. CASE cfg.direct
    BY <1>3, <1>8, <2>1, <2>2 DEF Publish
  <2>3. CASE ~cfg.direct
    <3>1. UNCHANGED heights /\ worker' = [worker EXCEPT ![w] = "index"]
      BY <1>8, <2>3 DEF Publish
    <3>2. CASE v = w
      BY <1>8, <2>1, <2>3, <3>1, <3>2
    <3>3. CASE v # w
      <4>1. worker'[v] = worker[v]
        BY <1>0, <3>1, <3>3, SMTT(30)
      <4> QED BY <2>1, <3>1, <4>1
    <3> QED BY <3>2, <3>3
  <2> QED BY <2>2, <2>3
<1> QED BY <1>4, <1>5, <1>6, <1>7, <1>8 DEF Next, MainStep, Faulty, WorkerStep

LEMMA NextReady ==
    ASSUME Control, store \in Sound, Ready, Next
    PROVE  Ready'
<1> SUFFICES ASSUME NEW v \in Workers, worker'[v] = "index"
             PROVE  (KeysOf(Block(v), Range(Publishes(Block(v)))) \subseteq store.ipld)'
  BY DEF Ready, Workers
<1>1. /\ UNCHANGED cfg /\ heights'[v] = heights[v]
      /\ worker[v] = "index" \/ (Publish(v) /\ ~cfg.direct)
  BY AboutToIndex
<1>2. PICK b : b = Block(v) /\ b = Block(v)'
  BY <1>1 DEF Block
<1>3. ~Cleans
  BY <1>1 DEF Cleans, CleanStep, Publish, Control, Progress, pool
<1>4. KeysOf(b, Range(Publishes(b))) \subseteq store'.ipld
  <2>1. CASE worker[v] = "index"
    <3>1. store.ipld \subseteq store'.ipld
      BY <1>3, KeysKept
    <3>2. KeysOf(b, Range(Publishes(b))) \subseteq store.ipld
      BY <1>2, <2>1 DEF Ready
    <3> QED BY <3>1, <3>2
  <2>2. CASE Publish(v) /\ ~cfg.direct
    BY <1>2, <2>2, PublishStore
  <2> QED BY <1>1, <2>1, <2>2
<1> QED BY <1>2, <1>4

\* A step without an error forgets no height.
LEMMA NothingForgotten ==
    ASSUME Control, store \in Sound, Ready, Next, ~Faulty, NEW h \in Covered, Pending(h) \/ Done(h)
    PROVE  Pending(h)' \/ Done(h)'
<1>0. /\ Workers' = Workers
      /\ UNCHANGED <<ranges, bins, heights>> /\ Pending(h) => Pending(h)'
  BY DEF Workers, Pending
<1>1. CASE Reset \/ Clean
  BY <1>1, SetupPending
<1>2. CASE NextRange
  <2>1. UNCHANGED <<cfg, store>>
    BY <1>2 DEF NextRange
  <2> QED BY <1>2, <2>1, NextRangePending, DoneStays
<1>3. ASSUME NEW w \in Workers, HandOut(w) PROVE Pending(h)' \/ Done(h)'
  <2>1. UNCHANGED <<cfg, store>>
    BY <1>3 DEF HandOut
  <2> QED BY <1>3, <2>1, HandOutPending, DoneStays
<1>4. CASE RangesDone \/ \E w \in Workers : SignalQuit(w) \/ Fetch(w)
  <2>1. UNCHANGED <<cfg, store, ranges, bins, heights>>
    BY <1>4 DEF RangesDone, SignalQuit, Fetch, main, pool
  <2> QED BY <1>0, <2>1, DoneStays
<1>5. ASSUME NEW w \in Workers, worker[w] \in {"publish", "index"}, Indexes(Block(w)),
             NextPayload(w), UNCHANGED main
      PROVE  Pending(h)' \/ Done(h)'
  <2>1. Block(w) \in Blocks
    BY <1>5, BlockOfWorker
  <2>2. UNCHANGED cfg
    BY <1>5 DEF main
  <2>3. Done(h) => Done(h)'
    BY <1>5, <2>1, <2>2, DoneStays
  <2>4. Pending(h) => Pending(h)' \/ h = Head(heights[w])
    BY <1>5, PayloadPending
  <2>5. h = Head(heights[w]) => Done(h)'
    BY <1>5, <2>2, IndexesDone
  <2> QED BY <2>3, <2>4, <2>5
<1>6. ASSUME NEW w \in Workers, Publish(w) PROVE Pending(h)' \/ Done(h)'
  <2>1. CASE cfg.direct
    <3>1. Indexes(Block(w)) /\ worker[w] = "publish" /\ NextPayload(w) /\ UNCHANGED main
      BY <1>6, <2>1, PublishStore DEF Publish
    <3> QED BY <1>5, <3>1
  <2>2. CASE ~cfg.direct
    <3>1. Adds(store, store') /\ UNCHANGED <<main, heights>>
      BY <1>6, <2>2, PublishStore DEF Publish
    <3>2. UNCHANGED <<cfg, ranges, bins, heights>>
      BY <3>1 DEF main
    <3> QED BY <1>0, <3>1, <3>2, DoneStays
  <2> QED BY <2>1, <2>2
<1>7. ASSUME NEW w \in Workers, Index(w) PROVE Pending(h)' \/ Done(h)'
  <2> DEFINE b == Block(w)
  <2>1. /\ worker[w] = "index" /\ NextPayload(w) /\ UNCHANGED main /\ store' = Indexed(store, b)
        /\ exposed' = IF ForeignKeysHold(Upserted(store, b))
                      THEN (exposed \ {b}) \cup Rivals(b) ELSE exposed
    BY <1>7 DEF Index
  <2>2. b \in Blocks /\ KeysOf(b, Range(Publishes(b))) \subseteq store.ipld
    BY <2>1, BlockOfWorker DEF Ready
  <2>3. Indexes(b)
    <3> HIDE DEF b
    <3> QED BY <2>1, <2>2, IndexStep
  <2> QED BY <1>5, <2>1, <2>3
<1>8. CASE OutsideIndexes \/ \E b \in Blocks : OutsidePublishes(b)
  <2>1. UNCHANGED <<main, pool>>
    BY <1>8 DEF OutsideIndexes, OutsidePublishes
  <2>2. UNCHANGED <<cfg, ranges, bins, heights>>
    BY <2>1 DEF main, pool
  <2>3. ~Reset /\ ~Cleans
    <3>1. pc' = pc
      BY <2>1 DEF main
    <3> QED BY <3>1 DEF Reset, Cleans, CleanStep
  <2> QED BY <1>0, <2>2, <2>3, StoreSteps, DoneStays
<1> QED BY <1>1, <1>2, <1>3, <1>4, <1>6, <1>7, <1>8 DEF Next, MainStep, WorkerStep

LEMMA InitRestored == Init => Restored
<1> SUFFICES ASSUME Init PROVE Restored
  OBVIOUS
<1>1. /\ faults = 0 /\ ranges = cfg.ranges /\ worker = [w \in Workers |-> "select"]
  BY DEF Init
<1>2. Ready
  BY <1>1 DEF Ready
<1>3. ASSUME NEW h \in Covered PROVE Pending(h)
  <2>1. PICK rng \in Range(cfg.ranges) : h \in rng[1]..rng[2]
    BY DEF Covered
  <2>2. PICK i \in DOMAIN cfg.ranges : rng = cfg.ranges[i]
    BY DEF Range
  <2> QED BY <1>1, <2>1, <2>2 DEF Pending
<1>4. faults \in Nat
  BY <1>1
<1> QED BY <1>2, <1>3, <1>4 DEF Restored

LEMMA NextRestored ==
    ASSUME Control, store \in Sound, Restored, [Next]_vars
    PROVE  Restored'
<1>1. CASE UNCHANGED vars
  <2>1. UNCHANGED <<store, cfg, ranges, bins, worker, heights, faults>>
    BY <1>1 DEF vars
  <2> QED BY <2>1 DEF Restored, Ready, Pending, Done, InIndex, Covered, Block, Workers
<1>2. CASE Next
  <2>1. Ready' /\ faults \in Nat
    BY <1>2, NextReady DEF Restored
  <2>2. UNCHANGED cfg
    BY <1>2, ConfigStays
  <2>3. Covered' = Covered
    BY <2>2 DEF Covered
  <2>4. CASE Faulty
    <3>1. faults' = faults + 1
      BY <2>4 DEF Faulty, ResetOrCleanFails, VacuumFails, FetchFails, PublishFails,
                 IndexFails, Fault
    <3>2. faults' \in Nat /\ faults' # 0
      BY <2>1, <3>1, SMTT(30)
    <3> QED BY <2>1, <3>2 DEF Restored
  <2>5. CASE ~Faulty
    <3>1. UNCHANGED faults
      BY <1>2, <2>5 DEF Next, MainStep, WorkerStep, Reset, Clean, NextRange, RangesDone,
                HandOut, SignalQuit, Fetch, Publish, Index, OutsidePublishes, OutsideIndexes
    <3>2. ASSUME faults = 0, NEW h \in Covered PROVE Pending(h)' \/ Done(h)'
      <4>1. Ready /\ (Pending(h) \/ Done(h))
        BY <3>2 DEF Restored
      <4> QED BY <1>2, <2>5, <4>1, NothingForgotten
    <3> QED BY <2>1, <2>3, <3>1, <3>2 DEF Restored
  <2> QED BY <2>4, <2>5
<1> QED BY <1>1, <1>2

LEMMA RestoredHolds == Spec => [](Control /\ Contents /\ Restored)
<1>1. Init => Control /\ Contents /\ Restored
  BY InitControl, InitContents, InitRestored
<1>2. Contents => store \in Sound
  BY DEF Contents
<1>3. Control /\ Contents /\ Restored /\ [Next]_vars => Control' /\ Contents' /\ Restored'
  BY <1>2, NextControl, NextContents, NextRestored
<1> QED BY <1>1, <1>3, PTL DEF Spec

\* ResyncRestores holds for all blocks, settings, numbers of workers and batch
\* sizes: a Resync that returns after a run without errors has passed every
\* height of its ranges to a worker and through the index, whatever the clean
\* deleted before and the watcher wrote meanwhile.
THEOREM ResyncRestoresHolds == Spec => []ResyncRestores
<1>1. Control /\ Restored => ResyncRestores
  <2> SUFFICES ASSUME Control, Restored, pc = "returned", faults = 0, NEW h \in Covered
               PROVE  Done(h)
    BY DEF ResyncRestores, Done, InIndex, Same
  <2>1. ranges = <<>> /\ bins = <<>> /\ \A w \in Workers : heights[w] = <<>>
    <3>1. ReturnMeansDone
      BY ControlReturn
    <3> QED BY <3>1 DEF ReturnMeansDone, Control, Progress
  <2>2. DOMAIN ranges = {} /\ DOMAIN bins = {} /\ \A w \in Workers : DOMAIN heights[w] = {}
    BY <2>1, SMTT(30)
  <2>3. ~Pending(h)
    BY <2>2 DEF Pending, Range
  <2> QED BY <2>3 DEF Restored
<1> QED BY <1>1, RestoredHolds, PTL

-----------------------------------------------------------------------------
(***************************************************************************)
(* What COMMIT accepts.                                                     *)
(***************************************************************************)
\* The clean of the command has not run, and may not run any more.
NotCleaned == ~cfg.clear \/ pc \in {"reset", "clean"}

\* What the watcher has published stays until a clean.
WatcherReady == NotCleaned => \A b \in outside : KeysOf(b, Range(Publishes(b))) \subseteq store.ipld

LEMMA NotCleanedKeeps ==
    ASSUME Control, store \in Sound, Next, NotCleaned'
    PROVE  NotCleaned /\ store.ipld \subseteq store'.ipld
<1>1. UNCHANGED cfg
  BY ConfigStays
<1>2. NotCleaned
  <2>1. CASE cfg.clear
    <3>1. pc' \in {"reset", "clean"}
      BY <1>1, <2>1 DEF NotCleaned
    <3>2. pc' = pc \/ pc = "reset"
      BY <3>1 DEF Next, MainStep, Faulty, WorkerStep, Reset, Clean, CleanStep, NextRange,
             RangesDone, HandOut, SignalQuit, ResetOrCleanFails, VacuumFails, Fetch, Publish,
             Index, FetchFails, PublishFails, IndexFails, OutsidePublishes, OutsideIndexes, main
    <3> QED BY <3>1, <3>2 DEF NotCleaned
  <2> QED BY <2>1 DEF NotCleaned
<1>3. CASE ~Cleans
  BY <1>2, <1>3, KeysKept
<1>4. CASE Cleans
  <2>1. pc = "clean" /\ pc' \in {"ranges", "failed"}
    BY <1>4 DEF Cleans, CleanStep
  <2>2. ~cfg.clear
    BY <1>1, <2>1 DEF NotCleaned
  <2>3. UNCHANGED store
    <3>1. ~OutsideIndexes /\ (\A b \in Blocks : ~OutsidePublishes(b)) /\ ~(\E w \in Workers : WorkerStep(w))
      BY <2>1 DEF WorkerStep, Fetch, Publish, Index, OutsidePublishes,
             OutsideIndexes, main
    <3>2. ~\E w \in Workers : FetchFails(w) \/ PublishFails(w) \/ IndexFails(w)
      BY <2>1 DEF FetchFails, PublishFails, IndexFails, main
    <3>3. MainStep \/ ResetOrCleanFails \/ VacuumFails
      BY <3>1, <3>2 DEF Next, Faulty
    <3> QED BY <2>1, <2>2, <3>3 DEF MainStep, Reset, Clean, NextRange, RangesDone, HandOut,
                SignalQuit, ResetOrCleanFails, VacuumFails
  <2> QED BY <1>2, <2>3
<1> QED BY <1>3, <1>4

LEMMA NextWatcherReady ==
    ASSUME Control, store \in Sound, WatcherReady, [Next]_vars
    PROVE  WatcherReady'
<1>1. CASE UNCHANGED vars
  BY <1>1 DEF vars, WatcherReady, NotCleaned
<1>2. CASE Next
  <2> SUFFICES ASSUME NotCleaned', NEW b \in outside'
               PROVE  KeysOf(b, Range(Publishes(b))) \subseteq store'.ipld
    BY DEF WatcherReady
  <2>1. NotCleaned /\ store.ipld \subseteq store'.ipld
    BY <1>2, NotCleanedKeeps
  <2>2. CASE b \in outside
    BY <2>1, <2>2 DEF WatcherReady
  <2>3. CASE b \notin outside
    <3>1. \E c \in Blocks : OutsidePublishes(c)
      BY <1>2, <2>3 DEF Next, MainStep, Faulty, WorkerStep, Reset, Clean, CleanStep, NextRange,
             RangesDone, HandOut, SignalQuit, ResetOrCleanFails, VacuumFails, Fetch, Publish,
             Index, FetchFails, PublishFails, IndexFails, OutsideIndexes, watcher
    <3>2. PICK c \in Blocks : OutsidePublishes(c)
      BY <3>1
    <3>3. b = c /\ store' = Published(store, b, Range(Publishes(b)))
      BY <3>2 DEF OutsidePublishes
    <3>4. b \in Blocks
      BY <3>2, <3>3
    <3> QED BY <3>3, <3>4, PublishedAdds
  <2> QED BY <2>2, <2>3
<1> QED BY <1>1, <1>2

LEMMA WatcherReadyHolds == Spec => [](Control /\ Contents /\ Restored /\ WatcherReady)
<1>1. Init => WatcherReady
  BY DEF Init, WatcherReady
<1>2. Contents => store \in Sound
  BY DEF Contents
<1>3. Control /\ Contents /\ WatcherReady /\ [Next]_vars => WatcherReady'
  BY <1>2, NextWatcherReady
<1> QED BY <1>1, <1>3, RestoredHolds, PTL DEF Spec

\* A block published in full passes the foreign keys.
LEMMA ReadyAccepted == Control /\ Contents /\ Restored /\ WatcherReady => IndexAccepted
<1> SUFFICES ASSUME Control, store \in Sound, Ready, WatcherReady PROVE IndexAccepted
  BY DEF Contents, Restored
<1>1. store \in AllStores /\ ForeignKeysHold(store)
  BY DEF Sound
<1>2. ASSUME NEW w \in Workers, worker[w] = "index"
      PROVE  ForeignKeysHold(Upserted(store, Block(w)))
  <2>1. Block(w) \in Blocks
    BY <1>2, BlockOfWorker
  <2>2. KeysOf(Block(w), Range(Publishes(Block(w)))) \subseteq store.ipld
    BY <1>2 DEF Ready
  <2> QED BY <1>1, <2>1, <2>2, UpsertedSound
<1>3. ASSUME NEW b \in outside, NotCleaned
      PROVE  ForeignKeysHold(Upserted(store, b))
  <2>1. b \in Blocks /\ KeysOf(b, Range(Publishes(b))) \subseteq store.ipld
    BY <1>3, BlockOfWatcher DEF WatcherReady
  <2> QED BY <1>1, <2>1, UpsertedSound
<1> QED BY <1>2, <1>3 DEF IndexAccepted, NotCleaned

\* IndexAccepted holds for all blocks, shared data, settings and any number of
\* faults: only the clean takes IPLDs away, it is over before the first worker
\* publishes, and a block published in full passes the foreign keys although its
\* rows take over those of others.
THEOREM IndexAcceptedHolds == Spec => []IndexAccepted
BY WatcherReadyHolds, ReadyAccepted, PTL

-----------------------------------------------------------------------------
\* FullCleanLeavesNothing holds for all blocks and shared data: the cascade of a
\* step never takes a row before its turn without also taking its IPLD, because
\* the rows above it come later and no earlier kind is encoded like them.
THEOREM FullCleanHolds == Spec => FullCleanLeavesNothing
<1> DEFINE CleanedAway(r) == /\ ~\E s \in store'.rows : s.kind = r.kind /\ s.id = r.id
                             /\ MhKey(r) \notin store'.ipld
<1>1. ASSUME Control, Contents, cfg.data \in {"full", "headers"}, CleanStep(pc'),
             NEW r \in store.rows, NEW rng \in Range(cfg.ranges), Within(r.block, rng)
      PROVE  CleanedAway(r)
  <2>1. /\ cfg.chain \in {"eth", "btc"}
        /\ cfg.data \in IF cfg.chain = "eth" THEN EthTypes ELSE BtcTypes
        /\ cfg.ranges \in Seq(Nat \X Nat) /\ Len(cfg.ranges) = 1
    BY <1>1, ResyncAssumption, OneRange DEF Control, Shape
  <2>2. store \in Sound /\ Unique(store) /\ r.block \in ChainBlocks(cfg.chain)
    BY <1>1 DEF Contents, Mine
  <2>3. rng = cfg.ranges[1]
    <3>1. DOMAIN cfg.ranges = {1}
      BY <2>1, SMTT(30)
    <3> QED BY <3>1 DEF Range
  <2>4. store' = Cleaned(store, cfg.chain, cfg.ranges, cfg.data)
    BY <1>1 DEF CleanStep
  <2>5. Cleaned(store, cfg.chain, cfg.ranges, cfg.data) = clean(store, cfg.chain, rng, cfg.data)
    BY <2>1, <2>2, <2>3, CleanedOnce
  <2>6. r \notin store'.rows /\ MhKey(r) \notin store'.ipld
    BY <1>1, <2>1, <2>2, <2>4, <2>5, FullCleanOfRange
  <2>7. store'.rows \subseteq store.rows
    <3>1. store' \in CutAll(store, cfg.chain, cfg.ranges)
      BY <2>1, <2>2, <2>4, CleanedStore
    <3> QED BY <3>1 DEF CutAll
  <2> QED BY <1>1, <2>2, <2>6, <2>7 DEF Unique, Same
<1>2. Control /\ Contents /\ [Next]_vars =>
        [cfg.clear /\ cfg.data \in {"full", "headers"} /\ CleanStep(pc') =>
           \A r \in store.rows :
             (\E rng \in Range(cfg.ranges) : Within(r.block, rng)) => CleanedAway(r)]_vars
  BY <1>1
<1> QED BY <1>2, ContentsHolds, PTL DEF FullCleanLeavesNothing, Spec
=============================================================================
