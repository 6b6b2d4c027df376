----------------------------- MODULE GapFinding -----------------------------
(***************************************************************************)
(* The pure part of gap detection: how the watcher decides which block     *)
(* heights it must (re)fetch and how it cuts them into batches.            *)
(*                                                                         *)
(*   utils/utils.go             GetBlockHeightBins, MissingHeightsToGaps   *)
(*   pkg/{eth,btc}/cid_retriever.go   RetrieveGapsInData and its queries   *)
(*                                                                         *)
(* A header row is a pair <<block_number, block_hash>>, the unique key of  *)
(* header_cids; two rows at one height are the two sides of a fork.  rows  *)
(* is the set of rows in the table and tv[r] is the times_validated column *)
(* of row r.  A gap is a record [start, stop], both ends included.         *)
(***************************************************************************)
EXTENDS Integers, Sequences, FiniteSets, Listings

CONSTANT UintMod   \* modulus of the uint64 arithmetic on heights (2^64)

ASSUME UintModAssumption == UintMod \in Nat \ {0}

-----------------------------------------------------------------------------
(***************************************************************************)
(* GetBlockHeightBins.  The loop advances startingBlock by batchSize modulo *)
(* 2^64, so bin i starts at startingBlock + (i-1)*batchSize and ends before *)
(* the start of the next one or at endingBlock, whichever comes first; a    *)
(* bin whose next start has wrapped around is empty.                        *)
(***************************************************************************)
BinsErr(startingBlock, endingBlock, batchSize) ==
    endingBlock < startingBlock \/ batchSize = 0

\* Mutant: the remainder is forgotten, so the last short bin is never made.
GetBlockHeightBins_NoRemainder(startingBlock, endingBlock, batchSize) ==
    LET length == (endingBlock - startingBlock + 1) % UintMod
    IN  [i \in 1..(length \div batchSize) |->
          [k \in 1..batchSize |-> startingBlock + (i - 1) * batchSize + k - 1]]

GetBlockHeightBins(startingBlock, endingBlock, batchSize) ==
    LET length == (endingBlock - startingBlock + 1) % UintMod
        numberOfBins == (length \div batchSize)
                          + (IF length % batchSize # 0 THEN 1 ELSE 0)
        binStart(i) == (startingBlock + (i - 1) * batchSize) % UintMod
        binStop(i) == IF binStart(i + 1) <= endingBlock
                      THEN binStart(i + 1) - 1 ELSE endingBlock
    IN  [i \in 1..numberOfBins |->
          [k \in 1..(binStop(i) - binStart(i) + 1) |-> binStart(i) + k - 1]]

\* BinsPartition: unless the arithmetic wraps around, the bins put end to end
\* are the heights startingBlock..endingBlock, each once and in order, and no
\* bin is empty or longer than batchSize (workers index heights[0] of a bin).
BinsPartition(startingBlock, endingBlock, batchSize) ==
    LET bins == GetBlockHeightBins(startingBlock, endingBlock, batchSize)
    IN  /\ ~BinsErr(startingBlock, endingBlock, batchSize)
        /\ endingBlock + batchSize < UintMod
        => /\ \A i \in DOMAIN bins : Len(bins[i]) \in 1..batchSize
           /\ \A h \in startingBlock..endingBlock :
                \E i \in DOMAIN bins : \E k \in DOMAIN bins[i] : bins[i][k] = h
           /\ \A i \in DOMAIN bins : \A k \in DOMAIN bins[i] :
                bins[i][k] = startingBlock + (i - 1) * batchSize + k - 1
           /\ \A i \in DOMAIN bins : \A k \in DOMAIN bins[i] :
                bins[i][k] <= endingBlock

-----------------------------------------------------------------------------
Gap(start, stop) == [start |-> start, stop |-> stop]

\* The heights of a list of gaps.
HeightsIn(gaps) == UNION {gaps[i].start..gaps[i].stop : i \in DOMAIN gaps}

\* Indexes at which a run of consecutive heights ends.
RunEnds(heights) ==
    {i \in 1..Len(heights) :
       i = Len(heights) \/ heights[i+1] # heights[i] + 1}

\* Mutant: the last run of heights is not closed when the list ends.
MissingHeightsToGaps_DropsLast(heights) ==
    LET stop(k) == Ascending(RunEnds(heights))[k]
        start(k) == IF k = 1 THEN 1 ELSE stop(k - 1) + 1
    IN  IF Len(heights) < 2 THEN <<>>
        ELSE [k \in 1..(Cardinality(RunEnds(heights)) - 1) |->
                Gap(heights[start(k)], heights[stop(k)])]

\* Mutant: start is not moved when a run breaks.
MissingHeightsToGaps_StaleStart(heights) ==
    LET stop(k) == Ascending(RunEnds(heights))[k]
    IN  IF Len(heights) < 2 THEN <<>>
        ELSE [k \in 1..Cardinality(RunEnds(heights)) |->
                Gap(heights[1], heights[stop(k)])]

\* The loop of MissingHeightsToGaps appends the gap start..lastHeight wherever
\* a run of consecutive heights breaks, and start..height at the end of the
\* list; it runs over heights[1:], so a list of one height makes no gap.
MissingHeightsToGaps(heights) ==
    LET stop(k) == Ascending(RunEnds(heights))[k]
        start(k) == IF k = 1 THEN 1 ELSE stop(k - 1) + 1
    IN  IF Len(heights) < 2 THEN <<>>
        ELSE [k \in 1..Cardinality(RunEnds(heights)) |->
                Gap(heights[start(k)], heights[stop(k)])]

\* The loop itself: after[i] is what start and validationGaps are once height
\* number i has been looked at.
HeightsLoop(heights) ==
    LET after[i \in 1..Len(heights)] ==
          IF i = 1 THEN [start |-> heights[1], gaps |-> <<>>]
          ELSE LET broken == heights[i] # heights[i-1] + 1
                   start == IF broken THEN heights[i] ELSE after[i-1].start
               IN  [start |-> start,
                    gaps |-> after[i-1].gaps
                      \o (IF broken
                          THEN <<Gap(after[i-1].start, heights[i-1])>> ELSE <<>>)
                      \o (IF i = Len(heights)
                          THEN <<Gap(start, heights[i])>> ELSE <<>>)]
    IN  IF heights = <<>> THEN <<>> ELSE after[Len(heights)].gaps

-----------------------------------------------------------------------------
(***************************************************************************)
(* The queries of RetrieveGapsInData.                                      *)
(***************************************************************************)
HeightsOf(rows) == {r[1] : r \in rows}

Least(S) == CHOOSE h \in S : \A k \in S : h <= k

\* RetrieveFirstBlockNumber; the caller has an error when the table is empty.
RetrieveFirstBlockNumber(rows) == Least(HeightsOf(rows))

\* RetrieveLastBlockNumber, with the same error on an empty table.
RetrieveLastBlockNumber(rows) ==
    CHOOSE h \in HeightsOf(rows) : \A k \in HeightsOf(rows) : k <= h

\* The self-join: heights whose successor is absent while a later one exists.
EmptyGaps(rows) ==
    LET hs == HeightsOf(rows)
        later(h) == {k \in hs : k > h}
        starts == {h \in hs : h + 1 \notin hs /\ later(h) # {}}
    IN  [i \in 1..Cardinality(starts) |->
           LET h == Ascending(starts)[i] IN Gap(h + 1, Least(later(h)) - 1)]

RowsBelow(rows, tv, validationLevel) == {r \in rows : tv[r] < validationLevel}

\* Heights of the rows below the validation level, in order, one per row: a
\* fork lists its height twice.
UnderValidatedHeights(rows, tv, validationLevel) ==
    LET under == RowsBelow(rows, tv, validationLevel)
        upTo(h) == Cardinality({r \in under : r[1] <= h})
    IN  [i \in 1..Cardinality(under) |->
           Least({h \in HeightsOf(under) : i <= upTo(h)})]

InitialGap(rows) ==
    IF RetrieveFirstBlockNumber(rows) # 0
    THEN <<Gap(0, RetrieveFirstBlockNumber(rows) - 1)>> ELSE <<>>

\* What the three statements return when nothing is committed between them.
RetrieveGapsInData(rows, tv, validationLevel) ==
    InitialGap(rows) \o EmptyGaps(rows)
      \o MissingHeightsToGaps(UnderValidatedHeights(rows, tv, validationLevel))
=============================================================================
