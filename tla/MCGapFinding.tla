---------------------------- MODULE MCGapFinding ----------------------------
(***************************************************************************)
(* The gap search on small inputs: GetBlockHeightBins on every range and    *)
(* batch size of a small unsigned type, MissingHeightsToGaps on every short *)
(* ascending list (repeated heights included), and RetrieveGapsInData on    *)
(* every header table that indexing, resetting and cleaning lead to, with   *)
(* one fork per height.                                                     *)
(***************************************************************************)
EXTENDS HeaderIndex, TLC

CONSTANTS h1, h2,         \* hashes
    MaxLen, MaxListed       \* bounds: length of a list, largest height in it

ASSUME MCGapFindingAssumption == MaxLen \in Nat /\ MaxListed \in Nat

VARIABLES args,         \* startingBlock, endingBlock and batchSize of a call
          heights       \* a list of heights

gapVars == <<rows, tv, args, heights>>

TwoHashes == {h1, h2}
Symmetry == Permutations(TwoHashes)
Uint == 0..(UintMod - 1)

GapInit == EmptyTable /\ args = <<0, 0, 0>> /\ heights = <<>>

Call == /\ rows = {} /\ heights = <<>> /\ args = <<0, 0, 0>>
        /\ args' \in Uint \X Uint \X Uint
        /\ UNCHANGED <<rows, tv, heights>>

List == /\ rows = {} /\ args = <<0, 0, 0>> /\ Len(heights) < MaxLen
        /\ \E h \in 0..MaxListed :
             /\ heights # <<>> => heights[Len(heights)] <= h
             /\ heights' = Append(heights, h)
        /\ UNCHANGED <<rows, tv, args>>

Write == /\ args = <<0, 0, 0>> /\ heights = <<>>
         /\ TableNext
         /\ UNCHANGED <<args, heights>>

GapNext == Call \/ List \/ Write
GapSpec == GapInit /\ [][GapNext]_gapVars

\* GapHelpersExact: the bins of GetBlockHeightBins, for the arguments of the last
\* call, hold every height of the range once and in order, and none is empty or
\* too long (unless a bound of a bin wraps around); and the closed form of
\* MissingHeightsToGaps used by every other module returns, gap by gap and in
\* order, what the loop over lastHeight and start in utils.go appends.
GapHelpersExact ==
    /\ BinsPartition(args[1], args[2], args[3])
    /\ MissingHeightsToGaps(heights) = HeightsLoop(heights)
=============================================================================
