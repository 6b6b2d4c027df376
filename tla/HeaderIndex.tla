---------------------------- MODULE HeaderIndex -----------------------------
(***************************************************************************)
(* The header_cids table: the part of the Postgres index that gap detection *)
(* reads and that every writer (head sync, backfill, resync) updates.       *)
(*                                                                          *)
(* Each action is one committed database transaction.  Transactions,        *)
(* receipts, state and IPLD blocks are not in this module: RetrieveGapsInData*)
(* looks at header rows only.                                               *)
(***************************************************************************)
EXTENDS GapFinding

CONSTANTS MaxHeight,      \* bound: block numbers are 0..MaxHeight
          Hashes,         \* block hashes; several at one height are a fork
          MaxValidated    \* times_validated saturates here: the code only
                          \* compares it with levels up to this one

ASSUME HeaderIndexAssumption ==
    /\ MaxHeight \in Nat
    /\ MaxValidated \in Nat \ {0}
    /\ IsFiniteSet(Hashes)

VARIABLES rows,   \* rows of header_cids, by their key <<block_number, block_hash>>
          tv      \* the times_validated column (0 for a key that has no row)

Heights == 0..MaxHeight
Keys == Heights \X Hashes

\* TableTypeOK: every row has a block number and a hash, and times_validated
\* stays a number that the validation level can be compared with.
TableTypeOK == /\ rows \subseteq Keys
               /\ tv \in [Keys -> 0..MaxValidated]

EmptyTable == rows = {} /\ tv = [r \in Keys |-> 0]

-----------------------------------------------------------------------------
\* Mutant: the counter is not advanced when the row exists already.
IndexHeader_NoIncrement(r) ==
    /\ rows' = rows \cup {r}
    /\ tv' = [tv EXCEPT ![r] = IF r \in rows THEN @ ELSE 1]

\* indexHeaderCID: INSERT with times_validated 1, ON CONFLICT (block_number,
\* block_hash) times_validated + 1.  A key without a row has tv 0.
IndexHeader(r) ==
    /\ rows' = rows \cup {r}
    /\ tv' = [tv EXCEPT ![r] = IF @ < MaxValidated THEN @ + 1 ELSE @]

\* Cleaner.ResetValidation for one range.
ResetValidation(lo, hi) ==
    /\ tv' = [r \in Keys |-> IF r \in rows /\ r[1] \in lo..hi THEN 0 ELSE tv[r]]
    /\ UNCHANGED rows

\* Cleaner.Clean of type Full or Headers for one range: the header rows go.
CleanFull(lo, hi) ==
    /\ rows' = {r \in rows : r[1] \notin lo..hi}
    /\ tv' = [r \in Keys |-> IF r[1] \in lo..hi THEN 0 ELSE tv[r]]

TableNext ==
    \/ \E r \in Keys : IndexHeader(r)
    \/ \E lo, hi \in Heights : lo <= hi /\ ResetValidation(lo, hi)
    \/ \E lo, hi \in Heights : lo <= hi /\ CleanFull(lo, hi)

TableSpec == EmptyTable /\ [][TableNext]_<<rows, tv>>

-----------------------------------------------------------------------------
(***************************************************************************)
(* What RetrieveGapsInData is for, stated on sets of heights.              *)
(***************************************************************************)
Missing == IF rows = {} THEN {}
           ELSE 0..RetrieveLastBlockNumber(rows) \ HeightsOf(rows)

UnderValidated(level) == HeightsOf(RowsBelow(rows, tv, level))

\* A header is validated when its counter starts at one: a row with counter 0
\* has been reset.
Levels == 1..MaxValidated

\* GapsCover: the gaps returned by RetrieveGapsInData are exactly the heights
\* below the highest indexed one that have no header, or a header below the
\* validation level: none is forgotten, and no validated height is fetched
\* again.  The case of a single under-validated row is left out: see
\* GapsFindAll.
GapsCover ==
    \A level \in Levels :
      /\ rows # {}
      /\ Len(UnderValidatedHeights(rows, tv, level)) # 1
      => HeightsIn(RetrieveGapsInData(rows, tv, level))
           = Missing \cup UnderValidated(level)

\* GapsFindAll: what the comment on RetrieveGapsInData says without the
\* exception: "it finds the union of heights where no data exists and where
\* the times_validated is lower than the validation level".
GapsFindAll ==
    \A level \in Levels :
      rows # {} => HeightsIn(RetrieveGapsInData(rows, tv, level))
                     = Missing \cup UnderValidated(level)

\* NoOverlap: "There will be no overlap between these gaps and the ones above":
\* the gaps made of under-validated rows never reach into a range without data,
\* even when a fork lists a height twice.
NoOverlap ==
    \A level \in Levels :
      HeightsIn(MissingHeightsToGaps(UnderValidatedHeights(rows, tv, level)))
        \cap Missing = {}

\* GapsDisjoint: without forks no height is in two gaps, so that no two
\* workers of a backfill pass are given the same block; with them at least no
\* height is both in a gap of missing data and in one of under-validated data.
GapsDisjoint ==
    /\ NoOverlap
    /\ (\A r, s \in rows : r[1] = s[1] => r = s) /\ rows # {} =>
         \A level \in Levels :
           LET gaps == RetrieveGapsInData(rows, tv, level)
           IN  \A i, j \in DOMAIN gaps :
                 i # j => (gaps[i].start..gaps[i].stop)
                             \cap (gaps[j].start..gaps[j].stop) = {}
=============================================================================
