------------------------------- MODULE Resync -------------------------------
(***************************************************************************)
(* The resync command (pkg/resync/service.go, cmd/resync.go) on the store,  *)
(* beside a watcher that publishes and indexes blocks of its own.           *)
(*                                                                          *)
(* Resync resets the validation levels and cleans the range if told so,     *)
(* starts its workers, hands them bins of heights over an unbuffered        *)
(* channel and then one quit signal each over another.                      *)
(***************************************************************************)
EXTENDS IndexStore, GapFinding

CONSTANTS
    BatchSize, BatchNumber,    \* as in BackFill
    Canonical,      \* Canonical[chain][h]: the block the node returns for a height
    Configs,        \* settings: [chain, data, ranges, reset, clear, direct]
    MaxFaults,      \* bound: errors of node, converter and database
    MaxOutside      \* bound: blocks the watcher writes

Valid(rng) == rng[1] <= rng[2]

\* The node has a block for every height of the ranges, and the heights are far
\* from the end of the numbers.
ASSUME ResyncAssumption ==
    /\ BatchSize \in Nat \ {0} /\ BatchNumber \in Nat \ {0} /\ IsFiniteSet(Blocks)
    /\ \A c \in Configs :
         /\ c.chain \in {"eth", "btc"}
         /\ c.data \in IF c.chain = "eth" THEN EthTypes ELSE BtcTypes
         /\ c.ranges \in Seq(Nat \X Nat)
         /\ \A i \in DOMAIN c.ranges : Valid(c.ranges[i]) =>
              /\ c.ranges[i][2] + BatchSize < UintMod
              /\ \A h \in c.ranges[i][1]..c.ranges[i][2] :
                   Canonical[c.chain][h] \in ChainBlocks(c.chain)

\* NewConfig makes one range, of the start and the stop it is configured with.
ASSUME OneRange == \A c \in Configs : Len(c.ranges) = 1

VARIABLES
    store,
    cfg,        \* the settings
    pc,         \* where Resync is
    ranges,     \* the ranges it has not come to
    bins,       \* the bins of the current range it has not handed out
    signals,    \* quit signals sent
    worker,     \* where each worker is: "select", "fetch", "publish", "index", "gone"
    heights,    \* the heights each worker still has to do
    outside,    \* the block the watcher has published and will index
    exposed,    \* history: blocks that a clean or a takeover may have cut into
    faults, writes

vars == <<store, cfg, pc, ranges, bins, signals, worker, heights, outside,
          exposed, faults, writes>>
main == <<cfg, pc, ranges, bins, signals>>
pool == <<worker, heights>>
watcher == <<outside, writes>>

Workers == 1..BatchNumber
Running == pc \notin {"failed", "returned"}
Covered == UNION {rng[1]..rng[2] : rng \in Range(cfg.ranges)}

\* Blocks that contain the same Bitcoin transaction lose it to b.
Rivals(b) == {c \in Blocks \ {b} : TxId[c] = TxId[b]}
Fault == faults < MaxFaults /\ faults' = faults + 1

\* The store holds what was indexed before, in some order.
Init ==
    /\ cfg \in Configs
    /\ LET mine == ChainBlocks(cfg.chain) IN
       \E n \in 0..Cardinality(mine) : \E past \in [1..n -> mine] :
         /\ IsInjective(past)
         /\ store = ForEach(PublishedAndIndexed, EmptyStore, past)
         /\ exposed = {b \in Blocks : \E i, j \in DOMAIN past :
                          i < j /\ past[i] = b /\ past[j] \in Rivals(b)}
    /\ pc = "reset" /\ ranges = cfg.ranges /\ bins = <<>> /\ signals = 0
    /\ worker = [w \in Workers |-> "select"] /\ heights = [w \in Workers |-> <<>>]
    /\ outside = {} /\ faults = 0 /\ writes = 0

-----------------------------------------------------------------------------
(***************************************************************************)
(* Resync itself.                                                           *)
(***************************************************************************)
Reset ==
    /\ pc = "reset" /\ pc' = "clean"
    /\ store' = IF cfg.reset THEN ValidationReset(store, cfg.chain, cfg.ranges) ELSE store
    /\ UNCHANGED <<cfg, ranges, bins, signals, pool, watcher, exposed, faults>>

\* A clean of one type leaves the headers; a key is deleted for all who share it.
Exposed == {b \in Blocks : \E c \in ChainBlocks(cfg.chain), rng \in Range(cfg.ranges) :
                             Within(c, rng) /\ (b = c \/ Share(b, c))}

CleanStep(next) ==
    /\ pc = "clean" /\ pc' = next
    /\ store' = Cleaned(store, cfg.chain, cfg.ranges, cfg.data)
    /\ exposed' = {b \in exposed \cup Exposed : Header(b) \in store'.rows}
    /\ UNCHANGED <<cfg, ranges, bins, signals, pool, watcher>>

Clean ==
    \/ cfg.clear /\ CleanStep("ranges") /\ UNCHANGED faults
    \/ /\ pc = "clean" /\ ~cfg.clear /\ pc' = "ranges"
       /\ UNCHANGED <<store, cfg, ranges, bins, signals, pool, watcher, exposed, faults>>

\* The reset or the transaction of the clean fails: the command gives up.
ResetOrCleanFails ==
    /\ \/ pc = "reset" /\ cfg.reset
       \/ pc = "clean" /\ cfg.clear
    /\ pc' = "failed" /\ Fault
    /\ UNCHANGED <<store, cfg, ranges, bins, signals, pool, watcher, exposed>>

\* The vacuum after the clean fails: the data is gone and is not fetched again.
VacuumFails == cfg.clear /\ CleanStep("failed") /\ Fault

\* The next range; one that ends before it starts is logged and skipped.
NextRange ==
    /\ pc = "ranges" /\ bins = <<>> /\ ranges # <<>>
    /\ bins' = IF Valid(Head(ranges))
               THEN GetBlockHeightBins(Head(ranges)[1], Head(ranges)[2], BatchSize)
               ELSE <<>>
    /\ ranges' = Tail(ranges)
    /\ UNCHANGED <<store, cfg, pc, signals, pool, watcher, exposed, faults>>

HandOut(w) ==
    /\ pc = "ranges" /\ bins # <<>> /\ worker[w] = "select"
    /\ worker' = [worker EXCEPT ![w] = "fetch"]
    /\ heights' = [heights EXCEPT ![w] = Head(bins)]
    /\ bins' = Tail(bins)
    /\ UNCHANGED <<store, cfg, pc, ranges, signals, watcher, exposed, faults>>

RangesDone ==
    /\ pc = "ranges" /\ bins = <<>> /\ ranges = <<>>
    /\ pc' = "signal"
    /\ UNCHANGED <<store, cfg, ranges, bins, signals, pool, watcher, exposed, faults>>

\* Mutant: the first worker is not waited for.
SignalQuit_OneShort(w) ==
    /\ pc = "signal" /\ worker[w] = "select"
    /\ worker' = [worker EXCEPT ![w] = "gone"]
    /\ signals' = signals + 1
    /\ pc' = IF signals + 1 >= BatchNumber - 1 THEN "returned" ELSE "signal"
    /\ UNCHANGED <<store, cfg, ranges, bins, heights, watcher, exposed, faults>>

\* Mutant: one signal more than there are workers.
SignalQuit_OneExtra(w) ==
    /\ pc = "signal" /\ worker[w] = "select"
    /\ worker' = [worker EXCEPT ![w] = "gone"]
    /\ signals' = signals + 1
    /\ UNCHANGED <<store, cfg, pc, ranges, bins, heights, watcher, exposed, faults>>

\* One quit signal, received by a worker at its select; the last one ends Resync.
SignalQuit(w) ==
    /\ pc = "signal" /\ worker[w] = "select"
    /\ worker' = [worker EXCEPT ![w] = "gone"]
    /\ signals' = signals + 1
    /\ pc' = IF signals + 1 = BatchNumber THEN "returned" ELSE "signal"
    /\ UNCHANGED <<store, cfg, ranges, bins, heights, watcher, exposed, faults>>

-----------------------------------------------------------------------------
(***************************************************************************)
(* A worker.                                                                *)
(***************************************************************************)
Block(w) == Canonical[cfg.chain][Head(heights[w])]

\* On to the next payload of the bin, or back to the select.
NextPayload(w) ==
    /\ heights' = [heights EXCEPT ![w] = Tail(@)]
    /\ worker' = [worker EXCEPT ![w] = IF Tail(heights[w]) = <<>> THEN "select" ELSE "publish"]

Fetch(w) ==
    /\ Running /\ worker[w] = "fetch"
    /\ worker' = [worker EXCEPT ![w] = "publish"]
    /\ UNCHANGED <<store, main, heights, watcher, exposed, faults>>

\* No payload of the bin is returned.
FetchFails(w) ==
    /\ Running /\ worker[w] = "fetch" /\ Fault
    /\ worker' = [worker EXCEPT ![w] = "select"] /\ heights' = [heights EXCEPT ![w] = <<>>]
    /\ UNCHANGED <<store, main, watcher, exposed>>

\* Convert and Publish succeed; with Postgres mode Index has nothing to do.
Publish(w) ==
    /\ Running /\ worker[w] = "publish"
    /\ IF cfg.direct
       THEN /\ store' = PublishedAndIndexed(store, Block(w))
            /\ exposed' = (exposed \ {Block(w)}) \cup Rivals(Block(w))
            /\ NextPayload(w)
       ELSE /\ store' = Published(store, Block(w), Range(Publishes(Block(w))))
            /\ worker' = [worker EXCEPT ![w] = "index"]
            /\ UNCHANGED <<heights, exposed>>
    /\ UNCHANGED <<main, watcher, faults>>

\* Mutant: the CIDs of what was put before the error are passed on to Index.
PublishFails_GoesOn(w) ==
    /\ Running /\ worker[w] = "publish" /\ Fault
    /\ LET put == Publishes(Block(w)) IN
       \E n \in 0..IF cfg.direct THEN 0 ELSE Len(put) - 1 :
         store' = Published(store, Block(w), Range(SubSeq(put, 1, n)))
    /\ worker' = [worker EXCEPT ![w] = "index"]
    /\ UNCHANGED <<main, watcher, heights, exposed>>

\* Convert fails, or Publish does: with Postgres mode the transaction is rolled
\* back, otherwise what was put before the error stays.  Index gets nil and
\* refuses it; the worker goes on with the next payload.
PublishFails(w) ==
    /\ Running /\ worker[w] = "publish" /\ Fault
    /\ LET put == Publishes(Block(w)) IN
       \E n \in 0..IF cfg.direct THEN 0 ELSE Len(put) - 1 :
         store' = Published(store, Block(w), Range(SubSeq(put, 1, n)))
    /\ NextPayload(w)
    /\ UNCHANGED <<main, watcher, exposed>>

Index(w) ==
    /\ Running /\ worker[w] = "index"
    /\ store' = Indexed(store, Block(w))
    /\ exposed' = IF ForeignKeysHold(Upserted(store, Block(w)))
                  THEN (exposed \ {Block(w)}) \cup Rivals(Block(w)) ELSE exposed
    /\ NextPayload(w)
    /\ UNCHANGED <<main, watcher, faults>>

\* Mutant: what was inserted before the error stays.
IndexFails_NoRollback(w) ==
    /\ Running /\ worker[w] = "index" /\ Fault
    /\ store' = [store EXCEPT !.rows = @ \cup {Header(Block(w))}]
    /\ NextPayload(w)
    /\ UNCHANGED <<main, watcher, exposed>>

\* A statement fails: the transaction is aborted, and whether the deferred
\* function then rolls back or commits, nothing is written.
IndexFails(w) ==
    /\ Running /\ worker[w] = "index" /\ Fault
    /\ NextPayload(w)
    /\ UNCHANGED <<store, main, watcher, exposed>>

-----------------------------------------------------------------------------
(***************************************************************************)
(* The watcher, in another process.                                         *)
(***************************************************************************)
OutsidePublishes(b) ==
    /\ Running /\ outside = {} /\ writes < MaxOutside /\ b \in ChainBlocks(cfg.chain)
    /\ store' = Published(store, b, Range(Publishes(b)))
    /\ outside' = {b} /\ writes' = writes + 1
    /\ UNCHANGED <<main, pool, exposed, faults>>

OutsideIndexes ==
    /\ Running
    /\ \E b \in outside :
         /\ store' = Indexed(store, b)
         /\ exposed' = IF ForeignKeysHold(Upserted(store, b))
                       THEN (exposed \ {b}) \cup Rivals(b) ELSE exposed
    /\ outside' = {}
    /\ UNCHANGED <<main, pool, faults, writes>>

MainStep == \/ Reset \/ Clean \/ NextRange \/ RangesDone
            \/ \E w \in Workers : HandOut(w) \/ SignalQuit(w)
WorkerStep(w) == Fetch(w) \/ Publish(w) \/ Index(w)
Faulty == \/ ResetOrCleanFails \/ VacuumFails
          \/ \E w \in Workers : FetchFails(w) \/ PublishFails(w) \/ IndexFails(w)

Next == \/ MainStep \/ Faulty
        \/ \E w \in Workers : WorkerStep(w)
        \/ \E b \in Blocks : OutsidePublishes(b)
        \/ OutsideIndexes

Spec == Init /\ [][Next]_vars

-----------------------------------------------------------------------------
(***************************************************************************)
(* Properties.                                                              *)
(***************************************************************************)
\* IndexAccepted: COMMIT refuses, without telling anybody, the rows of a block
\* whose IPLDs are gone.  A worker's Index never meets that, whatever was shared
\* and cleaned before and whatever failed; Index of the watcher does only when
\* the clean of the command may have come after its Publish.
IndexAccepted ==
    /\ \A w \in Workers : worker[w] = "index" => ForeignKeysHold(Upserted(store, Block(w)))
    /\ \A b \in outside : ~cfg.clear \/ pc \in {"reset", "clean"} =>
                           ForeignKeysHold(Upserted(store, b))

\* HeaderMeansWhole: the gap search looks at headers only; a block whose header
\* is indexed has all its rows, unless a clean covered it or a block it shares
\* data with, or another block took over its transaction, since it was indexed.
HeaderMeansWhole ==
    \A b \in Blocks \ exposed : Header(b) \in store.rows => RowsOf(b) \subseteq store.rows

\* FullCleanLeavesNothing: a full clean (cleanFull) leaves neither a row of its
\* range nor an IPLD that one referred to.  The order of its steps matters,
\* since rows vanish with the IPLDs of others and then select nothing.
FullCleanLeavesNothing ==
    [][cfg.clear /\ cfg.data \in {"full", "headers"} /\ CleanStep(pc') =>
         \A r \in store.rows : (\E rng \in Range(cfg.ranges) : Within(r.block, rng)) =>
           /\ ~\E s \in store'.rows : s.kind = r.kind /\ s.id = r.id
           /\ MhKey(r) \notin store'.ipld]_vars

\* ReturnMeansDone: "this blocks until each worker has finished its current
\* task": when Resync returns, and the process ends, no worker is at work.
ReturnMeansDone ==
    pc = "returned" => /\ \A w \in Workers : worker[w] = "gone" /\ heights[w] = <<>>
                       /\ bins = <<>>

\* ResyncRestores: when Resync returns after a run without errors, all data of
\* the range, cleaned or not, is in the index and validated once at least (a
\* Bitcoin transaction possibly under the header of a fork).
ResyncRestores ==
    pc = "returned" /\ faults = 0 =>
      \A h \in Covered : LET b == Canonical[cfg.chain][h]
                         IN  /\ store.tv[b] > 0
                             /\ \A r \in RowsOf(b) : \E s \in store.rows :
                                  s.kind = r.kind /\ s.id = r.id

\* SomebodyTakes: bins and quit signals go over unbuffered channels; as long as
\* Resync runs there is a worker that takes the next one, whatever has failed,
\* so that the command comes to an end.
SomebodyTakes == Running => \E w \in Workers : worker[w] # "gone"

\* CleanStaysInRange: "Clean removes the specified data from the db within the
\* provided block range": rows outside the range stay.
CleanStaysInRange ==
    [][pc = "clean" => \A r \in store.rows :
         (~\E rng \in Range(cfg.ranges) : Within(r.block, rng)) => r \in store'.rows]_vars
=============================================================================
