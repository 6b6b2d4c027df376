------------------------------ MODULE BackFill ------------------------------
(***************************************************************************)
(* The historical backfill service, pkg/historical/service.go.              *)
(*                                                                          *)
(* One BackFill goroutine searches for gaps on every tick, starts           *)
(* BatchNumber workers for the pass, hands them bins of heights over the    *)
(* unbuffered heightsChan, and ends the pass by sending one value per       *)
(* worker on the unbuffered QuitChan.  Stop closes that same QuitChan.  The *)
(* process (cmd/watch.go) then waits for the WaitGroup.                     *)
(*                                                                          *)
(* The header table is shared with the head sync process and with a resync  *)
(* command run beside the watcher; the model lets them write at any time.   *)
(*                                                                          *)
(* A send on an unbuffered channel and the receive that takes it are one    *)
(* action.  The ticker can be due whenever the goroutine is at its select.  *)
(***************************************************************************)
EXTENDS HeaderIndex, Functions

CONSTANTS
    BatchSize,          \* heights per bin
    BatchNumber,        \* workers per pass
    ValidationLevel,    \* rows with a lower times_validated are fetched again
    Canonical,          \* hash of the block the node returns at any height
    DirectPostgres,     \* TRUE: Publish also indexes, in one transaction
    ForwardCap,         \* capacity of ScreenAndServeChan; 0: nil, no server
    StopAllowed,        \* FALSE restricts a run to a service nobody stops
    MaxFaults,          \* bound: errors returned by node or database
    MaxOutside,         \* bound: writes by the other processes
    MaxRestarts         \* bound: restarts of the process

ASSUME BackFillAssumption ==
    /\ BatchSize \in Nat \ {0}
    /\ BatchNumber \in Nat \ {0}
    /\ ValidationLevel \in 1..MaxValidated
    /\ Canonical \in Hashes
    /\ DirectPostgres \in BOOLEAN
    /\ StopAllowed \in BOOLEAN
    /\ ForwardCap \in Nat
    /\ MaxHeight + BatchSize < UintMod      \* heights are far from 2^64
    /\ MaxFaults \in Nat /\ MaxOutside \in Nat /\ MaxRestarts \in Nat

VARIABLES
    proc,       \* "up", "stopping" (QuitChan closed), or how the process ended
    pc,         \* where the BackFill goroutine is
    gaps,       \* gaps found, of this pass, that the loop has not come to
    torn,       \* history: another process added a row during the last search
    bins,       \* bins of the current gap that are not handed out yet
    quits,      \* values sent on QuitChan in this pass
    worker,     \* where each worker goroutine is
    task,       \* heights the worker still has to process, first one in hand
    wg,         \* goroutines counted by the WaitGroup
    forward,    \* ScreenAndServeChan
    faults, outside, restarts

table == <<rows, tv>>
bounds == <<faults, outside, restarts>>
work == <<gaps, bins, torn>>
vars == <<rows, tv, proc, pc, gaps, bins, torn, quits, worker, task, wg, forward,
          faults, outside, restarts>>

Workers == 1..BatchNumber
Main == 0               \* the BackFill goroutine, as a member of wg
Nil == -1               \* a nil ConvertedData

Running == proc \in {"up", "stopping"}
QuitClosed == proc = "stopping"

\* Between the statements of RetrieveGapsInData, and before and after it.
Searching == {"emptyGaps", "heights"}
MainStates == Searching \cup
    {"spawned", "select", "dispatch", "send", "signal", "returned"}
WorkerStates ==
    {"gone", "spawned", "select", "fetch", "convert", "publish", "index"}

\* TypeOK: the types of the state; in particular no bin is empty, since backFill
\* reads heights[0] and heights[len(heights)-1] of the bin it receives.
TypeOK ==
    /\ TableTypeOK
    /\ proc \in {"up", "stopping", "exited", "panicked", "crashed"}
    /\ pc \in MainStates
    /\ gaps \in Seq([start : Heights, stop : Heights]) /\ torn \in BOOLEAN
    /\ bins \in Seq(Seq(Heights) \ {<<>>})
    /\ quits \in 0..BatchNumber
    /\ worker \in [Workers -> WorkerStates]
    /\ task \in [Workers -> Seq(Heights)]
    /\ wg \subseteq Workers \cup {Main}
    /\ forward \in Seq(Heights \cup {Nil})
    /\ faults \in 0..MaxFaults
    /\ outside \in 0..MaxOutside
    /\ restarts \in 0..MaxRestarts

\* A fresh process: QuitChan made, goroutine spawned, no worker yet.
Init ==
    /\ EmptyTable
    /\ proc = "up" /\ pc = "spawned"
    /\ gaps = <<>> /\ bins = <<>> /\ torn = FALSE /\ quits = 0
    /\ worker = [w \in Workers |-> "gone"]
    /\ task = [w \in Workers |-> <<>>]
    /\ wg = {} /\ forward = <<>>
    /\ faults = 0 /\ outside = 0 /\ restarts = 0

-----------------------------------------------------------------------------
(***************************************************************************)
(* The BackFill goroutine.                                                 *)
(***************************************************************************)
\* wg.Add(1), inside the goroutine.
Start ==
    /\ Running /\ pc = "spawned"
    /\ pc' = "select" /\ wg' = wg \cup {Main}
    /\ UNCHANGED <<table, bounds, proc, work, quits, worker, task, forward>>

\* The select of the loop takes the closed QuitChan.
MainQuit ==
    /\ QuitClosed /\ pc = "select"
    /\ pc' = "returned" /\ wg' = wg \ {Main}
    /\ UNCHANGED <<table, bounds, proc, work, quits, worker, task, forward>>

\* Tick: RetrieveGapsInData asks for the first block.  Its three statements are
\* not in one transaction: others may commit between them.
Search ==
    /\ Running /\ pc = "select" /\ rows # {}
    /\ gaps' = InitialGap(rows) /\ pc' = "emptyGaps" /\ torn' = FALSE
    /\ UNCHANGED <<table, bounds, proc, bins, quits, worker, task, wg, forward>>

\* The self-join that finds the heights without a row.
SearchGaps ==
    /\ Running /\ pc = "emptyGaps"
    /\ gaps' = gaps \o EmptyGaps(rows) /\ pc' = "heights"
    /\ UNCHANGED <<table, bounds, proc, bins, torn, quits, worker, task, wg, forward>>

\* The rows below the validation level; then the workers of the pass are started.
SearchHeights ==
    /\ Running /\ pc = "heights"
    /\ gaps' = gaps \o MissingHeightsToGaps(
                         UnderValidatedHeights(rows, tv, ValidationLevel))
    /\ worker' = [w \in Workers |-> "spawned"]
    /\ quits' = 0 /\ pc' = "dispatch"
    /\ UNCHANGED <<table, bounds, proc, bins, torn, task, wg, forward>>

\* Tick: RetrieveFirstBlockNumber has no row in an empty table, which is an
\* error, and the loop goes on.
SearchEmpty ==
    /\ Running /\ pc = "select" /\ rows = {}
    /\ UNCHANGED vars

\* A statement of RetrieveGapsInData fails, and the loop goes on.
SearchFails ==
    /\ Running /\ pc \in {"select"} \cup Searching /\ faults < MaxFaults
    /\ gaps' = <<>> /\ pc' = "select" /\ faults' = faults + 1
    /\ UNCHANGED <<table, outside, restarts, proc, bins, torn, quits, worker, task,
                   wg, forward>>

\* The next gap is cut into bins; one GetBlockHeightBins rejects is skipped.
NextGap ==
    /\ Running /\ pc = "dispatch" /\ bins = <<>> /\ gaps # <<>>
    /\ LET gap == Head(gaps)
       IN  bins' = IF BinsErr(gap.start, gap.stop, BatchSize) THEN <<>>
                   ELSE GetBlockHeightBins(gap.start, gap.stop, BatchSize)
    /\ gaps' = Tail(gaps)
    /\ UNCHANGED <<table, bounds, proc, pc, torn, quits, worker, task, wg, forward>>

\* Before each bin: return if QuitChan is closed, else block on heightsChan.
CheckQuit ==
    /\ Running /\ pc = "dispatch" /\ bins # <<>>
    /\ IF QuitClosed THEN pc' = "returned" /\ wg' = wg \ {Main}
                     ELSE pc' = "send" /\ UNCHANGED wg
    /\ UNCHANGED <<table, bounds, proc, work, quits, worker, task, forward>>

AllSent ==
    /\ Running /\ pc = "dispatch" /\ bins = <<>> /\ gaps = <<>>
    /\ pc' = "signal"
    /\ UNCHANGED <<table, bounds, proc, work, quits, worker, task, wg, forward>>

\* Mutant: the bin stays in the list when it is handed out.
HandOut_Twice(w) ==
    /\ Running /\ pc = "send" /\ worker[w] = "select"
    /\ task' = [task EXCEPT ![w] = Head(bins)]
    /\ worker' = [worker EXCEPT ![w] = "fetch"]
    /\ pc' = "dispatch"
    /\ UNCHANGED <<table, bounds, proc, work, quits, wg, forward>>

\* heightsChan <- heights, received by a worker at its select.
HandOut(w) ==
    /\ Running /\ pc = "send" /\ worker[w] = "select"
    /\ task' = [task EXCEPT ![w] = Head(bins)]
    /\ worker' = [worker EXCEPT ![w] = "fetch"]
    /\ bins' = Tail(bins) /\ pc' = "dispatch"
    /\ UNCHANGED <<table, bounds, proc, gaps, torn, quits, wg, forward>>

\* Mutant: one quit signal too few.
SignalQuit_OneShort(w) ==
    /\ proc = "up" /\ pc = "signal" /\ worker[w] = "select"
    /\ worker' = [worker EXCEPT ![w] = "gone"]
    /\ wg' = wg \ {w} /\ quits' = quits + 1
    /\ pc' = IF quits + 1 >= BatchNumber - 1 THEN "select" ELSE "signal"
    /\ UNCHANGED <<table, bounds, proc, work, task, forward>>

\* Mutant: one quit signal too many.
SignalQuit_OneExtra(w) ==
    /\ proc = "up" /\ pc = "signal" /\ worker[w] = "select"
    /\ worker' = [worker EXCEPT ![w] = "gone"]
    /\ wg' = wg \ {w} /\ quits' = quits + 1
    /\ pc' = IF quits + 1 > BatchNumber THEN "select" ELSE "signal"
    /\ UNCHANGED <<table, bounds, proc, work, task, forward>>

\* bfs.QuitChan <- true, received by a worker at its select, which returns.
\* After BatchNumber of them the pass is over.
SignalQuit(w) ==
    /\ proc = "up" /\ pc = "signal" /\ worker[w] = "select"
    /\ worker' = [worker EXCEPT ![w] = "gone"]
    /\ wg' = wg \ {w} /\ quits' = quits + 1
    /\ pc' = IF quits + 1 = BatchNumber THEN "select" ELSE "signal"
    /\ UNCHANGED <<table, bounds, proc, work, task, forward>>

\* A send on the closed QuitChan panics and takes the process down.
SendOnClosed ==
    /\ QuitClosed /\ pc = "signal"
    /\ proc' = "panicked"
    /\ UNCHANGED <<table, bounds, pc, work, quits, worker, task, wg, forward>>

-----------------------------------------------------------------------------
(***************************************************************************)
(* A worker, backFill.                                                     *)
(***************************************************************************)
\* Mutant: the worker does not register with the WaitGroup.
WorkerStart_NotCounted(w) ==
    /\ Running /\ worker[w] = "spawned"
    /\ worker' = [worker EXCEPT ![w] = "select"]
    /\ UNCHANGED <<table, bounds, proc, pc, work, quits, task, wg, forward>>

WorkerStart(w) ==
    /\ Running /\ worker[w] = "spawned"
    /\ worker' = [worker EXCEPT ![w] = "select"] /\ wg' = wg \cup {w}
    /\ UNCHANGED <<table, bounds, proc, pc, work, quits, task, forward>>

\* Mutant: "break" where the code says "return" only leaves the select.
WorkerQuit_BreakOnly(w) ==
    /\ QuitClosed /\ worker[w] = "select"
    /\ UNCHANGED vars

\* The select takes the closed QuitChan.
WorkerQuit(w) ==
    /\ QuitClosed /\ worker[w] = "select"
    /\ worker' = [worker EXCEPT ![w] = "gone"] /\ wg' = wg \ {w}
    /\ UNCHANGED <<table, bounds, proc, pc, work, quits, task, forward>>

\* FetchAt succeeds for the whole bin.
Fetch(w) ==
    /\ Running /\ worker[w] = "fetch"
    /\ worker' = [worker EXCEPT ![w] = "convert"]
    /\ UNCHANGED <<table, bounds, proc, pc, work, quits, task, wg, forward>>

\* FetchAt fails for the whole bin: no payload is left to range over.
FetchFails(w) ==
    /\ Running /\ worker[w] = "fetch" /\ faults < MaxFaults
    /\ worker' = [worker EXCEPT ![w] = "select"]
    /\ task' = [task EXCEPT ![w] = <<>>]
    /\ faults' = faults + 1
    /\ UNCHANGED <<table, outside, restarts, proc, pc, work, quits, wg, forward>>

\* The non-blocking send to ScreenAndServeChan.
Forward(x) ==
    forward' = IF Len(forward) < ForwardCap THEN Append(forward, x) ELSE forward

\* The loop over the payloads goes on to the next one, or back to the select.
NextPayload(w) ==
    /\ task' = [task EXCEPT ![w] = Tail(@)]
    /\ worker' = [worker EXCEPT ![w] =
                    IF Len(task[w]) = 1 THEN "select" ELSE "convert"]

Convert(w) ==
    /\ Running /\ worker[w] = "convert"
    /\ Forward(Head(task[w]))
    /\ worker' = [worker EXCEPT ![w] = "publish"]
    /\ UNCHANGED <<table, bounds, proc, pc, work, quits, task, wg>>

\* The error is only logged: the nil payload is forwarded all the same, and
\* Publish then rejects it, which ends the work on this payload.
ConvertFails(w) ==
    /\ Running /\ worker[w] = "convert" /\ faults < MaxFaults
    /\ Forward(Nil)
    /\ NextPayload(w)
    /\ faults' = faults + 1
    /\ UNCHANGED <<table, outside, restarts, proc, pc, work, quits, wg>>

Row(w) == <<Head(task[w]), Canonical>>

\* Publish succeeds; with DirectPostgres it commits the index rows as well.
Publish(w) ==
    /\ Running /\ worker[w] = "publish"
    /\ IF DirectPostgres THEN IndexHeader(Row(w)) ELSE UNCHANGED table
    /\ worker' = [worker EXCEPT ![w] = "index"]
    /\ UNCHANGED <<bounds, proc, pc, work, quits, task, wg, forward>>

\* tx.Commit fails in the deferred function of Publish: its error is not
\* returned, and the worker goes on as if the rows were there.
CommitFails(w) ==
    /\ Running /\ worker[w] = "publish" /\ DirectPostgres /\ faults < MaxFaults
    /\ worker' = [worker EXCEPT ![w] = "index"]
    /\ faults' = faults + 1
    /\ UNCHANGED <<table, outside, restarts, proc, pc, work, quits, task, wg,
                   forward>>

PublishFails(w) ==
    /\ Running /\ worker[w] = "publish" /\ faults < MaxFaults
    /\ NextPayload(w)
    /\ faults' = faults + 1
    /\ UNCHANGED <<table, outside, restarts, proc, pc, work, quits, wg, forward>>

\* Index succeeds; with DirectPostgres it has nothing left to do.
Index(w) ==
    /\ Running /\ worker[w] = "index"
    /\ IF DirectPostgres THEN UNCHANGED table ELSE IndexHeader(Row(w))
    /\ NextPayload(w)
    /\ UNCHANGED <<bounds, proc, pc, work, quits, wg, forward>>

\* Index fails, or its commit does (an error it does not return): either way
\* no row is written and the loop goes on.
IndexFails(w) ==
    /\ Running /\ worker[w] = "index" /\ ~DirectPostgres /\ faults < MaxFaults
    /\ NextPayload(w)
    /\ faults' = faults + 1
    /\ UNCHANGED <<table, outside, restarts, proc, pc, work, quits, wg, forward>>

-----------------------------------------------------------------------------
(***************************************************************************)
(* The rest of the process and the other writers.                          *)
(***************************************************************************)
\* Interrupt: backFiller.Stop closes QuitChan, then wg.Wait.
Stop ==
    /\ StopAllowed /\ proc = "up"
    /\ proc' = "stopping"
    /\ UNCHANGED <<table, bounds, pc, work, quits, worker, task, wg, forward>>

\* wg.Wait returns and the process ends.
Exit ==
    /\ proc = "stopping" /\ wg = {}
    /\ proc' = "exited"
    /\ UNCHANGED <<table, bounds, pc, work, quits, worker, task, wg, forward>>

\* The process is killed; only the database survives.
Crash ==
    /\ Running /\ restarts < MaxRestarts
    /\ proc' = "crashed"
    /\ UNCHANGED <<table, bounds, pc, work, quits, worker, task, wg, forward>>

\* A new process is started, as in Init but with the database as it is.
Restart ==
    /\ ~Running /\ restarts < MaxRestarts
    /\ restarts' = restarts + 1
    /\ proc' = "up" /\ pc' = "spawned"
    /\ gaps' = <<>> /\ bins' = <<>> /\ torn' = FALSE /\ quits' = 0
    /\ worker' = [w \in Workers |-> "gone"]
    /\ task' = [w \in Workers |-> <<>>]
    /\ wg' = {} /\ forward' = <<>>
    /\ UNCHANGED <<table, faults, outside>>

\* The Serve goroutine takes a payload.
ServeReceives ==
    /\ Running /\ forward # <<>>
    /\ forward' = Tail(forward)
    /\ UNCHANGED <<table, bounds, proc, pc, work, quits, worker, task, wg>>

\* Another process writes the table: a publishAndIndex worker of the head sync,
\* which may be behind another one, or a worker of a resync that runs beside the
\* watcher indexes a block, or the cleaner of a resync resets or removes rows.
Outside ==
    /\ outside < MaxOutside
    /\ outside' = outside + 1
    /\ \/ \E r \in Keys : IndexHeader(r)
       \/ \E lo, hi \in Heights : lo <= hi /\ ResetValidation(lo, hi)
       \/ \E lo, hi \in Heights : lo <= hi /\ CleanFull(lo, hi)
    /\ torn' = (torn \/ (pc \in Searching /\ ~(rows' \subseteq rows)))
    /\ UNCHANGED <<faults, restarts, proc, pc, gaps, bins, quits, worker, task, wg,
                   forward>>

-----------------------------------------------------------------------------
MainStep == \/ Start \/ MainQuit \/ Search \/ SearchGaps \/ SearchHeights
            \/ NextGap \/ CheckQuit \/ AllSent \/ SendOnClosed

WorkerStep(w) == \/ WorkerStart(w) \/ WorkerQuit(w)
                 \/ HandOut(w) \/ SignalQuit(w)
                 \/ Fetch(w) \/ Convert(w) \/ Publish(w) \/ Index(w)

WorkerFault(w) == \/ FetchFails(w) \/ ConvertFails(w) \/ PublishFails(w)
                  \/ CommitFails(w) \/ IndexFails(w)

Next == \/ MainStep \/ SearchEmpty \/ SearchFails
        \/ \E w \in Workers : WorkerStep(w) \/ WorkerFault(w)
        \/ Stop \/ Exit \/ Crash \/ Restart \/ ServeReceives \/ Outside

\* Every goroutine that can run is scheduled, and wg.Wait returns when it may.
Fairness == /\ WF_vars(MainStep)
            /\ \A w \in Workers : WF_vars(WorkerStep(w))
            /\ WF_vars(Exit)

Spec == Init /\ [][Next]_vars
FairSpec == Spec /\ Fairness

-----------------------------------------------------------------------------
(***************************************************************************)
(* Safety.                                                                 *)
(***************************************************************************)
Busy(w) == worker[w] \notin {"gone", "spawned", "select"}

\* Heights of the current pass that still have to be settled.
Pending == HeightsIn(gaps)
             \cup (UNION {Range(bins[i]) : i \in DOMAIN bins})
             \cup (UNION {Range(task[w]) : w \in Workers})

\* PassInv: the bookkeeping of a pass: a worker has heights in hand exactly
\* while it is between two selects, and is counted by the WaitGroup then; no
\* worker of the pass returns before it is signalled, one signal each; nothing
\* is left to hand out when the signalling begins.
PassInv ==
    /\ \A w \in Workers :
         /\ Busy(w) <=> task[w] # <<>>
         /\ worker[w] \notin {"gone", "spawned"} => w \in wg
    /\ pc \in {"spawned", "select"} \cup Searching =>
         bins = <<>> /\ \A w \in Workers : worker[w] = "gone"
    /\ pc \in {"spawned", "select", "signal"} => gaps = <<>> /\ bins = <<>>
    /\ pc = "send" => bins # <<>>
    /\ proc = "up" /\ pc \in {"dispatch", "send"} =>
         quits = 0 /\ \A w \in Workers : worker[w] # "gone"
    /\ proc = "up" /\ pc = "signal" =>
         quits = Cardinality({w \in Workers : worker[w] = "gone"})
    /\ proc = "exited" => wg = {}

\* PassIsOver: "we know each of the previous workers is done before we search
\* for new gaps": whenever the BackFill goroutine is back at the select that
\* leads to the next search, the workers of the pass have returned and none of
\* the heights it found is left unprocessed, whatever failed on the way.
PassIsOver ==
    Running /\ pc \in {"spawned", "select"} =>
      /\ \A w \in Workers : worker[w] = "gone"
      /\ Pending = {}

\* NoSharedWork: without reorgs, no height is in the hands of two workers, or
\* in the hands of one and waiting to be handed out again: a height is fetched
\* and its times_validated counted once per pass.  The three statements of the
\* search may see three tables: rows may be reset or removed in between, but a
\* row that is added there can put a height into two gaps, and that case is left
\* out.
NoSharedWork ==
    Hashes = {Canonical} /\ ~torn =>
      /\ \A v, w \in Workers :
           v # w => Range(task[v]) \cap Range(task[w]) = {}
      /\ \A w \in Workers : \A i \in DOMAIN bins :
           Range(task[w]) \cap Range(bins[i]) = {}
      /\ \A w \in Workers : Range(task[w]) \cap HeightsIn(gaps) = {}

\* QuietExit: once Stop was called, the process exits only when no worker is in
\* the middle of a bin, although wg.Add runs inside the goroutines.
QuietExit == proc = "exited" => \A w \in Workers : ~Busy(w)

\* A pass as BackFillPass sees it.
phase == IF ~Running \/ pc = "returned" THEN "down"
         ELSE IF pc \in {"spawned", "select"} \cup Searching THEN "idle" ELSE "pass"

Pass == INSTANCE BackFillPass WITH
          PassHeights <- Heights,
          phase <- phase,
          pending <- IF phase = "pass" THEN Pending ELSE {}

\* ImplementsPass: the goroutines and channels implement the abstract pass: the
\* set of heights of a pass only shrinks, and the pass ends when it is empty.
ImplementsPass == Pass!Spec

(***************************************************************************)
(* Liveness.                                                               *)
(***************************************************************************)
\* StaysUp: the process is not stopped, and restarted after a crash.
StaysUp == <>[](proc = "up")

\* GapsFilled: when node and database have stopped failing and the other
\* processes stopped writing, no height below the head stays without a header,
\* whatever failed, was cleaned or was lost in a crash before, and at most one
\* row stays below the validation level (MissingHeightsToGaps drops a single
\* height).
GapsFilled ==
    StaysUp => <>[](/\ Missing = {}
                    /\ Len(UnderValidatedHeights(rows, tv, ValidationLevel)) <= 1)

\* PassesEnd: every pass comes to its end, so gaps are searched again and again.
PassesEnd == StaysUp => []<>(pc = "select")

\* StopSettles: after Stop every worker returns, even one that is handed a bin by
\* the select after the channel was closed, and so does the BackFill goroutine,
\* unless it waits in the hand-out of a bin that no worker is left to take (or
\* the process has ended).
StopSettles ==
    QuitClosed ~> \/ ~Running
                  \/ /\ pc \in {"returned", "send"}
                     /\ \A w \in Workers : worker[w] = "gone"

(***************************************************************************)
(* What comments say and the code does not do.                             *)
(***************************************************************************)
\* SignalReachesWorkers: "send a quit signal to each worker; this blocks until
\* each worker has finished its current task and is free to receive from the
\* quit channel": the signalling never ends in a panic.
SignalReachesWorkers == pc = "signal" => proc # "panicked"
=============================================================================
