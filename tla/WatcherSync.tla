---------------------------- MODULE WatcherSync -----------------------------
(***************************************************************************)
(* The head sync of the watcher: Sync and publishAndIndex in                *)
(* pkg/watch/service.go, fed by the Ethereum streamer (pkg/eth/streamer.go) *)
(* or by the Bitcoin one (pkg/btc/http_streamer.go).                        *)
(*                                                                          *)
(* An Ethereum node pushes payloads into stateDiffChan; a relay goroutine   *)
(* moves them one by one into PayloadChan.  Of a Bitcoin node a goroutine   *)
(* asks for the head every five seconds.  The Sync goroutine converts each  *)
(* one, offers it to the Serve goroutine, and puts it into the channel of   *)
(* the publishAndIndex workers, which it uses as a ring buffer.  Stop       *)
(* closes QuitChan, on which Sync goroutine and workers select.             *)
(*                                                                          *)
(* A payload is the key <<block_number, block_hash>> of its header row.     *)
(***************************************************************************)
EXTENDS HeaderIndex, Functions

CONSTANTS
    Sources,            \* the streamers considered: "eth", "btc"
    WorkerPoolSize,     \* publishAndIndex workers
    StreamCap,          \* capacity of stateDiffChan and of PayloadChan
    QueueCap,           \* capacity of publishAndIndexPayload
    ServeCap,           \* capacity of screenAndServePayload; 0: nil, no server
    DirectPostgres,     \* TRUE: Publish also indexes, in one transaction
    StopAllowed,        \* FALSE restricts a run to a watcher nobody stops
    MaxStreamed,        \* bound: payloads an Ethereum node sends
    MaxMined,           \* bound: heads a Bitcoin node has
    MaxFaults           \* bound: errors of node, converter and database

ASSUME WatcherSyncAssumption ==
    /\ Sources \subseteq {"eth", "btc"}
    /\ WorkerPoolSize \in Nat \ {0}
    /\ StreamCap \in Nat \ {0} /\ QueueCap \in Nat \ {0} /\ ServeCap \in Nat
    /\ DirectPostgres \in BOOLEAN /\ StopAllowed \in BOOLEAN
    /\ MaxStreamed \in Nat /\ MaxMined \in Nat \ {0} /\ MaxFaults \in Nat

VARIABLES
    source,     \* the streamer
    mined,      \* Bitcoin: the heads the node has had, in order
    poll,       \* the polling goroutine: where it is, the height, the block
    lastHash,   \* the last block it has fetched, if any
    streamed,   \* payloads the node has sent, in order
    sub,        \* the node subscription: "live", "failing" (error to read), "failed"
    stateDiff, relay, payloads,     \* stateDiffChan, what the relay or polling
                                    \* goroutine has to send, PayloadChan
    pc, cur,    \* where the Sync goroutine is, and the payload it holds
    queue,      \* publishAndIndexPayload
    serve,      \* screenAndServePayload
    worker, job,    \* where each worker is, and the payload it holds
    wg, proc,
    evicted,    \* payloads dropped from the full queue
    failed,     \* payloads given up after an error, which is only logged
    done,       \* payloads Publish and Index were called for without error
    faults

bitcoin == <<source, mined, poll, lastHash>>
input == <<bitcoin, streamed, sub, stateDiff, relay, payloads>>
pool == <<worker, job>>
fates == <<evicted, failed, done>>
table == <<rows, tv>>
vars == <<rows, tv, source, mined, poll, lastHash, streamed, sub, stateDiff,
          relay, payloads, pc, cur, queue, serve, worker, job, wg, proc, evicted, failed, done, faults>>

Workers == 1..WorkerPoolSize
Main == 0                       \* the Sync goroutine, as a member of wg
Running == proc \in {"up", "stopping"}
QuitClosed == proc = "stopping"

\* TypeOK: the types of the state; no channel holds more than its capacity.
TypeOK ==
    /\ TableTypeOK
    /\ source \in Sources
    /\ mined \in Seq(Keys) /\ lastHash \in Seq(Keys) /\ Len(lastHash) <= 1
    /\ poll.at \in {"tick", "hash", "block", "error"}
    /\ poll.height \in 0..MaxHeight /\ poll.block \in Seq(Keys)
    /\ streamed \in Seq(Keys) /\ sub \in {"live", "failing", "failed"}
    /\ stateDiff \in Seq(Keys) /\ Len(stateDiff) <= StreamCap
    /\ relay \in Seq(Keys) /\ Len(relay) <= 1
    /\ payloads \in Seq(Keys) /\ Len(payloads) <= StreamCap
    /\ pc \in {"spawned", "select", "forward", "queue", "evict", "requeue",
               "returned"}
    /\ cur \in Seq(Keys) /\ Len(cur) <= 1
    /\ queue \in Seq(Keys) /\ Len(queue) <= QueueCap
    /\ serve \in Seq(Keys) /\ Len(serve) <= ServeCap
    /\ worker \in [Workers -> {"spawned", "select", "publish", "index", "gone"}]
    /\ job \in [Workers -> Seq(Keys)]
    /\ wg \subseteq Workers \cup {Main}
    /\ proc \in {"up", "stopping", "exited"}
    /\ evicted \subseteq Keys /\ failed \subseteq Keys /\ done \subseteq Keys
    /\ faults \in 0..MaxFaults

NoPoll(at) == [at |-> at, height |-> 0, block |-> <<>>]

\* Sync has subscribed and started its goroutines.
Init ==
    /\ EmptyTable
    /\ source \in Sources
    /\ mined \in IF source = "btc" THEN {<<<<0, h>>>> : h \in Hashes} ELSE {<<>>}
    /\ poll = NoPoll("tick") /\ lastHash = <<>>
    /\ streamed = <<>> /\ sub = "live"
    /\ stateDiff = <<>> /\ relay = <<>> /\ payloads = <<>>
    /\ pc = "spawned" /\ cur = <<>> /\ queue = <<>> /\ serve = <<>>
    /\ worker = [w \in Workers |-> "spawned"]
    /\ job = [w \in Workers |-> <<>>]
    /\ wg = {} /\ proc = "up"
    /\ evicted = {} /\ failed = {} /\ done = {} /\ faults = 0

-----------------------------------------------------------------------------
(***************************************************************************)
(* The node and the relay goroutine of the streamer.                       *)
(***************************************************************************)
\* The node sends a new head: the next height, or a reorg at the same one.
NodeStreams(k) ==
    /\ Running /\ source = "eth" /\ sub = "live"
    /\ Len(streamed) < MaxStreamed /\ Len(stateDiff) < StreamCap
    /\ k \notin Range(streamed)
    /\ streamed # <<>> => k[1] - streamed[Len(streamed)][1] \in {0, 1}
    /\ streamed' = Append(streamed, k) /\ stateDiff' = Append(stateDiff, k)
    /\ UNCHANGED <<table, bitcoin, sub, relay, payloads, pc, cur, queue, serve, pool, wg,
                   proc, fates, faults>>

\* The subscription breaks: one error is put on sub.Err(), and no more data.
NodeFails ==
    /\ Running /\ source = "eth" /\ sub = "live" /\ faults < MaxFaults
    /\ sub' = "failing" /\ faults' = faults + 1
    /\ UNCHANGED <<table, bitcoin, streamed, stateDiff, relay, payloads, pc, cur, queue,
                   serve, pool, wg, proc, fates>>

RelayTakes ==
    /\ Running /\ relay = <<>> /\ stateDiff # <<>>
    /\ relay' = <<Head(stateDiff)>> /\ stateDiff' = Tail(stateDiff)
    /\ UNCHANGED <<table, bitcoin, streamed, sub, payloads, pc, cur, queue, serve, pool,
                   wg, proc, fates, faults>>

RelaySends ==
    /\ Running /\ relay # <<>> /\ Len(payloads) < StreamCap
    /\ payloads' = payloads \o relay /\ relay' = <<>>
    /\ UNCHANGED <<table, bitcoin, streamed, sub, stateDiff, pc, cur, queue, serve, pool,
                   wg, proc, fates, faults>>

-----------------------------------------------------------------------------
(***************************************************************************)
(* The Bitcoin node and the polling goroutine.                             *)
(***************************************************************************)
\* The node has a new head: the next height, or a reorg at the same one.
NodeMines(k) ==
    /\ Running /\ source = "btc" /\ Len(mined) < MaxMined
    /\ k \notin Range(mined) /\ k[1] - mined[Len(mined)][1] \in {0, 1}
    /\ mined' = Append(mined, k)
    /\ UNCHANGED <<table, source, poll, lastHash, streamed, sub, stateDiff, relay,
                   payloads, pc, cur, queue, serve, pool, wg, proc, fates, faults>>

\* The block at a height of the node's chain is the last one it has had there.
BlockAt(h) ==
    mined[CHOOSE i \in DOMAIN mined :
            mined[i][1] = h /\ \A j \in DOMAIN mined : mined[j][1] = h => j <= i]

Polls(from) == Running /\ source = "btc" /\ relay = <<>> /\ poll.at = from

\* The ticker fires: GetBlockCount.
PollCount ==
    /\ Polls("tick")
    /\ poll' = [at |-> "hash", height |-> mined[Len(mined)][1], block |-> <<>>]
    /\ UNCHANGED <<table, source, mined, lastHash, streamed, sub, stateDiff, relay,
                   payloads, pc, cur, queue, serve, pool, wg, proc, fates, faults>>

\* Mutant: the hash is noted before the block has been fetched.
PollHash_Early ==
    /\ Polls("hash")
    /\ poll' = IF <<BlockAt(poll.height)>> = lastHash THEN NoPoll("tick")
               ELSE [poll EXCEPT !.at = "block", !.block = <<BlockAt(poll.height)>>]
    /\ lastHash' = <<BlockAt(poll.height)>>
    /\ UNCHANGED <<table, source, mined, streamed, sub, stateDiff, relay,
                   payloads, pc, cur, queue, serve, pool, wg, proc, fates, faults>>

\* GetBlockHash; the block fetched last is not fetched again.
PollHash ==
    /\ Polls("hash")
    /\ poll' = IF <<BlockAt(poll.height)>> = lastHash THEN NoPoll("tick")
               ELSE [poll EXCEPT !.at = "block", !.block = <<BlockAt(poll.height)>>]
    /\ UNCHANGED <<table, source, mined, lastHash, streamed, sub, stateDiff, relay,
                   payloads, pc, cur, queue, serve, pool, wg, proc, fates, faults>>

\* GetBlock; what is fetched is then sent.
PollBlock ==
    /\ Polls("block")
    /\ lastHash' = poll.block /\ relay' = poll.block
    /\ streamed' = streamed \o poll.block /\ poll' = NoPoll("tick")
    /\ UNCHANGED <<table, source, mined, sub, stateDiff, payloads, pc, cur, queue,
                   serve, pool, wg, proc, fates, faults>>

\* One of the three calls fails: the goroutine waits until its error is read.
PollFails ==
    /\ \E at \in {"tick", "hash", "block"} : Polls(at)
    /\ faults < MaxFaults /\ faults' = faults + 1
    /\ poll' = NoPoll("error")
    /\ UNCHANGED <<table, source, mined, lastHash, streamed, sub, stateDiff, relay,
                   payloads, pc, cur, queue, serve, pool, wg, proc, fates>>

-----------------------------------------------------------------------------
(***************************************************************************)
(* The Sync goroutine.                                                     *)
(***************************************************************************)
SyncStart ==
    /\ Running /\ pc = "spawned"
    /\ pc' = "select" /\ wg' = wg \cup {Main}
    /\ UNCHANGED <<table, input, cur, queue, serve, pool, proc, fates, faults>>

\* Select: a payload arrives and is converted.
Receive ==
    /\ Running /\ pc = "select" /\ payloads # <<>>
    /\ cur' = <<Head(payloads)>> /\ payloads' = Tail(payloads)
    /\ pc' = "forward"
    /\ UNCHANGED <<table, bitcoin, streamed, sub, stateDiff, relay, queue, serve, pool,
                   wg, proc, fates, faults>>

\* Select: a payload arrives and Convert fails: it is logged and skipped.
ReceiveFails ==
    /\ Running /\ pc = "select" /\ payloads # <<>> /\ faults < MaxFaults
    /\ failed' = failed \cup {Head(payloads)} /\ payloads' = Tail(payloads)
    /\ faults' = faults + 1
    /\ UNCHANGED <<table, bitcoin, streamed, sub, stateDiff, relay, pc, cur, queue, serve,
                   pool, wg, proc, evicted, done>>

\* Select: an error is logged.  Nobody subscribes again to an Ethereum node; a
\* Bitcoin node is asked again at the next tick.
SubError ==
    /\ Running /\ pc = "select"
    /\ \/ sub = "failing" /\ sub' = "failed" /\ UNCHANGED poll
       \/ poll.at = "error" /\ poll' = NoPoll("tick") /\ UNCHANGED sub
    /\ UNCHANGED <<table, source, mined, lastHash, streamed, stateDiff, relay,
                   payloads, pc, cur, queue, serve, pool, wg, proc, fates, faults>>

\* Select: QuitChan is closed.
SyncQuit ==
    /\ QuitClosed /\ pc = "select"
    /\ pc' = "returned" /\ wg' = wg \ {Main}
    /\ UNCHANGED <<table, input, cur, queue, serve, pool, proc, fates, faults>>

\* Mutant: the send to the Serve process waits for room in the channel.
Forward_Blocking ==
    /\ Running /\ pc = "forward" /\ Len(serve) < ServeCap
    /\ serve' = serve \o cur /\ pc' = "queue"
    /\ UNCHANGED <<table, input, cur, queue, pool, wg, proc, fates, faults>>

\* The payload is offered to the Serve process, without waiting for it.
Forward ==
    /\ Running /\ pc = "forward"
    /\ serve' = IF Len(serve) < ServeCap THEN serve \o cur ELSE serve
    /\ pc' = "queue"
    /\ UNCHANGED <<table, input, cur, queue, pool, wg, proc, fates, faults>>

\* The select on publishAndIndexPayload: a send, or the default case.
Enqueue ==
    /\ Running /\ pc = "queue"
    /\ IF Len(queue) < QueueCap
       THEN queue' = queue \o cur /\ cur' = <<>> /\ pc' = "select"
       ELSE pc' = "evict" /\ UNCHANGED <<queue, cur>>
    /\ UNCHANGED <<table, input, serve, pool, wg, proc, fates, faults>>

\* Mutant: the youngest payload is dropped.
Evict_Youngest ==
    /\ Running /\ pc = "evict" /\ queue # <<>>
    /\ evicted' = evicted \cup {queue[Len(queue)]} /\ queue' = SubSeq(queue, 1, Len(queue) - 1)
    /\ pc' = "requeue"
    /\ UNCHANGED <<table, input, cur, serve, pool, wg, proc, failed, done, faults>>

\* Default case: receive the oldest payload, waiting for one if need be.
Evict ==
    /\ Running /\ pc = "evict" /\ queue # <<>>
    /\ evicted' = evicted \cup {Head(queue)} /\ queue' = Tail(queue)
    /\ pc' = "requeue"
    /\ UNCHANGED <<table, input, cur, serve, pool, wg, proc, failed, done, faults>>

\* Default case: then send, waiting for room if need be.
Requeue ==
    /\ Running /\ pc = "requeue" /\ Len(queue) < QueueCap
    /\ queue' = queue \o cur /\ cur' = <<>> /\ pc' = "select"
    /\ UNCHANGED <<table, input, serve, pool, wg, proc, fates, faults>>

-----------------------------------------------------------------------------
(***************************************************************************)
(* A publishAndIndex worker.                                               *)
(***************************************************************************)
\* Mutant: the worker does not register with the WaitGroup.
WorkerStart_NotCounted(w) ==
    /\ Running /\ worker[w] = "spawned"
    /\ worker' = [worker EXCEPT ![w] = "select"]
    /\ UNCHANGED <<table, input, pc, cur, queue, serve, job, wg, proc, fates, faults>>

WorkerStart(w) ==
    /\ Running /\ worker[w] = "spawned"
    /\ worker' = [worker EXCEPT ![w] = "select"] /\ wg' = wg \cup {w}
    /\ UNCHANGED <<table, input, pc, cur, queue, serve, job, proc, fates, faults>>

\* Mutant: the payload stays in the channel.
Take_Peek(w) ==
    /\ Running /\ worker[w] = "select" /\ queue # <<>>
    /\ job' = [job EXCEPT ![w] = <<Head(queue)>>]
    /\ worker' = [worker EXCEPT ![w] = "publish"]
    /\ UNCHANGED <<table, input, pc, cur, queue, serve, wg, proc, fates, faults>>

Take(w) ==
    /\ Running /\ worker[w] = "select" /\ queue # <<>>
    /\ job' = [job EXCEPT ![w] = <<Head(queue)>>] /\ queue' = Tail(queue)
    /\ worker' = [worker EXCEPT ![w] = "publish"]
    /\ UNCHANGED <<table, input, pc, cur, serve, wg, proc, fates, faults>>

Publish(w) ==
    /\ Running /\ worker[w] = "publish"
    /\ IF DirectPostgres THEN IndexHeader(Head(job[w])) ELSE UNCHANGED table
    /\ worker' = [worker EXCEPT ![w] = "index"]
    /\ UNCHANGED <<input, pc, cur, queue, serve, job, wg, proc, fates, faults>>

\* Index succeeds; with DirectPostgres it has nothing left to do.
Index(w) ==
    /\ Running /\ worker[w] = "index"
    /\ IF DirectPostgres THEN UNCHANGED table ELSE IndexHeader(Head(job[w]))
    /\ worker' = [worker EXCEPT ![w] = "select"]
    /\ job' = [job EXCEPT ![w] = <<>>] /\ done' = done \cup {Head(job[w])}
    /\ UNCHANGED <<input, pc, cur, queue, serve, wg, proc, evicted, failed, faults>>

\* Publish or Index fails: the error is logged and the payload given up.
WorkFails(w) ==
    /\ Running /\ faults < MaxFaults
    /\ worker[w] = "publish" \/ (worker[w] = "index" /\ ~DirectPostgres)
    /\ worker' = [worker EXCEPT ![w] = "select"]
    /\ job' = [job EXCEPT ![w] = <<>>] /\ failed' = failed \cup {Head(job[w])}
    /\ faults' = faults + 1
    /\ UNCHANGED <<table, input, pc, cur, queue, serve, wg, proc, evicted, done>>

\* tx.Commit fails in the deferred function of Publish (DirectPostgres) or of
\* Index: the results are not named, so the error it assigns is not returned.
CommitFails(w) ==
    /\ Running /\ faults < MaxFaults
    /\ IF DirectPostgres
       THEN /\ worker[w] = "publish"
            /\ worker' = [worker EXCEPT ![w] = "index"]
            /\ UNCHANGED <<job, done>>
       ELSE /\ worker[w] = "index"
            /\ worker' = [worker EXCEPT ![w] = "select"]
            /\ job' = [job EXCEPT ![w] = <<>>] /\ done' = done \cup {Head(job[w])}
    /\ faults' = faults + 1
    /\ UNCHANGED <<table, input, pc, cur, queue, serve, wg, proc, evicted, failed>>

\* Mutant: "break" where the code says "return" only leaves the select.
WorkerQuit_BreakOnly(w) ==
    /\ QuitClosed /\ worker[w] = "select"
    /\ UNCHANGED vars

WorkerQuit(w) ==
    /\ QuitClosed /\ worker[w] = "select"
    /\ worker' = [worker EXCEPT ![w] = "gone"] /\ wg' = wg \ {w}
    /\ UNCHANGED <<table, input, pc, cur, queue, serve, job, proc, fates, faults>>

-----------------------------------------------------------------------------
\* The Serve goroutine takes a payload.
ServeReceives ==
    /\ Running /\ serve # <<>>
    /\ serve' = Tail(serve)
    /\ UNCHANGED <<table, input, pc, cur, queue, pool, wg, proc, fates, faults>>

\* Stop closes QuitChan.
Stop ==
    /\ StopAllowed /\ proc = "up"
    /\ proc' = "stopping"
    /\ UNCHANGED <<table, input, pc, cur, queue, serve, pool, wg, fates, faults>>

\* wg.Wait returns and the process ends.
Exit ==
    /\ proc = "stopping" /\ wg = {}
    /\ proc' = "exited"
    /\ UNCHANGED <<table, input, pc, cur, queue, serve, pool, wg, fates, faults>>

SyncStep == \/ SyncStart \/ Receive \/ SubError \/ SyncQuit
            \/ Forward \/ Enqueue \/ Evict \/ Requeue
WorkerStep(w) == WorkerStart(w) \/ Take(w) \/ Publish(w) \/ Index(w) \/ WorkerQuit(w)
Relay == RelayTakes \/ RelaySends
Poll == PollCount \/ PollHash \/ PollBlock

Next == \/ \E k \in Keys : NodeStreams(k) \/ NodeMines(k)
        \/ NodeFails \/ Relay \/ Poll \/ PollFails \/ SyncStep \/ ReceiveFails
        \/ \E w \in Workers : WorkerStep(w) \/ WorkFails(w) \/ CommitFails(w)
        \/ ServeReceives \/ Stop \/ Exit

\* Every goroutine of the sync that can run is scheduled, and the ticker of the
\* polling one goes on.  Nothing is assumed of the node, of the Serve goroutine or
\* of its subscribers.
Fairness == /\ WF_vars(Relay) /\ WF_vars(Poll) /\ WF_vars(SyncStep) /\ WF_vars(Exit)
            /\ \A w \in Workers : WF_vars(WorkerStep(w))

Spec == Init /\ [][Next]_vars
FairSpec == Spec /\ Fairness

-----------------------------------------------------------------------------
(***************************************************************************)
(* Properties.                                                             *)
(***************************************************************************)
\* The places a payload can be in, the channels as sequences.
InFlight == stateDiff \o relay \o payloads \o cur \o queue
Held == UNION {Range(job[w]) : w \in Workers}

\* Accounted: every payload the node sent is in exactly one place: in one
\* channel or one goroutine on its way, indexed, evicted from the full queue,
\* or given up after an error; no payload is lost silently, and none is
\* published by two workers.
Accounted ==
    /\ IsInjective(InFlight)
    /\ \A v, w \in Workers : v # w => Range(job[v]) \cap Range(job[w]) = {}
    /\ LET places == <<Range(InFlight), Held, done, evicted, failed>>
       IN  /\ Range(streamed) = UNION Range(places)
           /\ \A i, j \in DOMAIN places : i # j => places[i] \cap places[j] = {}

\* NewestKept: "this channel acts as a ring buffer": the queue is in stream
\* order, and what is dropped from it is older than all that is left in it.
NewestKept ==
    LET age(k) == CHOOSE i \in DOMAIN streamed : streamed[i] = k
        kept == queue \o (IF pc = "requeue" THEN cur ELSE <<>>)
    IN  /\ \A i, j \in DOMAIN kept : i < j => age(kept[i]) < age(kept[j])
        /\ \A k \in evicted : \A i \in DOMAIN kept : age(k) < age(kept[i])

\* QuietExit: the process exits only when no worker is between Publish and
\* Index of a payload, although wg.Add runs inside the goroutines.
QuietExit ==
    proc = "exited" => \A w \in Workers : worker[w] \in {"spawned", "select", "gone"}

\* NotWedged: the workers never drain the queue between the default case of the
\* ring buffer and the receive in it, on which the Sync goroutine, the only
\* sender, would wait for ever.  (With the capacity of 2000 they would have to
\* take all of it between two statements.)
NotWedged == [](pc = "evict" => queue # <<>>)

\* ContinuesRegardless: "This continues on no matter if or how many subscribers
\* there are": every payload the node sent is eventually indexed, evicted or
\* given up, although the Serve process may never take one, unless the watcher
\* is stopped.
ContinuesRegardless ==
    NotWedged => \A k \in Keys : (k \in Range(streamed))
                                   ~> (k \in done \cup evicted \cup failed \/ proc # "up")

\* HeadStreamed: a block that becomes the head of a Bitcoin node and stays it is
\* eventually fetched and sent by the polling goroutine, even if calls fail
\* (only the head is fetched: blocks that two polls miss are left to the back
\* fill).
HeadStreamed ==
    LET head(k) == mined # <<>> /\ mined[Len(mined)] = k
    IN  NotWedged => \A k \in Keys :
          head(k) ~> (k \in Range(streamed) \/ ~head(k) \/ proc # "up")

\* SyncQuits: after Stop, the Sync goroutine and every worker return (or the
\* process has ended).
SyncQuits ==
    NotWedged => (QuitClosed ~> \/ ~Running
                                \/ pc = "returned"
                                   /\ \A w \in Workers : worker[w] = "gone")
=============================================================================
