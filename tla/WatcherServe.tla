---------------------------- MODULE WatcherServe ----------------------------
(***************************************************************************)
(* The serving side of the watcher: subscriptions in pkg/watch/service.go   *)
(* (Serve, filterAndServe, Subscribe, sendHistoricalData, Unsubscribe,      *)
(* Stop) and the goroutine of a client connection in pkg/watch/api.go       *)
(* (Stream).                                                                *)
(*                                                                          *)
(* Stream starts Subscribe in a goroutine of its own and relays what comes  *)
(* on the client's channel.  Subscribe registers the client for live data   *)
(* and may start a historical feed that reads the index.  Sections under    *)
(* the service's mutex are single actions; every send to a client is        *)
(* non-blocking.  A payload is its height; what a filter selects inside a   *)
(* block is not modelled, nor are forks.                                    *)
(***************************************************************************)
EXTENDS Integers, Sequences, FiniteSets

CONSTANTS
    Clients,        \* subscription ids, one per Stream call
    Tracked,        \* clients whose history is recorded, for NoHole
    Settings,       \* the subscription settings clients may ask for
    MaxHeight,      \* bound: block numbers are 0..MaxHeight
    ChanCap,        \* capacity of a client's payload channel
    NilServed,      \* TRUE: backfill may forward a nil payload (see BackFill)
    MaxServed,      \* bound: payloads that reach the Serve goroutine
    MaxFaults       \* bound: errors of the database and of the RLP encoder

Heights == 0..MaxHeight
Nil == -1

\* chain: the settings are for the chain of this service; only implies that no
\* live data is wanted; end = 0 means no end.
ASSUME WatcherServeAssumption ==
    /\ Tracked \subseteq Clients
    /\ MaxHeight \in Nat /\ ChanCap \in Nat \ {0}
    /\ Settings \subseteq [chain : BOOLEAN, start : Heights, end : Heights,
                           hist : BOOLEAN, only : BOOLEAN]
    /\ NilServed \in BOOLEAN /\ MaxServed \in Nat /\ MaxFaults \in Nat

VARIABLES
    Subscriptions,      \* type (the hash of the settings) -> ids
    SubscriptionTypes,  \* types with known settings
    chan, quit,         \* payload channel and one-place quit channel per client
    stream,             \* the Stream goroutine: "idle", "select", "gone"
    request,            \* the Subscribe goroutine
    settings,           \* what the client asked for
    feed,               \* the historical feed: "none", "run" (top of the loop),
                        \* "fetch" (past the check of QuitChan), "done"
    at, to,             \* its loop: next height and endingBlock
    indexed,            \* heights with a header row
    serves,             \* payloads filterAndServe was called for
    proc,               \* "up", "stopping" (QuitChan closed), "panicked"
    offered,            \* heights the client was sent, or would have been had
                        \* its channel not been full
    failed,             \* heights left out because an error was met
    since, snapshot,    \* heights served once Subscribe was past registration, and
                        \* heights indexed when the feed was set up
    strays,             \* clients registered after they had gone, or told to quit
                        \* because their feed could not be set up
    faults

maps == <<Subscriptions, SubscriptionTypes>>
chans == <<chan, quit>>
loop == <<feed, at, to>>
past == <<offered, failed, since, snapshot, strays>>
vars == <<Subscriptions, SubscriptionTypes, chan, quit, stream, request,
          settings, feed, at, to, indexed, serves, proc, offered, failed, since,
          snapshot, strays, faults>>

Running == proc \in {"up", "stopping"}
QuitClosed == proc = "stopping"
Registered(c) == \E t \in DOMAIN Subscriptions : c \in Subscriptions[t]

Item(kind, height) == [kind |-> kind, height |-> height]
Items == [kind : {"live", "old", "err", "complete"}, height : Heights \cup {Nil}]

\* TypeOK: the types of the state; no channel holds more than its capacity.
TypeOK ==
    /\ DOMAIN Subscriptions \subseteq Settings
    /\ \A t \in DOMAIN Subscriptions : Subscriptions[t] \subseteq Clients
    /\ SubscriptionTypes \subseteq Settings
    /\ chan \in [Clients -> Seq(Items)] /\ \A c \in Clients : Len(chan[c]) <= ChanCap
    /\ quit \in [Clients -> BOOLEAN]
    /\ stream \in [Clients -> {"idle", "select", "gone"}]
    /\ request \in [Clients -> {"none", "start", "first", "last", "done"}]
    /\ settings \in [Clients -> Settings]
    /\ feed \in [Clients -> {"none", "run", "fetch", "done"}]
    /\ at \in [Clients -> 0..(MaxHeight + 1)] /\ to \in [Clients -> Heights]
    /\ indexed \subseteq Heights
    /\ serves \in 0..MaxServed
    /\ proc \in {"up", "stopping", "panicked"}
    /\ offered \in [Clients -> SUBSET Heights]
    /\ failed \in [Clients -> SUBSET Heights]
    /\ since \in [Clients -> SUBSET Heights]
    /\ snapshot \in [Clients -> SUBSET Heights]
    /\ strays \subseteq Clients /\ faults \in 0..MaxFaults

Init ==
    /\ Subscriptions = <<>> /\ SubscriptionTypes = {}
    /\ chan = [c \in Clients |-> <<>>] /\ quit = [c \in Clients |-> FALSE]
    /\ stream = [c \in Clients |-> "idle"]
    /\ request = [c \in Clients |-> "none"]
    /\ settings \in [Clients -> Settings]
    /\ feed = [c \in Clients |-> "none"]
    /\ at = [c \in Clients |-> 0] /\ to = [c \in Clients |-> 0]
    /\ indexed = {} /\ serves = 0 /\ proc = "up"
    /\ offered = [c \in Clients |-> {}] /\ failed = [c \in Clients |-> {}]
    /\ since = [c \in Clients |-> {}]
    /\ snapshot = [c \in Clients |-> {}] /\ strays = {} /\ faults = 0

-----------------------------------------------------------------------------
(***************************************************************************)
(* Non-blocking sends (pkg/watch/helpers.go and the selects with default).  *)
(***************************************************************************)
Push(q, item) == IF Len(q) < ChanCap THEN Append(q, item) ELSE q

Send(c, item) == chan' = [chan EXCEPT ![c] = Push(@, item)]

\* History: the height is added for the tracked ones of these clients.
Note(record, C, h) ==
    [c \in Clients |-> IF c \in C \cap Tracked THEN record[c] \cup {h} ELSE record[c]]

\* sendNonBlockingQuit to a set of clients: the channel has room for one.
SendQuit(C) == quit' = [c \in Clients |-> quit[c] \/ c \in C]

\* sendNonBlockingErr followed by sendNonBlockingQuit.
SendErrAndQuit(c) == Send(c, Item("err", Nil)) /\ SendQuit({c})

-----------------------------------------------------------------------------
(***************************************************************************)
(* Stream: the goroutine of a client connection.                           *)
(***************************************************************************)
\* A client calls Stream, which starts Subscribe.
Stream(c) ==
    /\ Running /\ stream[c] = "idle"
    /\ stream' = [stream EXCEPT ![c] = "select"]
    /\ request' = [request EXCEPT ![c] = "start"]
    /\ UNCHANGED <<maps, chans, settings, loop, indexed, serves, proc, past, faults>>

\* A packet is relayed with notifier.Notify.
Relay(c) ==
    /\ Running /\ stream[c] = "select" /\ chan[c] # <<>>
    /\ chan' = [chan EXCEPT ![c] = Tail(@)]
    /\ UNCHANGED <<maps, quit, stream, request, settings, loop, indexed, serves,
                   proc, past, faults>>

\* Mutant: the type stays when its last subscription goes.
Unsubscribe_KeepsType(c) ==
    /\ Subscriptions' = [t \in DOMAIN Subscriptions |-> Subscriptions[t] \ {c}]
    /\ UNCHANGED SubscriptionTypes

\* Mutant: an id goes only with the last of its type.
Unsubscribe_LastOnly(c) ==
    LET left == {t \in DOMAIN Subscriptions : Subscriptions[t] \ {c} # {}}
    IN  /\ Subscriptions' = [t \in left |-> Subscriptions[t]]
        /\ SubscriptionTypes' = SubscriptionTypes \ (DOMAIN Subscriptions \ left)

\* Unsubscribe: the id goes, and with it the types it was the last one of.
Unsubscribe(c) ==
    LET left == {t \in DOMAIN Subscriptions : Subscriptions[t] \ {c} # {}}
    IN  /\ Subscriptions' = [t \in left |-> Subscriptions[t] \ {c}]
        /\ SubscriptionTypes' = SubscriptionTypes \ (DOMAIN Subscriptions \ left)

\* The client is gone: rpcSub.Err() fires or Notify fails.
Disconnect(c) ==
    /\ Running /\ stream[c] = "select"
    /\ Unsubscribe(c)
    /\ stream' = [stream EXCEPT ![c] = "gone"]
    /\ UNCHANGED <<chans, request, settings, loop, indexed, serves, proc, past,
                   faults>>

\* The quit channel of the client has a value.
StreamQuit(c) ==
    /\ Running /\ stream[c] = "select" /\ quit[c]
    /\ stream' = [stream EXCEPT ![c] = "gone"]
    /\ quit' = [quit EXCEPT ![c] = FALSE]
    /\ UNCHANGED <<maps, chan, request, settings, loop, indexed, serves, proc,
                   past, faults>>

-----------------------------------------------------------------------------
(***************************************************************************)
(* Subscribe and the historical feed.                                      *)
(***************************************************************************)
\* Settings for another chain, or that cannot be encoded, are refused.
Refuse(c) ==
    /\ Running /\ request[c] = "start"
    /\ \/ ~settings[c].chain /\ UNCHANGED faults
       \/ settings[c].chain /\ faults < MaxFaults /\ faults' = faults + 1
    /\ SendErrAndQuit(c)
    /\ request' = [request EXCEPT ![c] = "done"]
    /\ UNCHANGED <<maps, stream, settings, loop, indexed, serves, proc, past>>

\* The client is added under its type.
AddSubscriber(c) ==
    LET t == settings[c]
        ids == IF t \in DOMAIN Subscriptions THEN Subscriptions[t] ELSE {}
    IN  /\ Subscriptions' = [s \in DOMAIN Subscriptions \cup {t} |->
              IF s = t THEN ids \cup {c} ELSE Subscriptions[s]]
        /\ SubscriptionTypes' = SubscriptionTypes \cup {t}

\* Subscribe adds it before it reads the index, unless it wants historical data only.
Register(c) ==
    LET t == settings[c]
    IN  /\ Running /\ request[c] = "start" /\ t.chain
        /\ IF t.only THEN UNCHANGED maps ELSE AddSubscriber(c)
        /\ request' = [request EXCEPT ![c] = IF t.hist \/ t.only THEN "first" ELSE "done"]
        /\ strays' = IF stream[c] = "gone" THEN strays \cup {c} ELSE strays
        /\ UNCHANGED <<chans, stream, settings, loop, indexed, serves, proc, offered,
                       failed, since, snapshot, faults>>

First == CHOOSE h \in indexed : \A k \in indexed : h <= k
Latest == CHOOSE h \in indexed : \A k \in indexed : k <= h

\* RetrieveFirstBlockNumber, raised to the start of the settings.
FeedFirst(c) ==
    /\ Running /\ request[c] = "first" /\ indexed # {}
    /\ at' = [at EXCEPT ![c] = IF First < settings[c].start THEN settings[c].start ELSE First]
    /\ request' = [request EXCEPT ![c] = "last"]
    /\ snapshot' = [snapshot EXCEPT ![c] = IF c \in Tracked THEN indexed ELSE @]
    /\ UNCHANGED <<maps, chans, stream, settings, feed, to, indexed, serves, proc,
                   offered, failed, since, strays, faults>>

\* Mutant: the end of the settings is forgotten.
FeedLast_NoEnd(c) ==
    /\ Running /\ request[c] = "last"
    /\ to' = [to EXCEPT ![c] = Latest]
    /\ request' = [request EXCEPT ![c] = "done"]
    /\ feed' = [feed EXCEPT ![c] = "run"]
    /\ UNCHANGED <<maps, chans, stream, settings, at, indexed, serves, proc,
                   past, faults>>

\* RetrieveLastBlockNumber, lowered to the end of the settings if that is
\* greater than the starting block; then the feed is started.
FeedLast(c) ==
    LET end == settings[c].end
    IN  /\ Running /\ request[c] = "last"
        /\ to' = [to EXCEPT ![c] =
                    IF Latest > end /\ end > 0 /\ end > at[c] THEN end ELSE Latest]
        /\ request' = [request EXCEPT ![c] = "done"]
        /\ feed' = [feed EXCEPT ![c] = "run"]
        /\ UNCHANGED <<maps, chans, stream, settings, at, indexed, serves, proc,
                       past, faults>>

\* The table is empty or a query fails: error and quit, nothing unregistered.
HistoryFails(c) ==
    /\ Running /\ request[c] \in {"first", "last"}
    /\ \/ indexed = {} /\ UNCHANGED faults
       \/ faults < MaxFaults /\ faults' = faults + 1
    /\ SendErrAndQuit(c)
    /\ request' = [request EXCEPT ![c] = "done"]
    /\ strays' = strays \cup {c}
    /\ UNCHANGED <<maps, stream, settings, loop, indexed, serves, proc, offered, failed,
                   since, snapshot>>

\* The top of the loop: QuitChan is not closed, and the block at the next height
\* is looked for, whatever Stop does from here on.
FeedCheck(c) ==
    /\ Running /\ feed[c] = "run" /\ ~QuitClosed /\ at[c] <= to[c]
    /\ feed' = [feed EXCEPT ![c] = "fetch"]
    /\ UNCHANGED <<maps, chans, stream, request, settings, at, to, indexed, serves,
                   proc, past, faults>>

\* Back to the top of the loop.
Continue(c) ==
    /\ Running /\ feed[c] = "fetch"
    /\ feed' = [feed EXCEPT ![c] = "run"] /\ at' = [at EXCEPT ![c] = @ + 1]

\* Mutant: a full channel is waited for.
FeedSend_Blocking(c) ==
    /\ Continue(c) /\ at[c] \in indexed /\ Len(chan[c]) < ChanCap
    /\ Send(c, Item("old", at[c]))
    /\ offered' = Note(offered, {c}, at[c])
    /\ UNCHANGED <<maps, quit, stream, request, settings, to, indexed, serves, proc,
                   failed, since, snapshot, strays, faults>>

\* The block at the next height is retrieved, fetched, encoded and sent.
FeedSend(c) ==
    /\ Continue(c) /\ at[c] \in indexed
    /\ Send(c, Item("old", at[c]))
    /\ offered' = Note(offered, {c}, at[c])
    /\ UNCHANGED <<maps, quit, stream, request, settings, to, indexed, serves, proc,
                   failed, since, snapshot, strays, faults>>

\* Nothing is indexed at the next height.
FeedSkip(c) ==
    /\ Continue(c) /\ at[c] \notin indexed
    /\ UNCHANGED <<maps, chans, stream, request, settings, to, indexed, serves, proc,
                   past, faults>>

\* Retrieve or Fetch fails at the next height and the client is told, or its data
\* cannot be encoded and it is not; the feed goes on without the block.
FeedFails(c) ==
    /\ Continue(c) /\ faults < MaxFaults /\ faults' = faults + 1
    /\ \/ Send(c, Item("err", Nil))
       \/ at[c] \in indexed /\ UNCHANGED chan
    /\ failed' = Note(failed, {c}, at[c])
    /\ UNCHANGED <<maps, quit, stream, request, settings, to, indexed, serves, proc,
                   offered, since, snapshot, strays>>

\* Mutant: QuitChan only leaves the loop.
FeedQuit_BreakOnly(c) ==
    /\ feed[c] = "run" /\ QuitClosed /\ at[c] <= to[c]
    /\ Send(c, Item("complete", Nil))
    /\ feed' = [feed EXCEPT ![c] = "done"]
    /\ UNCHANGED <<maps, quit, stream, request, settings, at, to, indexed, serves,
                   proc, past, faults>>

\* QuitChan is closed: the feed ends without the completion notice.
FeedQuit(c) ==
    /\ feed[c] = "run" /\ QuitClosed /\ at[c] <= to[c]
    /\ feed' = [feed EXCEPT ![c] = "done"]
    /\ UNCHANGED <<maps, chans, stream, request, settings, at, to, indexed, serves,
                   proc, past, faults>>

\* The loop is over: the completion notice is sent.
FeedComplete(c) ==
    /\ Running /\ feed[c] = "run" /\ at[c] > to[c]
    /\ Send(c, Item("complete", Nil))
    /\ feed' = [feed EXCEPT ![c] = "done"]
    /\ UNCHANGED <<maps, quit, stream, request, settings, at, to, indexed, serves,
                   proc, past, faults>>

-----------------------------------------------------------------------------
(***************************************************************************)
(* The Serve goroutine.                                                    *)
(***************************************************************************)
\* checkRange of the filterer.
CheckRange(start, end, actual) == (end <= 0 \/ end >= actual) /\ start <= actual

\* closeType is called for the type: its settings are unknown, the payload is
\* after its end, or the filterer refuses the payload, as it does a nil one.
Closes(t, p) ==
    \/ t \notin SubscriptionTypes
    \/ p # Nil /\ t.end > 0 /\ t.end < p
    \/ p = Nil /\ t.end = 0

\* payload.Height() of a nil payload, or response.Height() of the empty response
\* that Filter returns outside the range: a nil pointer is dereferenced.
Panics(t, p) ==
    /\ ~Closes(t, p)
    /\ \/ p = Nil
       \/ Subscriptions[t] # {} /\ ~CheckRange(t.start, t.end, p)

\* filterAndServe, under the mutex, for a payload of the Sync or BackFill process.
\* The response may fail to encode for some of the types that are still open.
FilterAndServe(p) ==
    LET closed == {t \in DOMAIN Subscriptions : Closes(t, p)}
        open == DOMAIN Subscriptions \ closed
        ids(T) == UNION {Subscriptions[t] : t \in T}
    IN  /\ Running /\ serves < MaxServed
        /\ serves' = serves + 1
        /\ \E broken \in SUBSET open :
             /\ \/ broken = {} /\ UNCHANGED faults
                \/ broken # {} /\ p # Nil /\ faults < MaxFaults /\ faults' = faults + 1
             /\ IF \E t \in open \ broken : Panics(t, p)
                THEN proc' = "panicked" /\ UNCHANGED <<maps, chans, offered, failed, since>>
                ELSE /\ Subscriptions' = [t \in open |-> Subscriptions[t]]
                     /\ SubscriptionTypes' = SubscriptionTypes \ closed
                     /\ SendQuit(ids(closed))
                     /\ chan' = [c \in Clients |->
                          IF c \in ids(open \ broken) THEN Push(chan[c], Item("live", p))
                          ELSE chan[c]]
                     /\ offered' = Note(offered, ids(open \ broken), p)
                     /\ failed' = Note(failed, ids(broken), p)
                     /\ since' = Note(since, {c \in Clients :
                          p # Nil /\ request[c] \notin {"none", "start"}}, p)
                     /\ UNCHANGED proc
        /\ UNCHANGED <<stream, request, settings, loop, indexed, snapshot, strays>>

\* Serve takes a payload from screenAndServePayload.  After Stop its select may
\* still prefer a payload to the closed QuitChan.
Serve == \/ \E h \in Heights : FilterAndServe(h)
         \/ NilServed /\ FilterAndServe(Nil)

\* Mutant: the subscriptions are dropped without a quit signal.
Stop_NoSignal ==
    /\ proc = "up" /\ proc' = "stopping"
    /\ Subscriptions' = <<>> /\ SubscriptionTypes' = {}
    /\ UNCHANGED <<chans, stream, request, settings, loop, indexed, serves, past,
                   faults>>

\* Stop: QuitChan is closed and every subscription with it.
Stop ==
    /\ proc = "up" /\ proc' = "stopping"
    /\ SendQuit({c \in Clients : Registered(c)})
    /\ Subscriptions' = <<>> /\ SubscriptionTypes' = {}
    /\ UNCHANGED <<chan, stream, request, settings, loop, indexed, serves, past,
                   faults>>

\* A publishAndIndex or backFill worker commits the rows of a block.
IndexBlock(h) ==
    /\ Running /\ h \notin indexed
    /\ indexed' = indexed \cup {h}
    /\ UNCHANGED <<maps, chans, stream, request, settings, loop, serves, proc,
                   past, faults>>

-----------------------------------------------------------------------------
FeedStep(c) == FeedCheck(c) \/ FeedSend(c) \/ FeedSkip(c) \/ FeedQuit(c) \/ FeedComplete(c)

\* Mutant: the client is registered once its feed is set up.
Register_Later(c) ==
    /\ Running /\ request[c] = "start" /\ settings[c].chain
    /\ request' = [request EXCEPT ![c] = "first"]
    /\ UNCHANGED <<maps, chans, stream, settings, loop, indexed, serves, proc, past,
                   faults>>
FeedLast_ThenRegister(c) ==
    /\ Running /\ request[c] = "last"
    /\ to' = [to EXCEPT ![c] = Latest]
    /\ request' = [request EXCEPT ![c] = "done"]
    /\ feed' = [feed EXCEPT ![c] = "run"]
    /\ AddSubscriber(c)
    /\ UNCHANGED <<chans, stream, settings, at, indexed, serves, proc, past, faults>>
SubscribeStep_FeedFirst(c) ==
    \/ Refuse(c) \/ Register_Later(c) \/ FeedFirst(c) \/ FeedLast_ThenRegister(c)
    \/ HistoryFails(c)

\* Subscribe, step by step.
SubscribeStep(c) ==
    Refuse(c) \/ Register(c) \/ FeedFirst(c) \/ FeedLast(c) \/ HistoryFails(c)

Next == \/ \E c \in Clients : \/ Stream(c) \/ Relay(c) \/ Disconnect(c)
                               \/ StreamQuit(c) \/ SubscribeStep(c)
                               \/ FeedStep(c) \/ FeedFails(c)
        \/ Serve \/ Stop
        \/ \E h \in Heights : IndexBlock(h)

\* Subscribe and feed goroutines are scheduled, and a Stream goroutine whose
\* quit channel stays ready takes it in the end.  Nothing is assumed of the
\* clients: packets need never be relayed.
Fairness == \A c \in Clients : /\ WF_vars(SubscribeStep(c))
                               /\ WF_vars(FeedStep(c))
                               /\ WF_vars(StreamQuit(c))

Spec == Init /\ [][Next]_vars
FairSpec == Spec /\ Fairness

-----------------------------------------------------------------------------
(***************************************************************************)
(* Properties.                                                             *)
(***************************************************************************)
\* MapsAgree: Subscriptions and SubscriptionTypes always have the same keys and
\* no type is empty, so filterAndServe never meets a type without settings.
MapsAgree == /\ DOMAIN Subscriptions = SubscriptionTypes
             /\ \A t \in DOMAIN Subscriptions : Subscriptions[t] # {}

\* GoneMeansUnregistered: a client whose Stream goroutine has returned is not
\* registered any more: "the service does so before sending the quit signal", or
\* the goroutine has called Unsubscribe.  It stays registered, for ever, in two
\* cases only: it went before its Subscribe goroutine registered it, or Subscribe
\* told it to quit because the historical feed failed.
GoneMeansUnregistered ==
    \A c \in Clients : stream[c] = "gone" /\ Registered(c) => c \in strays

\* InRange: live data is within the range the client asked for, and a historical
\* feed does not pass its end ("endingBlock is the ending block number for the
\* range to receive data in"), unless it began there or after it: the end is only
\* applied when it is greater than the starting block.
InRange ==
    \A c \in Clients : \A i \in DOMAIN chan[c] :
      LET item == chan[c][i]
          end == settings[c].end
      IN  /\ item.kind \in {"live", "old"} => settings[c].start <= item.height
          /\ item.kind = "live" /\ end > 0 => item.height <= end
          /\ item.kind = "old" /\ end > 0 /\ item.height > end =>
               \A j \in DOMAIN chan[c] : chan[c][j].kind = "old" => chan[c][j].height >= end

\* CompleteIsLast: the completion notice comes once, after the feed has visited
\* its whole range, and no historical data follows it; a feed cut short by Stop
\* sends none.
CompleteIsLast ==
    \A c \in Clients : \A i \in DOMAIN chan[c] : chan[c][i].kind = "complete" =>
      /\ feed[c] = "done" /\ at[c] > to[c]
      /\ \A j \in DOMAIN chan[c] : j > i => chan[c][j].kind \notin {"old", "complete"}

\* NoHole: when the feed of a client with live data is through, the client was
\* offered every block in its range that was indexed when its feed was set up or
\* served after Subscribe had registered it, or an error was met for it: Subscribe
\* registers before it reads the index, so the feed and the live data overlap.
\* (Sync forwards a block before it is indexed: one that was served before the
\* registration and indexed after the reading comes neither way.)
NoHole ==
    \A c \in Tracked :
      Running /\ Registered(c) /\ feed[c] = "done" /\ at[c] > to[c] =>
        \A h \in since[c] \cup snapshot[c] :
          CheckRange(settings[c].start, settings[c].end, h) =>
            h \in offered[c] \cup failed[c]

\* FeedEnds: a historical feed ends although the client never takes a packet.
FeedEnds ==
    \A c \in Clients : feed[c] = "run" ~> (feed[c] = "done" \/ ~Running)

\* StopEndsStreams: a client that is registered when the service is stopped has
\* its Stream goroutine ended.
StopEndsStreams ==
    \A c \in Clients :
      [](proc = "up" /\ Registered(c) => [](QuitClosed =>
           <>(stream[c] = "gone" \/ ~Running)))
=============================================================================
