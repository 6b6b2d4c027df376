------------------------- MODULE WatcherServeProofs -------------------------
(***************************************************************************)
(* The registration of subscribers and what they are sent, for any number   *)
(* of clients, settings, heights and channel capacities.                    *)
(***************************************************************************)
EXTENDS WatcherServe, WellFoundedInduction, TLAPS

\* The time allowed to a prover for a leaf: Zenon, unless the leaf asks for the
\* SMT solver.
USE ZenonT(30)

\* The inductive invariant.  A client is registered under its own settings only,
\* and only once its Subscribe goroutine has got that far; before that nothing
\* tells it to quit; and whoever is told to quit is registered no more, or is one
\* of the strays.
RegistrationInv ==
    /\ MapsAgree /\ GoneMeansUnregistered
    /\ quit \in [Clients -> BOOLEAN]
    /\ stream \in [Clients -> {"idle", "select", "gone"}]
    /\ request \in [Clients -> {"none", "start", "first", "last", "done"}]
    /\ \A c \in Clients :
         /\ stream[c] = "idle" => request[c] = "none"
         /\ request[c] \in {"none", "start"} => ~quit[c] /\ ~Registered(c)
         /\ quit[c] /\ Registered(c) => c \in strays
         /\ \A t \in DOMAIN Subscriptions : c \in Subscriptions[t] => t = settings[c]

\* Nobody is registered.
LEMMA InitRegistration == Init => RegistrationInv
<1> SUFFICES ASSUME Init PROVE RegistrationInv
  OBVIOUS
<1>1. DOMAIN Subscriptions = {}
  BY SMTT(30) DEF Init
<1> QED BY <1>1 DEF Init, RegistrationInv, MapsAgree, GoneMeansUnregistered, Registered

\* The steps of a client's connection.
LEMMA StreamRegistration ==
    ASSUME RegistrationInv, NEW c \in Clients,
           Stream(c) \/ Relay(c) \/ Disconnect(c) \/ StreamQuit(c)
    PROVE  RegistrationInv'
<1> USE DEF RegistrationInv, MapsAgree, GoneMeansUnregistered, Registered
<1>1. CASE Stream(c)
  BY <1>1 DEF Stream, maps, chans, past
<1>2. CASE Relay(c)
  BY <1>2 DEF Relay, maps, past
<1>3. CASE Disconnect(c)
  <2>1. /\ DOMAIN Subscriptions' = {t \in DOMAIN Subscriptions : Subscriptions[t] \ {c} # {}}
        /\ \A t \in DOMAIN Subscriptions' : Subscriptions'[t] = Subscriptions[t] \ {c}
    BY <1>3 DEF Disconnect, Unsubscribe
  <2>2. MapsAgree'
    BY <1>3, <2>1 DEF Disconnect, Unsubscribe
  <2>3. \A d \in Clients : Registered(d)' => Registered(d) /\ d # c
    BY <2>1, SMTT(30)
  <2>4. \A d \in Clients : \A t \in DOMAIN Subscriptions' :
          d \in Subscriptions'[t] => t = settings[d]
    BY <2>1, SMTT(30)
  <2> HIDE DEF Registered, MapsAgree
  <2>5. UNCHANGED <<quit, request, settings, strays>> /\ stream' = [stream EXCEPT ![c] = "gone"]
    BY <1>3 DEF Disconnect, chans, past
  <2> QED BY <2>2, <2>3, <2>4, <2>5
<1>4. CASE StreamQuit(c)
  BY <1>4, SMTT(30) DEF StreamQuit, maps, past
<1> QED BY <1>1, <1>2, <1>3, <1>4

\* The steps of the Subscribe goroutine.
LEMMA SubscribeRegistration ==
    ASSUME RegistrationInv, NEW c \in Clients, SubscribeStep(c)
    PROVE  RegistrationInv'
<1> USE DEF RegistrationInv, MapsAgree, GoneMeansUnregistered, Registered
<1>1. CASE Refuse(c)
  BY <1>1 DEF Refuse, SendErrAndQuit, SendQuit, maps, past
<1>2. CASE Register(c)
  <2> DEFINE t == settings[c]
  <2>1. CASE t.only
    BY <1>2, <2>1 DEF Register, maps, chans
  <2>2. CASE ~t.only
    <3>1. /\ DOMAIN Subscriptions' = DOMAIN Subscriptions \cup {t}
          /\ \A s \in DOMAIN Subscriptions : s # t => Subscriptions'[s] = Subscriptions[s]
          /\ Subscriptions'[t] = (IF t \in DOMAIN Subscriptions THEN Subscriptions[t] ELSE {})
                                   \cup {c}
          /\ SubscriptionTypes' = SubscriptionTypes \cup {t}
      BY <1>2, <2>2, SMTT(30) DEF Register, AddSubscriber
    <3>2. MapsAgree'
      BY <3>1
    <3>3. \A d \in Clients : Registered(d)' => Registered(d) \/ d = c
      BY <3>1
    <3>4. \A d \in Clients : \A s \in DOMAIN Subscriptions' :
            d \in Subscriptions'[s] => s = settings[d]
      BY <3>1
    <3> HIDE DEF Registered, MapsAgree
    <3>5. /\ UNCHANGED <<quit, stream, settings>> /\ request[c] = "start"
          /\ \E p \in {"first", "done"} : request' = [request EXCEPT ![c] = p]
          /\ strays' = IF stream[c] = "gone" THEN strays \cup {c} ELSE strays
      BY <1>2 DEF Register, chans
    <3> QED BY <3>2, <3>3, <3>4, <3>5
  <2> QED BY <2>1, <2>2
<1>3. CASE FeedFirst(c)
  BY <1>3 DEF FeedFirst, maps, chans
<1>4. CASE FeedLast(c)
  BY <1>4 DEF FeedLast, maps, chans, past
<1>5. CASE HistoryFails(c)
  BY <1>5 DEF HistoryFails, SendErrAndQuit, SendQuit, maps
<1> QED BY <1>1, <1>2, <1>3, <1>4, <1>5 DEF SubscribeStep

\* The steps that leave registrations and quit channels alone.
LEMMA FeedRegistration ==
    ASSUME RegistrationInv,
           \/ \E c \in Clients : FeedStep(c) \/ FeedFails(c)
           \/ \E h \in Heights : IndexBlock(h)
           \/ UNCHANGED vars
    PROVE  RegistrationInv'
<1>1. UNCHANGED <<Subscriptions, SubscriptionTypes, quit, stream, request, settings, strays>>
  BY DEF FeedStep, FeedCheck, FeedSend, FeedSkip, FeedQuit, FeedComplete, FeedFails, IndexBlock,
         maps, chans, past, vars
<1> QED BY <1>1 DEF RegistrationInv, MapsAgree, GoneMeansUnregistered, Registered

\* A payload is served: the types it closes go with their clients.
LEMMA ServeRegistration ==
    ASSUME RegistrationInv, NEW p, FilterAndServe(p)
    PROVE  RegistrationInv'
<1> DEFINE closed == {t \in DOMAIN Subscriptions : Closes(t, p)}
           open == DOMAIN Subscriptions \ closed
           ids(T) == UNION {Subscriptions[t] : t \in T}
<1>0. UNCHANGED <<stream, request, settings, strays>>
  BY DEF FilterAndServe
<1>1. CASE UNCHANGED <<maps, chans>>
  BY <1>0, <1>1 DEF RegistrationInv, MapsAgree, GoneMeansUnregistered, Registered, maps, chans
<1>2. CASE ~UNCHANGED <<maps, chans>>
  <2>1. /\ Subscriptions' = [t \in open |-> Subscriptions[t]]
        /\ SubscriptionTypes' = SubscriptionTypes \ closed
        /\ quit' = [c \in Clients |-> quit[c] \/ c \in ids(closed)]
    BY <1>2 DEF FilterAndServe, SendQuit
  <2>2. MapsAgree'
    BY <2>1 DEF RegistrationInv, MapsAgree
  <2>3. \A c \in Clients : Registered(c)' => \E t \in open : c \in Subscriptions[t]
    BY <2>1 DEF Registered
  <2>4. \A c \in Clients : c \in ids(closed) => Registered(c) /\ settings[c] \in closed
    BY DEF RegistrationInv, Registered
  <2>5. \A c \in Clients : Registered(c)' => Registered(c) /\ c \notin ids(closed)
    BY <2>3, <2>4, SMTT(30) DEF RegistrationInv, Registered
  <2>6. \A c \in Clients : \A t \in DOMAIN Subscriptions' :
          c \in Subscriptions'[t] => t = settings[c]
    BY <2>1 DEF RegistrationInv
  <2> HIDE DEF closed, open, ids
  <2> QED BY <1>0, <2>1, <2>2, <2>4, <2>5, <2>6 DEF RegistrationInv, GoneMeansUnregistered
<1> QED BY <1>1, <1>2

\* Stop drops every registration.
LEMMA StopRegistration == ASSUME RegistrationInv, Stop PROVE RegistrationInv'
<1>1. /\ DOMAIN Subscriptions' = {} /\ SubscriptionTypes' = {}
      /\ UNCHANGED <<stream, request, settings, strays>>
      /\ quit' = [c \in Clients |-> quit[c] \/ c \in {d \in Clients : Registered(d)}]
  BY SMTT(30) DEF Stop, SendQuit, past
<1>2. \A c \in Clients : ~Registered(c)'
  BY <1>1 DEF Registered
<1>3. MapsAgree'
  BY <1>1 DEF MapsAgree
<1> QED BY <1>1, <1>2, <1>3 DEF RegistrationInv, GoneMeansUnregistered

\* The invariant holds in every behaviour.
LEMMA RegistrationHolds == Spec => []RegistrationInv
<1>1. RegistrationInv /\ [Next]_vars => RegistrationInv'
  BY StreamRegistration, SubscribeRegistration, FeedRegistration, ServeRegistration,
     StopRegistration DEF Next, Serve
<1> QED BY <1>1, InitRegistration, PTL DEF Spec

\* MapsAgree for any clients and settings: the two maps of the service have the
\* same keys and no empty type, through Subscribe, Unsubscribe, closeType and
\* close.
THEOREM MapsAgreeHolds == Spec => []MapsAgree
BY RegistrationHolds, PTL DEF RegistrationInv

\* GoneMeansUnregistered likewise: a client whose Stream goroutine has returned
\* is registered only in the two cases that are named.
THEOREM GoneMeansUnregisteredHolds == Spec => []GoneMeansUnregistered
BY RegistrationHolds, PTL DEF RegistrationInv

-----------------------------------------------------------------------------
(***************************************************************************)
(* Type correctness.                                                       *)
(***************************************************************************)
\* A set of heights that is not empty has a lowest and a highest one.
LEMMA LowestHeight ==
    ASSUME NEW T, T \subseteq Heights, T # {}
    PROVE  \E x \in T : \A y \in T : x <= y
<1> DEFINE R == {ss \in Nat \X Nat : ss[1] < ss[2]}
<1>1. IsWellFoundedOn(R, Nat)
  BY NatLessThanWellFounded DEF OpToRel
<1>2. T \subseteq Nat /\ \A x \in T : x \in Nat
  BY WatcherServeAssumption, SMTT(30) DEF Heights
<1>3. \A x, y \in T : <<y, x>> \notin R => x <= y
  BY <1>2, SMTT(30)
<1> HIDE DEF R
<1>4. \E x \in T : \A y \in T : ~(<<y, x>> \in R)
  BY <1>1, <1>2, WFMin
<1> QED BY <1>3, <1>4

LEMMA HighestHeight ==
    ASSUME NEW T, T \subseteq Heights, T # {}
    PROVE  \E x \in T : \A y \in T : y <= x
<1> DEFINE U == {MaxHeight - x : x \in T}
<1>1. \A x \in T : x \in Heights /\ x \in Int /\ MaxHeight - x \in Heights
  BY WatcherServeAssumption, SMTT(30) DEF Heights
<1>2. U \subseteq Heights /\ U # {}
  BY <1>1
<1>3. PICK u \in U : \A v \in U : u <= v
  <2> HIDE DEF U
  <2> QED BY <1>2, LowestHeight
<1>4. PICK x \in T : u = MaxHeight - x
  OBVIOUS
<1>5. \A y \in T : MaxHeight - x <= MaxHeight - y
  BY <1>3, <1>4
<1> QED BY <1>1, <1>5, WatcherServeAssumption, SMTT(30)

\* The first and the latest block of an index that is not empty.
LEMMA FirstAndLatest ==
    ASSUME indexed \subseteq Heights, indexed # {}
    PROVE  /\ First \in indexed /\ \A h \in indexed : First <= h
           /\ Latest \in indexed /\ \A h \in indexed : h <= Latest
<1>1. \E x \in indexed : \A y \in indexed : x <= y
  BY LowestHeight
<1>2. \E x \in indexed : \A y \in indexed : y <= x
  BY HighestHeight
<1> QED BY <1>1, <1>2 DEF First, Latest

\* What a non-blocking send leaves in a channel.
LEMMA PushType ==
    ASSUME NEW q \in Seq(Items), Len(q) <= ChanCap, NEW item \in Items
    PROVE  Push(q, item) \in Seq(Items) /\ Len(Push(q, item)) <= ChanCap
BY WatcherServeAssumption, SMTT(30) DEF Push

\* The channels, the historical feeds and their bounds.
FeedTypes ==
    /\ chan \in [Clients -> Seq(Items)] /\ \A c \in Clients : Len(chan[c]) <= ChanCap
    /\ settings \in [Clients -> Settings]
    /\ feed \in [Clients -> {"none", "run", "fetch", "done"}]
    /\ at \in [Clients -> 0..(MaxHeight + 1)] /\ to \in [Clients -> Heights]
    /\ indexed \subseteq Heights
    /\ \A c \in Clients :
         /\ request[c] = "last" => indexed # {}
         /\ feed[c] # "none" => request[c] = "done"
         /\ feed[c] = "fetch" => at[c] <= to[c]

MapTypes ==
    /\ DOMAIN Subscriptions \subseteq Settings
    /\ \A t \in DOMAIN Subscriptions : Subscriptions[t] \subseteq Clients
    /\ SubscriptionTypes \subseteq Settings

PastTypes ==
    /\ serves \in 0..MaxServed /\ proc \in {"up", "stopping", "panicked"}
    /\ offered \in [Clients -> SUBSET Heights] /\ failed \in [Clients -> SUBSET Heights]
    /\ since \in [Clients -> SUBSET Heights]
    /\ snapshot \in [Clients -> SUBSET Heights]
    /\ strays \subseteq Clients /\ faults \in 0..MaxFaults

ServeInv == RegistrationInv /\ FeedTypes /\ MapTypes /\ PastTypes

LEMMA InitServeInv == Init => ServeInv
<1> SUFFICES ASSUME Init PROVE ServeInv
  OBVIOUS
<1> USE WatcherServeAssumption
<1>1. FeedTypes
  BY SMTT(30) DEF Init, FeedTypes, Heights
<1>2. MapTypes
  BY SMTT(30) DEF Init, MapTypes
<1>3. PastTypes
  BY SMTT(30) DEF Init, PastTypes
<1> QED BY <1>1, <1>2, <1>3, InitRegistration DEF ServeInv

\* The maps.
LEMMA NextMapTypes == ASSUME ServeInv, [Next]_vars PROVE MapTypes'
<1>1. CASE UNCHANGED maps
  BY <1>1 DEF ServeInv, MapTypes, maps
<1>2. ASSUME NEW c \in Clients, Disconnect(c) PROVE MapTypes'
  BY <1>2 DEF Disconnect, Unsubscribe, ServeInv, MapTypes
<1>3. ASSUME NEW c \in Clients, Register(c) PROVE MapTypes'
  <2>1. settings[c] \in Settings
    BY DEF ServeInv, FeedTypes
  <2> QED BY <1>3, <2>1, SMTT(30) DEF Register, AddSubscriber, maps, ServeInv, MapTypes
<1>4. ASSUME NEW p, FilterAndServe(p) PROVE MapTypes'
  BY <1>4, SMTT(30) DEF FilterAndServe, maps, ServeInv, MapTypes
<1>5. CASE Stop
  BY <1>5, SMTT(30) DEF Stop, ServeInv, MapTypes
<1> QED BY <1>1, <1>2, <1>3, <1>4, <1>5
        DEF Next, Serve, SubscribeStep, FeedStep, Stream, Relay, StreamQuit, Refuse, FeedFirst,
            FeedLast, HistoryFails, FeedCheck, FeedSend, FeedSkip, FeedQuit, FeedComplete,
            FeedFails, IndexBlock, maps, vars

\* The channels: every send is a Push, and a receive leaves the rest.
LEMMA NextChanTypes ==
    ASSUME ServeInv, [Next]_vars
    PROVE  chan' \in [Clients -> Seq(Items)] /\ \A c \in Clients : Len(chan'[c]) <= ChanCap
<1>0. chan \in [Clients -> Seq(Items)] /\ \A c \in Clients : Len(chan[c]) <= ChanCap
  BY DEF ServeInv, FeedTypes
<1>1. CASE UNCHANGED chan
  BY <1>0, <1>1
<1>2. ASSUME NEW c \in Clients, NEW item \in Items, Send(c, item)
      PROVE  chan' \in [Clients -> Seq(Items)] /\ \A d \in Clients : Len(chan'[d]) <= ChanCap
  <2>1. Push(chan[c], item) \in Seq(Items) /\ Len(Push(chan[c], item)) <= ChanCap
    BY <1>0, PushType
  <2> QED BY <1>0, <1>2, <2>1 DEF Send
<1>3. /\ Item("err", Nil) \in Items /\ Item("complete", Nil) \in Items
      /\ \A h \in Heights : Item("old", h) \in Items
      /\ \A p \in Heights \cup {Nil} : Item("live", p) \in Items
  BY DEF Item, Items
<1>4. ASSUME NEW c \in Clients, Relay(c)
      PROVE  chan' \in [Clients -> Seq(Items)] /\ \A d \in Clients : Len(chan'[d]) <= ChanCap
  <2>1. chan[c] # <<>> /\ chan' = [chan EXCEPT ![c] = Tail(chan[c])]
    BY <1>4 DEF Relay
  <2>2. /\ Tail(chan[c]) \in Seq(Items) /\ Len(Tail(chan[c])) = Len(chan[c]) - 1
        /\ Len(chan[c]) \in Nat /\ Len(chan[c]) <= ChanCap
    BY <1>0, <2>1, SMTT(30)
  <2>3. Len(Tail(chan[c])) <= ChanCap
    BY <2>2, WatcherServeAssumption, SMTT(30)
  <2> QED BY <1>0, <2>1, <2>2, <2>3
<1>5. ASSUME NEW c \in Clients, FeedSend(c)
      PROVE  chan' \in [Clients -> Seq(Items)] /\ \A d \in Clients : Len(chan'[d]) <= ChanCap
  <2>1. at[c] \in Heights /\ Send(c, Item("old", at[c]))
    BY <1>5 DEF FeedSend, ServeInv, FeedTypes
  <2> QED BY <1>2, <1>3, <2>1
<1>6. ASSUME NEW p \in Heights \cup {Nil}, FilterAndServe(p), ~UNCHANGED chan
      PROVE  chan' \in [Clients -> Seq(Items)] /\ \A d \in Clients : Len(chan'[d]) <= ChanCap
  <2> DEFINE open == DOMAIN Subscriptions \ {t \in DOMAIN Subscriptions : Closes(t, p)}
             ids(T) == UNION {Subscriptions[t] : t \in T}
  <2>1. PICK broken \in SUBSET open :
          chan' = [c \in Clients |-> IF c \in ids(open \ broken)
                                     THEN Push(chan[c], Item("live", p)) ELSE chan[c]]
    BY <1>6 DEF FilterAndServe, chans
  <2> HIDE DEF ids
  <2>2. ASSUME NEW c \in Clients
        PROVE  /\ Push(chan[c], Item("live", p)) \in Seq(Items)
               /\ Len(Push(chan[c], Item("live", p))) <= ChanCap
    BY <1>0, <1>3, PushType
  <2> QED BY <1>0, <2>1, <2>2
<1>7. \A c \in Clients :
        /\ Refuse(c) \/ HistoryFails(c) => Send(c, Item("err", Nil))
        /\ FeedFails(c) => Send(c, Item("err", Nil)) \/ UNCHANGED chan
  BY DEF Refuse, HistoryFails, FeedFails, SendErrAndQuit
<1>8. \A c \in Clients : FeedComplete(c) => Send(c, Item("complete", Nil))
  BY DEF FeedComplete
<1> QED BY <1>1, <1>2, <1>3, <1>4, <1>5, <1>6, <1>7, <1>8
        DEF Next, Serve, SubscribeStep, FeedStep, Stream, Disconnect, StreamQuit, Register,
            FeedFirst, FeedLast, FeedCheck, FeedSkip, FeedQuit, Stop, IndexBlock, chans, vars

\* What a step does to the settings, the index and the loops of the feeds.
LoopFrame ==
    /\ UNCHANGED settings
    /\ UNCHANGED indexed \/ \E h \in Heights : IndexBlock(h)
    /\ \/ UNCHANGED request
       \/ \E c \in Clients, r \in {"start", "first", "done"} :
            request[c] # "done" /\ request' = [request EXCEPT ![c] = r]
       \/ \E c \in Clients : FeedFirst(c)
    /\ \/ UNCHANGED feed
       \/ \E c \in Clients, s \in {"run", "done"} :
            feed[c] # "none" /\ feed' = [feed EXCEPT ![c] = s]
       \/ \E c \in Clients : FeedLast(c) \/ FeedCheck(c)
    /\ \/ UNCHANGED at
       \/ \E c \in Clients : Continue(c) \/ FeedFirst(c)
    /\ UNCHANGED to \/ \E c \in Clients : FeedLast(c)

LEMMA StepFrame == ASSUME ServeInv, [Next]_vars PROVE LoopFrame
<1>1. ASSUME NEW c \in Clients, Stream(c) PROVE LoopFrame
  <2>1. request[c] = "none"
    BY <1>1 DEF Stream, ServeInv, RegistrationInv
  <2> QED BY <1>1, <2>1 DEF Stream, LoopFrame, loop
<1>2. ASSUME NEW c \in Clients, Relay(c) PROVE LoopFrame
  BY <1>2 DEF Relay, LoopFrame, loop
<1>3. ASSUME NEW c \in Clients, Disconnect(c) PROVE LoopFrame
  BY <1>3 DEF Disconnect, LoopFrame, loop
<1>4. ASSUME NEW c \in Clients, StreamQuit(c) PROVE LoopFrame
  BY <1>4 DEF StreamQuit, LoopFrame, loop
<1>5. ASSUME NEW c \in Clients, Refuse(c) PROVE LoopFrame
  BY <1>5 DEF Refuse, LoopFrame, loop
<1>6. ASSUME NEW c \in Clients, Register(c) PROVE LoopFrame
  BY <1>6 DEF Register, LoopFrame, loop
<1>7. ASSUME NEW c \in Clients, FeedFirst(c) PROVE LoopFrame
  BY <1>7 DEF FeedFirst, LoopFrame
<1>8. ASSUME NEW c \in Clients, FeedLast(c) PROVE LoopFrame
  BY <1>8 DEF FeedLast, LoopFrame
<1>9. ASSUME NEW c \in Clients, HistoryFails(c) PROVE LoopFrame
  BY <1>9 DEF HistoryFails, LoopFrame, loop
<1>10. ASSUME NEW c \in Clients, FeedSend(c) PROVE LoopFrame
  BY <1>10 DEF FeedSend, Continue, LoopFrame
<1>11. ASSUME NEW c \in Clients, FeedSkip(c) PROVE LoopFrame
  BY <1>11 DEF FeedSkip, Continue, LoopFrame
<1>12. ASSUME NEW c \in Clients, FeedQuit(c) PROVE LoopFrame
  BY <1>12 DEF FeedQuit, LoopFrame
<1>13. ASSUME NEW c \in Clients, FeedComplete(c) PROVE LoopFrame
  BY <1>13 DEF FeedComplete, LoopFrame
<1>14. ASSUME NEW c \in Clients, FeedFails(c) PROVE LoopFrame
  BY <1>14 DEF FeedFails, Continue, LoopFrame
<1>15. ASSUME NEW p \in Heights \cup {Nil}, FilterAndServe(p) PROVE LoopFrame
  BY <1>15 DEF FilterAndServe, LoopFrame, loop
<1>16. CASE Stop
  BY <1>16 DEF Stop, LoopFrame, loop
<1>17. ASSUME NEW h \in Heights, IndexBlock(h) PROVE LoopFrame
  BY <1>17 DEF IndexBlock, LoopFrame, loop
<1>18. ASSUME NEW c \in Clients, FeedCheck(c) PROVE LoopFrame
  BY <1>18 DEF FeedCheck, LoopFrame
<1>19. CASE UNCHANGED vars
  BY <1>19 DEF LoopFrame, vars
<1> QED BY <1>1, <1>2, <1>3, <1>4, <1>5, <1>6, <1>7, <1>8, <1>9, <1>10, <1>11, <1>12,
           <1>13, <1>14, <1>15, <1>16, <1>17, <1>18, <1>19
        DEF Next, Serve, SubscribeStep, FeedStep

\* The feeds: a feed starts and ends at heights, and has an end only once the
\* index has a block.
LEMMA NextFeedTypes == ASSUME ServeInv, [Next]_vars PROVE FeedTypes'
<1> USE WatcherServeAssumption
<1>0. FeedTypes /\ LoopFrame
  BY StepFrame DEF ServeInv
<1>1. UNCHANGED settings /\ indexed' \subseteq Heights /\ (indexed # {} => indexed' # {})
  <2>1. UNCHANGED settings /\ (UNCHANGED indexed \/ \E h \in Heights : indexed' = indexed \cup {h})
    BY <1>0 DEF LoopFrame, IndexBlock
  <2> QED BY <1>0, <2>1 DEF FeedTypes
<1>2. feed' \in [Clients -> {"none", "run", "fetch", "done"}]
  BY <1>0 DEF FeedTypes, LoopFrame, FeedLast, FeedCheck
<1>3. request \in [Clients -> {"none", "start", "first", "last", "done"}]
  BY DEF ServeInv, RegistrationInv
<1>4. \A c \in Clients : request'[c] = "last" => indexed' # {}
  <2>1. \A c \in Clients : FeedFirst(c) => indexed # {}
    BY DEF FeedFirst
  <2>2. CASE UNCHANGED request
    BY <1>0, <1>1, <2>2 DEF FeedTypes
  <2>3. ASSUME NEW d \in Clients, NEW r \in {"start", "first", "done"},
               request' = [request EXCEPT ![d] = r]
        PROVE  \A c \in Clients : request'[c] = "last" => indexed' # {}
    BY <1>0, <1>1, <1>3, <2>3 DEF FeedTypes
  <2> QED BY <1>0, <1>1, <2>1, <2>2, <2>3 DEF LoopFrame
<1>5. at' \in [Clients -> 0..(MaxHeight + 1)]
  <2>1. CASE UNCHANGED at
    BY <1>0, <2>1 DEF FeedTypes
  <2>2. ASSUME NEW c \in Clients, Continue(c)
        PROVE  at' \in [Clients -> 0..(MaxHeight + 1)]
    <3>1. at[c] <= to[c] /\ at' = [at EXCEPT ![c] = @ + 1]
      BY <1>0, <2>2 DEF FeedTypes, Continue
    <3>2. at[c] + 1 \in 0..(MaxHeight + 1)
      BY <1>0, <3>1, SMTT(30) DEF FeedTypes, Heights
    <3> QED BY <1>0, <3>1, <3>2 DEF FeedTypes
  <2>3. ASSUME NEW c \in Clients, FeedFirst(c)
        PROVE  at' \in [Clients -> 0..(MaxHeight + 1)]
    <3>1. First \in indexed
      <4>1. indexed # {} /\ indexed \subseteq Heights
        BY <1>0, <2>3 DEF FeedFirst, FeedTypes
      <4> QED BY <4>1, FirstAndLatest
    <3>2. First \in 0..(MaxHeight + 1) /\ settings[c].start \in 0..(MaxHeight + 1)
      BY <1>0, <3>1, SMTT(30) DEF FeedTypes, Heights
    <3> QED BY <1>0, <2>3, <3>2 DEF FeedFirst, FeedTypes
  <2> QED BY <1>0, <2>1, <2>2, <2>3 DEF LoopFrame
<1>6. to' \in [Clients -> Heights]
  <2>1. CASE UNCHANGED to
    BY <1>0, <2>1 DEF FeedTypes
  <2>2. ASSUME NEW c \in Clients, FeedLast(c) PROVE to' \in [Clients -> Heights]
    <3>1. Latest \in indexed
      <4>1. indexed # {} /\ indexed \subseteq Heights
        BY <1>0, <2>2 DEF FeedLast, FeedTypes
      <4> QED BY <4>1, FirstAndLatest
    <3>2. Latest \in Heights /\ settings[c].end \in Heights
      BY <1>0, <3>1, SMTT(30) DEF FeedTypes
    <3> QED BY <1>0, <2>2, <3>2 DEF FeedLast, FeedTypes
  <2> QED BY <1>0, <2>1, <2>2 DEF LoopFrame
<1>9. ASSUME NEW c \in Clients, ~FeedLast(c), ~FeedCheck(c)
      PROVE  feed'[c] = feed[c] \/ (feed[c] # "none" /\ feed'[c] \in {"run", "done"})
  <2>0. feed \in [Clients -> {"none", "run", "fetch", "done"}]
    BY <1>0 DEF FeedTypes
  <2>1. CASE UNCHANGED feed
    BY <2>1
  <2>2. ASSUME NEW d \in Clients, NEW s \in {"run", "done"},
               feed[d] # "none", feed' = [feed EXCEPT ![d] = s]
        PROVE  feed'[c] = feed[c] \/ (feed[c] # "none" /\ feed'[c] \in {"run", "done"})
    BY <2>0, <2>2
  <2>3. ASSUME NEW d \in Clients, FeedLast(d) \/ FeedCheck(d) PROVE feed'[c] = feed[c]
    <3>1. d # c /\ \E x : feed' = [feed EXCEPT ![d] = x]
      BY <1>9, <2>3 DEF FeedLast, FeedCheck
    <3> QED BY <2>0, <3>1
  <2> QED BY <1>0, <2>1, <2>2, <2>3 DEF LoopFrame
<1>7. ASSUME NEW c \in Clients, feed'[c] # "none" PROVE request'[c] = "done"
  <2>1. CASE FeedLast(c)
    BY <1>3, <2>1 DEF FeedLast
  <2>2. CASE ~FeedLast(c)
    <3>1. feed[c] # "none"
      BY <1>7, <1>9, <2>2 DEF FeedCheck
    <3>2. request[c] = "done"
      BY <1>0, <3>1 DEF FeedTypes
    <3> QED BY <1>0, <1>3, <3>2 DEF LoopFrame, FeedFirst
  <2> QED BY <2>1, <2>2
<1>8. ASSUME NEW c \in Clients, feed'[c] = "fetch" PROVE at'[c] <= to'[c]
  <2>1. CASE FeedCheck(c)
    BY <2>1 DEF FeedCheck
  <2>2. CASE ~FeedCheck(c)
    <3>1. feed[c] = "fetch" /\ ~Continue(c)
      <4>1. ~Continue(c)
        BY <1>0, <1>8 DEF FeedTypes, Continue
      <4>2. ~FeedLast(c)
        BY <1>0, <1>8 DEF FeedTypes, FeedLast
      <4> QED BY <1>8, <1>9, <2>2, <4>1, <4>2
    <3>2. request[c] = "done" /\ at[c] <= to[c]
      BY <1>0, <3>1 DEF FeedTypes
    <3>3. at'[c] = at[c]
      BY <1>0, <3>1, <3>2 DEF LoopFrame, FeedTypes, FeedFirst, Continue
    <3>4. to'[c] = to[c]
      BY <1>0, <3>2 DEF LoopFrame, FeedTypes, FeedLast
    <3> QED BY <3>2, <3>3, <3>4
  <2> QED BY <2>1, <2>2
<1> QED BY <1>0, <1>1, <1>2, <1>4, <1>5, <1>6, <1>7, <1>8, NextChanTypes DEF FeedTypes

\* A record of heights grows, and has the height for those it was noted for.
LEMMA NoteGrows ==
    ASSUME NEW record, NEW C, NEW h, NEW c \in Clients
    PROVE  /\ record[c] \subseteq Note(record, C, h)[c]
           /\ c \in C /\ c \in Tracked => h \in Note(record, C, h)[c]
  BY DEF Note

\* The history: nobody is offered a nil payload, for a subscription that is still
\* open when one is served makes the process panic.
LEMMA NextPastTypes == ASSUME ServeInv, [Next]_vars PROVE PastTypes'
<1> USE WatcherServeAssumption
<1>0. PastTypes
  BY DEF ServeInv
<1>1. ASSUME NEW record \in [Clients -> SUBSET Heights], NEW C, NEW h \in Heights
      PROVE  Note(record, C, h) \in [Clients -> SUBSET Heights]
  BY DEF Note
<1>2. ASSUME NEW c \in Clients, FeedStep(c) \/ FeedFails(c) PROVE PastTypes'
  <2>1. feed[c] = "fetch" => at[c] \in Heights
    BY SMTT(30) DEF ServeInv, FeedTypes, Heights
  <2>2. offered' \in [Clients -> SUBSET Heights] /\ failed' \in [Clients -> SUBSET Heights]
    <3>1. CASE FeedSend(c)
      BY <1>0, <1>1, <2>1, <3>1 DEF FeedSend, Continue, PastTypes
    <3>2. CASE FeedFails(c)
      BY <1>0, <1>1, <2>1, <3>2 DEF FeedFails, Continue, PastTypes
    <3> QED BY <1>0, <1>2, <3>1, <3>2
            DEF FeedStep, FeedCheck, FeedSkip, FeedQuit, FeedComplete, past, PastTypes
  <2>3. UNCHANGED <<serves, proc, since, snapshot, strays>> /\ faults' \in 0..MaxFaults
    BY <1>0, <1>2, SMTT(30) DEF PastTypes, FeedStep, FeedCheck, FeedSend, FeedSkip, FeedQuit,
                      FeedComplete, FeedFails, past
  <2> QED BY <1>0, <2>2, <2>3 DEF PastTypes
<1>3. ASSUME NEW c \in Clients,
             Stream(c) \/ Relay(c) \/ Disconnect(c) \/ StreamQuit(c) \/ SubscribeStep(c)
      PROVE  PastTypes'
  <2>1. CASE Stream(c) \/ Relay(c) \/ Disconnect(c) \/ StreamQuit(c) \/ FeedLast(c)
    <3>1. UNCHANGED <<serves, proc, offered, failed, since, snapshot, strays, faults>>
      BY <2>1 DEF Stream, Relay, Disconnect, StreamQuit, FeedLast, past
    <3> QED BY <1>0, <3>1 DEF PastTypes
  <2>5. CASE Refuse(c)
    <3>1. /\ UNCHANGED <<serves, proc, offered, failed, since, snapshot, strays>>
          /\ faults' = faults \/ (faults < MaxFaults /\ faults' = faults + 1)
      BY <2>5 DEF Refuse, past
    <3>2. faults' \in 0..MaxFaults
      BY <1>0, <3>1, SMTT(30) DEF PastTypes
    <3> QED BY <1>0, <3>1, <3>2 DEF PastTypes
  <2>2. CASE Register(c)
    <3>1. /\ UNCHANGED <<serves, proc, offered, failed, since, snapshot, faults>>
          /\ strays' = IF stream[c] = "gone" THEN strays \cup {c} ELSE strays
      BY <2>2 DEF Register
    <3>2. strays' \subseteq Clients
      BY <1>0, <3>1 DEF PastTypes
    <3> QED BY <1>0, <3>1, <3>2 DEF PastTypes
  <2>3. CASE FeedFirst(c)
    <3>1. /\ UNCHANGED <<serves, proc, offered, failed, since, strays, faults>>
          /\ snapshot' = [snapshot EXCEPT ![c] = IF c \in Tracked THEN indexed ELSE @]
      BY <2>3 DEF FeedFirst
    <3>2. snapshot \in [Clients -> SUBSET Heights] /\ indexed \in SUBSET Heights
      BY <1>0 DEF PastTypes, ServeInv, FeedTypes
    <3>3. snapshot' \in [Clients -> SUBSET Heights]
      BY <3>1, <3>2
    <3> QED BY <1>0, <3>1, <3>3 DEF PastTypes
  <2>4. CASE HistoryFails(c)
    <3>1. /\ UNCHANGED <<serves, proc, offered, failed, since, snapshot>>
          /\ strays' = strays \cup {c}
          /\ faults' = faults \/ (faults < MaxFaults /\ faults' = faults + 1)
      BY <2>4 DEF HistoryFails
    <3>2. strays' \subseteq Clients
      BY <1>0, <3>1 DEF PastTypes
    <3>3. faults' \in 0..MaxFaults
      BY <1>0, <3>1, SMTT(30) DEF PastTypes
    <3> QED BY <1>0, <3>1, <3>2, <3>3 DEF PastTypes
  <2> QED BY <1>3, <2>1, <2>2, <2>3, <2>4, <2>5 DEF SubscribeStep
<1>4. ASSUME NEW p \in Heights \cup {Nil}, FilterAndServe(p) PROVE PastTypes'
  <2>1. /\ serves' \in 0..MaxServed /\ proc' \in {"up", "stopping", "panicked"}
        /\ faults' \in 0..MaxFaults /\ UNCHANGED <<snapshot, strays>>
    <3>1. /\ serves < MaxServed /\ serves' = serves + 1
          /\ proc' = "panicked" \/ proc' = proc
          /\ faults' = faults \/ (faults < MaxFaults /\ faults' = faults + 1)
          /\ UNCHANGED <<snapshot, strays>>
      BY <1>4 DEF FilterAndServe
    <3>2. serves' \in 0..MaxServed /\ faults' \in 0..MaxFaults
      BY <1>0, <3>1, SMTT(30) DEF PastTypes
    <3>3. proc' \in {"up", "stopping", "panicked"}
      BY <1>0, <3>1 DEF PastTypes
    <3> QED BY <3>1, <3>2, <3>3
  <2>2. PICK live, broken, later :
          \/ UNCHANGED <<offered, failed, since>>
          \/ /\ offered' = Note(offered, live, p) /\ failed' = Note(failed, broken, p)
             /\ since' = Note(since, later, p)
             /\ p = Nil => live = {} /\ broken = {} /\ later = {}
    <3>1. CASE UNCHANGED <<offered, failed, since>>
      BY <3>1
    <3>2. CASE ~UNCHANGED <<offered, failed, since>>
      <4> DEFINE open == DOMAIN Subscriptions \ {t \in DOMAIN Subscriptions : Closes(t, p)}
                 ids(T) == UNION {Subscriptions[t] : t \in T}
                 later == {c \in Clients : p # Nil /\ request[c] \notin {"none", "start"}}
      <4>1. PICK broken \in SUBSET open :
              /\ p = Nil => broken = {}
              /\ \A t \in open \ broken : ~Panics(t, p)
              /\ offered' = Note(offered, ids(open \ broken), p)
              /\ failed' = Note(failed, ids(broken), p)
              /\ since' = Note(since, later, p)
        BY <1>4, <3>2 DEF FilterAndServe
      <4>2. p = Nil => open \ broken = {}
        BY <4>1 DEF Panics
      <4>3. p = Nil => ids(open \ broken) = {} /\ ids(broken) = {} /\ later = {}
        BY <4>1, <4>2
      <4> HIDE DEF open, ids, later
      <4> QED BY <4>1, <4>3
    <3> QED BY <3>1, <3>2
  <2>3. /\ offered' \in [Clients -> SUBSET Heights] /\ failed' \in [Clients -> SUBSET Heights]
        /\ since' \in [Clients -> SUBSET Heights]
    <3>1. CASE p \in Heights
      <4>1. /\ Note(offered, live, p) \in [Clients -> SUBSET Heights]
            /\ Note(failed, broken, p) \in [Clients -> SUBSET Heights]
            /\ Note(since, later, p) \in [Clients -> SUBSET Heights]
        BY <1>0, <1>1, <3>1 DEF PastTypes
      <4> QED BY <1>0, <2>2, <4>1 DEF PastTypes
    <3>2. CASE p = Nil
      BY <1>0, <2>2, <3>2 DEF PastTypes, Note
    <3> QED BY <3>1, <3>2
  <2> QED BY <1>0, <2>1, <2>3 DEF PastTypes
<1>5. CASE Stop \/ (\E h \in Heights : IndexBlock(h)) \/ UNCHANGED vars
  BY <1>0, <1>5 DEF PastTypes, Stop, IndexBlock, vars, past
<1> QED BY <1>2, <1>3, <1>4, <1>5 DEF Next, Serve

\* One step of the serving side keeps all of this.
LEMMA NextServeInv == ServeInv /\ [Next]_vars => ServeInv'
<1>1. RegistrationInv /\ [Next]_vars => RegistrationInv'
  BY StreamRegistration, SubscribeRegistration, FeedRegistration, ServeRegistration,
     StopRegistration DEF Next, Serve
<1> QED BY <1>1, NextMapTypes, NextFeedTypes, NextPastTypes DEF ServeInv

\* Type correctness of the serving side, the bounds of the channels and of the
\* loops of the feeds included.
THEOREM ServeTypeInvariant == Spec => []TypeOK
<1>1. ServeInv => TypeOK
  BY DEF ServeInv, RegistrationInv, FeedTypes, MapTypes, PastTypes, TypeOK
<1> QED BY <1>1, NextServeInv, InitServeInv, PTL DEF Spec

-----------------------------------------------------------------------------
(***************************************************************************)
(* What the steps of one client do to another.                             *)
(***************************************************************************)
\* A step that is none of this client's feed: at most its request moves on, or its
\* channel loses its first item or gets an error or live data within its range.
Aside(c) ==
    /\ feed'[c] = feed[c] /\ at'[c] = at[c] /\ to'[c] = to[c]
    /\ \/ request'[c] = request[c]
       \/ request[c] # "done" /\ request'[c] = "done"
       \/ request[c] \in {"none", "start"} /\ request'[c] \in {"start", "first"}
    /\ \/ chan'[c] = chan[c]
       \/ chan[c] # <<>> /\ chan'[c] = Tail(chan[c])
       \/ chan'[c] = Push(chan[c], Item("err", Nil))
       \/ \E p \in Heights : /\ CheckRange(settings[c].start, settings[c].end, p)
                             /\ chan'[c] = Push(chan[c], Item("live", p))

\* The same for what is recorded of the client.
AsidePast(c) ==
    /\ snapshot'[c] = snapshot[c] /\ indexed \subseteq indexed'
    /\ offered[c] \subseteq offered'[c] /\ failed[c] \subseteq failed'[c]

\* The two steps that set up the feed of a client, and those of the feed itself.
FeedStart(c) == FeedFirst(c) \/ FeedLast(c)
FeedMoves(c) == FeedStep(c) \/ FeedFails(c)

\* The types of what a client has.
LEMMA ClientTypes ==
    ASSUME ServeInv
    PROVE  /\ chan \in [Clients -> Seq(Items)]
           /\ feed \in [Clients -> {"none", "run", "fetch", "done"}]
           /\ at \in [Clients -> 0..(MaxHeight + 1)] /\ to \in [Clients -> Heights]
           /\ request \in [Clients -> {"none", "start", "first", "last", "done"}]
           /\ offered \in [Clients -> SUBSET Heights] /\ failed \in [Clients -> SUBSET Heights]
           /\ snapshot \in [Clients -> SUBSET Heights]
  BY DEF ServeInv, FeedTypes, RegistrationInv, PastTypes

\* The goroutine of a connection.
LEMMA ConnectionAside ==
    ASSUME ServeInv, NEW d \in Clients, NEW c \in Clients,
           Stream(c) \/ Relay(c) \/ Disconnect(c) \/ StreamQuit(c)
    PROVE  Aside(d) /\ AsidePast(d)
<1>1. CASE Stream(c)
  <2>1. /\ UNCHANGED <<chan, feed, at, to, indexed, offered, failed, snapshot>>
        /\ stream[c] = "idle" /\ request' = [request EXCEPT ![c] = "start"]
    BY <1>1 DEF Stream, chans, loop, past
  <2>2. request[c] = "none"
    BY <2>1 DEF ServeInv, RegistrationInv
  <2>3. request'[d] = request[d] \/ (request[d] = "none" /\ request'[d] = "start")
    BY ClientTypes, <2>1, <2>2
  <2> QED BY <2>1, <2>3 DEF Aside, AsidePast
<1>2. CASE Relay(c)
  <2>1. /\ UNCHANGED <<request, feed, at, to, indexed, offered, failed, snapshot>>
        /\ chan[c] # <<>> /\ chan' = [chan EXCEPT ![c] = Tail(chan[c])]
    BY <1>2 DEF Relay, loop, past
  <2>2. chan'[d] = chan[d] \/ (chan[d] # <<>> /\ chan'[d] = Tail(chan[d]))
    BY ClientTypes, <2>1
  <2> QED BY <2>1, <2>2 DEF Aside, AsidePast
<1>3. CASE Disconnect(c)
  <2>1. UNCHANGED <<chan, request, feed, at, to, indexed, offered, failed, snapshot>>
    BY <1>3 DEF Disconnect, chans, loop, past
  <2> QED BY <2>1 DEF Aside, AsidePast
<1>4. CASE StreamQuit(c)
  <2>1. UNCHANGED <<chan, request, feed, at, to, indexed, offered, failed, snapshot>>
    BY <1>4 DEF StreamQuit, loop, past
  <2> QED BY <2>1 DEF Aside, AsidePast
<1> QED BY <1>1, <1>2, <1>3, <1>4

\* The Subscribe goroutine, up to the feed.
LEMMA SubscribeAside ==
    ASSUME ServeInv, NEW d \in Clients, NEW c \in Clients,
           Refuse(c) \/ HistoryFails(c) \/ Register(c)
    PROVE  Aside(d) /\ AsidePast(d)
<1>1. CASE Refuse(c) \/ HistoryFails(c)
  <2>1. /\ UNCHANGED <<feed, at, to, indexed, offered, failed, snapshot>>
        /\ chan' = [chan EXCEPT ![c] = Push(chan[c], Item("err", Nil))]
        /\ request[c] \in {"start", "first", "last"}
        /\ request' = [request EXCEPT ![c] = "done"]
    <3>1. CASE Refuse(c)
      BY <3>1 DEF Refuse, SendErrAndQuit, Send, loop, past
    <3>2. CASE HistoryFails(c)
      BY <3>2 DEF HistoryFails, SendErrAndQuit, Send, loop
    <3> QED BY <1>1, <3>1, <3>2
  <2>2. request'[d] = request[d] \/ (request[d] # "done" /\ request'[d] = "done")
    BY ClientTypes, <2>1
  <2>3. chan'[d] = chan[d] \/ chan'[d] = Push(chan[d], Item("err", Nil))
    BY ClientTypes, <2>1
  <2> QED BY <2>1, <2>2, <2>3 DEF Aside, AsidePast
<1>2. CASE Register(c)
  <2>1. /\ UNCHANGED <<chan, feed, at, to, indexed, offered, failed, snapshot>>
        /\ request[c] = "start"
        /\ \E r \in {"first", "done"} : request' = [request EXCEPT ![c] = r]
    BY <1>2 DEF Register, chans, loop
  <2>2. \/ request'[d] = request[d]
        \/ request[d] = "start" /\ request'[d] \in {"first", "done"}
    BY ClientTypes, <2>1
  <2> QED BY <2>1, <2>2 DEF Aside, AsidePast
<1> QED BY <1>1, <1>2

\* The feed of another client is set up.
LEMMA FeedStartAside ==
    ASSUME ServeInv, NEW d \in Clients, NEW c \in Clients, c # d, FeedStart(c)
    PROVE  Aside(d) /\ AsidePast(d)
<1>1. CASE FeedFirst(c)
  <2>1. /\ UNCHANGED <<chan, feed, to, indexed, offered, failed>>
        /\ \E x : at' = [at EXCEPT ![c] = x]
        /\ request' = [request EXCEPT ![c] = "last"]
        /\ \E x : snapshot' = [snapshot EXCEPT ![c] = x]
    BY <1>1 DEF FeedFirst, chans
  <2>2. at'[d] = at[d] /\ request'[d] = request[d] /\ snapshot'[d] = snapshot[d]
    BY ClientTypes, <2>1
  <2> QED BY <2>1, <2>2 DEF Aside, AsidePast
<1>2. CASE FeedLast(c)
  <2>1. /\ UNCHANGED <<chan, at, indexed, offered, failed, snapshot>>
        /\ \E x : to' = [to EXCEPT ![c] = x]
        /\ request' = [request EXCEPT ![c] = "done"]
        /\ feed' = [feed EXCEPT ![c] = "run"]
    BY <1>2 DEF FeedLast, chans, past
  <2>2. to'[d] = to[d] /\ request'[d] = request[d] /\ feed'[d] = feed[d]
    BY ClientTypes, <2>1
  <2> QED BY <2>1, <2>2 DEF Aside, AsidePast
<1> QED BY <1>1, <1>2 DEF FeedStart

\* The feed of another client.
LEMMA FeedMovesAside ==
    ASSUME ServeInv, NEW d \in Clients, NEW c \in Clients, c # d, FeedMoves(c)
    PROVE  Aside(d) /\ AsidePast(d)
<1>1. /\ UNCHANGED <<to, request, indexed, snapshot>>
      /\ chan' = chan \/ \E x : chan' = [chan EXCEPT ![c] = x]
      /\ at' = at \/ at' = [at EXCEPT ![c] = at[c] + 1]
      /\ \E x : feed' = [feed EXCEPT ![c] = x]
      /\ offered' = offered \/ offered' = Note(offered, {c}, at[c])
      /\ failed' = failed \/ failed' = Note(failed, {c}, at[c])
  <2>1. CASE FeedSend(c)
    BY <2>1 DEF FeedSend, Continue, Send
  <2>2. CASE FeedSkip(c)
    BY <2>2 DEF FeedSkip, Continue, chans, past
  <2>3. CASE FeedQuit(c)
    BY <2>3 DEF FeedQuit, chans, past
  <2>4. CASE FeedComplete(c)
    BY <2>4 DEF FeedComplete, Send, past
  <2>5. CASE FeedFails(c)
    BY <2>5 DEF FeedFails, Continue, Send
  <2>6. CASE FeedCheck(c)
    BY <2>6 DEF FeedCheck, chans, past
  <2> QED BY <2>1, <2>2, <2>3, <2>4, <2>5, <2>6 DEF FeedMoves, FeedStep
<1>2. chan'[d] = chan[d] /\ at'[d] = at[d] /\ feed'[d] = feed[d]
  BY ClientTypes, <1>1
<1>3. offered[d] \subseteq offered'[d] /\ failed[d] \subseteq failed'[d]
  BY <1>1 DEF Note
<1> QED BY <1>1, <1>2, <1>3 DEF Aside, AsidePast

\* The Serve goroutine.
LEMMA ServeAside ==
    ASSUME ServeInv, NEW d \in Clients, NEW p \in Heights \cup {Nil}, FilterAndServe(p)
    PROVE  Aside(d) /\ AsidePast(d)
<1> DEFINE open == DOMAIN Subscriptions \ {t \in DOMAIN Subscriptions : Closes(t, p)}
           ids(T) == UNION {Subscriptions[t] : t \in T}
<1>1. UNCHANGED <<request, feed, at, to, indexed, snapshot>>
  BY DEF FilterAndServe, loop
<1>2. PICK broken \in SUBSET open :
        \/ UNCHANGED <<chan, offered, failed>>
        \/ /\ \A t \in open \ broken : ~Panics(t, p)
           /\ chan' = [c \in Clients |->
                IF c \in ids(open \ broken) THEN Push(chan[c], Item("live", p)) ELSE chan[c]]
           /\ offered' = Note(offered, ids(open \ broken), p)
           /\ failed' = Note(failed, ids(broken), p)
  BY DEF FilterAndServe, chans
<1>3. offered[d] \subseteq offered'[d] /\ failed[d] \subseteq failed'[d]
  <2> HIDE DEF open, ids
  <2> QED BY <1>2, NoteGrows
<1>4. CASE UNCHANGED chan
  BY <1>1, <1>3, <1>4 DEF Aside, AsidePast
<1>5. CASE d \notin ids(open \ broken) /\ ~UNCHANGED chan
  <2> HIDE DEF ids
  <2>1. chan'[d] = chan[d]
    BY <1>2, <1>5
  <2> QED BY <1>1, <1>3, <2>1 DEF Aside, AsidePast
<1>6. CASE d \in ids(open \ broken) /\ ~UNCHANGED chan
  <2>1. PICK t \in open \ broken : d \in Subscriptions[t]
    BY <1>6
  <2>2. ~Panics(t, p) /\ ~Closes(t, p) /\ t = settings[d]
    BY <1>2, <1>6, <2>1 DEF ServeInv, RegistrationInv
  <2>3. p \in Heights /\ CheckRange(settings[d].start, settings[d].end, p)
    BY <2>1, <2>2 DEF Panics
  <2> HIDE DEF ids
  <2>4. chan'[d] = Push(chan[d], Item("live", p))
    BY <1>2, <1>6
  <2> QED BY <1>1, <1>3, <2>3, <2>4 DEF Aside, AsidePast
<1> QED BY <1>4, <1>5, <1>6

\* What a step does to a client whose feed it is not.
LEMMA StepAside ==
    ASSUME ServeInv, [Next]_vars, NEW d \in Clients, ~FeedStart(d), ~FeedMoves(d)
    PROVE  Aside(d) /\ AsidePast(d)
<1>1. CASE UNCHANGED vars
  BY <1>1 DEF Aside, AsidePast, vars
<1>2. CASE Stop
  <2>1. UNCHANGED <<chan, request, feed, at, to, indexed, offered, failed, snapshot>>
    BY <1>2 DEF Stop, loop, past
  <2> QED BY <2>1 DEF Aside, AsidePast
<1>3. ASSUME NEW h \in Heights, IndexBlock(h) PROVE Aside(d) /\ AsidePast(d)
  <2>1. /\ UNCHANGED <<chan, request, feed, at, to, offered, failed, snapshot>>
        /\ indexed \subseteq indexed'
    BY <1>3 DEF IndexBlock, chans, loop, past
  <2> QED BY <2>1 DEF Aside, AsidePast
<1>4. ASSUME NEW c \in Clients, SubscribeStep(c) PROVE Aside(d) /\ AsidePast(d)
  BY <1>4, SubscribeAside, FeedStartAside DEF SubscribeStep, FeedStart
<1>5. ASSUME NEW c \in Clients, FeedStep(c) \/ FeedFails(c) PROVE Aside(d) /\ AsidePast(d)
  BY <1>5, FeedMovesAside DEF FeedMoves
<1> QED BY <1>1, <1>2, <1>3, <1>4, <1>5, ConnectionAside, ServeAside DEF Next, Serve

-----------------------------------------------------------------------------
(***************************************************************************)
(* What is in the channels, and what the feeds have still to send.         *)
(***************************************************************************)
\* A feed exists only once its request is through, starts within the range, and
\* passes the end of the settings only if it begins there.  (The settings s of the
\* client, its request r, its feed f, and the loop of the feed.)
FeedOK(s, r, f, next, last) ==
    /\ r # "done" => f = "none"
    /\ r = "last" \/ f # "none" => s.start <= next
    /\ f # "none" /\ s.end > 0 /\ last > s.end => next >= s.end

\* What an item that waits in the client's channel says of its feed.
ItemOK(s, f, next, last, item) ==
    /\ item.kind = "live" => CheckRange(s.start, s.end, item.height)
    /\ item.kind = "old" => /\ f # "none" /\ s.start <= item.height /\ item.height <= last
                            /\ s.end > 0 /\ last > s.end => item.height >= s.end
    /\ item.kind = "complete" => f = "done" /\ next > last

\* Nothing of a feed follows its completion notice.
NoticeLast(q) ==
    \A i, j \in DOMAIN q :
      i < j /\ q[i].kind = "complete" => q[j].kind \notin {"old", "complete"}

\* The history of a client: what its feed has still to send of the blocks indexed
\* when it was set up is ahead of it and not past its end.
HistoryOK(c) ==
    /\ snapshot[c] \subseteq indexed
    /\ request[c] \in {"none", "start", "first"} => snapshot[c] = {}
    /\ \A h \in snapshot[c] : CheckRange(settings[c].start, settings[c].end, h) =>
         /\ request[c] = "last" \/ feed[c] # "none" => 
              h >= at[c] \/ h \in offered[c] \cup failed[c]
         /\ feed[c] # "none" => h <= to[c]

\* What was served once Subscribe was past registration: a client that is still
\* registered has been all along.
SinceOK(c) ==
    /\ request[c] \in {"none", "start"} => since[c] = {}
    /\ Registered(c) => since[c] \subseteq offered[c] \cup failed[c]

\* A feed and the items of its channel, for one client.
DeliveryOK(c) ==
    /\ FeedOK(settings[c], request[c], feed[c], at[c], to[c])
    /\ NoticeLast(chan[c])
    /\ \A i \in DOMAIN chan[c] : ItemOK(settings[c], feed[c], at[c], to[c], chan[c][i])

\* The items of a channel after a send: those before it and, if there was room,
\* the new one at the end.
LEMMA PushItems ==
    ASSUME NEW q \in Seq(Items), NEW item \in Items, NEW i \in DOMAIN Push(q, item)
    PROVE  \/ i \in DOMAIN q /\ Push(q, item)[i] = q[i]
           \/ i = Len(q) + 1 /\ Push(q, item)[i] = item
<1>1. CASE Push(q, item) = q
  BY <1>1
<1>2. CASE Push(q, item) = Append(q, item)
  <2>1. /\ Len(Append(q, item)) = Len(q) + 1 /\ Len(q) \in Nat
        /\ \A j \in 1..Len(q) : Append(q, item)[j] = q[j]
        /\ Append(q, item)[Len(q) + 1] = item
    BY SMTT(30)
  <2>2. DOMAIN Append(q, item) = 1..(Len(q) + 1) /\ DOMAIN q = 1..Len(q)
    BY <2>1, SMTT(30)
  <2>3. i \in 1..Len(q) \/ i = Len(q) + 1
    BY <1>2, <2>1, <2>2, SMTT(30)
  <2> QED BY <1>2, <2>1, <2>2, <2>3
<1> QED BY <1>1, <1>2 DEF Push

\* The items of a channel after a receive.
LEMMA TailItems ==
    ASSUME NEW q \in Seq(Items), q # <<>>, NEW i \in DOMAIN Tail(q)
    PROVE  i \in Nat /\ i + 1 \in DOMAIN q /\ Tail(q)[i] = q[i + 1]
<1>1. /\ Tail(q) \in Seq(Items) /\ Len(Tail(q)) = Len(q) - 1
      /\ \A j \in 1..Len(Tail(q)) : Tail(q)[j] = q[j + 1]
      /\ Len(q) \in Nat
  BY SMTT(30)
<1>2. DOMAIN Tail(q) = 1..Len(Tail(q)) /\ DOMAIN q = 1..Len(q)
  BY <1>1, SMTT(30)
<1> QED BY <1>1, <1>2, SMTT(30)

\* A send keeps NoticeLast, unless it is one of a feed that has said it is complete.
LEMMA PushNotice ==
    ASSUME NEW q \in Seq(Items), NEW item \in Items, NoticeLast(q),
           \/ item.kind \in {"live", "err"}
           \/ \A i \in DOMAIN q : q[i].kind # "complete"
    PROVE  NoticeLast(Push(q, item))
<1> SUFFICES ASSUME NEW i \in DOMAIN Push(q, item), NEW j \in DOMAIN Push(q, item), i < j,
                    Push(q, item)[i].kind = "complete"
             PROVE  Push(q, item)[j].kind \notin {"old", "complete"}
  BY DEF NoticeLast
<1>1. \/ i \in DOMAIN q /\ Push(q, item)[i] = q[i]
      \/ i = Len(q) + 1 /\ Push(q, item)[i] = item
  BY PushItems
<1>2. \/ j \in DOMAIN q /\ Push(q, item)[j] = q[j]
      \/ j = Len(q) + 1 /\ Push(q, item)[j] = item
  BY PushItems
<1>3. DOMAIN q = 1..Len(q) /\ Len(q) \in Nat
  BY SMTT(30)
<1>4. i \in DOMAIN q /\ q[i].kind = "complete"
  BY <1>1, <1>2, <1>3, SMTT(30)
<1> QED BY <1>2, <1>4 DEF NoticeLast

\* A receive keeps NoticeLast.
LEMMA TailNotice ==
    ASSUME NEW q \in Seq(Items), q # <<>>, NoticeLast(q)
    PROVE  NoticeLast(Tail(q))
<1> SUFFICES ASSUME NEW i \in DOMAIN Tail(q), NEW j \in DOMAIN Tail(q), i < j,
                    Tail(q)[i].kind = "complete"
             PROVE  Tail(q)[j].kind \notin {"old", "complete"}
  BY DEF NoticeLast
<1>1. i \in Nat /\ i + 1 \in DOMAIN q /\ Tail(q)[i] = q[i + 1]
  BY TailItems
<1>2. j \in Nat /\ j + 1 \in DOMAIN q /\ Tail(q)[j] = q[j + 1]
  BY TailItems
<1>3. i + 1 < j + 1
  BY <1>1, <1>2, SMTT(30)
<1> QED BY <1>1, <1>2, <1>3 DEF NoticeLast

\* A step that is none of the client's feed: live data is checked against its range
\* by filterAndServe, and errors say nothing.
LEMMA DeliveryAside ==
    ASSUME ServeInv, settings' = settings, NEW c \in Clients, DeliveryOK(c), Aside(c)
    PROVE  DeliveryOK(c)'
<1>0. /\ chan[c] \in Seq(Items)
      /\ request[c] \in {"none", "start", "first", "last", "done"}
      /\ feed'[c] = feed[c] /\ at'[c] = at[c] /\ to'[c] = to[c] /\ settings'[c] = settings[c]
  BY DEF ServeInv, FeedTypes, RegistrationInv, Aside
<1>1. FeedOK(settings[c], request[c], feed[c], at[c], to[c])'
  BY <1>0 DEF DeliveryOK, FeedOK, Aside
<1>2. \A i \in DOMAIN chan[c] : ItemOK(settings[c], feed[c], at[c], to[c], chan[c][i])
  BY DEF DeliveryOK
<1>3. NoticeLast(chan[c])
  BY DEF DeliveryOK
<1>4. NoticeLast(chan'[c]) /\
      \A i \in DOMAIN chan'[c] : ItemOK(settings[c], feed[c], at[c], to[c], chan'[c][i])
  <2>1. CASE chan'[c] = chan[c]
    BY <1>2, <1>3, <2>1
  <2>2. CASE chan[c] # <<>> /\ chan'[c] = Tail(chan[c])
    BY <1>0, <1>2, <1>3, <2>2, TailItems, TailNotice
  <2>3. ASSUME NEW item \in Items, chan'[c] = Push(chan[c], item),
               item.kind \in {"live", "err"}, ItemOK(settings[c], feed[c], at[c], to[c], item)
        PROVE  NoticeLast(chan'[c]) /\
               \A i \in DOMAIN chan'[c] : ItemOK(settings[c], feed[c], at[c], to[c], chan'[c][i])
    BY <1>0, <1>2, <1>3, <2>3, PushItems, PushNotice
  <2>4. CASE chan'[c] = Push(chan[c], Item("err", Nil))
    <3>1. /\ Item("err", Nil) \in Items /\ Item("err", Nil).kind = "err"
          /\ ItemOK(settings[c], feed[c], at[c], to[c], Item("err", Nil))
      BY DEF Item, Items, ItemOK
    <3> QED BY <2>3, <2>4, <3>1
  <2>5. ASSUME NEW p \in Heights, CheckRange(settings[c].start, settings[c].end, p),
               chan'[c] = Push(chan[c], Item("live", p))
        PROVE  NoticeLast(chan'[c]) /\
               \A i \in DOMAIN chan'[c] : ItemOK(settings[c], feed[c], at[c], to[c], chan'[c][i])
    <3>1. /\ Item("live", p) \in Items /\ Item("live", p).kind = "live"
          /\ ItemOK(settings[c], feed[c], at[c], to[c], Item("live", p))
      BY <2>5 DEF Item, Items, ItemOK
    <3> QED BY <2>3, <2>5, <3>1
  <2> QED BY <2>1, <2>2, <2>4, <2>5 DEF Aside
<1> QED BY <1>0, <1>1, <1>4 DEF DeliveryOK

\* sendHistoricalData finds the first and the last block: nothing was sent before.
LEMMA DeliveryFeedStart ==
    ASSUME ServeInv, settings' = settings, NEW c \in Clients, DeliveryOK(c), FeedStart(c)
    PROVE  DeliveryOK(c)'
<1> USE WatcherServeAssumption
<1>0. /\ chan \in [Clients -> Seq(Items)] /\ settings[c] \in Settings
      /\ feed \in [Clients -> {"none", "run", "fetch", "done"}]
      /\ at \in [Clients -> 0..(MaxHeight + 1)] /\ to \in [Clients -> Heights]
      /\ request \in [Clients -> {"none", "start", "first", "last", "done"}]
      /\ indexed \subseteq Heights /\ (request[c] = "last" => indexed # {})
  BY DEF ServeInv, FeedTypes, RegistrationInv
<1>1. settings[c].start \in Heights /\ settings[c].end \in Heights
  BY <1>0
<1>2. /\ request[c] \in {"first", "last"} /\ chan' = chan
      /\ request'[c] = "last" => feed'[c] = feed[c] /\ to'[c] = to[c]
  <2>1. CASE FeedFirst(c)
    BY <2>1 DEF FeedFirst, chans
  <2>2. CASE FeedLast(c)
    <3>1. request[c] = "last" /\ chan' = chan /\ request' = [request EXCEPT ![c] = "done"]
      BY <2>2 DEF FeedLast, chans
    <3> QED BY <1>0, <3>1
  <2> QED BY <2>1, <2>2 DEF FeedStart
<1>3. feed[c] = "none"
  BY <1>2 DEF DeliveryOK, FeedOK
<1>4. \A i \in DOMAIN chan[c] : /\ chan[c][i].kind \notin {"old", "complete"}
                                /\ chan[c][i].kind = "live" =>
                                     CheckRange(settings[c].start, settings[c].end,
                                                chan[c][i].height)
  BY <1>3 DEF DeliveryOK, ItemOK
<1>5. NoticeLast(chan[c])'
  BY <1>2 DEF DeliveryOK
<1>6. \A i \in DOMAIN chan'[c] : ItemOK(settings[c], feed[c], at[c], to[c], chan[c][i])'
  BY <1>2, <1>4 DEF ItemOK
<1>7. FeedOK(settings[c], request[c], feed[c], at[c], to[c])'
  <2>1. CASE FeedFirst(c)
    <3>1. /\ indexed # {} /\ UNCHANGED <<feed, to>>
          /\ at' = [at EXCEPT ![c] = IF First < settings[c].start THEN settings[c].start
                                     ELSE First]
          /\ request' = [request EXCEPT ![c] = "last"]
      BY <2>1 DEF FeedFirst
    <3>2. First \in indexed
      BY <1>0, <3>1, FirstAndLatest
    <3>3. First \in Int /\ settings[c].start \in Int
      BY <1>0, <1>1, <3>2, SMTT(30) DEF Heights
    <3>4. at'[c] >= settings[c].start
      BY <1>0, <3>1, <3>3, SMTT(30)
    <3>5. request'[c] = "last" /\ feed'[c] = "none"
      BY <1>0, <1>3, <3>1
    <3> QED BY <3>4, <3>5 DEF FeedOK
  <2>2. CASE FeedLast(c)
    <3> DEFINE end == settings[c].end
    <3>1. /\ request[c] = "last" /\ UNCHANGED at
          /\ to' = [to EXCEPT ![c] = IF Latest > end /\ end > 0 /\ end > at[c] THEN end
                                     ELSE Latest]
          /\ request' = [request EXCEPT ![c] = "done"]
          /\ feed' = [feed EXCEPT ![c] = "run"]
      BY <2>2 DEF FeedLast
    <3>2. Latest \in indexed
      BY <1>0, <3>1, FirstAndLatest
    <3>3. Latest \in Int /\ end \in Int /\ at[c] \in Int
      BY <1>0, <1>1, <3>2, SMTT(30) DEF Heights
    <3>4. request'[c] = "done" /\ at'[c] = at[c] /\ at[c] >= settings[c].start
      BY <1>0, <3>1 DEF DeliveryOK, FeedOK
    <3>5. end > 0 /\ to'[c] > end => at'[c] >= end
      BY <1>0, <3>1, <3>3, SMTT(30)
    <3> QED BY <3>4, <3>5 DEF FeedOK
  <2> QED BY <2>1, <2>2 DEF FeedStart
<1> QED BY <1>5, <1>6, <1>7 DEF DeliveryOK

\* The loop of the feed: it sends the next height, and its notice once it is past
\* the last one.
LEMMA DeliveryFeedMoves ==
    ASSUME ServeInv, settings' = settings, NEW c \in Clients, DeliveryOK(c), FeedMoves(c)
    PROVE  DeliveryOK(c)'
<1> USE WatcherServeAssumption
<1>0. /\ chan \in [Clients -> Seq(Items)] /\ settings[c] \in Settings
      /\ feed \in [Clients -> {"none", "run", "fetch", "done"}]
      /\ at \in [Clients -> 0..(MaxHeight + 1)] /\ to \in [Clients -> Heights]
      /\ feed[c] = "fetch" => at[c] <= to[c]
  BY DEF ServeInv, FeedTypes
<1>1. /\ settings[c].start \in Int /\ settings[c].end \in Int
      /\ at[c] \in Int /\ to[c] \in Int /\ chan[c] \in Seq(Items)
  BY <1>0, SMTT(30) DEF Heights
<1>2. /\ feed[c] \in {"run", "fetch"} /\ UNCHANGED <<to, request>>
      /\ at' = at \/ at' = [at EXCEPT ![c] = @ + 1]
      /\ \E x \in {"run", "fetch", "done"} : feed' = [feed EXCEPT ![c] = x]
      /\ \/ chan' = chan
         \/ at[c] <= to[c] /\ Send(c, Item("old", at[c]))
         \/ Send(c, Item("err", Nil))
         \/ at[c] > to[c] /\ feed' = [feed EXCEPT ![c] = "done"] /\ Send(c, Item("complete", Nil))
  <2>1. CASE FeedSend(c)
    BY <1>0, <2>1 DEF FeedSend, Continue
  <2>2. CASE FeedSkip(c)
    BY <2>2 DEF FeedSkip, Continue, chans
  <2>3. CASE FeedQuit(c)
    BY <2>3 DEF FeedQuit, chans
  <2>4. CASE FeedComplete(c)
    BY <2>4 DEF FeedComplete
  <2>5. CASE FeedFails(c)
    BY <2>5 DEF FeedFails, Continue
  <2>6. CASE FeedCheck(c)
    BY <2>6 DEF FeedCheck, chans
  <2> QED BY <2>1, <2>2, <2>3, <2>4, <2>5, <2>6 DEF FeedMoves, FeedStep
<1>3. /\ settings'[c] = settings[c] /\ to'[c] = to[c] /\ request'[c] = request[c]
      /\ at'[c] >= at[c] /\ at'[c] \in Int /\ feed'[c] \in {"run", "fetch", "done"}
  BY <1>0, <1>1, <1>2, SMTT(30)
<1>4. /\ request[c] = "done" /\ settings[c].start <= at[c]
      /\ settings[c].end > 0 /\ to[c] > settings[c].end => at[c] >= settings[c].end
  BY <1>2 DEF DeliveryOK, FeedOK
<1>5. FeedOK(settings[c], request[c], feed[c], at[c], to[c])'
  BY <1>1, <1>3, <1>4, SMTT(30) DEF FeedOK
<1>6. \A i \in DOMAIN chan[c] : ItemOK(settings[c], feed[c], at[c], to[c], chan[c][i])
  BY DEF DeliveryOK
<1>7. \A i \in DOMAIN chan[c] :
        /\ chan[c][i].kind # "complete"
        /\ ItemOK(settings'[c], feed'[c], at'[c], to'[c], chan[c][i])
  BY <1>2, <1>3, <1>6 DEF ItemOK
<1>8. ASSUME NEW item \in Items, Send(c, item),
             ItemOK(settings'[c], feed'[c], at'[c], to'[c], item)
      PROVE  DeliveryOK(c)'
  <2>1. chan'[c] = Push(chan[c], item)
    BY <1>0, <1>8 DEF Send
  <2>2. NoticeLast(chan'[c])
    BY <1>1, <1>7, <2>1, PushNotice DEF DeliveryOK
  <2>3. \A i \in DOMAIN chan'[c] : ItemOK(settings'[c], feed'[c], at'[c], to'[c], chan'[c][i])
    BY <1>1, <1>7, <1>8, <2>1, PushItems
  <2> QED BY <1>5, <2>2, <2>3 DEF DeliveryOK
<1>9. CASE chan' = chan
  <2>1. NoticeLast(chan'[c])
    BY <1>9 DEF DeliveryOK
  <2>2. \A i \in DOMAIN chan'[c] : ItemOK(settings'[c], feed'[c], at'[c], to'[c], chan'[c][i])
    BY <1>7, <1>9
  <2> QED BY <1>5, <2>1, <2>2 DEF DeliveryOK
<1>10. CASE at[c] <= to[c] /\ Send(c, Item("old", at[c]))
  <2>1. at[c] \in Heights
    BY <1>0, <1>10, SMTT(30) DEF Heights
  <2>2. Item("old", at[c]) \in Items
    BY <2>1 DEF Item, Items
  <2>3. ItemOK(settings'[c], feed'[c], at'[c], to'[c], Item("old", at[c]))
    BY <1>1, <1>3, <1>4, <1>10 DEF Item, ItemOK
  <2> QED BY <1>8, <1>10, <2>2, <2>3
<1>11. CASE Send(c, Item("err", Nil))
  <2>1. Item("err", Nil) \in Items
    BY DEF Item, Items
  <2>2. ItemOK(settings'[c], feed'[c], at'[c], to'[c], Item("err", Nil))
    BY DEF Item, ItemOK
  <2> QED BY <1>8, <1>11, <2>1, <2>2
<1>12. CASE /\ at[c] > to[c] /\ feed' = [feed EXCEPT ![c] = "done"]
            /\ Send(c, Item("complete", Nil))
  <2>1. Item("complete", Nil) \in Items
    BY DEF Item, Items
  <2>2. feed'[c] = "done" /\ at'[c] > to'[c]
    BY <1>0, <1>1, <1>3, <1>12, SMTT(30)
  <2>3. ItemOK(settings'[c], feed'[c], at'[c], to'[c], Item("complete", Nil))
    BY <2>2 DEF Item, ItemOK
  <2> QED BY <1>8, <1>12, <2>1, <2>3
<1> QED BY <1>2, <1>9, <1>10, <1>11, <1>12

\* The inductive invariant of what is delivered.
DeliveryInv == ServeInv /\ \A c \in Clients : DeliveryOK(c)

\* It holds in every behaviour.
LEMMA DeliveryHolds == Spec => []DeliveryInv
<1>1. Init => \A c \in Clients : DeliveryOK(c)
  BY SMTT(30) DEF Init, DeliveryOK, FeedOK, ItemOK, NoticeLast
<1>2. ASSUME DeliveryInv, [Next]_vars PROVE DeliveryInv'
  <2>1. ServeInv /\ UNCHANGED settings
    BY <1>2, StepFrame DEF DeliveryInv, LoopFrame
  <2>2. ServeInv'
    BY <1>2, <2>1, NextServeInv
  <2>3. ASSUME NEW c \in Clients PROVE DeliveryOK(c)'
    <3>1. DeliveryOK(c)
      BY <1>2 DEF DeliveryInv
    <3>2. CASE FeedStart(c)
      BY <2>1, <3>1, <3>2, DeliveryFeedStart
    <3>3. CASE FeedMoves(c)
      BY <2>1, <3>1, <3>3, DeliveryFeedMoves
    <3>4. CASE ~FeedStart(c) /\ ~FeedMoves(c)
      <4>1. Aside(c)
        BY <1>2, <2>1, <3>4, StepAside
      <4> QED BY <2>1, <3>1, <4>1, DeliveryAside
    <3> QED BY <3>2, <3>3, <3>4
  <2> QED BY <2>2, <2>3 DEF DeliveryInv
<1> QED BY <1>1, <1>2, InitServeInv, PTL DEF Spec, DeliveryInv

\* InRange for any clients, settings, heights and channel capacity: what waits in a
\* client's channel is within the range of its settings, the historical feed that
\* begins at or after the end excepted.
THEOREM InRangeHolds == Spec => []InRange
<1>1. DeliveryInv => InRange
  <2> SUFFICES ASSUME DeliveryInv, NEW c \in Clients, NEW i \in DOMAIN chan[c]
               PROVE  LET item == chan[c][i]
                          end == settings[c].end
                      IN  /\ item.kind \in {"live", "old"} => settings[c].start <= item.height
                          /\ item.kind = "live" /\ end > 0 => item.height <= end
                          /\ item.kind = "old" /\ end > 0 /\ item.height > end =>
                               \A j \in DOMAIN chan[c] :
                                 chan[c][j].kind = "old" => chan[c][j].height >= end
    BY DEF InRange
  <2>1. /\ settings[c].end \in Int /\ to[c] \in Int
        /\ \A j \in DOMAIN chan[c] : chan[c][j] \in Items
    BY WatcherServeAssumption, SMTT(30) DEF DeliveryInv, ServeInv, FeedTypes, Heights
  <2>2. \A j \in DOMAIN chan[c] : chan[c][j].height \in Int
    BY <2>1, WatcherServeAssumption, SMTT(30) DEF Items, Heights, Nil
  <2>3. \A j \in DOMAIN chan[c] : ItemOK(settings[c], feed[c], at[c], to[c], chan[c][j])
    BY DEF DeliveryInv, DeliveryOK
  <2> QED BY <2>1, <2>2, <2>3, SMTT(30) DEF ItemOK, CheckRange
<1> QED BY <1>1, DeliveryHolds, PTL

\* CompleteIsLast likewise: the notice of sendHistoricalData follows the whole range
\* and comes once, and no feed that Stop has cut short sends it.
THEOREM CompleteIsLastHolds == Spec => []CompleteIsLast
<1>1. DeliveryInv => CompleteIsLast
  BY DEF DeliveryInv, DeliveryOK, ItemOK, NoticeLast, CompleteIsLast
<1> QED BY <1>1, DeliveryHolds, PTL

\* A step that is none of the feed: the index only grows.
LEMMA HistoryAside ==
    ASSUME ServeInv, settings' = settings, NEW c \in Tracked, HistoryOK(c), Aside(c),
           AsidePast(c)
    PROVE  HistoryOK(c)'
<1>0. /\ c \in Clients /\ settings'[c] = settings[c] /\ snapshot'[c] = snapshot[c]
      /\ feed'[c] = feed[c] /\ at'[c] = at[c] /\ to'[c] = to[c]
      /\ indexed \subseteq indexed'
      /\ offered[c] \subseteq offered'[c] /\ failed[c] \subseteq failed'[c]
      /\ request[c] \in {"none", "start", "first", "last", "done"}
  <2>1. c \in Clients /\ request[c] \in {"none", "start", "first", "last", "done"}
    BY WatcherServeAssumption, ClientTypes
  <2> QED BY <2>1 DEF Aside, AsidePast
<1>2. /\ request'[c] = "last" => request[c] = "last"
      /\ request'[c] \in {"none", "start", "first"} => request[c] \in {"none", "start", "first"}
  BY <1>0 DEF Aside
<1> QED BY <1>0, <1>2 DEF HistoryOK, CheckRange

\* The feed is set up from the lowest to the highest height of the index, cut to
\* the range of the settings.
LEMMA HistoryFeedStart ==
    ASSUME ServeInv, settings' = settings, NEW c \in Tracked, DeliveryOK(c), HistoryOK(c),
           FeedStart(c)
    PROVE  HistoryOK(c)'
<1> USE WatcherServeAssumption
<1>0. /\ c \in Clients /\ settings'[c] = settings[c] /\ settings[c] \in Settings
      /\ feed \in [Clients -> {"none", "run", "fetch", "done"}]
      /\ at \in [Clients -> 0..(MaxHeight + 1)] /\ to \in [Clients -> Heights]
      /\ request \in [Clients -> {"none", "start", "first", "last", "done"}]
      /\ snapshot \in [Clients -> SUBSET Heights]
      /\ indexed \subseteq Heights /\ (request[c] = "last" => indexed # {})
  BY DEF ServeInv, FeedTypes, RegistrationInv, PastTypes
<1>1. settings[c].start \in Int /\ settings[c].end \in Int /\ \A h \in indexed : h \in Int
  BY <1>0, SMTT(30) DEF Heights
<1>2. CASE FeedFirst(c)
  <2>1. /\ indexed # {} /\ UNCHANGED <<feed, to, indexed, offered, failed>>
        /\ at' = [at EXCEPT ![c] = IF First < settings[c].start THEN settings[c].start
                                   ELSE First]
        /\ request[c] = "first" /\ request' = [request EXCEPT ![c] = "last"]
        /\ snapshot' = [snapshot EXCEPT ![c] = IF c \in Tracked THEN indexed ELSE snapshot[c]]
    BY <1>2 DEF FeedFirst
  <2>2. /\ request'[c] = "last" /\ snapshot'[c] = indexed /\ feed'[c] = "none"
        /\ at'[c] = IF First < settings[c].start THEN settings[c].start ELSE First
    BY <1>0, <2>1 DEF DeliveryOK, FeedOK
  <2>3. First \in indexed /\ \A h \in indexed : First <= h
    BY <1>0, <2>1, FirstAndLatest
  <2>4. \A h \in indexed : settings[c].start <= h => h >= at'[c]
    BY <1>1, <2>2, <2>3
  <2> QED BY <1>0, <2>1, <2>2, <2>4 DEF HistoryOK, CheckRange
<1>3. CASE FeedLast(c)
  <2> DEFINE end == settings[c].end
  <2>1. /\ request[c] = "last" /\ UNCHANGED <<at, indexed, offered, failed, snapshot>>
        /\ to' = [to EXCEPT ![c] = IF Latest > end /\ end > 0 /\ end > at[c] THEN end
                                   ELSE Latest]
        /\ request' = [request EXCEPT ![c] = "done"]
    BY <1>3 DEF FeedLast, past
  <2>2. /\ request'[c] = "done" /\ at'[c] = at[c]
        /\ to'[c] = IF Latest > end /\ end > 0 /\ end > at[c] THEN end ELSE Latest
    BY <1>0, <2>1
  <2>3. Latest \in indexed /\ \A h \in indexed : h <= Latest
    BY <1>0, <2>1, FirstAndLatest
  <2>4. \A h \in snapshot[c] : CheckRange(settings[c].start, end, h) => h <= to'[c]
    <3>1. snapshot[c] \subseteq indexed
      BY DEF HistoryOK
    <3> QED BY <1>1, <2>2, <2>3, <3>1, SMTT(30) DEF CheckRange
  <2> QED BY <1>0, <2>1, <2>2, <2>4 DEF HistoryOK, CheckRange
<1> QED BY <1>2, <1>3 DEF FeedStart

\* The loop of the feed leaves out a height only if nothing is indexed there.
LEMMA HistoryFeedMoves ==
    ASSUME ServeInv, settings' = settings, NEW c \in Tracked, DeliveryOK(c), HistoryOK(c),
           FeedMoves(c)
    PROVE  HistoryOK(c)'
<1> USE WatcherServeAssumption
<1>0. /\ c \in Clients /\ settings'[c] = settings[c]
      /\ feed \in [Clients -> {"none", "run", "fetch", "done"}]
      /\ at \in [Clients -> 0..(MaxHeight + 1)]
      /\ indexed \subseteq Heights /\ \A h \in indexed : h \in Int
  BY SMTT(30) DEF ServeInv, FeedTypes, Heights
<1>1. /\ feed[c] # "none" /\ UNCHANGED <<to, request, snapshot, indexed>>
      /\ feed'[c] # "none"
      /\ offered' = offered \/ offered' = Note(offered, {c}, at[c])
      /\ failed' = failed \/ failed' = Note(failed, {c}, at[c])
      /\ \/ at' = at
         \/ /\ at' = [at EXCEPT ![c] = at[c] + 1]
            /\ \/ offered' = Note(offered, {c}, at[c])
               \/ failed' = Note(failed, {c}, at[c])
               \/ at[c] \notin indexed
  <2>1. CASE FeedSend(c)
    BY <1>0, <2>1 DEF FeedSend, Continue
  <2>2. CASE FeedSkip(c)
    BY <1>0, <2>2 DEF FeedSkip, Continue, past
  <2>3. CASE FeedQuit(c)
    BY <1>0, <2>3 DEF FeedQuit, past
  <2>4. CASE FeedComplete(c)
    BY <1>0, <2>4 DEF FeedComplete, past
  <2>5. CASE FeedFails(c)
    BY <1>0, <2>5 DEF FeedFails, Continue
  <2>6. CASE FeedCheck(c)
    BY <1>0, <2>6 DEF FeedCheck, past
  <2> QED BY <2>1, <2>2, <2>3, <2>4, <2>5, <2>6 DEF FeedMoves, FeedStep
<1>2. /\ offered[c] \cup failed[c] \subseteq offered'[c] \cup failed'[c]
      /\ at[c] \in Int /\ feed'[c] # "none"
      /\ \/ at'[c] = at[c]
         \/ /\ at'[c] = at[c] + 1
            /\ at[c] \in offered'[c] \cup failed'[c] \/ at[c] \notin indexed
  BY <1>0, <1>1, SMTT(30) DEF Note
<1>3. snapshot[c] \subseteq indexed
  BY DEF HistoryOK
<1>4. \A h \in snapshot[c] : h \in Int /\ (h >= at[c] => h >= at'[c] \/ h \in offered'[c] \cup failed'[c])
  BY <1>0, <1>2, <1>3, SMTT(30)
<1>5. request[c] = "done"
  BY <1>1 DEF DeliveryOK, FeedOK
<1> QED BY <1>0, <1>1, <1>2, <1>3, <1>4, <1>5 DEF HistoryOK, CheckRange

\* A client is registered by its own Subscribe goroutine only, and whoever is still
\* registered after a payload was served was offered it, or an error was met.
LEMMA NextSince ==
    ASSUME ServeInv, [Next]_vars, NEW c \in Tracked, SinceOK(c)
    PROVE  SinceOK(c)'
<1>0. /\ c \in Clients
      /\ request \in [Clients -> {"none", "start", "first", "last", "done"}]
      /\ \A t \in DOMAIN Subscriptions : c \in Subscriptions[t] => t = settings[c]
  BY WatcherServeAssumption DEF ServeInv, RegistrationInv
<1>1. offered[c] \subseteq offered'[c] /\ failed[c] \subseteq failed'[c]
  <2>1. CASE FeedStart(c)
    BY <2>1 DEF FeedStart, FeedFirst, FeedLast, past
  <2>2. CASE FeedMoves(c)
    BY <2>2, <1>0 DEF FeedMoves, FeedStep, FeedCheck, FeedSend, FeedSkip, FeedQuit, FeedComplete,
                FeedFails, past, Note
  <2> QED BY <1>0, <2>1, <2>2, StepAside DEF AsidePast
<1>2. ASSUME NEW p \in Heights \cup {Nil}, FilterAndServe(p) PROVE SinceOK(c)'
  <2> DEFINE open == DOMAIN Subscriptions \ {t \in DOMAIN Subscriptions : Closes(t, p)}
             ids(T) == UNION {Subscriptions[t] : t \in T}
             later == {d \in Clients : p # Nil /\ request[d] \notin {"none", "start"}}
  <2>1. UNCHANGED request
    BY <1>2 DEF FilterAndServe
  <2>2. PICK broken \in SUBSET open :
          \/ UNCHANGED <<Subscriptions, since>>
          \/ /\ Subscriptions' = [t \in open |-> Subscriptions[t]]
             /\ offered' = Note(offered, ids(open \ broken), p)
             /\ failed' = Note(failed, ids(broken), p)
             /\ since' = Note(since, later, p)
    BY <1>2 DEF FilterAndServe, maps
  <2>3. CASE UNCHANGED <<Subscriptions, since>>
    BY <1>1, <2>1, <2>3 DEF SinceOK, Registered
  <2>4. CASE ~UNCHANGED <<Subscriptions, since>>
    <3>1. request[c] \in {"none", "start"} => since'[c] = since[c]
      BY <1>0, <2>2, <2>4 DEF Note
    <3>2. since'[c] \subseteq since[c] \cup {p}
      BY <1>0, <2>2, <2>4 DEF Note
    <3>3. ASSUME Registered(c)' PROVE Registered(c) /\ p \in offered'[c] \cup failed'[c]
      <4>1. PICK t \in open : c \in Subscriptions[t]
        BY <2>2, <2>4, <3>3 DEF Registered
      <4>2. Registered(c)
        BY <4>1 DEF Registered
      <4>3. c \in ids(open \ broken) \/ c \in ids(broken)
        BY <4>1
      <4> HIDE DEF open, ids, later
      <4>4. /\ offered' = Note(offered, ids(open \ broken), p)
            /\ failed' = Note(failed, ids(broken), p)
        BY <2>2, <2>4
      <4>5. CASE c \in ids(open \ broken)
        BY <1>0, <4>2, <4>4, <4>5, NoteGrows
      <4>6. CASE c \in ids(broken)
        BY <1>0, <4>2, <4>4, <4>6, NoteGrows
      <4> QED BY <4>3, <4>5, <4>6
    <3> HIDE DEF open, ids, later
    <3> QED BY <1>1, <2>1, <3>1, <3>2, <3>3 DEF SinceOK
  <2> QED BY <2>3, <2>4
<1>3. ASSUME UNCHANGED since, Registered(c)' => Registered(c) \/ since[c] = {},
             request'[c] \in {"none", "start"} => request[c] \in {"none", "start"}
      PROVE  SinceOK(c)'
  BY <1>1, <1>3 DEF SinceOK
<1>4. ASSUME NEW d \in Clients,
             Stream(d) \/ Relay(d) \/ StreamQuit(d) \/ Refuse(d) \/ FeedStart(d)
               \/ HistoryFails(d) \/ FeedMoves(d)
      PROVE  SinceOK(c)'
  <2>1. UNCHANGED <<Subscriptions, since>>
    BY <1>4 DEF Stream, Relay, StreamQuit, Refuse, FeedStart, FeedFirst, FeedLast, HistoryFails,
                FeedMoves, FeedStep, FeedCheck, FeedSend, FeedSkip, FeedQuit, FeedComplete,
                FeedFails, maps, past
  <2>2. request'[c] \in {"none", "start"} => request[c] \in {"none", "start"}
    <3>1. CASE Stream(d)
      <4>1. request[d] = "none" /\ request' = [request EXCEPT ![d] = "start"]
        BY <3>1 DEF Stream, ServeInv, RegistrationInv
      <4> QED BY <1>0, <4>1
    <3> QED BY <1>0, <1>4, <3>1
            DEF Relay, StreamQuit, Refuse, FeedStart, FeedFirst, FeedLast, HistoryFails,
                FeedMoves, FeedStep, FeedCheck, FeedSend, FeedSkip, FeedQuit, FeedComplete,
                FeedFails
  <2>3. Registered(c)' => Registered(c)
    BY <2>1 DEF Registered
  <2> QED BY <1>3, <2>1, <2>2, <2>3
<1>5. ASSUME NEW d \in Clients, Disconnect(d) PROVE SinceOK(c)'
  <2>1. UNCHANGED <<since, request>>
    BY <1>5 DEF Disconnect, past
  <2>2. Registered(c)' => Registered(c)
    BY <1>5 DEF Disconnect, Unsubscribe, Registered
  <2> QED BY <1>3, <2>1, <2>2
<1>6. ASSUME NEW d \in Clients, Register(d) PROVE SinceOK(c)'
  <2>1. /\ UNCHANGED since /\ request[d] = "start"
        /\ \E x \in {"first", "done"} : request' = [request EXCEPT ![d] = x]
    BY <1>6 DEF Register
  <2>2. Registered(c)' => Registered(c) \/ c = d
    <3>1. CASE UNCHANGED Subscriptions
      BY <3>1 DEF Registered
    <3>2. CASE ~UNCHANGED Subscriptions
      BY <1>6, <3>2, SMTT(30) DEF Register, AddSubscriber, Registered, maps
    <3> QED BY <3>1, <3>2
  <2>3. c = d => since[c] = {}
    BY <2>1 DEF SinceOK
  <2>4. request'[c] \in {"none", "start"} => request[c] \in {"none", "start"}
    BY <1>0, <2>1
  <2> QED BY <1>3, <2>1, <2>2, <2>3, <2>4
<1>7. CASE Stop
  <2>1. UNCHANGED <<since, request>> /\ DOMAIN Subscriptions' = {}
    BY <1>7, SMTT(30) DEF Stop, past
  <2>2. ~Registered(c)'
    BY <2>1 DEF Registered
  <2> QED BY <1>3, <2>1, <2>2
<1>8. CASE (\E h \in Heights : IndexBlock(h)) \/ UNCHANGED vars
  <2>1. UNCHANGED <<Subscriptions, since, request>>
    BY <1>8 DEF IndexBlock, maps, past, vars
  <2>2. Registered(c)' => Registered(c)
    BY <2>1 DEF Registered
  <2> QED BY <1>3, <2>1, <2>2
<1> QED BY <1>2, <1>4, <1>5, <1>6, <1>7, <1>8
        DEF Next, Serve, SubscribeStep, FeedStart, FeedMoves

\* The inductive invariant of the history.
HistoryInv == DeliveryInv /\ \A c \in Tracked : HistoryOK(c) /\ SinceOK(c)

\* It holds in every behaviour.
LEMMA HistoryHolds == Spec => []HistoryInv
<1>1. Init => \A c \in Tracked : HistoryOK(c) /\ SinceOK(c)
  BY WatcherServeAssumption DEF Init, HistoryOK, SinceOK
<1>2. ASSUME HistoryInv, DeliveryInv', [Next]_vars PROVE HistoryInv'
  <2>1. ServeInv /\ UNCHANGED settings
    BY <1>2, StepFrame DEF HistoryInv, DeliveryInv, LoopFrame
  <2>2. ASSUME NEW c \in Tracked PROVE HistoryOK(c)' /\ SinceOK(c)'
    <3>1. c \in Clients /\ DeliveryOK(c) /\ HistoryOK(c) /\ SinceOK(c)
      BY <1>2, WatcherServeAssumption DEF HistoryInv, DeliveryInv
    <3>2. ASSUME FeedStart(c) PROVE HistoryOK(c)'
      BY <2>1, <3>1, <3>2, HistoryFeedStart
    <3>3. ASSUME FeedMoves(c) PROVE HistoryOK(c)'
      BY <2>1, <3>1, <3>3, HistoryFeedMoves
    <3>4. ASSUME ~FeedStart(c), ~FeedMoves(c) PROVE HistoryOK(c)'
      <4>1. Aside(c) /\ AsidePast(c)
        BY <1>2, <2>1, <3>1, <3>4, StepAside
      <4> QED BY <2>1, <3>1, <4>1, HistoryAside
    <3>5. SinceOK(c)'
      BY <1>2, <2>1, <3>1, NextSince
    <3> QED BY <3>2, <3>3, <3>4, <3>5
  <2> QED BY <1>2, <2>2 DEF HistoryInv
<1> QED BY <1>1, <1>2, DeliveryHolds, PTL DEF Spec, HistoryInv

\* NoHole for any clients, settings and heights, and however the feed, the Serve
\* goroutine and the workers interleave: what is indexed when the feed is set up or
\* served after the registration is offered, unless an error is met for it.
THEOREM NoHoleHolds == Spec => []NoHole
<1>1. HistoryInv => NoHole
  <2> SUFFICES ASSUME HistoryInv, NEW c \in Tracked, Registered(c), feed[c] = "done",
                      at[c] > to[c],
                      NEW h \in since[c] \cup snapshot[c],
                      CheckRange(settings[c].start, settings[c].end, h)
               PROVE  h \in offered[c] \cup failed[c]
    BY DEF NoHole
  <2>1. HistoryOK(c) /\ SinceOK(c)
    BY DEF HistoryInv
  <2>2. c \in Clients /\ at[c] \in Int /\ to[c] \in Int /\ h \in Int
    BY WatcherServeAssumption, SMTT(30)
       DEF HistoryInv, DeliveryInv, ServeInv, FeedTypes, PastTypes, Heights
  <2> QED BY <2>1, <2>2, SMTT(30) DEF HistoryOK, SinceOK
<1> QED BY <1>1, HistoryHolds, PTL
=============================================================================
