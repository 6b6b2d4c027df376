------------------------------- MODULE Wiring -------------------------------
(***************************************************************************)
(* What the two commands are put together from: the settings and their      *)
(* defaults (the three NewConfig), the parts for a chain and an IPFS mode   *)
(* (pkg/builders) and the services made of them.                            *)
(*                                                                          *)
(* Connections that fail end the command before anything runs and are left  *)
(* out, as are paths, endpoints and the limits of the connection pools.     *)
(***************************************************************************)
EXTENDS Integers, Sequences

CONSTANTS IntHalf,      \* the integers are -IntHalf..IntHalf-1 (2^63 in the code)
          Second,       \* time.Second, in the units of a time.Duration (10^9)
          ToLower(_)    \* strings.ToLower

ASSUME IntHalfAssumption == IntHalf \in Nat \ {0}
ASSUME SecondAssumption == Second \in Nat \ {0} /\ 30 * Second < IntHalf

DefaultMaxBatchSize == 100
DefaultMaxBatchNumber == 50

Ints == -IntHalf..(IntHalf - 1)
Unsigned(i) == i % (2 * IntHalf)
Signed(u) == IF u < IntHalf THEN u ELSE u - 2 * IntHalf

\* time.Second * n, a product that wraps around.
Duration(n) == Signed(Unsigned(Second * n))

Nil == [part |-> "nil", chain |-> "nil"]
Failed == [part |-> "error", chain |-> "error"]
Part(name, chain) == [part |-> name, chain |-> chain]

-----------------------------------------------------------------------------
(***************************************************************************)
(* Settings.                                                                *)
(***************************************************************************)
\* Omni is a chain type, although nothing can be built for it.
NewChainType(name) ==
    CASE ToLower(name) \in {"ethereum", "eth"}       -> "Ethereum"
      [] ToLower(name) \in {"bitcoin", "btc", "xbt"} -> "Bitcoin"
      [] ToLower(name) = "omni"                      -> "Omni"
      [] OTHER                                       -> "error"

\* The remote client is known, and refused.
NewIPFSMode(name) ==
    CASE ToLower(name) \in {"local", "interface"} -> "LocalInterface"
      [] ToLower(name) \in {"postgres", "direct"} -> "DirectPostgres"
      [] OTHER                                    -> "error"
GetIPFSMode(name) == IF name = "" THEN "DirectPostgres" ELSE NewIPFSMode(name)

\* The client for the node: there is none for other chains.
Client(chain) == CASE chain = "Ethereum" -> "rpc.Client"
                   [] chain = "Bitcoin"  -> "rpcclient.ConnConfig"
                   [] OTHER              -> "nil"

GenerateDataTypeFromString(str) ==
    CASE ToLower(str) \in {"full", "f"}                                 -> "full"
      [] ToLower(str) \in {"headers", "header", "h"}                    -> "headers"
      [] ToLower(str) \in {"uncles", "u"}                               -> "uncles"
      [] ToLower(str) \in {"transactions", "transaction", "trxs", "txs",
                           "trx", "tx", "t"}                            -> "transactions"
      [] ToLower(str) \in {"receipts", "receipt", "rcts", "rct", "r"}   -> "receipts"
      [] ToLower(str) = "state"                                         -> "state"
      [] ToLower(str) = "storage"                                       -> "storage"
      [] OTHER                                                          -> "error"

\* Of Ethereum every type is supported, an unknown one as well.
SupportedDataType(d, c) ==
    \/ c = "Ethereum"
    \/ c = "Bitcoin" /\ d \in {"full", "headers", "transactions"}

\* A number below the smallest one allowed is replaced.
AtLeast(n, least) == IF n < least THEN least ELSE n

WatchConfig(s) ==
    LET chain == NewChainType(s.chain)
        mode == GetIPFSMode(s.mode)
    IN  [ok |-> chain # "error" /\ mode # "error", chain |-> chain, mode |-> mode,
         sync |-> s.sync, serve |-> s.serve, historical |-> s.historical,
         workers |-> IF s.sync THEN AtLeast(s.workers, 1) ELSE 0,
         client |-> IF s.sync THEN Client(chain) ELSE "nil"]

HistoricalConfig(s) ==
    LET chain == NewChainType(s.chain)
        mode == GetIPFSMode(s.mode)
    IN  [ok |-> chain # "error" /\ mode # "error", chain |-> chain, mode |-> mode,
         timeout |-> Duration(AtLeast(s.timeout, 15)), client |-> Client(chain),
         frequency |-> Duration(IF s.frequency <= 0 THEN 30 ELSE s.frequency),
         batchSize |-> Unsigned(s.batchSize), batchNumber |-> Unsigned(s.batchNumber)]

ResyncConfig(s) ==
    LET chain == NewChainType(s.chain)
        mode == GetIPFSMode(s.mode)
        data == GenerateDataTypeFromString(s.data)
    IN  [ok |-> /\ mode # "error" /\ data # "error" /\ chain # "error"
                /\ SupportedDataType(data, chain),
         chain |-> chain, mode |-> mode, data |-> data,
         timeout |-> Duration(AtLeast(s.timeout, 5)), client |-> Client(chain),
         ranges |-> <<<<Unsigned(s.start), Unsigned(s.stop)>>>>,
         batchSize |-> Unsigned(s.batchSize), batchNumber |-> Unsigned(s.batchNumber)]

-----------------------------------------------------------------------------
(***************************************************************************)
(* The builders: a part of the chain, or an error.                          *)
(***************************************************************************)
ForChain(name, chain) == IF chain \in {"Ethereum", "Bitcoin"} THEN Part(name, chain) ELSE Failed

NewResponseFilterer(chain) == ForChain("ResponseFilterer", chain)
NewCIDRetriever(chain) == ForChain("CIDRetriever", chain)
NewPayloadConverter(chain) == ForChain("PayloadConverter", chain)
NewCleaner(chain) == ForChain("Cleaner", chain)
NewPublicAPI(chain) == IF chain = "Ethereum" THEN Part("PublicEthAPI", chain) ELSE Failed

\* The client is asserted to be of the type that the chain needs.
NewPayloadStreamer(chain, client) ==
    IF client = Client(chain) THEN ForChain("PayloadStreamer", chain) ELSE Failed
NewPaylaodFetcher(chain, client) ==
    IF client = Client(chain) THEN ForChain("PayloadFetcher", chain) ELSE Failed

NewIPLDFetcher(chain, mode) ==
    ForChain(IF mode = "DirectPostgres" THEN "IPLDPGFetcher" ELSE "IPLDFetcher", chain)
NewIPLDPublisher(chain, mode) ==
    ForChain(IF mode = "DirectPostgres" THEN "IPLDPublisherAndIndexer" ELSE "IPLDPublisher", chain)

\* Mutant: the indexer is built without regard to the mode.
NewCIDIndexer_AnyMode(chain, mode) == ForChain("CIDIndexer", chain)

\* Bitcoin gets Ethereum's publisher and indexer, of which only Index is called.
NewCIDIndexer(chain, mode) ==
    CASE chain \notin {"Ethereum", "Bitcoin"} -> Failed
      [] chain \in {"Ethereum", "Bitcoin"} /\ mode = "DirectPostgres" ->
           Part("IPLDPublisherAndIndexer", "Ethereum")
      [] OTHER -> Part("CIDIndexer", chain)

\* Where Publish puts the blocks of data, and where a fetcher reads them.
PublishesTo(p) == IF p.part = "IPLDPublisherAndIndexer" THEN "postgres" ELSE "ipfs"
FetchesFrom(p) == IF p.part = "IPLDPGFetcher" THEN "postgres" ELSE "ipfs"

\* The chains whose rows Publish and then Index write; the Index of the
\* publisher and indexer returns without doing anything.
RowsOfPublish(p) == IF p.part = "IPLDPublisherAndIndexer" THEN <<p.chain>> ELSE <<>>
RowsOfIndex(p) == IF p.part = "CIDIndexer" THEN <<p.chain>> ELSE <<>>

-----------------------------------------------------------------------------
(***************************************************************************)
(* The services.                                                            *)
(***************************************************************************)
Built(parts) == \A f \in DOMAIN parts : parts[f] # Failed

NewWatcher(c) ==
    LET syncing(p) == IF c.sync THEN p ELSE Nil
        serving(p) == IF c.serve THEN p ELSE Nil
    IN  [Streamer |-> syncing(NewPayloadStreamer(c.chain, c.client)),
         Converter |-> syncing(NewPayloadConverter(c.chain)),
         Publisher |-> syncing(NewIPLDPublisher(c.chain, c.mode)),
         Indexer |-> syncing(NewCIDIndexer(c.chain, c.mode)),
         Filterer |-> syncing(NewResponseFilterer(c.chain)),
         Retriever |-> serving(NewCIDRetriever(c.chain)),
         IPLDFetcher |-> serving(NewIPLDFetcher(c.chain, c.mode))]

NewBackFillService(c) ==
    [Publisher |-> NewIPLDPublisher(c.chain, c.mode), Indexer |-> NewCIDIndexer(c.chain, c.mode),
     Converter |-> NewPayloadConverter(c.chain), Retriever |-> NewCIDRetriever(c.chain),
     Fetcher |-> NewPaylaodFetcher(c.chain, c.client)]

NewResyncService(c) ==
    [Publisher |-> NewIPLDPublisher(c.chain, c.mode), Indexer |-> NewCIDIndexer(c.chain, c.mode),
     Converter |-> NewPayloadConverter(c.chain), Retriever |-> NewCIDRetriever(c.chain),
     Fetcher |-> NewPaylaodFetcher(c.chain, c.client), Cleaner |-> NewCleaner(c.chain)]

\* The size of a batch and the number of workers of the two services.
Batches(c) ==
    [size |-> IF c.batchSize = 0 THEN DefaultMaxBatchSize ELSE c.batchSize,
     number |-> IF Signed(c.batchNumber) = 0 THEN DefaultMaxBatchNumber
                ELSE Signed(c.batchNumber)]

\* The namespaces of APIs(), and what startServers lets through where.
APIs(chain) == {"vdb", "rpc", "net", "admin"}
               \cup (IF NewPublicAPI(chain) = Failed THEN {} ELSE {"eth"})
API(chain) == CASE chain = "Ethereum" -> "eth" [] chain = "Bitcoin" -> "btc" [] OTHER -> "omni"
startServers(chain) ==
    [ipc |-> APIs(chain), ws |-> APIs(chain) \cap {"vdb"},
     http |-> APIs(chain) \cap {API(chain)}]

\* The watch command: what it has started when it waits for the shutdown, or
\* that it has ended itself.
watch(s) ==
    LET c == WatchConfig(s)
        h == HistoricalConfig(s)
        watcher == NewWatcher(c)
        filler == NewBackFillService(h)
    IN  [runs |-> c.ok /\ Built(watcher) /\ (c.historical => Built(filler)),
         watcher |-> watcher, filler |-> filler, servers |-> startServers(c.chain),
         started |-> {p \in {"sync", "serve", "backfill"} :
                        CASE p = "sync" -> c.sync
                          [] p = "serve" -> c.serve
                          [] p = "backfill" -> c.historical}]

\* The resync command.
rsyncCmdCommand(s) ==
    LET c == ResyncConfig(s)
    IN  [runs |-> c.ok /\ Built(NewResyncService(c)), service |-> NewResyncService(c)]

-----------------------------------------------------------------------------
\* What the environment and the configuration file can set.
AllSettings ==
    [chain : STRING, mode : STRING, sync : BOOLEAN, serve : BOOLEAN, historical : BOOLEAN,
     data : STRING, workers : Ints, batchNumber : Ints, batchSize : Ints, frequency : Ints,
     timeout : Ints, start : Ints, stop : Ints]

\* A payload is published and then indexed: one set of rows, of its own chain.
StoredOnce(service, chain) ==
    RowsOfPublish(service.Publisher) \o RowsOfIndex(service.Indexer) = <<chain>>

\* What watch leaves running uses only parts that were built (a payload reaches
\* filterAndServe from Sync or from the back fill), indexes every payload once
\* and reads the data back from where it is put.  One configuration is an
\* exception: the filterer is built for Sync alone, and without Sync the back
\* fill hands its payloads to a Serve that has none.  Clients can subscribe, and
\* the HTTP server answers them unless the chain is Bitcoin, which has no API.
WatchWired(s) ==
    LET w == watch(s)
        chain == NewChainType(s.chain)
        fed == "serve" \in w.started /\ ("sync" \in w.started \/ "backfill" \in w.started)
    IN  w.runs =>
        /\ "sync" \in w.started =>
             /\ \A f \in {"Streamer", "Converter", "Publisher", "Indexer"} : w.watcher[f] # Nil
             /\ StoredOnce(w.watcher, chain)
        /\ "backfill" \in w.started => StoredOnce(w.filler, chain)
        /\ "serve" \in w.started =>
             \A p \in {w.watcher.Publisher, w.filler.Publisher} \ {Nil} :
               FetchesFrom(w.watcher.IPLDFetcher) = PublishesTo(p)
        /\ "serve" \in w.started =>
             /\ "vdb" \in w.servers.ws /\ "vdb" \in w.servers.ipc
             /\ (w.servers.http = {}) <=> (chain = "Bitcoin")
        /\ fed => ((w.watcher.Filterer = Nil) <=> ("sync" \notin w.started))
        /\ w.started # {} => chain # "Omni"

\* The same for resync, which refuses a name it does not know and the data that
\* the chain does not have.
ResyncWired(s) ==
    LET r == rsyncCmdCommand(s)
        chain == NewChainType(s.chain)
        data == GenerateDataTypeFromString(s.data)
    IN  /\ r.runs => StoredOnce(r.service, chain)
        /\ r.runs <=> /\ GetIPFSMode(s.mode) # "error" /\ data # "error"
                      /\ \/ chain = "Ethereum"
                         \/ chain = "Bitcoin" /\ data \in {"full", "headers", "transactions"}

\* Heights are divided by a positive size; there are workers to take the bins
\* unless a negative number of them was asked for, which nothing replaces.  The
\* pool of Sync has a worker.  The interval of the ticker (NewTicker panics
\* unless it is positive) and the timeouts are positive and not shorter than
\* asked for unless so many seconds do not fit into a time.Duration.
SettingsUsable(s) ==
    /\ \A c \in {HistoricalConfig(s), ResyncConfig(s)} :
         /\ Batches(c).size > 0
         /\ Batches(c).number > 0 <=> s.batchNumber >= 0
         /\ Second * s.timeout < IntHalf => c.timeout > 0 /\ c.timeout >= Second * s.timeout
    /\ Second * s.frequency < IntHalf =>
         LET f == HistoricalConfig(s).frequency IN f > 0 /\ f >= Second * s.frequency
    /\ s.sync => WatchConfig(s).workers > 0
=============================================================================
