# TLA+ models of ipfs-blockchain-watcher

The watcher extracts Ethereum or Bitcoin data from a node, publishes it as IPLD
blocks, indexes it in Postgres, fills the gaps of the index and serves it to
subscribers. These modules model its concurrent parts, its store, the requests of
its Ethereum API and what it computes: gaps, filters, paths through IPLD nodes, and
what the commands build from their settings. TLC checks them on small instances and
TLAPS proves the central statements for every value of the constants. Paths below
are relative to the repository.

## 1. Inventory

| part | code | state | operations |
|---|---|---|---|
| gap search | `utils/utils.go`, `pkg/{eth,btc}/cid_retriever.go` | none (reads the header table) | `RetrieveGapsInData`, `MissingHeightsToGaps`, `GetBlockHeightBins` |
| header index | `pkg/{eth,btc}/indexer.go`, `cleaner.go` | `header_cids` rows with `times_validated` | upsert, `ResetValidation`, `Clean` |
| backfill | `pkg/historical/service.go` | goroutine, workers, `heightsChan`, `QuitChan`, WaitGroup | tick, hand-out, quit signals, worker loop, `Stop` |
| head sync | `pkg/watch/service.go`, `pkg/eth/streamer.go`, `pkg/btc/http_streamer.go` | four channels, the poller's `lastHash`, workers, WaitGroup | relay, poll, `Sync` loop, ring buffer, `publishAndIndex`, `Stop` |
| serving | `pkg/watch/service.go`, `api.go`, `helpers.go` | `Subscriptions`, `SubscriptionTypes`, client channels, feeds | `Stream`, `Subscribe`, `sendHistoricalData`, `Unsubscribe`, `filterAndServe`, `Stop` |
| Ethereum API | `pkg/eth/api.go`, `backend.go`, `cid_retriever.go`, `ipld_pg_fetcher.go` | none (reads tables that others write) | headers, blocks, transactions, logs |
| watch command | `cmd/watch.go` | the process | start in three modes, interrupt, `wg.Wait` |
| resync | `pkg/resync/service.go` | goroutine, workers | reset, clean, hand-out, worker loop |
| store | publishers, indexers, cleaners, `db/schema.sql` | nine tables with foreign keys, IPLD blocks | publish, index, typed cleaning |
| filters | `filterer.go`, `cid_retriever.go`, `backend.go` | none | selecting headers, transactions, receipts, state, storage, logs |
| IPLD fetchers | `pkg/{eth,btc}/ipld_fetcher.go`, `ipld_pg_fetcher.go` | none | `Fetch` from the block service, from the tables |
| IPLD nodes | `pkg/ipfs/ipld` | none | `Resolve`, `Tree`, `Links`, decoding of trie nodes, Merkle tree |
| configuration | `pkg/*/config.go`, `pkg/builders`, `pkg/shared` | none | settings, defaults, builders, constructors |
| the rest | converters, encodings, dag putters, rewards, clients | none or library state | |

Three processes write the header table at the same time: head sync, backfill and
a resync command. Head sync and backfill forward converted payloads to the Serve
goroutine over one channel, which neither may wait for. The historical feed of a
subscription reads the index that the other two write. One interrupt stops
everything: it closes the quit channel of the backfill service, then that of the
watcher, and waits for the WaitGroup.

What is hard about it: a quit channel that carries both the end of a pass and the
shutdown; `wg.Add` inside the goroutines it counts; errors that are only logged
at every step of a worker; a ring buffer made of a channel that others receive
from; registration for live data beside a feed of the past; two maps that
must agree; gaps computed from a table that changes during the pass; IPLDs that
blocks share and that are deleted with cascades; a filter that exists twice,
in Go over payloads and in SQL over the index; and a block that an API request
puts together from statements between which others commit. The
hazards in `PROJECT.json` list these with their lines.

## 2. Modules

| module | models |
|---|---|
| `Listings` | lists made from sets, for `GapFinding` and `IpldFetch` |
| `GapFinding` | the functions of the gap search |
| `HeaderIndex` | the header table and the operations on it |
| `BackFillPass` | abstract specification of a backfill pass |
| `BackFill` | the backfill service; implements `BackFillPass` |
| `WatcherSync` | the head sync of both chains |
| `WatcherServe` | subscriptions, live serving and historical feeds |
| `Filters` | what a filter selects of a block, live and from the index, and `GetLogs` |
| `IndexStore` | tables, foreign keys and IPLDs; publishing, indexing, cleaning |
| `Resync` | the resync command on the store, beside a watcher; uses `GapFinding` |
| `EthBackend` | requests of the Ethereum API on the store, beside indexers and cleaners |
| `IpldFetch` | the IPLD fetchers of both chains and both modes |
| `IpldNodes` | fields, links and paths of IPLD nodes; the compact keys of trie nodes |
| `IpldTries` | decoding of and paths through trie nodes; the nodes of a Bitcoin block |
| `Wiring` | settings, builders, and what the two commands put together |
| `PureFunctions` | the arguments of `Filters`, `IpldFetch`, `IpldNodes` and `Wiring`, and the properties of what they compute |
| `GapFindingProofs`, `BackFillProofs`, `PureFunctionsProofs`, `IndexStoreProofs`, `ResyncProofs`, `EthBackendProofs`, `WatcherServeProofs`, `WatcherSyncProofs` | theorems |
| `MCGapFinding`, `MCFunctions`, `MCBackFill`, `MCWatcherSync`, `MCWatcherServe`, `MCResync`, `MCEthBackend` | instances for TLC |

Definitions named `X_Something` are mutants: wrong versions of `X`, each of which
makes the property it belongs to fail.

**GapFinding.** Unsigned arithmetic is modulo `UintMod`. `GetBlockHeightBins` and
`MissingHeightsToGaps` are given in closed form; `HeightsLoop` is a transcription of
the loop of the second, with which it is compared. `RetrieveGapsInData` is the self-join
over the set of rows, the initial gap and the under-validated heights, listed once
per row, so that a fork lists a height twice as the query does. It is the result on
a table that does not change meanwhile; `BackFill` takes its three statements one by
one. The Bitcoin and the Ethereum retriever have the same code.

**HeaderIndex.** A row is its key `<<block_number, block_hash>>`; `tv` is its
`times_validated`, capped by `MaxValidated`. `IndexHeader` is the upsert:
inserted with 1, incremented on conflict. `ResetValidation` and `CleanFull`
work on a range of heights. The dependent tables are in `IndexStore`; headers
outside the range that a clean removes because an uncle in the range is the same
IPLD are seen there and not here.

**BackFill.** `pc` is the place of the BackFill goroutine (before `wg.Add`, at its
select, between two statements of the search, between two bins, blocked on
`heightsChan`, sending quit signals, returned), `worker` that of each worker (select, fetch, convert, publish, index).
A send on an unbuffered channel and its receive are one action (`HandOut`,
`SignalQuit`). `QuitChan` is closed when `proc = "stopping"`; a receive from it
then always succeeds (`MainQuit`, `CheckQuit`, `WorkerQuit`) and a send panics
(`SendOnClosed`). Every call that can fail has an action for the failure, which
does what the code does after logging. `DirectPostgres` selects between a Publish
that writes the index itself and Publish followed by Index. The search is three
actions (`Search`, `SearchGaps`, `SearchHeights`), since `RetrieveGapsInData` issues
three statements outside a transaction. `Outside` are the other writers of the table,
which may commit between them: the workers of the head sync, which index heads in any
order, and a resync. `torn` is a history variable: a row was added during the last
search. `Crash` and `Restart` keep only the table.

**WatcherSync.** The channel of the node subscription, the relay goroutine,
`PayloadChan`, the Sync goroutine (`pc`, `cur`), the queue, and the workers. The
ring buffer is three actions, as in the code: the send that finds the queue full
(`Enqueue`), the receive (`Evict`) and the blocking send (`Requeue`), with
workers in between. `evicted`, `failed` and `done` record what became of a
payload. A broken Ethereum subscription yields one error and no more data. For
Bitcoin, `mined` is the sequence of heads the node has had, and the polling
goroutine is one action per call to the node (`PollCount`, `PollHash`,
`PollBlock`), with the node free to move on, or to reorganise, in between; an error
of a call (`PollFails`) waits in the unbuffered error channel until the Sync
goroutine takes it. Heads that two polls miss are not streamed; that is left to
the backfill in the code too.

**WatcherServe.** Sections under the mutex are one action. A subscription type is
the settings themselves (the code hashes them). `Subscribe` is split where it
reads the database: registration, first block, last block; a turn of the feed is two
actions, the look at `QuitChan` (`FeedCheck`) and what follows it, which a Stop in between
does not undo. Every send to a client is dropped when the channel is
full. A nil response or payload that is dereferenced ends in `proc = "panicked"`.
Settings keep what changes control: chain, range, historical data wanted, or only
historical data. Abstractions: what a filter selects inside a block, forks, rows
deleted while a feed runs, and the WaitGroup of the serving side, which no action
of this module waits for. `offered`, `failed`, `since` and `snapshot` are history
variables for `NoHole`, kept for the clients in `Tracked`: what a client was sent or would
have been with room in its channel, what was left out because a statement or an encoder
failed, what was served since it registered, and what was indexed when its feed
was set up. `strays` records the clients that
one of two races leaves registered: one that went before its `Subscribe` goroutine
registered it, and one that was told to quit because its feed failed.

**Filters.** Pure functions, no state. A block is its transactions with their logs
and its state and storage nodes; a filter is a record of the settings. `Live` is
`ResponseFilterer.Filter`, `Historical` is `CIDRetriever.Retrieve` followed by
`Fetch`, with the WHERE clauses as the code puts them together; `FetchErr` says
when the historical side fails. `BtcLive`, `BtcHistorical` and `BtcFetchErr` are the
same for Bitcoin, where the query has a row for every input and output.
`GetLogs` takes a block hash, or a range whose ends the first and the last block of the
table replace when they are nil; it queries receipts height by height and then selects
logs. Addresses,
topics and hashes are values; the one conversion that matters, the spelling of a
storage key, is the flag `canonical`.

**IndexStore.** A store is the set of its rows, the keys of `public.blocks` and the
`times_validated` of the headers; a row knows its table, its identity and the
header it hangs under. The operators give the store after a committed
transaction: `Published`, `Indexed`, `PublishedAndIndexed` (the direct Postgres
mode), `Cleaned`, `ValidationReset`. `Commit` checks the deferred foreign keys.
`Removed` is the cascade. `EthCleanOrder` and `BtcCleanOrder` list the deletes of
each type of data. Writing transactions are atomic: anomalies of READ COMMITTED
between two of them are not modelled. A block has at most one row of each kind.

**Resync.** `pc` is the place of `Resync`, `worker` that of each worker. A bin handed
out and a quit signal received are one action each. Without direct mode `Publish`
leaves what it put before an error (`PublishFails`), `Index` is a transaction. The
watcher publishes and indexes blocks of its own, forks included, between any two
steps. `exposed` is a history variable: blocks that a clean or another fork may
have cut into since they were indexed.

**EthBackend.** One request at a time, since requests share nothing. Each statement is
an action and sees what is committed when it begins: the last block number, the
header row by number or hash, uncles, transactions, receipts, then the IPLDs of
each, then the total difficulty. `WriterIndexes` and `CleanerCleans` commit between
any two, through the operators of `IndexStore`. A row deleted and inserted again has
another id, so `gone` holds the rows deleted since they were read. `NewBlock` is the
library's constructor, which computes the roots of the header from what it is given:
a block of which something is missing gets another hash, for which the last statement
finds no total difficulty (`GetTd`), and the request fails. `always` and `ever` are history variables:
the blocks complete in the store all the time, and at some moment, since the request
began. The JSON fields of an answer are left out.

**IpldFetch, IpldNodes, IpldTries, Wiring.** Pure functions. `IpldFetch` gives `Fetch`
from the block service, where a batch arrives in any order and may lack blocks
(`fetchBatch`), which its callers notice by counting (`AsMany`), and from the tables. In
`IpldNodes` a result of `Resolve` is a link or a value with the field it is from and the
rest of the path. A number in a path is one of `Numerals`, as
`fmt.Sprint` writes it; that `strconv.Atoi` also reads `+1` and `01` is left out. In
`IpldTries` a raw trie node is a sequence of items that are a key, data, a hash, a list
or nothing, and `decodeTrieNode` fails on an unknown prefix or number of items and panics on
an embedded list. An error of the `leafDecoder` is dropped as in the code: the node comes
without elements, and resolving it panics. A leaf of a storage trie holds bytes, which are
no IPLD node, so that resolving it is an error. A CID is the
content it stands for. In `Wiring` a part is a name and a chain, the names of chains, modes
and types of data are read in every spelling the code knows, of any case (`ToLower` is the
library's), settings go through `uint64` and back with their width (`IntHalf` is 2^63 in
the code), seconds become a `time.Duration` of the same width (`Second` is 10^9), and `watch` and
`rsyncCmdCommand` give what a command has started, or that it has ended itself.

**PureFunctions.** The variable `input` holds what is computed and from what. `InputTyped`
says of which types the arguments are: Boolean flags, Bitcoin transactions with an input
and an output, logs with at most `Slots` topics, an order of arrival that gives each
position another rank, paths of strings, settings within the integers.

## 3. Runs

| run | shows |
|---|---|
| `functions` | what is computed from arguments, on every small input, and the gap search over every table of 4 heights and 2 hashes; see below |
| `lone_height` | violation: a single under-validated height is not returned |
| `backfill` | 2 workers, 3 heights, bins of 2, one fault, two outside writes, one restart, Stop, the direct Postgres mode: `PassIsOver`, `NoSharedWork`, `QuietExit`, and refinement of `BackFillPass` (`ImplementsPass`) |
| `backfill_live` | the same with Publish and Index apart: `GapsFilled`, `PassesEnd`, `StopSettles` under fairness |
| `backfill_panic` | violation: Stop before or during the signalling closes the channel under the sender |
| `sync` | both chains, 2 workers, a queue of two places and channels of one, 4 payloads with reorgs, one fault, Stop: `Accounted`, `NewestKept`, `QuietExit` |
| `sync_live` | both chains: `ContinuesRegardless`, `HeadStreamed` and `SyncQuits` under fairness, with the direct Postgres mode |
| `serve` | 2 clients, 3 heights, channels of one place, nil payloads included: `MapsAgree`, `GoneMeansUnregistered` |
| `serve_feed` | one client, a channel of two places, five kinds of settings, one error of the database or the encoder: `NoHole`, `InRange`, `CompleteIsLast`, and, under fairness, `FeedEnds`, `StopEndsStreams` |
| `backend` | 14 requests over 4 blocks, one of them a fork, any set of them indexed or one type of data cleaned, two commits during the request: `TypeOK`, `AnswerWhole`, `AnswerMoment`, `ErrorMeansMoved` |
| `resync` | 12 settings over both chains and all types of data, 2 workers, one fault, one block of the watcher, any order of earlier indexing: `IndexAccepted`, `HeaderMeansWhole`, `ReturnMeansDone`, `ResyncRestores`, `SomebodyTakes`, `FullCleanLeavesNothing` |
| `clean_range` | violation: a clean removes rows outside its range |

The properties of `functions`:

| property | states |
|---|---|
| `GapHelpersExact` | bins are an ordered partition of the range, for every argument below 12; the closed form of `MissingHeightsToGaps` is what its loop computes, for lists of up to 6 heights |
| `GapsCover` | the gaps are exactly the missing and under-validated heights, unless just one row is under-validated |
| `GapsDisjoint` | no height is in two gaps, so that a pass works on each once |
| `FiltersAgree` | the queries select a part of what the live filter sends, and the same with plain settings; both chains |
| `GetLogsComplete` | `eth_getLogs`, by hash, by a range or by one with an end left out, leaves out no log that was asked for |
| `FetchersAgree` | both kinds of fetcher return the same data, or both fail |
| `FieldsListed` | `Tree` at any depth, `Resolve` and `Links` of a node agree, but for the fields named under departures |
| `TrieLookup` | a path from the root of a state, transaction or receipt trie finds its key's content however the digits are divided into elements, and nothing for another key; in a storage trie it gets as far as the leaf, which is an error, as is a trie with embedded nodes |
| `BtcBlockLinked` | all that is published of a Bitcoin block is reached from its header, unless a transaction has witness data |
| `CommandsWired` | the commands run exactly with settings they know, with parts of their chain, index a payload once and run their loops on positive numbers and durations, but for the cases named under departures |

Deadlock is not checked where the process may end or the bounded environment may
have nothing left to do. In `functions` the steps choose an input and end, except
for the operations on the header table.

**Bounds.** Two workers are enough for two goroutines to meet at every channel and
for one to lag behind; three heights with bins of two give a full and a partial
bin, and gaps at the start, in the middle and of validation. Channels of one or
two places are full in most states, which is where the code branches. Four
payloads overflow a queue of two places twice, so that order and age in it matter.
One fault reaches every error path, since each is one action away from the normal
one; two outside writes allow a head that skips heights and then a reset or a
clean during the pass. The blocks of `resync` are chosen for what they share: a
receipt of two heights, a transaction and a state node of two forks, an uncle that
is a fork's header, a Bitcoin transaction of two forks. Two topic slots instead of
four leave a first, a last and one beyond; the theorems hold for any number. The
blocks of `backend` are an empty one, two forks with the same transaction, of which one
has an uncle, and one whose two uncles include the fork and whose receipt equals that of
another block;
two commits allow a clean and a re-index between two statements. Tries of up to
three keys of four digits have branches, extensions and leaves at even and odd
depths; Bitcoin blocks of up to seven transactions have odd layers at two levels of
the tree. `IntHalf = 128` with `Second = 4` keeps the sign changes of 64 bits and lets
a number of seconds overflow. A channel of two places holds the completion notice and
something after it. The remaining bounds (`MaxStreamed`, `MaxServed`, `MaxRestarts`)
only end the environment's activity. Symmetry is used for safety only, over hashes that no constant distinguishes and over clients.

**Fairness.** Weak fairness for each goroutine: the Go scheduler runs every
goroutine that can run, and a node or database call returns. None is assumed of
the node, the clients, the Serve goroutine as seen by head sync, faults, outside
writers, Stop or crashes. `StreamQuit` is fair on its own: Go's select chooses at
random among ready cases, so a ready quit channel is taken in the end. The
polling goroutine is fair because its ticker keeps firing and its loop never ends.
`StaysUp` in the liveness properties of backfill says that the process is not
stopped from some time on; `NotWedged` in those of the head sync excludes one
schedule, in which the workers drain the whole queue (2000 payloads in the code)
between two statements of the ring buffer, after which the Sync goroutine waits
for ever.

**What the violations show.** Each states a comment of the code and is quoted under
`findings`: a lone under-validated height is never found, a Stop at the end of a
pass panics, and a clean reaches data outside its range, because deleting an IPLD
cascades to every row with its key. Each is a disagreement between a comment and the
code on a behaviour the model shows step by step.

**Other departures** are part of the models:

- A failed COMMIT is taken for a success by the caller of `Publish` or `Index`: the
  deferred function assigns `err` when the result has been evaluated (`CommitFails`,
  `IndexStore!Commit`).
- A feed that cannot be set up sends the quit signal to a client that stays registered
  (`HistoryFails`), and `Stream` returns without unsubscribing, although
  `pkg/watch/api.go:99` says that the service has done so. `GoneMeansUnregistered`
  shows that this and a disconnect before `Subscribe` are the only such cases.
- A row added between the three statements of the search can put its height into a gap of
  missing data and into one of under-validated data, although
  `pkg/eth/cid_retriever.go:482` says "There will be no overlap" (`NoSharedWork` names the
  exception); the height is then worked on twice in the pass.
- An error for one block does not end a feed, and one of the encoder is not reported to the
  client: the block is missing (`FeedFails`). A block that `Sync` forwards before the client
  registers and indexes after the feed was set up comes neither way (`NoHole`).
- The rows of a block whose IPLDs a resync has cleaned between Publish and Index of the
  watcher are refused by COMMIT, and nobody is told (`IndexAccepted` names the exception).
- A block before the start of a live subscription, or a nil payload that backfill
  forwards after a failed conversion, ends the process (`Panics`).
- A BackFill goroutine blocked in a hand-out is not reached by Stop once its workers
  are gone (`StopSettles` names the exception).
- A feed that starts at or after the end of its range runs on to the last block
  (`InRange` names the exception).
- Source and destination of a transaction are alternatives live and both required
  historically; `IntermediateNodes` is ignored for storage nodes live; storage keys
  are normalised live and compared as written historically; matching receipts to
  transactions without topics or contracts differs when no transaction matches.
  `Plain` lists the settings free of this.
- Settings without the header make every historical `Fetch` fail; topics beyond the
  fourth only make the query invalid (`QueryErr`).
- Bitcoin transactions come once per input and output from the query, and one output
  has to meet all conditions.
- `GetLogs` for block 0 queries all heights, and keeps logs of other addresses in a
  receipt that has one of a wanted address.
- When the vacuum fails, the data is cleaned and not fetched again (`VacuumFails`).
- The nodes of the transaction and receipt tries are never cleaned.
- Uncles are selected without an order: two of them in the other order make a block
  request fail (`ErrorMeansMoved` names the case).
- A Bitcoin header lists `difficulty` and resolves `bits`, a transaction lists
  `timeLock` and resolves `lockTime`; the links of an account end a path and are not in
  `Links`; `Tree` lists no child of a branch node.
- Trie nodes with embedded children fail to decode, or panic in a two-item node; no leaf
  of a storage trie can be resolved, and a leaf that does not decode panics when it is.
- A Bitcoin transaction with witness data is published under its witness hash, and
  the header's link then leads to nothing that was published.
- A negative number of workers is not replaced by the default and leaves no worker
  to take a bin; a `Serve` fed by the backfill without `Sync` has no filterer; a frequency or
  timeout of more seconds than a `Duration` holds may become negative.
- Bitcoin in the direct mode gets Ethereum's publisher as its indexer, of which only
  the `Index` that does nothing is called.

## 4. Proofs

All for arbitrary constants under the named assumptions, each of which the code
justifies and TLC evaluates on the instances:

- `BatchSize`, `BatchNumber` and channel capacities are positive, and heights plus a
  batch stay below `UintMod` (64 bits in the code).
- `NumeralsAssumption`: the numerals in a path are strings; `IntHalf` is above 0, and
  30 seconds fit into a `Duration` (`SecondAssumption`).
- `IndexStoreAssumption`, `ParentAssumption`: every block has a header, its data has
  the kinds of its chain, and the row a foreign key names is one of the same block;
  this is how the converters build a payload.
- `EncodingAssumption`: a key is the hash of the data, and of the rows that refer to
  an IPLD only headers and uncles, and state and storage nodes, are encoded alike, so
  only these can have a key in common across tables.
- `ResyncAssumption`, `OneRange`: the node has a block at each height asked for, and
  `NewConfig` makes exactly one range (`pkg/resync/config.go:90`).
- `EthBackendAssumption`: the store a request finds has rows of finitely many Ethereum
  blocks, and the foreign keys hold in it (the database checks them).

The results and the arguments:

- `BinsPartitionHolds` (`GapFindingProofs`): by the division theorem for the number
  of bins and a bound on the first height of bin i; lemmas state the start, size and
  last height of a bin.
- `HeightsLoopAgrees` (`GapFindingProofs`): `LoopState` says what `start` and
  `validationGaps` are after each height, in closed form. It satisfies the equation of
  the recursive function in `HeightsLoop` (`LoopStateSteps`), and that equation has one
  solution only, because the least position at which two of them differ would follow
  positions at which they agree (`LoopUnique`).
- `GapHelpersExactHolds` (`PureFunctionsProofs`): from the two theorems above and the
  type of what the functions are called with (`GapTyped`).
- `TableTypeInvariant`, `GapsCoverHolds`, `NoOverlapHolds` (`BackFillProofs`): the
  invariant is the type of the table; the rest follows from the lemmas on
  `RetrieveGapsInData` in every table of that type. What the gaps of a list cover is
  proved by a least-counterexample argument over positions in the list.
- `GapsDisjointHolds` (`BackFillProofs`): on top of `NoOverlap`, without forks no two
  gaps of a search have a height in common. The gaps of missing data and those of
  under-validated data each rise (`Rising`: the end of a gap is below the start of the next
  one), a rising list is apart (`Apart`), and the three lists that `RetrieveGapsInData`
  joins lie below the first row, between rows and on rows (`GapsApart`). The query
  for under-validated data returns one line per row, so that a fork lists its height twice:
  this is why the second part needs `NoForks`.
- `TypeInvariant`, `PassInvariant`, `PassIsOverHolds`, `QuietExitHolds`
  (`BackFillProofs`): the inductive invariant is `TypeOK /\ PassInv`. `PassIsOver`
  alone is not inductive: that all workers are gone after `BatchNumber` signals
  needs that the number of signals equals the number of workers that returned,
  that none returned before the signalling, and that nothing was left to hand out
  when it began. `QuietExit` needs that a worker inside a bin is in the WaitGroup.
- `ImplementsPassHolds` (`BackFillProofs`): every step of `BackFill` is a
  step of `BackFillPass` or a stutter under the mapping `phase`, `Pending`, from the
  same invariant. The main lemma is that cutting a gap into bins preserves the set
  of pending heights.
- `NoSharedWorkHolds` (`BackFillProofs`): `NoSharedWork` speaks of the workers only and is
  not inductive. `ShareInv` adds that what is still to be handed out is divided too: the
  gaps left are apart, the bins left are apart, and no bin has a height of a gap left
  or of a worker (`Division`); and that between the statements of a search the heights
  found so far lie below all rows, or have no row, of the table as it is then
  (`SearchInv`), which resets and cleans keep and a new row would not. `BinsSplit` says
  that the bins of one gap are apart.
- `WithinLiveHolds`, `PlainAgreeHolds`, `BtcWithinLiveHolds`, `LogsFoundHolds`
  (`PureFunctionsProofs`): for any number of topic slots, any settings and any block or
  chain, by one lemma per kind of data. `FiltersAgreeHolds` and `GetLogsCompleteHolds`
  state them for the properties of the run `functions`.
- `FetchersAgreeHolds` (`PureFunctionsProofs`): for any number of CIDs, repeated ones
  included, and every order of arrival. `RanksCounted` says that as many blocks arrive as
  positions were found, since no two have the same rank, so that the number of blocks
  equals the number expected only if nothing is missing; `BatchAgrees` follows, and
  `NodesAlike` for the state and storage nodes, which are fetched one by one.
- `FieldsListedHolds` (`PureFunctionsProofs`): for paths of any length, and transactions
  of any number of inputs, outputs and levels. `OneFieldListed` and `FirstFieldListed` say
  it for the two ways in which a flat node reads a path; `BtcTxFound` and `InTree` say
  what a transaction resolves and lists.
- `CompactKeyRead` (`PureFunctionsProofs`): by arithmetic on bytes and nibbles, for odd
  and even lengths apart. It is the part of `TrieLookup` that does not need a recursion.
- `CommandsWiredHolds` (`PureFunctionsProofs`): for all settings and integers of any
  width, by which names are read (`NamesRead`), what each constructor builds (`WatchParts`,
  `WritesOnce`), the conversion to `uint64` and back (`SignedUnsigned`) and the number of
  seconds that fit into a `Duration` (`DurationExact`).

The theorems about the properties of `PureFunctions` have the form `InputTyped => P`. The run
`functions` asserts `InputTyped` for every input it chooses, so that the hypothesis is
what the inputs of the program satisfy and not more.

- `ReturnMeansDoneHolds`, `SomebodyTakesHolds` (`ResyncProofs`): from `Control`, which
  counts the workers that have returned against the signals that were sent and says
  where in the command bins and ranges are left.
- `HeaderMeansWholeHolds` (`ResyncProofs`): from `Contents`. The
  foreign keys hold (`Sound`), a block with its header is whole or exposed (`Whole`), no
  two rows have the same table and identity (`Unique`, for `FullCleanHolds`), and rows are
  of the chain of the settings (`Mine`). `IndexStoreProofs` has what a transaction does
  to a store, for each of the publishers, indexers and cleaners: the loops
  are folds over lists, and a set of stores that each turn stays in holds the
  result (`Stepwise`).
- `ResyncRestoresHolds` (`ResyncProofs`): from `Restored`. As long as nothing failed, each
  height of the ranges is in a range not reached, in a bin not taken, with a worker, or
  done; and what a worker has published is there until it has indexed it. The second
  part is what the cleaning of the command could break, and does not because it is over
  before the first bin.
- `IndexAcceptedHolds` (`ResyncProofs`): from the same second part (`Ready`), and from
  `WatcherReady`: what the watcher has published stays until a clean, which comes only once
  and only if the settings say so. A block of which all IPLDs are there passes the foreign
  keys, because the rows an upsert takes over go together with the rows below them
  (`UpsertedSound`).
- `FullCleanHolds` (`ResyncProofs`): a full clean leaves no row at a height of its range.
  A row goes in the turn of its own kind, or before with its header or parent; for that
  the order of the deletes matters (`FullOrder`, `BeforeItsTurn`): a delete that needs a
  table to find its rows comes before that table is emptied. `OneRange` is needed here.
- `AnswerWholeHolds` (`EthBackendProofs`): the invariant `ReadInv` adds that from
  the header statement on the chosen block is the one asked for. That what was found
  is all of its body comes from the hash that `NewBlock` computes and `GetTd` looks up;
  commits change nothing that was read.
- `TypeOKHolds`, `AnswerMomentHolds`, `ErrorMeansMovedHolds` (`EthBackendProofs`): from
  `BackInv`, a conjunction about the control (`PathInv`), the store and the histories
  (`StoreInv`) and what was found (`MomentInv`, `KeptInv`). For `AnswerMoment`: a block that
  was complete at no moment so far lacks a row that no statement has found, because a
  commit adds a row of a block only together with all the others (`Committable`); so not
  all rows are found and the hash does not match. For `ErrorMeansMoved`: of a block that was
  complete all the time no row was deleted, hence each statement finds exactly the rows
  of its kind that the block has, and every key that is fetched is there; only the order of
  two uncles can then make the hash another.
- `MapsAgreeHolds`, `GoneMeansUnregisteredHolds`, `ServeTypeInvariant`
  (`WatcherServeProofs`): the second is not inductive. `RegistrationInv` adds that a
  client is registered only after its `Subscribe` goroutine began and only under its own
  settings, and that a registered client with a pending quit signal is one of the
  strays. The type invariant adds the bounds of feeds and channels (`FeedTypes`,
  `MapTypes`, `PastTypes`).
- `InRangeHolds`, `CompleteIsLastHolds` (`WatcherServeProofs`): `DeliveryInv` ties what
  waits in a client's channel to the place of its feed: a notice in the channel means a
  feed that is through, old data lies before the feed's next height and at or before
  its last, and nothing old follows the notice.
- `NoHoleHolds` (`WatcherServeProofs`): `HistoryInv` adds that of the blocks indexed when
  the feed was set up, each one in the client's range is ahead of the feed, or was
  offered or met an error, and none is past the feed's last height; and that what was
  served since the registration was offered or met an error, because the client stays
  registered under its settings.
- `SyncTypeInvariant`, `SyncQuietExitHolds`, `AccountedHolds`
  (`WatcherSyncProofs`): `SyncInv` is the type of each group of variables with the bookkeeping of the
  workers, and `ChainInv`, which is needed for Bitcoin: the heads are distinct, their
  heights never fall, and what was streamed lies at or before `lastHash` among them,
  so that the poller streams no block twice. `PartInv` then says that the nine places
  a payload can be in are disjoint and together hold what was streamed. Each action
  moves one payload from a place to another (`Moved`), adds a new one (`Arrived`) or
  moves none (`NothingMoved`).
- `NewestKeptHolds` (`WatcherSyncProofs`): `OrderInv` says that each channel is in the
  order of the node and that of two places on the way to the queue the one further on
  holds what is older, the evicted payloads being the oldest of all.

Only model-checked: liveness (`GapsFilled`, `PassesEnd`, `StopSettles`,
`ContinuesRegardless`, `HeadStreamed`, `SyncQuits`, `FeedEnds`, `StopEndsStreams`), which is out of
the prover's reach, as is ENABLED; and `TrieLookup` and `BtcBlockLinked`, which speak of
what a recursion over the nodes of a tree computes (the recursion of `HeightsLoop` could
be done because its state has a closed form).

## 5. Not modelled

- Byte encodings: RLP, `MarshalJSON`, the dag putters and the decoding in the
  converters act on opaque bytes. `FromBlockAndReceipts` compares the roots of tries
  that a library builds.
- The JSON fields of API answers, and `reward.go`, which adds numbers to a result.
- Reading the environment, opening connections and the command line; a connection
  that fails ends a command before anything runs.
- The stream client, which prints a subscription, and the Bitcoin streamer of
  `pkg/btc/streamer.go`, which no builder constructs.
- The three services of the watch command in one model. They meet at the header table
  (`Outside` in `BackFill`, the watcher of `Resync`), at the channel to `Serve` (whose
  receiver is free in `WatcherSync` and whose sender is free in `WatcherServe`) and at
  the WaitGroup; the product of their states is beyond TLC. The interrupt is taken to
  arrive: the unbuffered signal channel of `cmd/watch.go:110` can lose one that comes
  before the command waits for it.
- Two writing transactions that overlap, and several rows of a kind per block.
- The end of a resync is checked as a safety property (`SomebodyTakes`: there is
  always a worker to take what is sent), not under fairness.

## 6. Plan

1. `HeaderIndex` as a projection of `IndexStore` (the header that goes with a shared
   uncle IPLD), with the gap theorems carried over.
2. Several rows of a kind per block, and overlapping writing transactions.
3. Proofs of what the walk through a trie and the Merkle tree compute, which need an
   induction over trees.
