------------------------------- MODULE Filters ------------------------------
(***************************************************************************)
(* What a subscriber is sent of one block, computed twice by the code: by   *)
(* the ResponseFilterer on a payload that has just been converted (live     *)
(* data) and by the queries of the CIDRetriever on the index (historical    *)
(* data); and what eth_getLogs returns.                                     *)
(*                                                                          *)
(*   pkg/eth/converter.go, filterer.go, cid_retriever.go, api.go,           *)
(*   backend.go, ipld_fetcher.go, ipld_pg_fetcher.go; pkg/btc likewise      *)
(*                                                                          *)
(* An Ethereum block is [txs, nodes].  txs is a sequence; a transaction     *)
(* [src, dst, logs] stands for itself and for its receipt, a log is         *)
(* [address, topics].  nodes is a set of state nodes [key, leaf, storage],  *)
(* storage a set of nodes [key, leaf].  The slices of the settings are      *)
(* sets, except topics, whose positions matter.  Transactions and receipts  *)
(* are selected by their index in the block.                                *)
(***************************************************************************)
EXTENDS Integers, Sequences

CONSTANT Slots          \* topics of a log at most (4 in the code)

ASSUME SlotsAssumption == Slots \in Nat \ {0}

\* The topics wanted at a position: none where the slice is too short.
Wanted(topics, i) == IF i \in 1..Len(topics) THEN topics[i] ELSE {}

\* The columns topic0s..topic3s and log_contracts that the converter makes of
\* the logs of a receipt.
TopicSet(tx, i) == {l.topics[i] : l \in {m \in tx.logs : i <= Len(m.topics)}}
LogContracts(tx) == {l.address : l \in tx.logs}

\* A storage key of the settings is [hash, canonical]: the hash it stands for
\* and whether it is written the way the index stores hashes.
HexToHash(keys) == {k.hash : k \in keys}
AsWritten(keys) == {k.hash : k \in {j \in keys : j.canonical}}

-----------------------------------------------------------------------------
(***************************************************************************)
(* Live data: ResponseFilterer.Filter.                                      *)
(***************************************************************************)
checkTransactionAddrs(f, tx) ==
    \/ f.dst = {} /\ f.src = {}
    \/ tx.src \in f.src
    \/ tx.dst \in f.dst

filterTransactions(f, block) ==
    {i \in 1..Len(block.txs) : ~f.off /\ checkTransactionAddrs(f, block.txs[i])}

filterMatch(topics, tx) ==
    \A i \in 1..Slots :
      Wanted(topics, i) # {} => Wanted(topics, i) \cap TopicSet(tx, i) # {}

\* Mutant: the addresses alone decide, whatever the topics.
checkReceipts_NoTopics(f, tx, i, trxs) ==
    \/ f.topics = <<>> /\ f.addresses = {} /\ trxs = {}
    \/ i \in trxs
    \/ f.addresses = {} /\ filterMatch(f.topics, tx)
    \/ f.addresses \cap LogContracts(tx) # {}

checkReceipts(f, tx, i, trxs) ==
    \/ f.topics = <<>> /\ f.addresses = {} /\ trxs = {}
    \/ i \in trxs
    \/ f.addresses = {} /\ filterMatch(f.topics, tx)
    \/ f.addresses \cap LogContracts(tx) # {} /\ filterMatch(f.topics, tx)

filerReceipts(f, block, trxs) ==
    {i \in 1..Len(block.txs) : ~f.off /\ checkReceipts(f, block.txs[i], i, trxs)}

checkNodeKeys(wanted, key) == wanted = {} \/ key \in wanted

filterState(f, block) ==
    {n \in block.nodes : /\ ~f.off
                         /\ checkNodeKeys(f.addresses, n.key)
                         /\ n.leaf \/ f.intermediate}

\* IntermediateNodes is not looked at for storage nodes.
filterStorage(f, block) ==
    UNION {{<<n, s>> : s \in {t \in n.storage : checkNodeKeys(HexToHash(f.keys), t.key)}}
            : n \in {m \in block.nodes : ~f.off /\ checkNodeKeys(f.addresses, m.key)}}

Live(s, block) ==
    LET txs == filterTransactions(s.tx, block)
    IN [header   |-> ~s.header.off,
        uncles   |-> ~s.header.off /\ s.header.uncles,
        txs      |-> txs,
        receipts |-> filerReceipts(s.rct, block, IF s.rct.matchTxs THEN txs ELSE {}),
        state    |-> filterState(s.state, block),
        storage  |-> filterStorage(s.storage, block)]

-----------------------------------------------------------------------------
(***************************************************************************)
(* Historical data: CIDRetriever.Retrieve, then Fetch.                      *)
(***************************************************************************)
RetrieveTxCIDs(f, block) ==
    {i \in 1..Len(block.txs) : /\ ~f.off
                               /\ f.dst # {} => block.txs[i].dst \in f.dst
                               /\ f.src # {} => block.txs[i].src \in f.src}

hasTopics(topics) == \E i \in 1..Len(topics) : topics[i] # {}

\* The conjunction of the overlap conditions (&&) on topic0s..topic3s.
topicsOverlap(topics, tx) ==
    \A i \in 1..Slots : \/ Wanted(topics, i) = {}
                        \/ \E t \in TopicSet(tx, i) : t \in Wanted(topics, i)

\* A query with topics beyond the last slot only has an empty conjunction,
\* which Postgres does not accept.
QueryErr(f) == /\ ~f.off /\ hasTopics(f.topics)
               /\ \A i \in 1..Slots : Wanted(f.topics, i) = {}

\* The WHERE clause of RetrieveRctCIDs and RetrieveRctCIDsByHeaderID.
rctWanted(f, tx, i, trxIds) ==
    LET matched == f.matchTxs /\ i \in trxIds
    IN  IF f.addresses # {}
        THEN \/ f.addresses \cap LogContracts(tx) # {} /\ topicsOverlap(f.topics, tx)
             \/ matched
        ELSE IF hasTopics(f.topics)
             THEN topicsOverlap(f.topics, tx) \/ matched
             ELSE f.matchTxs /\ trxIds # {} => matched

RetrieveRctCIDs(f, block, trxIds) ==
    {i \in 1..Len(block.txs) : ~f.off /\ rctWanted(f, block.txs[i], i, trxIds)}

RetrieveStateCIDs(f, block) ==
    {n \in block.nodes : /\ ~f.off
                         /\ f.addresses # {} => n.key \in f.addresses
                         /\ ~f.intermediate => n.leaf}

RetrieveStorageCIDs(f, block) ==
    UNION {{<<n, s>> : s \in {t \in n.storage :
                         /\ f.keys # {} => t.key \in AsWritten(f.keys)
                         /\ ~f.intermediate => t.leaf}}
            : n \in {m \in block.nodes :
                       ~f.off /\ (f.addresses # {} => m.key \in f.addresses)}}

Historical(s, block) ==
    LET txs == RetrieveTxCIDs(s.tx, block)
    IN [header   |-> ~s.header.off,
        uncles   |-> ~s.header.off /\ s.header.uncles,
        txs      |-> txs,
        receipts |-> RetrieveRctCIDs(s.rct, block, txs),
        state    |-> RetrieveStateCIDs(s.state, block),
        storage  |-> RetrieveStorageCIDs(s.storage, block)]

\* The flag that Retrieve returns, for one block: nothing was found.
Empty(s, block) ==
    LET h == Historical(s, block)
    IN  ~h.header /\ h.txs = {} /\ h.receipts = {} /\ h.state = {} /\ h.storage = {}

\* Retrieve fails, or Fetch does: it looks up the header and its total
\* difficulty even when the settings leave the header out.
FetchErr(s, block) == QueryErr(s.rct) \/ (s.header.off /\ ~Empty(s, block))

-----------------------------------------------------------------------------
(***************************************************************************)
(* Bitcoin.  A block is a set of transactions [segwit, witness, index,      *)
(* inputs, outs]: the number of its inputs and the set of its outputs       *)
(* [multisig, addresses, class].                                            *)
(***************************************************************************)
checkTransaction(f, tx) ==
    /\ f.segwit => tx.segwit
    /\ f.multisig => \E o \in tx.outs : o.multisig
    /\ f.witnesses = {} \/ tx.witness \in f.witnesses
    /\ f.addresses = {} \/ \E o \in tx.outs : f.addresses \cap o.addresses # {}
    /\ f.indexes = {} \/ tx.index \in f.indexes
    /\ f.classes = {} \/ \E o \in tx.outs : o.class \in f.classes

\* The query joins the transaction with its inputs and outputs: there is a row
\* for every input and every output that meets all the conditions itself.
RetrieveBtcTxCIDs(f, tx) ==
    {r \in (1..tx.inputs) \X tx.outs :
        /\ f.segwit => tx.segwit
        /\ f.multisig => r[2].multisig
        /\ f.witnesses # {} => tx.witness \in f.witnesses
        /\ f.addresses # {} => r[2].addresses \cap f.addresses # {}
        /\ f.indexes # {} => tx.index \in f.indexes
        /\ f.classes # {} => r[2].class \in f.classes}

BtcLive(s, block) ==
    [header |-> ~s.header.off,
     txs    |-> {tx \in block : ~s.tx.off /\ checkTransaction(s.tx, tx)}]

\* A transaction is fetched and sent once for each of its rows.
BtcHistorical(s, block) ==
    [header |-> ~s.header.off,
     txs    |-> {tx \in block : ~s.tx.off /\ RetrieveBtcTxCIDs(s.tx, tx) # {}}]

\* Fetch asks for the header although Retrieve has left it out.
BtcFetchErr(s, block) == s.header.off /\ BtcHistorical(s, block).txs # {}

-----------------------------------------------------------------------------
(***************************************************************************)
(* eth_getLogs over a chain, a function from heights to blocks, of which a  *)
(* hash stands for the height.  What is asked for is [hash, from, to], each *)
(* {} for nil or else a set of one number.                                  *)
(***************************************************************************)
\* Topics are cut off or filled up to Slots positions.
topicStrSets(topics) == [i \in 1..Slots |-> Wanted(topics, i)]

\* Mutant: a log needs a topic at every position.
wantedLog_AllSlots(topics, log) ==
    Len(log.topics) = Slots
    /\ \A i \in 1..Len(log.topics) : topics[i] # {} => log.topics[i] \in topics[i]

wantedLog(topics, log) ==
    \A i \in 1..Len(log.topics) : topics[i] # {} => log.topics[i] \in topics[i]

\* RetrieveRctCIDs by height and hash: a number of zero is no condition at all.
heightsQueried(chain, blockNumber, blockHash) ==
    {h \in DOMAIN chain : /\ blockNumber > 0 => h = blockNumber
                          /\ blockHash # {} => h \in blockHash}

\* RetrieveFirstBlockNumber and RetrieveLastBlockNumber replace a nil.
startingBlock(chain, crit) ==
    IF crit.from # {} THEN CHOOSE n \in crit.from : TRUE
    ELSE CHOOSE n \in DOMAIN chain : \A h \in DOMAIN chain : n <= h
endingBlock(chain, crit) ==
    IF crit.to # {} THEN CHOOSE n \in crit.to : TRUE
    ELSE CHOOSE n \in DOMAIN chain : \A h \in DOMAIN chain : h <= n

\* The blocks whose receipts are queried.  With no rows there is no first or last
\* number, which is an error, and nothing to return.
blocksQueried(chain, crit) ==
    CASE crit.hash # {} -> heightsQueried(chain, 0, crit.hash)
      [] crit.hash = {} /\ DOMAIN chain = {} -> {}
      [] OTHER -> UNION {heightsQueried(chain, n, {}) :
                           n \in startingBlock(chain, crit)..endingBlock(chain, crit)}

\* A log is returned with the height and the transaction it is from.
GetLogs(chain, crit, addresses, topics) ==
    LET sets == topicStrSets(topics)
        f == [off |-> FALSE, matchTxs |-> FALSE, addresses |-> addresses,
              topics |-> sets]
    IN  UNION {UNION {{<<h, i, l>> : l \in {m \in chain[h].txs[i].logs :
                                              wantedLog(sets, m)}}
                       : i \in RetrieveRctCIDs(f, chain[h], {})}
                : h \in blocksQueried(chain, crit)}

-----------------------------------------------------------------------------
(***************************************************************************)
(* Properties, for any settings and any block.                              *)
(***************************************************************************)
\* WithinLive: whatever the historical queries select of a block, the filterer
\* would have sent live; a subscriber loses nothing of a block by being early.
WithinLive(s, block) ==
    LET h == Historical(s, block)
        l == Live(s, block)
    IN  /\ h.txs \subseteq l.txs /\ h.receipts \subseteq l.receipts
        /\ h.state \subseteq l.state /\ h.storage \subseteq l.storage

\* Settings for which the two selections cannot differ: the header is wanted,
\* not both src and dst, receipts of matching transactions are asked for only
\* beside topics or contracts, no topics beyond the last slot, intermediate
\* storage nodes are wanted, and storage keys are in canonical form.
Plain(s) ==
    /\ ~s.header.off
    /\ s.tx.src = {} \/ s.tx.dst = {}
    /\ s.rct.matchTxs => s.rct.addresses # {} \/ hasTopics(s.rct.topics)
    /\ Len(s.rct.topics) <= Slots
    /\ s.storage.intermediate
    /\ \A k \in s.storage.keys : k.canonical

\* PlainAgree: with such settings the historical feed does not fail on a block
\* and selects (cid_retriever.go) exactly what would be sent live (filterer.go).
PlainAgree(s, block) ==
    Plain(s) => ~FetchErr(s, block) /\ Historical(s, block) = Live(s, block)

\* Conditions of a Bitcoin filter on single outputs of a transaction.
onOutputs(f) ==
    {c \in {"sigs", "addresses", "classes"} :
        \/ c = "sigs" /\ f.multisig
        \/ c = "addresses" /\ f.addresses # {}
        \/ c = "classes" /\ f.classes # {}}

\* BtcWithinLive: a Bitcoin transaction that the query returns passes
\* checkTransaction, and conversely unless two conditions on outputs are met
\* by two different outputs; with the header wanted, the feed does not fail.
BtcWithinLive(s, block) ==
    LET h == BtcHistorical(s, block)
        l == BtcLive(s, block)
    IN  /\ h.txs \subseteq l.txs
        /\ (\E c \in {"sigs", "addresses", "classes"} : onOutputs(s.tx) \subseteq {c})
             => h = l
        /\ ~s.header.off => ~BtcFetchErr(s, block)

\* The blocks that were asked for.
BlocksAsked(chain, crit) ==
    {h \in DOMAIN chain : IF crit.hash # {} THEN h \in crit.hash
                          ELSE /\ \A n \in crit.from : n <= h
                               /\ \A n \in crit.to : h <= n}

\* The logs that eth_getLogs is to return: of the blocks asked for, from one of
\* the addresses, with a wanted topic at every position that has one.
LogsWanted(chain, crit, addresses, topics) ==
    UNION {UNION {{<<h, i, l>> : l \in {m \in chain[h].txs[i].logs :
              /\ addresses = {} \/ m.address \in addresses
              /\ \A k \in 1..Slots : Wanted(topics, k) # {} =>
                   k <= Len(m.topics) /\ m.topics[k] \in Wanted(topics, k)}}
                   : i \in 1..Len(chain[h].txs)}
            : h \in BlocksAsked(chain, crit)}

\* LogsFound: GetLogs returns every wanted log, although it selects receipts
\* by the union of their logs and then logs by topics only; and it stays with the
\* blocks asked for unless their range begins with block 0.
LogsFound(chain, crit, addresses, topics) ==
    LET logs == GetLogs(chain, crit, addresses, topics)
    IN  /\ LogsWanted(chain, crit, addresses, topics) \subseteq logs
        /\ crit.hash # {} \/ startingBlock(chain, crit) > 0 =>
             \A e \in logs : e[1] \in BlocksAsked(chain, crit)
=============================================================================
