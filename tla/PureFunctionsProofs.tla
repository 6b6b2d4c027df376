------------------------ MODULE PureFunctionsProofs -------------------------
(***************************************************************************)
(* What the parts of the program that compute an answer from their          *)
(* arguments compute, for all arguments of their types.                     *)
(***************************************************************************)
EXTENDS PureFunctions, MCGapFinding, GapFindingProofs, TLAPS

\* A leaf is tried with Zenon, and with SMT where it says so.
USE ZenonT(30)

-----------------------------------------------------------------------------
(***************************************************************************)
(* The live and the historical selection compared, for every number of      *)
(* topic slots, every settings and every block.                             *)
(***************************************************************************)
\* The overlap conditions of the query and the loop of filterMatch decide alike.
LEMMA TopicsAgree ==
    ASSUME NEW topics, NEW tx
    PROVE  topicsOverlap(topics, tx) <=> filterMatch(topics, tx)
  BY DEF topicsOverlap, filterMatch

\* Without topics every receipt matches.
LEMMA NoTopicsMatch ==
    ASSUME NEW topics, NEW tx, ~hasTopics(topics)
    PROVE  filterMatch(topics, tx)
  BY DEF hasTopics, filterMatch, Wanted

\* A transaction with a wanted source and a wanted destination has one of the two.
LEMMA TxsWithin ==
    ASSUME NEW f, NEW block
    PROVE  RetrieveTxCIDs(f, block) \subseteq filterTransactions(f, block)
  BY DEF RetrieveTxCIDs, filterTransactions, checkTransactionAddrs

\* A receipt that the query selects passes checkReceipts, if the transactions
\* that the query selected were selected live too.
LEMMA ReceiptsWithin ==
    ASSUME NEW f, NEW block, NEW ids, NEW trxs, ids \subseteq trxs
    PROVE  RetrieveRctCIDs(f, block, ids)
             \subseteq filerReceipts(f, block, IF f.matchTxs THEN trxs ELSE {})
<1> DEFINE sel == IF f.matchTxs THEN trxs ELSE {}
<1> SUFFICES ASSUME NEW i \in 1..Len(block.txs), ~f.off,
                    rctWanted(f, block.txs[i], i, ids)
             PROVE  checkReceipts(f, block.txs[i], i, sel)
  BY DEF RetrieveRctCIDs, filerReceipts
<1> DEFINE tx == block.txs[i]
<1>1. CASE f.matchTxs /\ i \in ids
  BY <1>1 DEF checkReceipts
<1>2. CASE ~(f.matchTxs /\ i \in ids) /\ f.addresses # {}
  <2>1. f.addresses \cap LogContracts(tx) # {} /\ topicsOverlap(f.topics, tx)
    BY <1>2 DEF rctWanted
  <2> QED BY <2>1, TopicsAgree DEF checkReceipts
<1>3. CASE ~(f.matchTxs /\ i \in ids) /\ f.addresses = {}
  <2>1. filterMatch(f.topics, tx)
    <3>1. CASE hasTopics(f.topics)
      <4>1. topicsOverlap(f.topics, tx)
        BY <1>3, <3>1 DEF rctWanted
      <4> QED BY <4>1, TopicsAgree
    <3>2. CASE ~hasTopics(f.topics)
      BY <3>2, NoTopicsMatch
    <3> QED BY <3>1, <3>2
  <2> QED BY <2>1, <1>3 DEF checkReceipts
<1> QED BY <1>1, <1>2, <1>3

\* State nodes are selected in the same way.
LEMMA StateAgrees ==
    ASSUME NEW f, NEW block, f.intermediate \in BOOLEAN,
           \A n \in block.nodes : n.leaf \in BOOLEAN
    PROVE  RetrieveStateCIDs(f, block) = filterState(f, block)
  BY DEF RetrieveStateCIDs, filterState, checkNodeKeys

\* A wanted key that is as the index writes it is the key the filterer compares.
LEMMA StorageWithin ==
    ASSUME NEW f, NEW block
    PROVE  RetrieveStorageCIDs(f, block) \subseteq filterStorage(f, block)
<1>1. AsWritten(f.keys) \subseteq HexToHash(f.keys) /\ (f.keys = {} => HexToHash(f.keys) = {})
  BY DEF AsWritten, HexToHash
<1>2. \A n, t : (f.keys # {} => t.key \in AsWritten(f.keys))
                  => checkNodeKeys(HexToHash(f.keys), t.key)
  BY <1>1 DEF checkNodeKeys
<1> QED BY <1>2, SMTT(30) DEF RetrieveStorageCIDs, filterStorage, checkNodeKeys

\* WithinLiveHolds: for every number of slots, all settings and every block, the
\* historical queries select nothing that the live filterer would not select.
THEOREM WithinLiveHolds ==
    ASSUME NEW s, NEW block, FilterTyped(s, block)
    PROVE  WithinLive(s, block)
<1> DEFINE ids == RetrieveTxCIDs(s.tx, block)
           trxs == filterTransactions(s.tx, block)
<1>1. ids \subseteq trxs
  BY TxsWithin
<1> HIDE DEF ids, trxs
<1>2. RetrieveRctCIDs(s.rct, block, ids)
        \subseteq filerReceipts(s.rct, block, IF s.rct.matchTxs THEN trxs ELSE {})
  BY <1>1, ReceiptsWithin
<1>3. RetrieveStateCIDs(s.state, block) = filterState(s.state, block)
  BY StateAgrees, SMTT(30) DEF FilterTyped
<1>4. RetrieveStorageCIDs(s.storage, block) \subseteq filterStorage(s.storage, block)
  BY StorageWithin
<1> QED BY <1>1, <1>2, <1>3, <1>4 DEF WithinLive, Historical, Live, ids, trxs

\* With one side of a transaction filtered, AND and OR are the same.
LEMMA OneSided ==
    ASSUME NEW f, NEW block, f.src = {} \/ f.dst = {}
    PROVE  RetrieveTxCIDs(f, block) = filterTransactions(f, block)
  BY DEF RetrieveTxCIDs, filterTransactions, checkTransactionAddrs

\* Beside topics or contracts, the receipts of matching transactions are added
\* by both; without matching, the transactions play no part.
LEMMA ReceiptsAgree ==
    ASSUME NEW f, NEW block, NEW trxs, f.matchTxs \in BOOLEAN,
           f.matchTxs => f.addresses # {} \/ hasTopics(f.topics)
    PROVE  RetrieveRctCIDs(f, block, trxs)
             = filerReceipts(f, block, IF f.matchTxs THEN trxs ELSE {})
<1> DEFINE sel == IF f.matchTxs THEN trxs ELSE {}
<1>1. RetrieveRctCIDs(f, block, trxs) \subseteq filerReceipts(f, block, sel)
  BY ReceiptsWithin
<1>2. ASSUME NEW i \in 1..Len(block.txs), checkReceipts(f, block.txs[i], i, sel)
      PROVE  rctWanted(f, block.txs[i], i, trxs)
  <2> DEFINE tx == block.txs[i]
  <2>1. CASE f.topics = <<>> /\ f.addresses = {} /\ sel = {}
    <3>1. ~hasTopics(f.topics)
      BY <2>1, SMTT(30) DEF hasTopics
    <3> QED BY <2>1, <3>1 DEF rctWanted
  <2>2. CASE i \in sel
    BY <2>2 DEF rctWanted
  <2>3. CASE f.addresses = {} /\ filterMatch(f.topics, tx)
    BY <2>3, TopicsAgree DEF rctWanted
  <2>4. CASE f.addresses \cap LogContracts(tx) # {} /\ filterMatch(f.topics, tx)
    BY <2>4, TopicsAgree DEF rctWanted
  <2> QED BY <1>2, <2>1, <2>2, <2>3, <2>4 DEF checkReceipts
<1> HIDE DEF sel
<1>3. filerReceipts(f, block, sel) \subseteq RetrieveRctCIDs(f, block, trxs)
  BY <1>2 DEF RetrieveRctCIDs, filerReceipts
<1> QED BY <1>1, <1>3 DEF sel

\* Canonical keys are compared in the same way, and no node is left out for its
\* type when intermediate nodes are wanted.
LEMMA StorageAgrees ==
    ASSUME NEW f, NEW block, f.intermediate, \A k \in f.keys : k.canonical
    PROVE  RetrieveStorageCIDs(f, block) = filterStorage(f, block)
<1>1. AsWritten(f.keys) = HexToHash(f.keys)
  BY DEF AsWritten, HexToHash
<1>2. f.keys = {} <=> HexToHash(f.keys) = {}
  BY DEF HexToHash
<1>3. \A t : (f.keys # {} => t.key \in AsWritten(f.keys))
               <=> checkNodeKeys(HexToHash(f.keys), t.key)
  BY <1>1, <1>2 DEF checkNodeKeys
<1> DEFINE Own(n) == {t \in n.storage :
                         /\ f.keys # {} => t.key \in AsWritten(f.keys)
                         /\ ~f.intermediate => t.leaf}
           Filtered(n) == {t \in n.storage : checkNodeKeys(HexToHash(f.keys), t.key)}
<1>4. \A n : Own(n) = Filtered(n)
  BY <1>3
<1>5. {m \in block.nodes : ~f.off /\ (f.addresses # {} => m.key \in f.addresses)}
        = {m \in block.nodes : ~f.off /\ checkNodeKeys(f.addresses, m.key)}
  BY DEF checkNodeKeys
<1>6. RetrieveStorageCIDs(f, block)
        = UNION {{<<n, s>> : s \in Own(n)} : n \in {m \in block.nodes :
                   ~f.off /\ (f.addresses # {} => m.key \in f.addresses)}}
  BY DEF RetrieveStorageCIDs
<1>7. filterStorage(f, block)
        = UNION {{<<n, s>> : s \in Filtered(n)} : n \in {m \in block.nodes :
                   ~f.off /\ checkNodeKeys(f.addresses, m.key)}}
  BY DEF filterStorage
<1> HIDE DEF Own, Filtered
<1> QED BY <1>4, <1>5, <1>6, <1>7, SMTT(30)

\* PlainAgreeHolds: with plain settings the two ways of filtering a block give the
\* same answer and the historical one does not fail.
THEOREM PlainAgreeHolds ==
    ASSUME NEW s, NEW block, FilterTyped(s, block)
    PROVE  PlainAgree(s, block)
<1> SUFFICES ASSUME Plain(s)
             PROVE  ~FetchErr(s, block) /\ Historical(s, block) = Live(s, block)
  BY DEF PlainAgree
<1>1. ~FetchErr(s, block)
  <2>1. ~QueryErr(s.rct)
    <3> SUFFICES ASSUME hasTopics(s.rct.topics)
                 PROVE  \E i \in 1..Slots : Wanted(s.rct.topics, i) # {}
      BY DEF QueryErr
    <3>1. PICK i \in 1..Len(s.rct.topics) : s.rct.topics[i] # {}
      BY DEF hasTopics
    <3>2. Len(s.rct.topics) \in Nat /\ Len(s.rct.topics) <= Slots
      BY SMTT(30) DEF Plain
    <3>3. i \in 1..Slots
      BY <3>2, SlotsAssumption, SMTT(30)
    <3> QED BY <3>1, <3>3 DEF Wanted
  <2> QED BY <2>1 DEF FetchErr, Plain
<1> DEFINE txs == RetrieveTxCIDs(s.tx, block)
<1>2. txs = filterTransactions(s.tx, block)
  BY OneSided DEF Plain
<1> HIDE DEF txs
<1>3. RetrieveRctCIDs(s.rct, block, txs)
        = filerReceipts(s.rct, block, IF s.rct.matchTxs THEN txs ELSE {})
  BY ReceiptsAgree, SMTT(30) DEF Plain, FilterTyped
<1>4. RetrieveStateCIDs(s.state, block) = filterState(s.state, block)
  BY StateAgrees, SMTT(30) DEF FilterTyped
<1>5. RetrieveStorageCIDs(s.storage, block) = filterStorage(s.storage, block)
  BY StorageAgrees DEF Plain
<1>6. Historical(s, block) = Live(s, block)
  BY <1>2, <1>3, <1>4, <1>5, Zenon DEF Historical, Live, txs
<1> QED BY <1>1, <1>6

\* A transaction with an input and an output: the rows of the query and
\* checkTransaction decide alike if at most one condition is on outputs.
LEMMA BtcTxAgrees ==
    ASSUME NEW f, NEW tx, tx.inputs \in Nat \ {0}, tx.outs # {}
    PROVE  /\ RetrieveBtcTxCIDs(f, tx) # {} => checkTransaction(f, tx)
           /\ (\E c \in {"sigs", "addresses", "classes"} : onOutputs(f) \subseteq {c})
                => (checkTransaction(f, tx) <=> RetrieveBtcTxCIDs(f, tx) # {})
<1> DEFINE picked == RetrieveBtcTxCIDs(f, tx)
           Pick(o) == /\ f.multisig => o.multisig
                      /\ f.addresses # {} => o.addresses \cap f.addresses # {}
                      /\ f.classes # {} => o.class \in f.classes
           Apart == /\ f.segwit => tx.segwit
                    /\ f.witnesses # {} => tx.witness \in f.witnesses
                    /\ f.indexes # {} => tx.index \in f.indexes
<1>1. picked # {} <=> Apart /\ \E o \in tx.outs : Pick(o)
  <2>1. ASSUME NEW r \in picked PROVE Apart /\ \E o \in tx.outs : Pick(o)
    <3>1. r[2] \in tx.outs /\ Pick(r[2]) /\ Apart
      BY DEF RetrieveBtcTxCIDs
    <3> QED BY <3>1
  <2>2. ASSUME Apart, NEW o \in tx.outs, Pick(o) PROVE <<1, o>> \in picked
    BY <2>2, SMTT(30) DEF RetrieveBtcTxCIDs
  <2> QED BY <2>1, <2>2
<1>2. picked # {} => checkTransaction(f, tx)
  BY <1>1 DEF checkTransaction
<1>3. ASSUME checkTransaction(f, tx), ~f.multisig /\ f.addresses = {}
      PROVE  picked # {}
  <2>1. \E o \in tx.outs : Pick(o)
    BY <1>3 DEF checkTransaction
  <2> QED BY <2>1, <1>1, <1>3 DEF checkTransaction
<1>4. ASSUME checkTransaction(f, tx), ~f.multisig /\ f.classes = {}
      PROVE  picked # {}
  <2>1. \E o \in tx.outs : Pick(o)
    BY <1>4 DEF checkTransaction
  <2> QED BY <2>1, <1>1, <1>4 DEF checkTransaction
<1>5. ASSUME checkTransaction(f, tx), f.addresses = {} /\ f.classes = {}
      PROVE  picked # {}
  <2>1. \E o \in tx.outs : Pick(o)
    BY <1>5 DEF checkTransaction
  <2> QED BY <2>1, <1>1, <1>5 DEF checkTransaction
<1> HIDE DEF picked, Pick, Apart
<1>6. (\E c \in {"sigs", "addresses", "classes"} : onOutputs(f) \subseteq {c})
        => \/ ~f.multisig /\ f.addresses = {}
           \/ ~f.multisig /\ f.classes = {}
           \/ f.addresses = {} /\ f.classes = {}
  BY SMTT(30) DEF onOutputs
<1> QED BY <1>2, <1>3, <1>4, <1>5, <1>6 DEF picked

\* BtcWithinLiveHolds: for all settings and every block of transactions that have
\* an input and an output, the Bitcoin query selects a part of what the filterer
\* selects, and the same if at most one condition is on outputs.
THEOREM BtcWithinLiveHolds ==
    ASSUME NEW s, NEW block,
           BtcTyped(block)
    PROVE  BtcWithinLive(s, block)
<1>1. \A tx \in block : RetrieveBtcTxCIDs(s.tx, tx) # {} => checkTransaction(s.tx, tx)
  BY BtcTxAgrees DEF BtcTyped
<1>2. ASSUME \E c \in {"sigs", "addresses", "classes"} : onOutputs(s.tx) \subseteq {c}
      PROVE  \A tx \in block : checkTransaction(s.tx, tx) <=> RetrieveBtcTxCIDs(s.tx, tx) # {}
  BY <1>2, BtcTxAgrees DEF BtcTyped
<1> QED BY <1>1, <1>2 DEF BtcWithinLive, BtcHistorical, BtcLive, BtcFetchErr

\* A log with a wanted topic at every position that has one makes its receipt
\* pass the overlap conditions of the query.
LEMMA LogInReceipt ==
    ASSUME NEW topics, NEW tx, NEW l \in tx.logs,
           \A k \in 1..Slots : Wanted(topics, k) # {} =>
             k <= Len(l.topics) /\ l.topics[k] \in Wanted(topics, k)
    PROVE  topicsOverlap(topics, tx)
  BY DEF topicsOverlap, TopicSet

\* The numbers that replace a nil are those of the first and the last block.
LEMMA RangeAsked ==
    ASSUME NEW chain, NEW crit, LogsTyped(chain, crit), crit.hash = {}, NEW h \in DOMAIN chain
    PROVE  LET start == startingBlock(chain, crit)
               end == endingBlock(chain, crit)
           IN  /\ start \in Int /\ end \in Int
               /\ start <= h /\ h <= end <=> h \in BlocksAsked(chain, crit)
<1> DEFINE start == startingBlock(chain, crit)
           end == endingBlock(chain, crit)
<1>1. h \in Nat /\ DOMAIN chain \subseteq Nat
  BY DEF LogsTyped
<1>2. start \in Int /\ (start <= h <=> \A n \in crit.from : n <= h)
  <2>1. CASE crit.from = {}
    <3>1. \E n \in DOMAIN chain : \A g \in DOMAIN chain : n <= g
      BY DEF LogsTyped
    <3>2. start \in DOMAIN chain /\ \A g \in DOMAIN chain : start <= g
      BY <2>1, <3>1 DEF startingBlock
    <3>3. start \in Int
      BY <1>1, <3>2, SMTT(30)
    <3> QED BY <2>1, <3>2, <3>3
  <2>2. CASE crit.from # {}
    <3>1. PICK n \in Int : crit.from = {n}
      BY <2>2 DEF LogsTyped
    <3>2. start = n
      BY <3>1 DEF startingBlock
    <3> QED BY <3>1, <3>2
  <2> QED BY <2>1, <2>2
<1>3. end \in Int /\ (h <= end <=> \A n \in crit.to : h <= n)
  <2>1. CASE crit.to = {}
    <3>1. \E n \in DOMAIN chain : \A g \in DOMAIN chain : g <= n
      BY DEF LogsTyped
    <3>2. end \in DOMAIN chain /\ \A g \in DOMAIN chain : g <= end
      BY <2>1, <3>1 DEF endingBlock
    <3>3. end \in Int
      BY <1>1, <3>2, SMTT(30)
    <3> QED BY <2>1, <3>2, <3>3
  <2>2. CASE crit.to # {}
    <3>1. PICK n \in Int : crit.to = {n}
      BY <2>2 DEF LogsTyped
    <3>2. end = n
      BY <3>1 DEF endingBlock
    <3> QED BY <3>1, <3>2
  <2> QED BY <2>1, <2>2
<1> HIDE DEF start, end
<1> QED BY <1>2, <1>3 DEF BlocksAsked, start, end

\* The blocks queried are those asked for, unless the range begins with block 0.
LEMMA AskedQueried ==
    ASSUME NEW chain, NEW crit, LogsTyped(chain, crit)
    PROVE  /\ BlocksAsked(chain, crit) \subseteq blocksQueried(chain, crit)
           /\ crit.hash # {} \/ startingBlock(chain, crit) > 0 =>
                blocksQueried(chain, crit) \subseteq BlocksAsked(chain, crit)
<1> DEFINE start == startingBlock(chain, crit)
           end == endingBlock(chain, crit)
<1>1. CASE crit.hash # {}
  <2>1. heightsQueried(chain, 0, crit.hash) = {h \in DOMAIN chain : h \in crit.hash}
    <3>1. ~(0 > 0)
      BY SMTT(30)
    <3> QED BY <1>1, <3>1 DEF heightsQueried
  <2> QED BY <1>1, <2>1 DEF blocksQueried, BlocksAsked
<1>2. CASE crit.hash = {} /\ DOMAIN chain = {}
  BY <1>2 DEF blocksQueried, BlocksAsked
<1>3. CASE crit.hash = {} /\ DOMAIN chain # {}
  <2>1. blocksQueried(chain, crit) = UNION {heightsQueried(chain, n, {}) : n \in start..end}
    BY <1>3 DEF blocksQueried
  <2> HIDE DEF start, end
  <2>2. ASSUME NEW h \in BlocksAsked(chain, crit)
        PROVE  h \in blocksQueried(chain, crit)
    <3>1. h \in DOMAIN chain /\ h \in Nat
      BY DEF BlocksAsked, LogsTyped
    <3>2. start \in Int /\ end \in Int /\ start <= h /\ h <= end
      BY <1>3, <3>1, RangeAsked DEF start, end
    <3>3. h \in start..end
      BY <3>1, <3>2, SMTT(30)
    <3>4. h \in heightsQueried(chain, h, {})
      BY <3>1 DEF heightsQueried
    <3> QED BY <2>1, <3>3, <3>4
  <2>3. ASSUME start > 0, NEW h \in blocksQueried(chain, crit)
        PROVE  h \in BlocksAsked(chain, crit)
    <3>1. PICK n \in start..end : h \in heightsQueried(chain, n, {})
      BY <2>1, <2>3
    <3>2. h \in DOMAIN chain /\ (n > 0 => h = n)
      BY <3>1 DEF heightsQueried
    <3>3. start \in Int /\ end \in Int
      BY <1>3, <3>2, RangeAsked DEF start, end
    <3>4. n > 0 /\ start <= n /\ n <= end
      BY <2>3, <3>1, <3>3, SMTT(30)
    <3> QED BY <1>3, <3>2, <3>4, RangeAsked DEF start, end
  <2> QED BY <1>3, <2>2, <2>3 DEF start
<1> QED BY <1>1, <1>2, <1>3

\* LogsFoundHolds: on every chain whose logs have at most Slots topics, GetLogs
\* returns all the logs asked for, and stays with the blocks asked for unless the
\* range begins with block 0.
THEOREM LogsFoundHolds ==
    ASSUME NEW chain, NEW crit, NEW addresses, NEW topics, LogsTyped(chain, crit)
    PROVE  LogsFound(chain, crit, addresses, topics)
<1> DEFINE sets == topicStrSets(topics)
           f == [off |-> FALSE, matchTxs |-> FALSE, addresses |-> addresses,
                 topics |-> sets]
           asked == BlocksAsked(chain, crit)
           queried == blocksQueried(chain, crit)
           logs == GetLogs(chain, crit, addresses, topics)
<1>1. \A k \in 1..Slots : Wanted(sets, k) = Wanted(topics, k) /\ sets[k] = Wanted(topics, k)
  <2>1. sets \in [1..Slots -> {Wanted(topics, k) : k \in 1..Slots}]
    BY DEF topicStrSets
  <2>2. Len(sets) = Slots
    BY <2>1, SlotsAssumption, SMTT(30)
  <2> QED BY <2>2 DEF Wanted, topicStrSets
<1>4. ASSUME NEW h \in asked,
             NEW i \in 1..Len(chain[h].txs), NEW l \in chain[h].txs[i].logs,
             addresses = {} \/ l.address \in addresses,
             \A k \in 1..Slots : Wanted(topics, k) # {} =>
               k <= Len(l.topics) /\ l.topics[k] \in Wanted(topics, k)
      PROVE  <<h, i, l>> \in logs
  <2>0. h \in DOMAIN chain
    BY DEF BlocksAsked
  <2>1. wantedLog(sets, l)
    <3> SUFFICES ASSUME NEW k \in 1..Len(l.topics), sets[k] # {}
                 PROVE  l.topics[k] \in sets[k]
      BY DEF wantedLog
    <3>1. k \in 1..Slots
      <4>1. Len(l.topics) \in 0..Slots
        BY <2>0 DEF LogsTyped
      <4> QED BY <4>1, SlotsAssumption, SMTT(30)
    <3> QED BY <3>1, <1>1, <1>4
  <2>2. topicsOverlap(sets, chain[h].txs[i])
    BY <1>1, <1>4, LogInReceipt
  <2>3. addresses # {} => addresses \cap LogContracts(chain[h].txs[i]) # {}
    BY <1>4 DEF LogContracts
  <2>4. i \in RetrieveRctCIDs(f, chain[h], {})
    <3>1. f.addresses = addresses /\ f.topics = sets /\ ~f.off /\ ~f.matchTxs
      OBVIOUS
    <3> HIDE DEF f, sets
    <3> QED BY <2>2, <2>3, <3>1 DEF RetrieveRctCIDs, rctWanted
  <2>5. h \in queried
    BY AskedQueried
  <2> HIDE DEF queried, f, sets
  <2> QED BY <2>1, <2>4, <2>5, SMTT(30) DEF GetLogs, queried, f, sets
<1> HIDE DEF logs
<1>5. LogsWanted(chain, crit, addresses, topics) \subseteq logs
  BY <1>4, SMTT(30) DEF LogsWanted
<1>6. ASSUME crit.hash # {} \/ startingBlock(chain, crit) > 0, NEW e \in logs
      PROVE  e[1] \in asked
  <2>1. \E h \in queried : e[1] = h
    BY SMTT(30) DEF logs, GetLogs
  <2>2. queried \subseteq asked
    BY <1>6, AskedQueried
  <2> QED BY <2>1, <2>2
<1> QED BY <1>5, <1>6 DEF LogsFound, logs

\* FiltersAgreeHolds: for all settings and all blocks of their types, what the
\* queries of Retrieve select is within what ResponseFilterer.Filter selects, and
\* the same where the settings are plain; likewise for Bitcoin.
THEOREM FiltersAgreeHolds == InputTyped => FiltersAgree
  BY WithinLiveHolds, PlainAgreeHolds, BtcWithinLiveHolds DEF InputTyped, FiltersAgree

\* GetLogsCompleteHolds: over every chain and for every hash or range, eth_getLogs
\* leaves out no log that was asked for, and none is of a block that was not asked
\* for unless the range begins with block 0.
THEOREM GetLogsCompleteHolds == InputTyped => GetLogsComplete
<1> SUFFICES ASSUME LogsTyped(input[2], input[3])
             PROVE  LogsFound(input[2], input[3], input[4], input[5])
  BY DEF InputTyped, GetLogsComplete
<1> QED BY LogsFoundHolds

-----------------------------------------------------------------------------
(***************************************************************************)
(* Fetching.                                                                *)
(***************************************************************************)
\* A block of data is no error, and neither is a node made with one.
LEMMA BlockIsData ==
    ASSUME NEW cid
    PROVE  BlockModel(cid) # NoBlock
  BY SMTT(30) DEF BlockModel, NoBlock

\* Both ways to ask for a block fail exactly if it is not there.
LEMMA FetchFails ==
    ASSUME NEW cid, NEW there
    PROVE  /\ fetch(cid, there) = NoBlock <=> cid \notin there
           /\ FetchIPLDByMhKey(cid, there) = fetch(cid, there)
  BY BlockIsData DEF fetch, FetchIPLDByMhKey

\* A node is an error exactly if its block is.
LEMMA NodeFails ==
    ASSUME NEW n, NEW ipld
    PROVE  Node(n, ipld) = NoBlock <=> ipld = NoBlock
<1>1. [IPLD |-> ipld, key |-> n.key, stateKey |-> n.stateKey] # NoBlock
  BY SMTT(30) DEF NoBlock
<1> QED BY <1>1 DEF Node

\* list has the elements of another list at the places P, in some order.
ListsPlaces(list, of, P) ==
    /\ \A k \in DOMAIN list : \E i \in P : list[k] = of[i]
    /\ \A i \in P : \E k \in DOMAIN list : list[k] = of[i]

\* The places of the CIDs that can be had.
FoundAt(cids, there) == {i \in DOMAIN cids : cids[i] \in there}

\* The ranks of some positions.
Ranks(rank, D) == {rank[i] : i \in D}

\* As many numbers as there are positions with different ranks.
LEMMA RanksCounted ==
    ASSUME NEW n \in Nat, NEW rank \in Injection(1..n, 1..n), NEW D, D \subseteq 1..n
    PROVE  /\ Ranks(rank, D) \subseteq 0..n
           /\ IsFiniteSet(D) /\ Cardinality(Ranks(rank, D)) = Cardinality(D)
           /\ \A i, j \in D : rank[i] = rank[j] => i = j
<1> DEFINE R == {rank[i] : i \in D}
           f == [i \in D |-> rank[i]]
<1>1. rank \in [1..n -> 1..n] /\ \A i, j \in 1..n : rank[i] = rank[j] => i = j
  BY DEF Injection, IsInjective
<1>2. \A i, j \in D : rank[i] = rank[j] => i = j
  BY <1>1
<1>3. R \subseteq 0..n
  BY <1>1, SMTT(30)
<1>4. IsFiniteSet(1..n)
  BY FS_Interval, SMTT(30)
<1>5. IsFiniteSet(D)
  BY <1>4, FS_Subset
<1>6. f \in Bijection(D, R)
  <2>1. f \in [D -> R]
    OBVIOUS
  <2>2. IsInjective(f)
    BY <1>2 DEF IsInjective
  <2>3. \A r \in R : \E i \in D : f[i] = r
    OBVIOUS
  <2> HIDE DEF f, R
  <2> QED BY <2>1, <2>2, <2>3 DEF Bijection, Injection, Surjection
<1> HIDE DEF f, R
<1>7. ExistsBijection(D, R)
  BY <1>6 DEF ExistsBijection
<1>8. Cardinality(R) = Cardinality(D)
  BY <1>5, <1>7, FS_Bijection
<1> QED BY <1>2, <1>3, <1>5, <1>8 DEF R, Ranks

\* Whatever the order of arrival, the exchange returns the blocks that are there,
\* each once; as many as were asked for only if all of them are there.
LEMMA BlocksArrive ==
    ASSUME NEW n \in Nat, NEW rank \in Injection(1..n, 1..n), NEW S, NEW cids \in Seq(S),
           Len(cids) <= n, NEW there
    PROVE  LET found == FoundAt(cids, there)
               blocks == GetBlocks(cids, there, rank)
           IN  /\ DOMAIN blocks = 1..Cardinality(found) /\ Cardinality(found) \in Nat
               /\ Cardinality(found) = Len(cids) <=> found = DOMAIN cids
               /\ ListsPlaces(blocks, cids, found)
<1> DEFINE D == DOMAIN cids
           found == FoundAt(cids, there)
           R == Ranks(rank, found)
           arrival == Ascending(R)
           blocks == GetBlocks(cids, there, rank)
<1>1. D = 1..Len(cids) /\ Len(cids) \in Nat /\ D \subseteq 1..n /\ found \subseteq D
  BY SMTT(30) DEF FoundAt
<1>2. blocks = [k \in DOMAIN arrival |-> cids[CHOOSE i \in found : rank[i] = arrival[k]]]
  BY DEF GetBlocks, Ranks, FoundAt
<1> HIDE DEF D, found, blocks
<1>3. found \subseteq 1..n
  BY <1>1
<1>4. /\ R \subseteq 0..n /\ IsFiniteSet(found) /\ Cardinality(R) = Cardinality(found)
      /\ \A i, j \in found : rank[i] = rank[j] => i = j
  BY <1>3, RanksCounted
<1>5. /\ Cardinality(R) \in Nat /\ DOMAIN arrival = 1..Cardinality(R)
      /\ \A k \in 1..Cardinality(R) : arrival[k] \in R
      /\ \A r \in R : \E k \in 1..Cardinality(R) : arrival[k] = r
  <2> HIDE DEF R
  <2> QED BY <1>4, AscendingLists
<1> DEFINE from(k) == CHOOSE i \in found : rank[i] = arrival[k]
<1>6. \A k \in DOMAIN arrival : from(k) \in found /\ rank[from(k)] = arrival[k]
  <2> SUFFICES ASSUME NEW k \in DOMAIN arrival
               PROVE  from(k) \in found /\ rank[from(k)] = arrival[k]
    OBVIOUS
  <2>1. arrival[k] \in R
    BY <1>5
  <2>2. \E i \in found : rank[i] = arrival[k]
    BY <2>1 DEF Ranks
  <2> HIDE DEF arrival
  <2> QED BY <2>2
<1> HIDE DEF arrival, from
<1>7. DOMAIN blocks = DOMAIN arrival /\ \A k \in DOMAIN blocks : blocks[k] = cids[from(k)]
  BY <1>2 DEF from
<1>8. \A i \in found : \E k \in DOMAIN blocks : blocks[k] = cids[i]
  <2> SUFFICES ASSUME NEW i \in found PROVE \E k \in DOMAIN blocks : blocks[k] = cids[i]
    OBVIOUS
  <2>1. rank[i] \in R
    BY DEF Ranks
  <2> HIDE DEF R
  <2>2. PICK k \in DOMAIN arrival : arrival[k] = rank[i]
    BY <1>5, <2>1
  <2>3. from(k) = i
    BY <1>4, <1>6, <2>2
  <2> QED BY <1>7, <2>2, <2>3
<1>9. \A k \in DOMAIN blocks : \E i \in found : blocks[k] = cids[i]
  BY <1>6, <1>7
<1> HIDE DEF R
<1>10. Cardinality(found) = Len(cids) <=> found = D
  <2>1. IsFiniteSet(D) /\ Cardinality(D) = Len(cids)
    <3>1. 1 \in Int /\ Len(cids) \in Int /\ (1 > Len(cids) => Len(cids) = 0) /\ Len(cids) - 1 + 1 = Len(cids)
      BY <1>1, SMTT(30)
    <3>2. IsFiniteSet(1..Len(cids))
          /\ Cardinality(1..Len(cids)) = IF 1 > Len(cids) THEN 0 ELSE Len(cids) - 1 + 1
      BY <3>1, FS_Interval
    <3> QED BY <1>1, <3>1, <3>2
  <2>2. found \in SUBSET D
    BY <1>1
  <2>3. Cardinality(D) = Cardinality(found) => D = found
    BY <2>1, <2>2, FS_Subset
  <2> QED BY <2>1, <2>3
<1>11. DOMAIN blocks = 1..Cardinality(found) /\ Cardinality(found) \in Nat
  BY <1>4, <1>5, <1>7
<1> QED BY <1>8, <1>9, <1>10, <1>11 DEF D, found, blocks, ListsPlaces

\* A counted batch and the statements for the same CIDs: both hold an error exactly if
\* one of the blocks is not there, and otherwise the same blocks.
LEMMA BatchAgrees ==
    ASSUME NEW n \in Nat, NEW rank \in Injection(1..n, 1..n), NEW S, NEW cids \in Seq(S),
           Len(cids) <= n, NEW there
    PROVE  LET b == AsMany(fetchBatch(cids, there, rank), cids)
               e == PGFetchEach(cids, there)
           IN  /\ NoBlock \in Range(b) <=> ~(Range(cids) \subseteq there)
               /\ NoBlock \in Range(e) <=> ~(Range(cids) \subseteq there)
               /\ Range(cids) \subseteq there => Len(b) = Len(e) /\ Range(b) = Range(e)
<1> DEFINE D == DOMAIN cids
           found == FoundAt(cids, there)
           blocks == GetBlocks(cids, there, rank)
           b == AsMany(fetchBatch(cids, there, rank), cids)
           e == PGFetchEach(cids, there)
           all == Range(cids) \subseteq there
<1> SUFFICES /\ NoBlock \in Range(b) <=> ~all
             /\ NoBlock \in Range(e) <=> ~all
             /\ all => Len(b) = Len(e) /\ Range(b) = Range(e)
  OBVIOUS
<1>1. /\ DOMAIN blocks = 1..Cardinality(found) /\ Cardinality(found) \in Nat
      /\ Cardinality(found) = Len(cids) <=> found = D
      /\ ListsPlaces(blocks, cids, found)
  BY BlocksArrive
<1>2. DOMAIN e = D /\ \A i \in D : e[i] = fetch(cids[i], there)
  <2>1. \A i \in D : FetchIPLDByMhKey(cids[i], there) = fetch(cids[i], there)
    BY FetchFails
  <2> QED BY <2>1 DEF PGFetchEach
<1>3. b = IF Len(blocks) # Len(cids) THEN <<NoBlock>>
          ELSE [k \in DOMAIN blocks |-> BlockModel(blocks[k])]
  <2>1. Len([k \in DOMAIN blocks |-> BlockModel(blocks[k])]) = Len(blocks)
    <3>1. DOMAIN blocks = 1..Cardinality(found) /\ Cardinality(found) \in Nat
      BY <1>1
    <3> HIDE DEF blocks, found
    <3> QED BY <3>1, SMTT(30)
  <2> QED BY <2>1 DEF fetchBatch, AsMany
<1>4. D = 1..Len(cids) /\ Len(cids) \in Nat
  BY SMTT(30)
<1>5. found = D <=> all
  BY DEF Range, FoundAt
<1>6. (all <=> \A i \in D : cids[i] \in there)
  BY DEF Range
<1> HIDE DEF blocks, found, e, b, D, all
<1>7. NoBlock \in Range(e) <=> ~all
  <2>1. \A i \in D : fetch(cids[i], there) = NoBlock <=> cids[i] \notin there
    BY FetchFails
  <2>2. \A i \in D : e[i] = NoBlock <=> cids[i] \notin there
    BY <1>2, <2>1
  <2> QED BY <1>2, <1>6, <2>2 DEF Range
<1>8. Len(blocks) = Cardinality(found)
  BY <1>1, SMTT(30)
<1>9. CASE ~all
  <2>1. b = <<NoBlock>>
    BY <1>1, <1>3, <1>5, <1>8, <1>9
  <2>2. 1 \in DOMAIN b /\ b[1] = NoBlock
    BY <2>1, SMTT(30)
  <2>3. NoBlock \in Range(b)
    BY <2>2 DEF Range
  <2> QED BY <1>7, <1>9, <2>3
<1>10. CASE all
  <2>1. found = D /\ Len(blocks) = Len(cids)
    BY <1>1, <1>5, <1>8, <1>10
  <2>2. DOMAIN b = DOMAIN blocks /\ \A k \in DOMAIN b : b[k] = BlockModel(blocks[k])
    BY <1>3, <2>1
  <2>3. \A i \in D : e[i] = BlockModel(cids[i])
    BY <1>2, <1>6, <1>10 DEF fetch
  <2>4. \A k \in DOMAIN b : BlockModel(blocks[k]) # NoBlock
    BY BlockIsData
  <2>5. NoBlock \notin Range(b)
    BY <2>2, <2>4 DEF Range
  <2>6. ASSUME NEW k \in DOMAIN b PROVE \E i \in D : b[k] = e[i]
    <3>1. PICK i \in D : blocks[k] = cids[i]
      BY <1>1, <2>1, <2>2 DEF ListsPlaces
    <3> QED BY <2>2, <2>3, <3>1
  <2>7. ASSUME NEW i \in D PROVE \E k \in DOMAIN b : b[k] = e[i]
    <3>1. PICK k \in DOMAIN blocks : blocks[k] = cids[i]
      BY <1>1, <2>1 DEF ListsPlaces
    <3> QED BY <2>2, <2>3, <3>1
  <2>8. Range(b) = Range(e)
    <3>1. ASSUME NEW k \in DOMAIN b PROVE b[k] \in Range(e)
      BY <1>2, <2>6 DEF Range
    <3>2. ASSUME NEW i \in DOMAIN e PROVE e[i] \in Range(b)
      BY <1>2, <2>7 DEF Range
    <3> QED BY <3>1, <3>2 DEF Range
  <2>9. Len(b) = Len(e)
    <3>1. DOMAIN b = 1..Len(cids) /\ DOMAIN e = 1..Len(cids)
      BY <1>1, <1>2, <1>4, <1>8, <2>1, <2>2
    <3> QED BY <1>4, <3>1, SMTT(30)
  <2> QED BY <1>7, <1>10, <2>5, <2>8, <2>9
<1> QED BY <1>9, <1>10

\* Picked lists the elements of a list at some places, all of them and no others.
LEMMA PickedLists ==
    ASSUME NEW T, NEW nodes \in Seq(T), NEW P, P \subseteq DOMAIN nodes
    PROVE  ListsPlaces(Picked(nodes, P), nodes, P)
<1> DEFINE n == Len(nodes)
           A == Ascending(P)
           with == Picked(nodes, P)
<1>1. n \in Nat /\ P \subseteq 0..n
  BY SMTT(30)
<1> HIDE DEF n
<1>2. /\ \A i \in 1..Cardinality(P) : A[i] \in P
      /\ \A s \in P : \E i \in 1..Cardinality(P) : A[i] = s
  BY <1>1, AscendingLists
<1>3. DOMAIN with = 1..Cardinality(P) /\ \A k \in DOMAIN with : with[k] = nodes[A[k]]
  BY DEF Picked
<1> HIDE DEF A, with
<1>4. \A k \in DOMAIN with : \E i \in P : with[k] = nodes[i]
  BY <1>2, <1>3
<1>5. ASSUME NEW i \in P PROVE \E k \in DOMAIN with : with[k] = nodes[i]
  <2>1. PICK k \in 1..Cardinality(P) : A[k] = i
    BY <1>2
  <2> QED BY <1>3, <2>1
<1> QED BY <1>4, <1>5 DEF with, ListsPlaces

\* The state or storage nodes at the places P, fetched one by one.
NodesFetched(nodes, P, there) ==
    LET with == Picked(nodes, P)
    IN  [k \in DOMAIN with |-> Node(with[k], fetch(with[k].cid, there))]

\* They contain an error exactly if the block of one of them is not there.
LEMMA NodesFetchedFails ==
    ASSUME NEW T, NEW nodes \in Seq(T), NEW P, P \subseteq DOMAIN nodes, NEW there
    PROVE  NoBlock \in Range(NodesFetched(nodes, P, there)) <=>
             \E i \in P : nodes[i].cid \notin there
<1> DEFINE with == Picked(nodes, P)
           f == NodesFetched(nodes, P, there)
<1>1. ListsPlaces(with, nodes, P)
  BY PickedLists
<1>2. DOMAIN f = DOMAIN with
      /\ \A k \in DOMAIN with : f[k] = Node(with[k], fetch(with[k].cid, there))
  BY DEF NodesFetched
<1> HIDE DEF with, f
<1>3. \A k \in DOMAIN with : f[k] = NoBlock <=> with[k].cid \notin there
  <2> SUFFICES ASSUME NEW k \in DOMAIN with
               PROVE  f[k] = NoBlock <=> with[k].cid \notin there
    OBVIOUS
  <2>1. f[k] = NoBlock <=> fetch(with[k].cid, there) = NoBlock
    <3>1. Node(with[k], fetch(with[k].cid, there)) = NoBlock <=>
            fetch(with[k].cid, there) = NoBlock
      BY NodeFails, SMTT(30)
    <3> QED BY <1>2, <3>1
  <2>2. fetch(with[k].cid, there) = NoBlock <=> with[k].cid \notin there
    BY FetchFails
  <2> QED BY <2>1, <2>2
<1>4. ASSUME NoBlock \in Range(f) PROVE \E i \in P : nodes[i].cid \notin there
  <2>1. PICK k \in DOMAIN with : f[k] = NoBlock
    BY <1>2, <1>4 DEF Range
  <2>2. PICK i \in P : with[k] = nodes[i]
    BY <1>1 DEF ListsPlaces
  <2> QED BY <1>3, <2>1, <2>2
<1>5. ASSUME NEW i \in P, nodes[i].cid \notin there PROVE NoBlock \in Range(f)
  <2>1. PICK k \in DOMAIN with : with[k] = nodes[i]
    BY <1>1 DEF ListsPlaces
  <2>2. f[k] = NoBlock
    BY <1>3, <1>5, <2>1
  <2> QED BY <1>2, <2>2 DEF Range
<1> QED BY <1>4, <1>5 DEF f

\* The places of the nodes that are fetched.
WithCid(nodes) == {i \in DOMAIN nodes : nodes[i].cid # None}
WithKeys(nodes) == {i \in DOMAIN nodes : nodes[i].cid # None /\ nodes[i].stateKey # None}

\* The two fetchers treat state and storage nodes alike.
LEMMA NodesAlike ==
    ASSUME NEW nodes, NEW there
    PROVE  /\ FetchState(nodes, there) = NodesFetched(nodes, WithCid(nodes), there)
           /\ PGFetchState(nodes, there) = NodesFetched(nodes, WithCid(nodes), there)
           /\ FetchStorage(nodes, there) = NodesFetched(nodes, WithKeys(nodes), there)
           /\ PGFetchStorage(nodes, there) = NodesFetched(nodes, WithKeys(nodes), there)
  BY DEF FetchState, PGFetchState, FetchStorage, PGFetchStorage, NodesFetched, WithCid, WithKeys,
         fetch, FetchIPLDByMhKey

\* The header is one block: FetchHeader and its statement return the same.
LEMMA HeaderAgrees ==
    ASSUME NEW cid, NEW there
    PROVE  /\ PGFetchEach(<<cid>>, there) = FetchHeader(cid, there)
           /\ NoBlock \in Range(FetchHeader(cid, there)) <=> cid \notin there
<1>1. DOMAIN <<cid>> = {1} /\ <<cid>>[1] = cid
  BY SMTT(30)
<1>2. PGFetchEach(<<cid>>, there) = [i \in {1} |-> fetch(cid, there)]
  BY <1>1 DEF PGFetchEach, FetchIPLDByMhKey, fetch
<1> DEFINE x == fetch(cid, there)
<1> HIDE DEF x
<1>3. <<x>> = [i \in {1} |-> x]
  BY SMTT(30)
<1>4. Range(<<x>>) = {x}
  BY <1>3 DEF Range
<1>5. x = NoBlock <=> cid \notin there
  BY FetchFails DEF x
<1> QED BY <1>2, <1>3, <1>4, <1>5 DEF FetchHeader, x

\* FetchAgreesHolds: part by part, EthFetch and EthPGFetch (BtcFetch and
\* BtcPGFetch) fail alike or return the same data.
LEMMA FetchAgreesHolds ==
    ASSUME NEW n \in Nat, NEW rank \in Injection(1..n, 1..n), NEW w, Selected(w, n), NEW there
    PROVE  FetchAgrees(w, there, rank)
<1> DEFINE q == [header |-> FetchHeader(w.header, there),
                 uncles |-> FetchUncles(w.uncles, there, rank),
                 txs |-> FetchTrxs(w.txs, there, rank), rcts |-> FetchRcts(w.rcts, there, rank),
                 state |-> FetchState(w.state, there), storage |-> FetchStorage(w.storage, there)]
           g == [header |-> PGFetchEach(<<w.header>>, there),
                 uncles |-> PGFetchEach(w.uncles, there),
                 txs |-> PGFetchEach(w.txs, there), rcts |-> PGFetchEach(w.rcts, there),
                 state |-> PGFetchState(w.state, there),
                 storage |-> PGFetchStorage(w.storage, there)]
           qb == [header |-> FetchHeader(w.header, there), txs |-> FetchTrxs(w.txs, there, rank)]
           gb == [header |-> PGFetchEach(<<w.header>>, there), txs |-> PGFetchEach(w.txs, there)]
           failed == [error |-> <<NoBlock>>]
           fails(parts) == \E f \in DOMAIN parts : NoBlock \in Range(parts[f])
           fields == {"header", "uncles", "txs", "rcts", "state", "storage"}
<1>1. /\ EthFetch(w, there, rank) = IF fails(q) THEN failed ELSE q
      /\ EthPGFetch(w, there) = IF fails(g) THEN failed ELSE g
      /\ BtcFetch(w, there, rank) = IF fails(qb) THEN failed ELSE qb
      /\ BtcPGFetch(w, there) = IF fails(gb) THEN failed ELSE gb
  BY DEF EthFetch, EthPGFetch, BtcFetch, BtcPGFetch, Whole
<1>2. /\ DOMAIN q = fields /\ DOMAIN g = fields
      /\ DOMAIN qb = {"header", "txs"} /\ DOMAIN gb = {"header", "txs"}
      /\ DOMAIN failed = {"error"}
  BY SMTT(30)
<1>3. /\ q.header = FetchHeader(w.header, there)
      /\ g.header = PGFetchEach(<<w.header>>, there)
      /\ \A f \in {"uncles", "txs", "rcts"} :
           q[f] = AsMany(fetchBatch(w[f], there, rank), w[f]) /\ g[f] = PGFetchEach(w[f], there)
      /\ q.state = FetchState(w.state, there) /\ g.state = PGFetchState(w.state, there)
      /\ q.storage = FetchStorage(w.storage, there)
      /\ g.storage = PGFetchStorage(w.storage, there)
      /\ qb.header = q.header /\ qb.txs = q.txs /\ gb.header = g.header /\ gb.txs = g.txs
  BY SMTT(30) DEF FetchUncles, FetchTrxs, FetchRcts
<1> HIDE DEF q, g, qb, gb, failed
<1> DEFINE lists == {"uncles", "txs", "rcts"}
           same(f) == Len(q[f]) = Len(g[f]) /\ Range(q[f]) = Range(g[f])
           bad(f) == ~(Range(w[f]) \subseteq there)
           badState == \E i \in WithCid(w.state) : w.state[i].cid \notin there
           badStorage == \E i \in WithKeys(w.storage) : w.storage[i].cid \notin there
<1>4. q.header = g.header /\ (NoBlock \in Range(q.header) <=> w.header \notin there)
  <2>1. /\ PGFetchEach(<<w.header>>, there) = FetchHeader(w.header, there)
        /\ NoBlock \in Range(FetchHeader(w.header, there)) <=> w.header \notin there
    BY HeaderAgrees
  <2> QED BY <1>3, <2>1
<1>5. \A f \in lists : /\ NoBlock \in Range(q[f]) <=> bad(f)
                       /\ NoBlock \in Range(g[f]) <=> bad(f)
                       /\ ~bad(f) => same(f)
  <2> SUFFICES ASSUME NEW f \in lists
               PROVE  /\ NoBlock \in Range(q[f]) <=> bad(f)
                      /\ NoBlock \in Range(g[f]) <=> bad(f)
                      /\ ~bad(f) => same(f)
    OBVIOUS
  <2> DEFINE cids == w[f]
  <2>1. cids \in Seq(STRING) /\ Len(cids) <= n
    BY DEF Selected
  <2>2. q[f] = AsMany(fetchBatch(cids, there, rank), cids) /\ g[f] = PGFetchEach(cids, there)
    BY <1>3
  <2> HIDE DEF cids
  <2>3. /\ NoBlock \in Range(AsMany(fetchBatch(cids, there, rank), cids)) <=> ~(Range(cids) \subseteq there)
        /\ NoBlock \in Range(PGFetchEach(cids, there)) <=> ~(Range(cids) \subseteq there)
        /\ Range(cids) \subseteq there =>
             /\ Len(AsMany(fetchBatch(cids, there, rank), cids)) = Len(PGFetchEach(cids, there))
             /\ Range(AsMany(fetchBatch(cids, there, rank), cids)) = Range(PGFetchEach(cids, there))
    BY <2>1, BatchAgrees
  <2> QED BY <2>2, <2>3 DEF cids
<1>6. q.state = g.state /\ (NoBlock \in Range(q.state) <=> badState)
  <2>1. q.state = NodesFetched(w.state, WithCid(w.state), there) /\ g.state = q.state
    <3>1. /\ FetchState(w.state, there) = NodesFetched(w.state, WithCid(w.state), there)
          /\ PGFetchState(w.state, there) = NodesFetched(w.state, WithCid(w.state), there)
      BY NodesAlike
    <3> QED BY <1>3, <3>1
  <2>2. /\ w.state \in Seq([cid : STRING, key : STRING, stateKey : STRING])
        /\ WithCid(w.state) \subseteq DOMAIN w.state
    BY DEF Selected, WithCid
  <2>3. NoBlock \in Range(NodesFetched(w.state, WithCid(w.state), there)) <=> badState
    BY <2>2, NodesFetchedFails
  <2> QED BY <2>1, <2>3
<1>7. q.storage = g.storage /\ (NoBlock \in Range(q.storage) <=> badStorage)
  <2>1. q.storage = NodesFetched(w.storage, WithKeys(w.storage), there) /\ g.storage = q.storage
    <3>1. /\ FetchStorage(w.storage, there) = NodesFetched(w.storage, WithKeys(w.storage), there)
          /\ PGFetchStorage(w.storage, there) = NodesFetched(w.storage, WithKeys(w.storage), there)
      BY NodesAlike
    <3> QED BY <1>3, <3>1
  <2>2. /\ w.storage \in Seq([cid : STRING, key : STRING, stateKey : STRING])
        /\ WithKeys(w.storage) \subseteq DOMAIN w.storage
    BY DEF Selected, WithKeys
  <2>3. NoBlock \in Range(NodesFetched(w.storage, WithKeys(w.storage), there)) <=> badStorage
    BY <2>2, NodesFetchedFails
  <2> QED BY <2>1, <2>3
<1>8. ~(Needed(w) \subseteq there) <=>
        \/ w.header \notin there \/ bad("uncles") \/ bad("txs") \/ bad("rcts")
        \/ badState \/ badStorage
  <2>1. badState <=> ~({m.cid : m \in {o \in Range(w.state) : o.cid # None}} \subseteq there)
    BY DEF Range, WithCid
  <2>2. badStorage <=> ~({m.cid : m \in {o \in Range(w.storage) :
                                            o.cid # None /\ o.stateKey # None}} \subseteq there)
    BY DEF Range, WithKeys
  <2> HIDE DEF badState, badStorage
  <2> QED BY <2>1, <2>2 DEF Needed
<1>9. /\ fails(q) <=> \/ w.header \notin there \/ bad("uncles") \/ bad("txs") \/ bad("rcts")
                      \/ badState \/ badStorage
      /\ fails(g) <=> \/ w.header \notin there \/ bad("uncles") \/ bad("txs") \/ bad("rcts")
                      \/ badState \/ badStorage
  <2> HIDE DEF bad, badState, badStorage
  <2>1. fails(q) <=> \/ NoBlock \in Range(q.header) \/ NoBlock \in Range(q.uncles)
                     \/ NoBlock \in Range(q.txs) \/ NoBlock \in Range(q.rcts)
                     \/ NoBlock \in Range(q.state) \/ NoBlock \in Range(q.storage)
    BY <1>2
  <2>2. fails(g) <=> \/ NoBlock \in Range(g.header) \/ NoBlock \in Range(g.uncles)
                     \/ NoBlock \in Range(g.txs) \/ NoBlock \in Range(g.rcts)
                     \/ NoBlock \in Range(g.state) \/ NoBlock \in Range(g.storage)
    BY <1>2
  <2> QED BY <1>4, <1>5, <1>6, <1>7, <2>1, <2>2
<1>10. /\ fails(qb) <=> w.header \notin there \/ bad("txs")
       /\ fails(gb) <=> w.header \notin there \/ bad("txs")
  <2> HIDE DEF bad
  <2>1. fails(qb) <=> NoBlock \in Range(q.header) \/ NoBlock \in Range(q.txs)
    BY <1>2, <1>3
  <2>2. fails(gb) <=> NoBlock \in Range(g.header) \/ NoBlock \in Range(g.txs)
    BY <1>2, <1>3
  <2> QED BY <1>4, <1>5, <2>1, <2>2
<1> HIDE DEF bad, badState, badStorage
<1>11. SameParts(failed, failed)
  BY DEF SameParts
<1>12. SameParts(EthFetch(w, there, rank), EthPGFetch(w, there))
  <2>1. CASE fails(q)
    BY <1>1, <1>9, <1>11, <2>1
  <2>2. CASE ~fails(q)
    <3>1. \A f \in fields : same(f)
      BY <1>4, <1>5, <1>6, <1>7, <1>9, <2>2
    <3>2. EthFetch(w, there, rank) = q /\ EthPGFetch(w, there) = g
      BY <1>1, <1>9, <2>2
    <3> QED BY <1>2, <3>1, <3>2 DEF SameParts
  <2> QED BY <2>1, <2>2
<1>13. SameParts(BtcFetch(w, there, rank), BtcPGFetch(w, there))
  <2>1. CASE fails(qb)
    BY <1>1, <1>10, <1>11, <2>1
  <2>2. CASE ~fails(qb)
    <3>1. same("header") /\ same("txs")
      BY <1>4, <1>5, <1>10, <2>2
    <3>2. BtcFetch(w, there, rank) = qb /\ BtcPGFetch(w, there) = gb
      BY <1>1, <1>10, <2>2
    <3>3. \A f \in {"header", "txs"} : Len(qb[f]) = Len(gb[f]) /\ Range(qb[f]) = Range(gb[f])
      BY <1>3, <3>1
    <3> QED BY <1>2, <3>2, <3>3 DEF SameParts
  <2> QED BY <2>1, <2>2
<1>14. DOMAIN EthPGFetch(w, there) = IF Needed(w) \subseteq there THEN DOMAIN w ELSE {"error"}
  BY <1>1, <1>2, <1>8, <1>9 DEF Selected
<1>15. ASSUME Needed(w) \subseteq there
       PROVE  /\ EthFetch(w, there, rank).state = EthPGFetch(w, there).state
              /\ EthFetch(w, there, rank).storage = EthPGFetch(w, there).storage
  <2>1. EthFetch(w, there, rank) = q /\ EthPGFetch(w, there) = g
    BY <1>1, <1>8, <1>9, <1>15
  <2> QED BY <1>6, <1>7, <2>1
<1> QED BY <1>12, <1>13, <1>14, <1>15 DEF FetchAgrees

\* FetchersAgreeHolds: for whatever was selected and whatever is there, in every
\* order of arrival, IPLDFetcher.Fetch and IPLDPGFetcher.Fetch return the same
\* data, and both fail if a CID that is needed is not there.
THEOREM FetchersAgreeHolds == InputTyped => FetchersAgree
<1> SUFFICES ASSUME FetchTyped(input[2], input[4])
             PROVE  FetchAgrees(input[2], input[3], input[4])
  BY DEF InputTyped, FetchersAgree
<1> DEFINE n == Len(input[4])
<1>1. n \in Nat
  BY SMTT(30) DEF FetchTyped
<1>2. input[4] \in Injection(1..n, 1..n) /\ Selected(input[2], n)
  BY DEF FetchTyped
<1> HIDE DEF n
<1> QED BY <1>1, <1>2, FetchAgreesHolds

-----------------------------------------------------------------------------
(***************************************************************************)
(* Fields of nodes.                                                         *)
(***************************************************************************)
\* Only the empty sequence has no elements.
LEMMA EmptyLen ==
    ASSUME NEW S, NEW p \in Seq(S)
    PROVE  Len(p) \in Nat /\ (p = <<>> <=> Len(p) = 0)
  BY SMTT(30)

\* A path is its first step and the rest of it.
LEMMA PathJoined ==
    ASSUME NEW S, NEW p \in Seq(S)
    PROVE  /\ p \o <<>> = p
           /\ p # <<>> => /\ p[1] \in S /\ Tail(p) \in Seq(S) /\ <<p[1]>> \o Tail(p) = p
                          /\ Tail(p) = <<>> <=> Len(p) = 1
<1>1. p \o <<>> = p
  BY SMTT(30)
<1>2. p # <<>> => p[1] \in S /\ Tail(p) \in Seq(S) /\ <<p[1]>> \o Tail(p) = p
  BY SMTT(30)
<1>3. ASSUME p # <<>> PROVE Tail(p) = <<>> <=> Len(p) = 1
  <2> DEFINE q == Tail(p)
  <2>1. q \in Seq(S) /\ Len(q) = Len(p) - 1
    BY <1>3, SMTT(30)
  <2> HIDE DEF q
  <2>2. q = <<>> <=> Len(q) = 0
    BY <2>1, EmptyLen
  <2>3. Len(p) \in Nat
    BY EmptyLen
  <2>4. Len(q) = 0 <=> Len(p) = 1
    BY <2>1, <2>3, SMTT(30)
  <2> QED BY <2>2, <2>4 DEF q
<1> QED BY <1>1, <1>2, <1>3

\* A path is what comes up to a place and what comes behind it.
LEMMA PathCut ==
    ASSUME NEW S, NEW p \in Seq(S), NEW k \in 0..Len(p)
    PROVE  SubSeq(p, 1, k) \o SubSeq(p, k + 1, Len(p)) = p
<1>1. \A m \in 1..Len(p) + 1 : \A j \in m - 1..Len(p) : \A n \in j..Len(p) :
        SubSeq(p, m, j) \o SubSeq(p, j + 1, n) = SubSeq(p, m, n)
  BY SMTT(30)
<1>2. SubSeq(p, 1, Len(p)) = p
  BY SMTT(30)
<1>3. 1 \in 1..Len(p) + 1 /\ k \in 1 - 1..Len(p) /\ Len(p) \in k..Len(p)
  BY SMTT(30)
<1>4. SubSeq(p, 1, k) \o SubSeq(p, k + 1, Len(p)) = SubSeq(p, 1, Len(p))
  BY <1>1, <1>3
<1> QED BY <1>2, <1>4

\* A path is its first three steps and the rest of it.
LEMMA PathSplit ==
    ASSUME NEW S, NEW p \in Seq(S), Len(p) > 2
    PROVE  /\ SubSeq(p, 1, 3) = <<p[1], p[2], p[3]>>
           /\ SubSeq(p, 1, 3) \o SubSeq(p, 4, Len(p)) = p
           /\ SubSeq(p, 4, Len(p)) = <<>> <=> Len(p) = 3
<1> DEFINE n == Len(p)
           a == SubSeq(p, 1, 3)
           b == SubSeq(p, 4, n)
<1>1. n \in Nat /\ n > 2
  BY EmptyLen
<1>2. a = <<p[1], p[2], p[3]>>
  <2>1. a \in Seq(S) /\ Len(a) = 3 /\ \A i \in 1..3 : a[i] = p[i]
    BY <1>1, SMTT(30)
  <2> HIDE DEF a
  <2> QED BY <2>1, SMTT(30)
<1>3. b \in Seq(S) /\ Len(b) = IF 4 <= n THEN n - 4 + 1 ELSE 0
  <2>1. n \in Int /\ 4 \in Int /\ \A i \in 4..n : p[i] \in S
    BY <1>1, SMTT(30)
  <2> HIDE DEF n
  <2> QED BY <2>1, SMTT(30)
<1>4. a \o b = p
  <2>1. 3 \in 0..Len(p) /\ 3 + 1 = 4
    BY <1>1, SMTT(30)
  <2>2. SubSeq(p, 1, 3) \o SubSeq(p, 3 + 1, Len(p)) = p
    BY <2>1, PathCut
  <2> QED BY <2>1, <2>2
<1>5. b = <<>> <=> Len(b) = 0
  BY <1>3, EmptyLen
<1> HIDE DEF a, b, n
<1>6. b = <<>> <=> n = 3
  BY <1>1, <1>3, <1>5, SMTT(30)
<1> QED BY <1>2, <1>4, <1>6 DEF a, b, n

\* What a result of Resolve holds.
LEMMA Results ==
    ASSUME NEW name, NEW rest
    PROVE  /\ Link(name, rest).kind = "link" /\ Link(name, rest).name = name
           /\ Link(name, rest).rest = rest
           /\ Value(name, rest).kind = "value" /\ Value(name, rest).name = name
           /\ Value(name, rest).rest = rest
           /\ Found(Link(name, rest)) /\ Found(Value(name, rest))
           /\ ~Found(Err) /\ ~Found(Panic) /\ Err.kind # "link" /\ Panic.kind # "link"
  BY SMTT(30) DEF Link, Value, Found, Err, Panic

\* A Resolve that knows single fields finds those of its two lists, takes for
\* links those of the first, and accounts for the whole path.
LEMMA OneFieldListed ==
    ASSUME NEW p \in Seq(STRING), p # <<>>, NEW L, NEW V, L \cap V = {}
    PROVE  LET r == OneField(p, L, V)
           IN  /\ Found(r) => r.name \o r.rest = p
               /\ Len(p) = 1 => /\ Found(r) <=> p[1] \in L \cup V
                                /\ r.kind = "link" <=> p[1] \in L
<1> DEFINE r == OneField(p, L, V)
<1>0. p \o <<>> = p
  BY PathJoined
<1>1. CASE Len(p) = 1 /\ p[1] \in L
  <2>1. r = Link(p, <<>>)
    BY <1>1 DEF OneField
  <2>2. Found(r) /\ r.kind = "link" /\ r.name = p /\ r.rest = <<>>
    BY <2>1, SMTT(30) DEF Found, Link, Value
  <2> QED BY <1>0, <1>1, <2>2
<1>2. CASE Len(p) = 1 /\ p[1] \in V
  <2>1. r = Value(p, <<>>) /\ p[1] \notin L
    BY <1>2 DEF OneField
  <2>2. Found(r) /\ r.kind # "link" /\ r.name = p /\ r.rest = <<>>
    BY <2>1, SMTT(30) DEF Found, Link, Value
  <2> QED BY <1>0, <1>2, <2>1, <2>2
<1>3. CASE Len(p) = 1 /\ p[1] \notin L /\ p[1] \notin V
  <2>1. r = Err
    BY <1>3 DEF OneField
  <2> QED BY <1>3, <2>1, Results
<1>4. CASE Len(p) # 1
  <2>1. r = Err
    BY <1>4 DEF OneField
  <2> QED BY <1>4, <2>1, Results
<1> QED BY <1>1, <1>2, <1>3, <1>4

\* So does a Resolve that looks at the first step and leaves the rest to a link.
LEMMA FirstFieldListed ==
    ASSUME NEW p \in Seq(STRING), p # <<>>, NEW L, NEW V, L \cap V = {}
    PROVE  LET r == FirstField(p, L, V)
           IN  /\ Found(r) => r.name \o r.rest = p
               /\ Found(r) <=> p[1] \in L \cup V
               /\ r.kind = "link" <=> p[1] \in L
               /\ p[1] \in L => r = Link(<<p[1]>>, Tail(p))
<1> DEFINE r == FirstField(p, L, V)
<1>0. <<p[1]>> \o Tail(p) = p
  BY PathJoined
<1>1. CASE p[1] \in L
  <2>1. r = Link(<<p[1]>>, Tail(p))
    BY <1>1 DEF FirstField
  <2>2. Found(r) /\ r.kind = "link" /\ r.name = <<p[1]>> /\ r.rest = Tail(p)
    BY <2>1, SMTT(30) DEF Found, Link, Value
  <2> QED BY <1>0, <1>1, <2>1, <2>2
<1>2. CASE p[1] \in V
  <2>1. r = Value(<<p[1]>>, Tail(p)) /\ p[1] \notin L
    BY <1>2 DEF FirstField
  <2>2. Found(r) /\ r.kind # "link" /\ r.name = <<p[1]>> /\ r.rest = Tail(p)
    BY <2>1, SMTT(30) DEF Found, Link, Value
  <2> QED BY <1>0, <1>2, <2>1, <2>2
<1>3. CASE p[1] \notin L /\ p[1] \notin V
  <2>1. r = Err
    BY <1>3 DEF FirstField
  <2> QED BY <1>3, <2>1, Results
<1> QED BY <1>1, <1>2, <1>3

\* EthHeader.Resolve leaves the rest of a path to its links and allows none
\* behind its values.
LEMMA EthHeaderListed ==
    ASSUME NEW p \in Seq(STRING), p # <<>>
    PROVE  LET r == EthHeaderResolve(p)
           IN  /\ Found(r) => r.name \o r.rest = p
               /\ Len(p) = 1 => (Found(r) <=> p[1] \in EthHeaderTree)
               /\ r.kind = "link" <=> p[1] \in EthHeaderLinks
               /\ p[1] \in EthHeaderLinks => r = Link(<<p[1]>>, Tail(p))
<1> DEFINE r == EthHeaderResolve(p)
<1>0. /\ EthHeaderTree = EthHeaderLinks \cup EthHeaderValues
      /\ EthHeaderLinks \cap EthHeaderValues = {}
  BY DEF EthHeaderTree, EthHeaderLinks, EthHeaderValues
<1>4. p \o <<>> = p /\ <<p[1]>> \o Tail(p) = p
  BY PathJoined
<1>1. CASE p[1] \in EthHeaderLinks
  <2>1. r = Link(<<p[1]>>, Tail(p))
    BY <1>0, <1>1 DEF EthHeaderResolve
  <2>2. Found(r) /\ r.kind = "link" /\ r.name = <<p[1]>> /\ r.rest = Tail(p)
    BY <2>1, SMTT(30) DEF Found, Link, Value
  <2> QED BY <1>0, <1>1, <1>4, <2>1, <2>2
<1>2. CASE p[1] \notin EthHeaderLinks /\ Len(p) = 1 /\ p[1] \in EthHeaderValues
  <2>1. r = Value(p, <<>>)
    BY <1>2 DEF EthHeaderResolve
  <2>2. Found(r) /\ r.kind # "link" /\ r.name = p /\ r.rest = <<>>
    BY <2>1, SMTT(30) DEF Found, Link, Value
  <2> QED BY <1>0, <1>2, <1>4, <2>2
<1>3. CASE p[1] \notin EthHeaderLinks /\ ~(Len(p) = 1 /\ p[1] \in EthHeaderValues)
  <2>1. r = Err
    BY <1>3 DEF EthHeaderResolve
  <2> QED BY <1>0, <1>3, <2>1, Results
<1> QED BY <1>1, <1>2, <1>3

\* FlatListedHolds: for every path in a header, transaction, receipt, account or
\* Merkle node, Resolve, Tree and Links agree as FlatListed says.
LEMMA FlatListedHolds ==
    ASSUME NEW type \in FlatTypes, NEW p \in Seq(STRING)
    PROVE  FlatListed(type, p)
<1> SUFFICES ASSUME p # <<>> PROVE FlatListed(type, p)
  <2>1. CASE p = <<>>
    <3>1. Len(p) # 1 /\ Len(p) # 2
      BY <2>1, SMTT(30)
    <3> QED BY <2>1, <3>1 DEF FlatListed
  <2> QED BY <2>1
<1> DEFINE r == Resolve(type, p)
           N == NodeLinks(type)
<1> SUFFICES
      /\ Found(r) => r.name \o r.rest = p
      /\ Len(p) = 1 =>
           /\ \/ Found(r) <=> p[1] \in Tree(type)
              \/ type = "BtcHeader" /\ p[1] \in {"difficulty", "bits"}
           /\ (r.kind = "link" <=> p[1] \in N) \/ type = "EthAccount"
      /\ p[1] \in N => r = Link(<<p[1]>>, Tail(p))
  BY DEF FlatListed
<1>1. CASE type = "EthHeader"
  <2>1. r = EthHeaderResolve(p) /\ Tree(type) = EthHeaderTree /\ N = EthHeaderLinks
    BY <1>1 DEF Resolve, Tree, NodeLinks, EthHeaderNodeLinks, EthHeaderLinks
  <2>2. /\ Found(EthHeaderResolve(p)) =>
             EthHeaderResolve(p).name \o EthHeaderResolve(p).rest = p
        /\ Len(p) = 1 => (Found(EthHeaderResolve(p)) <=> p[1] \in EthHeaderTree)
        /\ EthHeaderResolve(p).kind = "link" <=> p[1] \in EthHeaderLinks
        /\ p[1] \in EthHeaderLinks => EthHeaderResolve(p) = Link(<<p[1]>>, Tail(p))
    BY EthHeaderListed
  <2> QED BY <2>1, <2>2
<1>2. CASE type = "EthTx"
  <2>1. r = OneField(p, {}, EthTxTree) /\ Tree(type) = EthTxTree /\ N = {} /\ {} \cap EthTxTree = {}
    BY <1>2 DEF Resolve, Tree, NodeLinks, EthTxResolve, EthTxTree
  <2>2. /\ Found(OneField(p, {}, EthTxTree)) => OneField(p, {}, EthTxTree).name \o OneField(p, {}, EthTxTree).rest = p
        /\ Len(p) = 1 => /\ Found(OneField(p, {}, EthTxTree)) <=> p[1] \in {} \cup EthTxTree
                         /\ OneField(p, {}, EthTxTree).kind = "link" <=> p[1] \in {}
    BY <2>1, OneFieldListed
  <2> QED BY <2>1, <2>2
<1>3. CASE type = "EthReceipt"
  <2>1. r = OneField(p, {}, EthReceiptTree) /\ Tree(type) = EthReceiptTree /\ N = {}
        /\ {} \cap EthReceiptTree = {}
    BY <1>3 DEF Resolve, Tree, NodeLinks, EthReceiptResolve, EthReceiptTree
  <2>2. /\ Found(OneField(p, {}, EthReceiptTree)) => OneField(p, {}, EthReceiptTree).name \o OneField(p, {}, EthReceiptTree).rest = p
        /\ Len(p) = 1 => /\ Found(OneField(p, {}, EthReceiptTree)) <=> p[1] \in {} \cup EthReceiptTree
                         /\ OneField(p, {}, EthReceiptTree).kind = "link" <=> p[1] \in {}
    BY <2>1, OneFieldListed
  <2> QED BY <2>1, <2>2
<1>4. CASE type = "EthAccount"
  <2> DEFINE L == {"codeHash", "root"}
             V == {"balance", "nonce"}
  <2>1. r = OneField(p, L, V) /\ Tree(type) = L \cup V /\ N = {} /\ L \cap V = {}
    BY <1>4 DEF Resolve, Tree, NodeLinks, EthAccountResolve, EthAccountTree
  <2> HIDE DEF L, V
  <2>2. /\ Found(OneField(p, L, V)) => OneField(p, L, V).name \o OneField(p, L, V).rest = p
        /\ Len(p) = 1 => /\ Found(OneField(p, L, V)) <=> p[1] \in L \cup V
                         /\ OneField(p, L, V).kind = "link" <=> p[1] \in L
    BY <2>1, OneFieldListed
  <2> QED BY <1>4, <2>1, <2>2
<1>5. CASE type = "BtcHeader"
  <2> DEFINE L == {"parent", "tx"}
             V == {"version", "timestamp", "bits", "nonce"}
  <2>1. /\ r = FirstField(p, L, V) /\ N = L /\ L \cap V = {}
        /\ p[1] \notin {"difficulty", "bits"} => (p[1] \in Tree(type) <=> p[1] \in L \cup V)
    BY <1>5 DEF Resolve, Tree, NodeLinks, BtcHeaderResolve, BtcHeaderTree, BtcHeaderNodeLinks
  <2> HIDE DEF L, V
  <2>2. /\ Found(FirstField(p, L, V)) => FirstField(p, L, V).name \o FirstField(p, L, V).rest = p
        /\ Found(FirstField(p, L, V)) <=> p[1] \in L \cup V
        /\ FirstField(p, L, V).kind = "link" <=> p[1] \in L
        /\ p[1] \in L => FirstField(p, L, V) = Link(<<p[1]>>, Tail(p))
    BY <2>1, FirstFieldListed
  <2> QED BY <1>5, <2>1, <2>2
<1>6. CASE type = "BtcTxTrie"
  <2> DEFINE L == {"0", "1"}
  <2>1. r = FirstField(p, L, {}) /\ N = L /\ L \cap {} = {} /\ Tree(type) = L \cup {}
    BY <1>6 DEF Resolve, Tree, NodeLinks, BtcTxTrieResolve, BtcTxTrieTree, BtcTxTrieNodeLinks
  <2> HIDE DEF L
  <2>2. /\ Found(FirstField(p, L, {})) => FirstField(p, L, {}).name \o FirstField(p, L, {}).rest = p
        /\ Found(FirstField(p, L, {})) <=> p[1] \in L \cup {}
        /\ FirstField(p, L, {}).kind = "link" <=> p[1] \in L
        /\ p[1] \in L => FirstField(p, L, {}) = Link(<<p[1]>>, Tail(p))
    BY <2>1, FirstFieldListed
  <2> QED BY <1>6, <2>1, <2>2
<1> QED BY <1>1, <1>2, <1>3, <1>4, <1>5, <1>6 DEF FlatTypes

\* What Tree lists below "inputs", to every depth.
LEMMA InTreeInputs ==
    ASSUME NEW S, NEW p \in Seq(S), NEW ins \in Nat, NEW depth \in Int
    PROVE  p \in treeInputs(ins, depth) <=>
             /\ p[1] = "inputs" /\ Len(p) \in 2..3 /\ Len(p) <= depth
             /\ IsIndex(p[2], ins)
             /\ Len(p) = 3 => p[3] \in {"prevTx", "seqNo", "script"}
<1> DEFINE two == {<<"inputs", Index(i)>> : i \in IF depth < 2 THEN {} ELSE 0..ins - 1}
           three == {<<"inputs", Index(i), f>> : i \in IF depth > 2 THEN 0..ins - 1 ELSE {},
                                                f \in {"prevTx", "seqNo", "script"}}
           L == Len(p)
           named == p[3] \in {"prevTx", "seqNo", "script"}
<1>1. p \in two <=> depth >= 2 /\ L = 2 /\ p[1] = "inputs" /\ IsIndex(p[2], ins)
  <2>1. p \in two <=> depth >= 2 /\ \E i \in 0..ins - 1 : p = <<"inputs", Index(i)>>
    BY SMTT(30)
  <2>2. \A i \in 0..ins - 1 :
          p = <<"inputs", Index(i)>> <=> L = 2 /\ p[1] = "inputs" /\ p[2] = Index(i)
    BY SMTT(30)
  <2> HIDE DEF two, L
  <2> QED BY <2>1, <2>2 DEF IsIndex
<1>2. p \in three <=>
        depth > 2 /\ L = 3 /\ p[1] = "inputs" /\ IsIndex(p[2], ins) /\ named
  <2>1. p \in three <=> depth > 2 /\ \E i \in 0..ins - 1, f \in {"prevTx", "seqNo", "script"} :
                                       p = <<"inputs", Index(i), f>>
    BY SMTT(30)
  <2>2. \A i \in 0..ins - 1, f \in {"prevTx", "seqNo", "script"} :
          p = <<"inputs", Index(i), f>> <=>
            L = 3 /\ p[1] = "inputs" /\ p[2] = Index(i) /\ p[3] = f
    BY SMTT(30)
  <2> HIDE DEF three, L
  <2> QED BY <2>1, <2>2 DEF IsIndex
<1>3. p \in treeInputs(ins, depth) <=> p \in two \/ p \in three
  <2>1. treeInputs(ins, depth) = two \cup three
    BY SMTT(30) DEF treeInputs
  <2> HIDE DEF two, three
  <2> QED BY <2>1
<1>4. L \in Nat
  BY EmptyLen
<1> HIDE DEF two, three, L, named
<1>5. p \in treeInputs(ins, depth) <=>
        /\ p[1] = "inputs" /\ L \in 2..3 /\ L <= depth
        /\ IsIndex(p[2], ins)
        /\ L = 3 => named
  <2>1. CASE L = 2
    <3>1. L \in 2..3 /\ L # 3 /\ (L <= depth <=> depth >= 2)
      BY <2>1, SMTT(30)
    <3> QED BY <1>1, <1>2, <1>3, <2>1, <3>1
  <2>2. CASE L = 3
    <3>1. L \in 2..3 /\ L # 2 /\ (L <= depth <=> depth > 2)
      BY <2>2, SMTT(30)
    <3> QED BY <1>1, <1>2, <1>3, <2>2, <3>1
  <2>3. CASE L # 2 /\ L # 3
    <3>1. L \notin 2..3
      BY <1>4, <2>3, SMTT(30)
    <3> QED BY <1>1, <1>2, <1>3, <2>3, <3>1
  <2> QED BY <2>1, <2>2, <2>3
<1> QED BY <1>5 DEF L, named

\* What Tree lists below "outputs", to every depth.
LEMMA InTreeOutputs ==
    ASSUME NEW S, NEW p \in Seq(S), NEW outs \in Nat, NEW depth \in Int
    PROVE  p \in treeOutputs(outs, depth) <=>
             /\ p[1] = "outputs" /\ Len(p) \in 2..3 /\ Len(p) <= depth
             /\ IsIndex(p[2], outs)
             /\ Len(p) = 3 => p[3] \in {"script", "value"}
<1> DEFINE two == {<<"outputs", Index(i)>> : i \in IF depth < 2 THEN {} ELSE 0..outs - 1}
           three == {<<"outputs", Index(i), f>> : i \in IF depth > 2 THEN 0..outs - 1 ELSE {},
                                                f \in {"script", "value"}}
           L == Len(p)
           named == p[3] \in {"script", "value"}
<1>1. p \in two <=> depth >= 2 /\ L = 2 /\ p[1] = "outputs" /\ IsIndex(p[2], outs)
  <2>1. p \in two <=> depth >= 2 /\ \E i \in 0..outs - 1 : p = <<"outputs", Index(i)>>
    BY SMTT(30)
  <2>2. \A i \in 0..outs - 1 :
          p = <<"outputs", Index(i)>> <=> L = 2 /\ p[1] = "outputs" /\ p[2] = Index(i)
    BY SMTT(30)
  <2> HIDE DEF two, L
  <2> QED BY <2>1, <2>2 DEF IsIndex
<1>2. p \in three <=>
        depth > 2 /\ L = 3 /\ p[1] = "outputs" /\ IsIndex(p[2], outs) /\ named
  <2>1. p \in three <=> depth > 2 /\ \E i \in 0..outs - 1, f \in {"script", "value"} :
                                       p = <<"outputs", Index(i), f>>
    BY SMTT(30)
  <2>2. \A i \in 0..outs - 1, f \in {"script", "value"} :
          p = <<"outputs", Index(i), f>> <=>
            L = 3 /\ p[1] = "outputs" /\ p[2] = Index(i) /\ p[3] = f
    BY SMTT(30)
  <2> HIDE DEF three, L
  <2> QED BY <2>1, <2>2 DEF IsIndex
<1>3. p \in treeOutputs(outs, depth) <=> p \in two \/ p \in three
  <2>1. treeOutputs(outs, depth) = two \cup three
    BY SMTT(30) DEF treeOutputs
  <2> HIDE DEF two, three
  <2> QED BY <2>1
<1>4. L \in Nat
  BY EmptyLen
<1> HIDE DEF two, three, L, named
<1>5. p \in treeOutputs(outs, depth) <=>
        /\ p[1] = "outputs" /\ L \in 2..3 /\ L <= depth
        /\ IsIndex(p[2], outs)
        /\ L = 3 => named
  <2>1. CASE L = 2
    <3>1. L \in 2..3 /\ L # 3 /\ (L <= depth <=> depth >= 2)
      BY <2>1, SMTT(30)
    <3> QED BY <1>1, <1>2, <1>3, <2>1, <3>1
  <2>2. CASE L = 3
    <3>1. L \in 2..3 /\ L # 2 /\ (L <= depth <=> depth > 2)
      BY <2>2, SMTT(30)
    <3> QED BY <1>1, <1>2, <1>3, <2>2, <3>1
  <2>3. CASE L # 2 /\ L # 3
    <3>1. L \notin 2..3
      BY <1>4, <2>3, SMTT(30)
    <3> QED BY <1>1, <1>2, <1>3, <2>3, <3>1
  <2> QED BY <2>1, <2>2, <2>3
<1> QED BY <1>5 DEF L, named

\* What Tree lists of a transaction: fields, numbered inputs and outputs and their
\* fields, as far down as the depth allows.
LEMMA InTree ==
    ASSUME NEW S, NEW p \in Seq(S), NEW ins \in Nat, NEW outs \in Nat, NEW depth \in Int \ {0}
    PROVE  p \in BtcTxTree(ins, outs, <<>>, depth) <=>
             \/ Len(p) = 1 /\ p[1] \in {"version", "timeLock", "inputs", "outputs"}
             \/ p \in treeInputs(ins, depth) \/ p \in treeOutputs(outs, depth)
<1> DEFINE one == {<<"version">>, <<"timeLock">>, <<"inputs">>, <<"outputs">>}
<1>1. BtcTxTree(ins, outs, <<>>, depth) = one \cup treeInputs(ins, depth) \cup treeOutputs(outs, depth)
  <2>1. <<>> # <<"inputs">> /\ <<>> # <<"outputs">> /\ depth # 0
    BY SMTT(30)
  <2> QED BY <2>1 DEF BtcTxTree
<1>2. p \in one <=> Len(p) = 1 /\ p[1] \in {"version", "timeLock", "inputs", "outputs"}
  BY SMTT(30)
<1> HIDE DEF one
<1> QED BY <1>1, <1>2

\* What BtcTx.Resolve finds, for every path, and what it leaves of the path.
LEMMA BtcTxFound ==
    ASSUME NEW S, NEW p \in Seq(S), p # <<>>, NEW ins \in Nat, NEW outs \in Nat
    PROVE  LET r == BtcTxResolve(ins, outs, p)
               n == IF p[1] = "inputs" THEN ins ELSE outs
               fields == IF p[1] = "inputs" THEN {"prevTx", "seqNo", "script"}
                         ELSE {"script", "value"}
           IN  /\ Found(r) => r.name \o r.rest = p
               /\ Found(r) /\ r.rest = <<>> <=>
                    \/ Len(p) = 1 /\ p[1] \in {"version", "lockTime", "inputs", "outputs"}
                    \/ /\ p[1] \in {"inputs", "outputs"} /\ Len(p) \in 2..3
                       /\ IsIndex(p[2], n) /\ (Len(p) = 3 => p[3] \in fields)
               /\ r.kind = "link" <=> /\ p[1] = "inputs" /\ Len(p) > 2
                                      /\ IsIndex(p[2], ins) /\ p[3] = "prevTx"
<1> DEFINE r == BtcTxResolve(ins, outs, p)
           L == Len(p)
           n == IF p[1] = "inputs" THEN ins ELSE outs
           values == IF p[1] = "inputs" THEN {"seqNo", "script"} ELSE {"value", "script"}
           fields == IF p[1] = "inputs" THEN {"prevTx", "seqNo", "script"} ELSE {"script", "value"}
           a == SubSeq(p, 1, 3)
           b == SubSeq(p, 4, L)
           listed == \/ L = 1 /\ p[1] \in {"version", "lockTime", "inputs", "outputs"}
                     \/ /\ p[1] \in {"inputs", "outputs"} /\ L \in 2..3
                        /\ IsIndex(p[2], n) /\ (L = 3 => p[3] \in fields)
           linked == p[1] = "inputs" /\ L > 2 /\ IsIndex(p[2], ins) /\ p[3] = "prevTx"
           Goal == /\ Found(r) => r.name \o r.rest = p
                   /\ Found(r) /\ r.rest = <<>> <=> listed
                   /\ r.kind = "link" <=> linked
<1> SUFFICES Goal
  OBVIOUS
<1>0. L \in Nat /\ L # 0 /\ p \o <<>> = p /\ <<p[1]>> \o Tail(p) = p /\ (Tail(p) = <<>> <=> L = 1)
  <2>1. L \in Nat /\ L # 0
    BY EmptyLen
  <2>2. p \o <<>> = p /\ <<p[1]>> \o Tail(p) = p /\ (Tail(p) = <<>> <=> L = 1)
    BY PathJoined
  <2> QED BY <2>1, <2>2
<1>1. L > 2 => a \o b = p /\ (b = <<>> <=> L = 3)
  BY PathSplit
<1> HIDE DEF L, a, b
<1>2. CASE p[1] \in {"version", "lockTime"}
  <2>1. r = Value(<<p[1]>>, Tail(p))
    BY <1>2 DEF BtcTxResolve
  <2>2. Found(r) /\ r.kind # "link" /\ r.name = <<p[1]>> /\ r.rest = Tail(p)
    BY <2>1, SMTT(30) DEF Found, Link, Value
  <2>3. p[1] \notin {"inputs", "outputs"}
    BY <1>2
  <2> HIDE DEF r
  <2> QED BY <1>0, <1>2, <2>2, <2>3
<1>3. CASE p[1] \notin {"version", "lockTime", "inputs", "outputs"}
  <2>1. r = Err
    BY <1>3 DEF BtcTxResolve
  <2>2. ~Found(r) /\ r.kind # "link"
    BY <2>1, Results
  <2> HIDE DEF r
  <2> QED BY <1>3, <2>2
<1>4. ASSUME p[1] \in {"inputs", "outputs"}
      PROVE  r = IF L = 1 THEN Value(p, <<>>)
                 ELSE IF ~IsIndex(p[2], n) THEN Err
                 ELSE IF L = 2 THEN Value(p, <<>>)
                 ELSE IF p[3] \in values THEN Value(a, b)
                 ELSE IF p[1] = "inputs" /\ p[3] = "prevTx" THEN Link(a, b)
                 ELSE Err
  BY <1>4 DEF BtcTxResolve, L, a, b
<1>5. CASE p[1] \in {"inputs", "outputs"} /\ L = 1
  <2>1. r = Value(p, <<>>)
    BY <1>4, <1>5
  <2>2. Found(r) /\ r.kind # "link" /\ r.name = p /\ r.rest = <<>>
    BY <2>1, SMTT(30) DEF Found, Link, Value
  <2>3. ~(L > 2)
    BY <1>5, SMTT(30)
  <2> HIDE DEF r, n, fields
  <2> QED BY <1>0, <1>5, <2>2, <2>3
<1>6. CASE p[1] \in {"inputs", "outputs"} /\ L # 1 /\ ~IsIndex(p[2], n)
  <2>1. r = Err
    BY <1>4, <1>6
  <2>2. ~Found(r) /\ r.kind # "link"
    BY <2>1, Results
  <2>3. p[1] = "inputs" => ~IsIndex(p[2], ins)
    BY <1>6
  <2> HIDE DEF r, n, fields
  <2> QED BY <1>6, <2>2, <2>3
<1>7. CASE p[1] \in {"inputs", "outputs"} /\ L = 2 /\ IsIndex(p[2], n)
  <2>0. L # 1 /\ L # 3 /\ ~(L > 2) /\ L \in 2..3
    BY <1>7, SMTT(30)
  <2>1. r = Value(p, <<>>)
    BY <1>4, <1>7, <2>0
  <2>2. Found(r) /\ r.kind # "link" /\ r.name = p /\ r.rest = <<>>
    BY <2>1, SMTT(30) DEF Found, Link, Value
  <2> HIDE DEF r, n, fields
  <2> QED BY <1>0, <1>7, <2>0, <2>2
<1>8. CASE p[1] \in {"inputs", "outputs"} /\ L # 1 /\ L # 2 /\ IsIndex(p[2], n)
  <2>0. L > 2 /\ (L \in 2..3 <=> L = 3)
    BY <1>0, <1>8, SMTT(30)
  <2>1. CASE p[3] \in values
    <3>1. r = Value(a, b)
      BY <1>4, <1>8, <2>1
    <3>2. Found(r) /\ r.kind # "link" /\ r.name = a /\ r.rest = b
      BY <3>1, SMTT(30) DEF Found, Link, Value
    <3>3. p[3] \in fields /\ p[3] # "prevTx"
      BY <2>1
    <3> HIDE DEF r, n, fields
    <3> QED BY <1>1, <1>8, <2>0, <3>2, <3>3
  <2>2. CASE p[1] = "inputs" /\ p[3] = "prevTx"
    <3>0. p[3] \notin values
      BY <2>2
    <3>1. r = Link(a, b)
      BY <1>4, <1>8, <2>2, <3>0
    <3>2. Found(r) /\ r.kind = "link" /\ r.name = a /\ r.rest = b
      BY <3>1, SMTT(30) DEF Found, Link, Value
    <3>3. p[3] \in fields /\ IsIndex(p[2], ins)
      BY <1>8, <2>2
    <3> HIDE DEF r, n, fields
    <3> QED BY <1>1, <1>8, <2>0, <2>2, <3>2, <3>3
  <2>3. CASE p[3] \notin values /\ ~(p[1] = "inputs" /\ p[3] = "prevTx")
    <3>1. r = Err
      BY <1>4, <1>8, <2>3
    <3>2. ~Found(r) /\ r.kind # "link"
      BY <3>1, Results
    <3>3. p[3] \notin fields
      BY <2>3
    <3> HIDE DEF r, n, fields
    <3> QED BY <1>8, <2>0, <2>3, <3>2, <3>3
  <2> QED BY <2>1, <2>2, <2>3
<1> HIDE DEF Goal
<1>9. CASE p[1] \in {"inputs", "outputs"}
  BY <1>5, <1>6, <1>7, <1>8, <1>9
<1> QED BY <1>2, <1>3, <1>9

\* The links of a transaction are the prevTx of its inputs.
LEMMA InLinks ==
    ASSUME NEW S, NEW p \in Seq(S), NEW ins \in Nat
    PROVE  Len(p) >= 3 /\ SubSeq(p, 1, 3) \in BtcTxLinks(ins) <=>
             p[1] = "inputs" /\ Len(p) > 2 /\ IsIndex(p[2], ins) /\ p[3] = "prevTx"
<1>1. Len(p) >= 3 <=> Len(p) > 2
  BY EmptyLen, SMTT(30)
<1>2. ASSUME Len(p) > 2
      PROVE  SubSeq(p, 1, 3) \in BtcTxLinks(ins) <=>
               p[1] = "inputs" /\ IsIndex(p[2], ins) /\ p[3] = "prevTx"
  <2>1. SubSeq(p, 1, 3) = <<p[1], p[2], p[3]>>
    BY <1>2, PathSplit
  <2>2. <<p[1], p[2], p[3]>> \in BtcTxLinks(ins) <=>
          \E i \in 0..ins - 1 : <<p[1], p[2], p[3]>> = <<"inputs", Index(i), "prevTx">>
    BY DEF BtcTxLinks
  <2>3. \A i : <<p[1], p[2], p[3]>> = <<"inputs", Index(i), "prevTx">> <=>
                 p[1] = "inputs" /\ p[2] = Index(i) /\ p[3] = "prevTx"
    BY SMTT(30)
  <2> QED BY <2>1, <2>2, <2>3 DEF IsIndex
<1> QED BY <1>1, <1>2

\* TxListedHolds: for every number of inputs and outputs, depth and path, what
\* Tree lists of a Bitcoin transaction is what Resolve finds.
LEMMA TxListedHolds ==
    ASSUME NEW S, NEW p \in Seq(S), p # <<>>, NEW ins \in Nat, NEW outs \in Nat,
           NEW depth \in Int \ {0}
    PROVE  TxListed(ins, outs, depth, p)
<1> DEFINE r == BtcTxResolve(ins, outs, p)
           L == Len(p)
           n == IF p[1] = "inputs" THEN ins ELSE outs
           fields == IF p[1] = "inputs" THEN {"prevTx", "seqNo", "script"} ELSE {"script", "value"}
           deep(d) == /\ p[1] \in {"inputs", "outputs"} /\ L \in 2..3 /\ L <= d
                      /\ IsIndex(p[2], n) /\ (L = 3 => p[3] \in fields)
           tree(d) == BtcTxTree(ins, outs, <<>>, d)
           levels == IF depth < 0 THEN 1 ELSE depth
<1>1. \A d \in Int : p \in treeInputs(ins, d) <=> deep(d) /\ p[1] = "inputs"
  BY InTreeInputs
<1>2. \A d \in Int : p \in treeOutputs(outs, d) <=> deep(d) /\ p[1] = "outputs"
  BY InTreeOutputs
<1>3. depth \in Int /\ depth + 1 \in Int /\ depth # 0
  BY SMTT(30)
<1>4. /\ L \in Nat /\ L # 0 /\ (L = 1 => L <= levels /\ L \notin 2..3) /\ (L > 1 <=> L # 1)
      /\ L # 1 => (L <= levels <=> L <= depth)
      /\ ~(L <= 0)
  <2>1. L \in Nat /\ L # 0
    BY EmptyLen
  <2> HIDE DEF L
  <2> QED BY <1>3, <2>1, SMTT(30)
<1>5. \A d \in Int \ {0} : p \in tree(d) <=>
        \/ L = 1 /\ p[1] \in {"version", "timeLock", "inputs", "outputs"}
        \/ p \in treeInputs(ins, d) \/ p \in treeOutputs(outs, d)
  BY InTree
<1>0. tree(0) = {}
  BY DEF BtcTxTree
<1>6. /\ Found(r) => r.name \o r.rest = p
      /\ Found(r) /\ r.rest = <<>> <=>
           \/ L = 1 /\ p[1] \in {"version", "lockTime", "inputs", "outputs"}
           \/ /\ p[1] \in {"inputs", "outputs"} /\ L \in 2..3
              /\ IsIndex(p[2], n) /\ (L = 3 => p[3] \in fields)
      /\ r.kind = "link" <=> p[1] = "inputs" /\ L > 2 /\ IsIndex(p[2], ins) /\ p[3] = "prevTx"
  BY BtcTxFound
<1>7. r.kind = "link" <=> L >= 3 /\ SubSeq(p, 1, 3) \in BtcTxLinks(ins)
  BY <1>6, InLinks
<1>8. \A a : p = <<a>> <=> L = 1 /\ p[1] = a
  BY SMTT(30)
<1> HIDE DEF r, L, n, fields, levels
<1>9. ASSUME p # <<"timeLock">>, p # <<"lockTime">>
      PROVE  p \in tree(depth) <=> L <= levels /\ Found(r) /\ r.rest = <<>>
  <2>1. p \in tree(depth) <=>
          \/ L = 1 /\ p[1] \in {"version", "timeLock", "inputs", "outputs"}
          \/ deep(depth)
    BY <1>1, <1>2, <1>3, <1>5
  <2>2. L = 1 => p[1] # "timeLock" /\ p[1] # "lockTime"
    BY <1>8, <1>9
  <2> HIDE DEF tree
  <2>3. CASE L = 1
    BY <1>4, <1>6, <2>1, <2>2, <2>3
  <2>4. CASE L # 1
    BY <1>4, <1>6, <2>1, <2>2, <2>4
  <2> QED BY <2>3, <2>4
<1>10. ASSUME p[1] \in {"inputs", "outputs"}, L > 1
       PROVE  p \in BtcTxTree(ins, outs, <<p[1]>>, depth) <=> p \in tree(depth + 1)
  <2>1. p \in tree(depth + 1) <=> deep(depth + 1)
    <3>1. CASE depth + 1 = 0
      BY <1>0, <1>4, <3>1
    <3>2. CASE depth + 1 # 0
      BY <1>1, <1>2, <1>3, <1>4, <1>5, <1>10, <3>2
    <3> QED BY <3>1, <3>2
  <2>2. CASE p[1] = "inputs"
    <3>1. BtcTxTree(ins, outs, <<p[1]>>, depth) = treeInputs(ins, depth + 1)
      <4>1. <<"inputs">> # <<"outputs">> /\ <<"inputs">> # <<>>
        BY SMTT(30)
      <4> QED BY <1>3, <2>2, <4>1 DEF BtcTxTree
    <3> QED BY <1>1, <1>3, <2>1, <2>2, <3>1
  <2>3. CASE p[1] = "outputs"
    <3>1. BtcTxTree(ins, outs, <<p[1]>>, depth) = treeOutputs(outs, depth + 1)
      <4>1. <<"inputs">> # <<"outputs">> /\ <<"outputs">> # <<>>
        BY SMTT(30)
      <4> QED BY <1>3, <2>3, <4>1 DEF BtcTxTree
    <3> QED BY <1>2, <1>3, <2>1, <2>3, <3>1
  <2> QED BY <1>10, <2>2, <2>3
<1> QED BY <1>6, <1>7, <1>9, <1>10 DEF TxListed, r, L, levels

\* FieldsListedHolds: for every path, Tree lists the fields that Resolve finds and
\* no others, in every type of node and to any depth of a Bitcoin transaction;
\* a result accounts for the whole path, and links are those of Links.
THEOREM FieldsListedHolds == InputTyped => FieldsListed
<1>1. ASSUME InputTyped, Kind("field")
      PROVE  FlatListed(input[2], input[3])
  BY <1>1, FlatListedHolds DEF InputTyped, FieldTyped
<1>2. ASSUME InputTyped, Kind("txfield")
      PROVE  TxListed(input[2], input[3], input[4], input[5])
  <2>1. TxFieldTyped(input[2], input[3], input[4], input[5])
    BY <1>2 DEF InputTyped
  <2>2. Len(Numerals) \in Nat
    BY NumeralsAssumption, SMTT(30)
  <2>3. 0..Len(Numerals) \subseteq Nat
    BY <2>2, SMTT(30)
  <2>4. input[2] \in Nat /\ input[3] \in Nat
    BY <2>1, <2>3 DEF TxFieldTyped
  <2> QED BY <2>1, <2>4, TxListedHolds DEF TxFieldTyped
<1> QED BY <1>1, <1>2 DEF FieldsListed

-----------------------------------------------------------------------------
(***************************************************************************)
(* Compact keys.                                                            *)
(***************************************************************************)
\* Two nibbles in a byte are read back.
LEMMA ByteRead ==
    ASSUME NEW a \in 0..15, NEW b \in 0..15
    PROVE  (16 * a + b) \div 16 = a /\ (16 * a + b) % 16 = b
<1> DEFINE c == 16 * a + b
           q == c \div 16
           m == c % 16
<1>1. c \in Nat /\ 16 \in Nat \ {0} /\ a \in Nat
  BY SMTT(30)
<1> HIDE DEF c
<1>2. q \in Nat /\ m \in 0..16 - 1 /\ c = q * 16 + m
  BY <1>1, DivMod
<1> HIDE DEF q, m
<1>3. q = a /\ m = b
  BY <1>1, <1>2, SMTT(30) DEF c
<1> QED BY <1>3 DEF q, m, c

\* An even number has a half.
LEMMA EvenHalf ==
    ASSUME NEW m \in Nat, m % 2 = 0
    PROVE  m \div 2 \in Nat /\ 2 * (m \div 2) = m
  BY SMTT(30)

\* One more than an odd number is even, and so is two more than another one.
LEMMA EvenNext ==
    ASSUME NEW m \in Nat
    PROVE  IF m % 2 = 1 THEN (m + 1) % 2 = 0 ELSE (m + 2) % 2 = 0
  BY SMTT(30)

\* nibbleToByte reads back nibbles that were put into bytes two by two.
LEMMA NibblesRead ==
    ASSUME NEW all \in Seq(0..15), Len(all) % 2 = 0
    PROVE  nibbleToByte([i \in 1..Len(all) \div 2 |-> 16 * all[2 * i - 1] + all[2 * i]]) = all
<1> DEFINE L == Len(all)
           k == [i \in 1..L \div 2 |-> 16 * all[2 * i - 1] + all[2 * i]]
           r == nibbleToByte(k)
<1>1. L \in Nat /\ DOMAIN all = 1..L /\ \A j \in 1..L : all[j] \in 0..15
  BY SMTT(30)
<1> DEFINE h == L \div 2
<1>2. h \in Nat /\ 2 * h = L
  <2>1. L % 2 = 0
    OBVIOUS
  <2> HIDE DEF L
  <2> QED BY <1>1, <2>1, EvenHalf
<1>3. DOMAIN k = 1..h /\ \A i \in 1..h : k[i] = 16 * all[2 * i - 1] + all[2 * i]
  OBVIOUS
<1> HIDE DEF k, h, L
<1>4. Len(k) = h
  BY <1>2, <1>3, SMTT(30)
<1>5. r = [i \in 1..2 * h |-> IF i % 2 = 1 THEN k[(i + 1) \div 2] \div 16 ELSE k[i \div 2] % 16]
  BY <1>4 DEF nibbleToByte
<1> HIDE DEF r
<1>6. ASSUME NEW j \in 1..L PROVE r[j] = all[j]
  <2>1. CASE j % 2 = 1
    <3> DEFINE i == (j + 1) \div 2
    <3>1. i \in 1..h /\ 2 * i - 1 = j /\ 2 * i \in 1..L /\ j \in 1..2 * h
      BY <1>1, <1>2, <2>1, SMTT(30)
    <3> HIDE DEF i
    <3>2. k[i] = 16 * all[j] + all[2 * i]
      BY <1>3, <3>1
    <3>3. k[i] \div 16 = all[j]
      <4>1. all[j] \in 0..15 /\ all[2 * i] \in 0..15
        BY <1>1, <3>1
      <4>2. (16 * all[j] + all[2 * i]) \div 16 = all[j]
        BY <4>1, ByteRead
      <4> QED BY <3>2, <4>2
    <3>4. r[j] = k[i] \div 16
      BY <1>5, <2>1, <3>1 DEF i
    <3> QED BY <3>3, <3>4
  <2>2. CASE j % 2 # 1
    <3> DEFINE i == j \div 2
    <3>1. i \in 1..h /\ 2 * i = j /\ 2 * i - 1 \in 1..L /\ j \in 1..2 * h
      BY <1>1, <1>2, <2>2, SMTT(30)
    <3> HIDE DEF i
    <3>2. k[i] = 16 * all[2 * i - 1] + all[j]
      BY <1>3, <3>1
    <3>3. k[i] % 16 = all[j]
      <4>1. all[j] \in 0..15 /\ all[2 * i - 1] \in 0..15
        BY <1>1, <3>1
      <4>2. (16 * all[2 * i - 1] + all[j]) % 16 = all[j]
        BY <4>1, ByteRead
      <4> QED BY <3>2, <4>2
    <3>4. r[j] = k[i] % 16
      BY <1>5, <2>2, <3>1 DEF i
    <3> QED BY <3>3, <3>4
  <2> QED BY <2>1, <2>2
<1>7. DOMAIN r = 1..L
  BY <1>2, <1>5
<1>8. r = all
  <2>1. r = [j \in 1..L |-> all[j]]
    BY <1>5, <1>6, <1>2
  <2>2. all = [j \in 1..L |-> all[j]]
    BY <1>1, SMTT(30) DEF L
  <2> QED BY <2>1, <2>2
<1> QED BY <1>8 DEF r, k, L

\* A key behind the flag of an odd number of nibbles.
LEMMA BehindOdd ==
    ASSUME NEW n \in Seq(0..15), NEW a \in 0..15, NEW w, w = <<a>> \o n
    PROVE  w \in Seq(0..15) /\ Len(w) = Len(n) + 1 /\ w[1] = a /\ SubSeq(w, 2, Len(w)) = n
<1>1. w \in Seq(0..15) /\ Len(w) = Len(n) + 1 /\ w[1] = a
  BY SMTT(30)
<1>2. SubSeq(<<a>> \o n, 2, Len(<<a>> \o n)) = n
  BY SMTT(30)
<1> QED BY <1>1, <1>2

\* Likewise behind the flag and the nibble that fills its byte.
LEMMA BehindEven ==
    ASSUME NEW n \in Seq(0..15), NEW a \in 0..15, NEW w, w = <<a, 0>> \o n
    PROVE  w \in Seq(0..15) /\ Len(w) = Len(n) + 2 /\ w[1] = a /\ SubSeq(w, 3, Len(w)) = n
<1>1. w \in Seq(0..15) /\ Len(w) = Len(n) + 2 /\ w[1] = a
  BY SMTT(30)
<1>2. SubSeq(<<a, 0>> \o n, 3, Len(<<a, 0>> \o n)) = n
  BY SMTT(30)
<1> QED BY <1>1, <1>2

\* decodeCompactKey: the first nibble decides on the type of the node and on
\* where its key begins.
LEMMA FlagDecides ==
    ASSUME NEW key
    PROVE  LET n == nibbleToByte(key)
               third == SubSeq(n, 3, Len(n))
               second == SubSeq(n, 2, Len(n))
           IN  /\ n[1] = 0 => decodeCompactKey(key) = [kind |-> "extension", key |-> third]
               /\ n[1] = 1 => decodeCompactKey(key) = [kind |-> "extension", key |-> second]
               /\ n[1] = 2 => decodeCompactKey(key) = [kind |-> "leaf", key |-> third]
               /\ n[1] = 3 => decodeCompactKey(key) = [kind |-> "leaf", key |-> second]
<1>1. 0 # 1 /\ 0 # 2 /\ 0 # 3 /\ 1 # 2 /\ 1 # 3 /\ 2 # 3
  BY SMTT(30)
<1> QED BY <1>1 DEF decodeCompactKey

\* CompactKeyRead: decodeCompactKey gives back every key and the type of its node
\* from the compact encoding of the Ethereum trie, for any number of nibbles.
THEOREM CompactKeyRead ==
    ASSUME NEW n \in Seq(0..15), NEW leaf \in BOOLEAN
    PROVE  decodeCompactKey(Compact(n, leaf))
             = [kind |-> IF leaf THEN "leaf" ELSE "extension", key |-> n]
<1> DEFINE odd == Len(n) % 2
           flag == (IF leaf THEN 2 ELSE 0) + odd
           all == IF odd = 1 THEN <<flag>> \o n ELSE <<flag, 0>> \o n
           k == Compact(n, leaf)
<1>1. Len(n) \in Nat /\ odd \in 0..1
  BY SMTT(30)
<1>2. /\ flag \in 0..15 /\ 0 \in 0..15
      /\ leaf /\ odd = 1 => flag = 3
      /\ leaf /\ odd # 1 => flag = 2
      /\ ~leaf /\ odd = 1 => flag = 1
      /\ ~leaf /\ odd # 1 => flag = 0
  <2> HIDE DEF odd
  <2>1. CASE leaf
    BY <1>1, <2>1, SMTT(30)
  <2>2. CASE ~leaf
    BY <1>1, <2>2, SMTT(30)
  <2> QED BY <2>1, <2>2
<1>3. k = [i \in 1..Len(all) \div 2 |-> 16 * all[2 * i - 1] + all[2 * i]]
  BY DEF Compact
<1> HIDE DEF k, flag
<1>4. CASE odd = 1
  <2>1. all = <<flag>> \o n
    BY <1>4
  <2> HIDE DEF all
  <2>2. all \in Seq(0..15) /\ Len(all) = Len(n) + 1 /\ all[1] = flag /\ SubSeq(all, 2, Len(all)) = n
    BY <1>2, <2>1, BehindOdd
  <2>3. Len(all) % 2 = 0
    BY <1>1, <1>4, <2>2, EvenNext
  <2>4. nibbleToByte(k) = all
    BY <1>3, <2>2, <2>3, NibblesRead
  <2>5. nibbleToByte(k)[1] = flag
        /\ SubSeq(nibbleToByte(k), 2, Len(nibbleToByte(k))) = n
    BY <2>2, <2>4
  <2> QED BY <1>2, <1>4, <2>5, FlagDecides DEF k
<1>5. CASE odd # 1
  <2>1. all = <<flag, 0>> \o n
    BY <1>5
  <2> HIDE DEF all
  <2>2. all \in Seq(0..15) /\ Len(all) = Len(n) + 2 /\ all[1] = flag /\ SubSeq(all, 3, Len(all)) = n
    BY <1>2, <2>1, BehindEven
  <2>3. Len(all) % 2 = 0
    BY <1>1, <1>5, <2>2, EvenNext
  <2>4. nibbleToByte(k) = all
    BY <1>3, <2>2, <2>3, NibblesRead
  <2>5. nibbleToByte(k)[1] = flag
        /\ SubSeq(nibbleToByte(k), 3, Len(nibbleToByte(k))) = n
    BY <2>2, <2>4
  <2> QED BY <1>2, <1>5, <2>5, FlagDecides DEF k
<1> QED BY <1>4, <1>5

-----------------------------------------------------------------------------
(***************************************************************************)
(* The settings of the commands.                                            *)
(***************************************************************************)
\* A conversion to unsigned and back gives the number it began with.
LEMMA SignedUnsigned ==
    ASSUME NEW i \in Ints
    PROVE  /\ Unsigned(i) \in Nat /\ Signed(Unsigned(i)) = i
           /\ Unsigned(i) = 0 <=> i = 0
<1> DEFINE m == 2 * IntHalf
<1>1. m \in Nat \ {0} /\ i \in Int /\ -IntHalf <= i /\ i < IntHalf /\ IntHalf \in Nat
  BY IntHalfAssumption, SMTT(30) DEF Ints
<1>2. CASE i >= 0
  <2>1. i % m = i
    <3> HIDE DEF m
    <3>1. i < m
      BY <1>1, SMTT(30) DEF m
    <3> QED BY <1>1, <1>2, <3>1, SMTT(30)
  <2> QED BY <1>1, <1>2, <2>1, SMTT(30) DEF Unsigned, Signed
<1>3. CASE i < 0
  <2>1. i % m = i + m
    <3>1. -m <= i
      BY <1>1, SMTT(30)
    <3> HIDE DEF m
    <3> QED BY <1>1, <1>3, <3>1, SMTT(30)
  <2> QED BY <1>1, <1>3, <2>1, SMTT(30) DEF Unsigned, Signed
<1> QED BY <1>1, <1>2, <1>3, SMTT(30)

\* More seconds are a longer duration.
LEMMA SecondsGrow ==
    ASSUME NEW a \in Int, NEW b \in Int, a <= b
    PROVE  Second * a <= Second * b
  BY SecondAssumption, SMTT(30)

\* As many seconds as a time.Duration has room for.
LEMMA DurationExact ==
    ASSUME NEW n \in Int, n > 0, Second * n < IntHalf
    PROVE  Duration(n) = Second * n /\ Duration(n) > 0
<1> DEFINE d == Second * n
<1>1. d \in Int /\ d > 0
  BY SecondAssumption, SMTT(30)
<1>2. d < IntHalf
  OBVIOUS
<1> HIDE DEF d
<1>3. d \in Ints
  BY <1>1, <1>2, IntHalfAssumption, SMTT(30) DEF Ints
<1>4. Signed(Unsigned(d)) = d
  BY <1>3, SignedUnsigned
<1> QED BY <1>1, <1>4 DEF Duration, d

\* A number of seconds and the default that replaces it if it is too small.
LEMMA DurationAtLeast ==
    ASSUME NEW n \in Int, NEW least \in 1..30, Second * n < IntHalf
    PROVE  LET d == Duration(AtLeast(n, least)) IN d > 0 /\ d >= Second * n
<1>1. CASE n < least
  <2>1. Second * least <= Second * 30 /\ Second * n <= Second * least
    BY <1>1, SecondsGrow, SMTT(30)
  <2>2. Second * least < IntHalf
    <3>1. Second * 30 < IntHalf /\ Second * 30 \in Int /\ IntHalf \in Int /\ Second * least \in Int
      BY SecondAssumption, IntHalfAssumption, SMTT(30)
    <3> QED BY <2>1, <3>1, SMTT(30)
  <2>3. Duration(least) = Second * least /\ Duration(least) > 0
    BY <2>2, DurationExact, SMTT(30)
  <2> QED BY <1>1, <2>1, <2>3 DEF AtLeast
<1>2. CASE ~(n < least)
  <2>1. n > 0
    BY <1>2, SMTT(30)
  <2>2. Duration(n) = Second * n /\ Duration(n) > 0
    BY <2>1, DurationExact
  <2>3. Second * n >= Second * n
    BY SecondAssumption, SMTT(30)
  <2> QED BY <1>2, <2>2, <2>3 DEF AtLeast
<1> QED BY <1>1, <1>2

\* SettingsUsableHolds: whatever is set, the numbers that the services run on are
\* positive after the defaults, except a negative number of workers and seconds
\* that overflow a time.Duration.
LEMMA SettingsUsableHolds ==
    ASSUME NEW s \in AllSettings
    PROVE  SettingsUsable(s)
<1>1. s.batchSize \in Ints /\ s.batchNumber \in Ints /\ s.frequency \in Int /\ s.workers \in Int
      /\ s.timeout \in Int
  BY IntHalfAssumption, SMTT(30) DEF AllSettings, Ints
<1>2. ASSUME NEW c, c.batchSize = Unsigned(s.batchSize), c.batchNumber = Unsigned(s.batchNumber)
      PROVE  Batches(c).size > 0 /\ (Batches(c).number > 0 <=> s.batchNumber >= 0)
  <2>1. c.batchSize \in Nat /\ Signed(c.batchNumber) = s.batchNumber /\ s.batchNumber \in Int
    BY <1>1, <1>2, SignedUnsigned, IntHalfAssumption, SMTT(30) DEF Ints
  <2>2. Batches(c).size = (IF c.batchSize = 0 THEN 100 ELSE c.batchSize)
    BY SMTT(30) DEF Batches, DefaultMaxBatchSize
  <2>3. Batches(c).number = (IF s.batchNumber = 0 THEN 50 ELSE s.batchNumber)
    BY <2>1, SMTT(30) DEF Batches, DefaultMaxBatchNumber
  <2> QED BY <2>1, <2>2, <2>3, SMTT(30)
<1>3. \A c \in {HistoricalConfig(s), ResyncConfig(s)} :
        c.batchSize = Unsigned(s.batchSize) /\ c.batchNumber = Unsigned(s.batchNumber)
  <2>1. /\ HistoricalConfig(s).batchSize = Unsigned(s.batchSize)
        /\ HistoricalConfig(s).batchNumber = Unsigned(s.batchNumber)
    BY DEF HistoricalConfig
  <2>2. /\ ResyncConfig(s).batchSize = Unsigned(s.batchSize)
        /\ ResyncConfig(s).batchNumber = Unsigned(s.batchNumber)
    BY DEF ResyncConfig
  <2> QED BY <2>1, <2>2
<1>4. ASSUME Second * s.frequency < IntHalf
      PROVE  LET f == HistoricalConfig(s).frequency IN f > 0 /\ f >= Second * s.frequency
  <2>1. HistoricalConfig(s).frequency = Duration(IF s.frequency <= 0 THEN 30 ELSE s.frequency)
    BY DEF HistoricalConfig
  <2>2. CASE s.frequency <= 0
    <3>1. AtLeast(s.frequency, 30) = 30 /\ 30 \in 1..30
      BY <1>1, <2>2, SMTT(30) DEF AtLeast
    <3>2. Duration(30) > 0 /\ Duration(30) >= Second * s.frequency
      BY <1>1, <1>4, <3>1, DurationAtLeast
    <3> QED BY <2>1, <2>2, <3>2
  <2>3. CASE ~(s.frequency <= 0)
    <3>1. AtLeast(s.frequency, 1) = s.frequency /\ 1 \in 1..30
      BY <1>1, <2>3, SMTT(30) DEF AtLeast
    <3>2. Duration(s.frequency) > 0 /\ Duration(s.frequency) >= Second * s.frequency
      BY <1>1, <1>4, <3>1, DurationAtLeast
    <3> QED BY <2>1, <2>3, <3>2
  <2> QED BY <2>2, <2>3
<1>6. ASSUME Second * s.timeout < IntHalf
      PROVE  \A c \in {HistoricalConfig(s), ResyncConfig(s)} :
               c.timeout > 0 /\ c.timeout >= Second * s.timeout
  <2>1. 15 \in 1..30 /\ 5 \in 1..30
    BY SMTT(30)
  <2>2. HistoricalConfig(s).timeout = Duration(AtLeast(s.timeout, 15))
    BY DEF HistoricalConfig
  <2>3. ResyncConfig(s).timeout = Duration(AtLeast(s.timeout, 5))
    BY DEF ResyncConfig
  <2> QED BY <1>1, <1>6, <2>1, <2>2, <2>3, DurationAtLeast
<1>5. s.sync => WatchConfig(s).workers > 0
  <2>1. WatchConfig(s).workers = IF s.sync THEN AtLeast(s.workers, 1) ELSE 0
    BY DEF WatchConfig
  <2> QED BY <1>1, <2>1, SMTT(30) DEF AtLeast
<1> QED BY <1>2, <1>3, <1>4, <1>5, <1>6 DEF SettingsUsable

Chains == {"Ethereum", "Bitcoin"}
Modes == {"LocalInterface", "DirectPostgres"}

\* The name and the chain of a part, which is neither missing nor an error.
LEMMA PartFields ==
    ASSUME NEW name, NEW chain \in Chains
    PROVE  /\ Part(name, chain).part = name /\ Part(name, chain).chain = chain
           /\ Part(name, chain) # Nil /\ Part(name, chain) # Failed
           /\ ForChain(name, chain) = Part(name, chain)
<1>1. Part(name, chain).part = name /\ Part(name, chain).chain = chain
  BY SMTT(30) DEF Part
<1>2. Nil.chain = "nil" /\ Failed.chain = "error"
  BY SMTT(30) DEF Nil, Failed
<1>3. chain # "nil" /\ chain # "error"
  BY SMTT(30) DEF Chains
<1>4. ForChain(name, chain) = Part(name, chain)
  BY DEF ForChain, Chains
<1> QED BY <1>1, <1>2, <1>3, <1>4

\* Nothing is built for any other chain.
LEMMA OtherChains ==
    ASSUME NEW name, NEW chain, chain \notin Chains
    PROVE  ForChain(name, chain) = Failed
  BY DEF ForChain, Chains

\* Publisher and indexer of a mode write the rows of a payload once between them.
LEMMA WritesOnce ==
    ASSUME NEW chain \in Chains, NEW mode \in Modes
    PROVE  /\ RowsOfPublish(NewIPLDPublisher(chain, mode)) \o RowsOfIndex(NewCIDIndexer(chain, mode))
                = <<chain>>
           /\ NewCIDIndexer(chain, mode) # Nil /\ NewCIDIndexer(chain, mode) # Failed
           /\ FetchesFrom(NewIPLDFetcher(chain, mode)) = PublishesTo(NewIPLDPublisher(chain, mode))
<1>1. CASE mode = "DirectPostgres"
  <2>1. /\ NewIPLDPublisher(chain, mode) = Part("IPLDPublisherAndIndexer", chain)
        /\ NewIPLDFetcher(chain, mode) = Part("IPLDPGFetcher", chain)
    BY <1>1, PartFields DEF NewIPLDPublisher, NewIPLDFetcher
  <2>2. NewCIDIndexer(chain, mode) = Part("IPLDPublisherAndIndexer", "Ethereum")
    BY <1>1, SMTT(30) DEF NewCIDIndexer, Chains
  <2>3. "Ethereum" \in Chains
    BY DEF Chains
  <2>4. /\ RowsOfPublish(NewIPLDPublisher(chain, mode)) = <<chain>>
        /\ RowsOfIndex(NewCIDIndexer(chain, mode)) = <<>>
    BY <2>1, <2>2, SMTT(30) DEF RowsOfPublish, RowsOfIndex, Part
  <2>5. FetchesFrom(NewIPLDFetcher(chain, mode)) = "postgres"
        /\ PublishesTo(NewIPLDPublisher(chain, mode)) = "postgres"
    BY <2>1, SMTT(30) DEF FetchesFrom, PublishesTo, Part
  <2>6. <<chain>> \o <<>> = <<chain>>
    BY SMTT(30)
  <2>7. /\ Part("IPLDPublisherAndIndexer", "Ethereum") # Nil
        /\ Part("IPLDPublisherAndIndexer", "Ethereum") # Failed
    BY <2>3, PartFields
  <2>8. NewCIDIndexer(chain, mode) # Nil /\ NewCIDIndexer(chain, mode) # Failed
    BY <2>2, <2>7
  <2> QED BY <2>4, <2>5, <2>6, <2>8
<1>2. CASE mode = "LocalInterface"
  <2>1. /\ NewIPLDPublisher(chain, mode) = Part("IPLDPublisher", chain)
        /\ NewIPLDFetcher(chain, mode) = Part("IPLDFetcher", chain)
    BY <1>2, PartFields, SMTT(30) DEF NewIPLDPublisher, NewIPLDFetcher
  <2>2. NewCIDIndexer(chain, mode) = Part("CIDIndexer", chain)
    BY <1>2, SMTT(30) DEF NewCIDIndexer, Chains
  <2>4. /\ RowsOfPublish(NewIPLDPublisher(chain, mode)) = <<>>
        /\ RowsOfIndex(NewCIDIndexer(chain, mode)) = <<chain>>
    BY <2>1, <2>2, SMTT(30) DEF RowsOfPublish, RowsOfIndex, Part
  <2>5. FetchesFrom(NewIPLDFetcher(chain, mode)) = "ipfs"
        /\ PublishesTo(NewIPLDPublisher(chain, mode)) = "ipfs"
    BY <2>1, SMTT(30) DEF FetchesFrom, PublishesTo, Part
  <2>6. <<>> \o <<chain>> = <<chain>>
    BY SMTT(30)
  <2>7. NewCIDIndexer(chain, mode) # Nil /\ NewCIDIndexer(chain, mode) # Failed
    BY <2>2, PartFields
  <2> QED BY <2>4, <2>5, <2>6, <2>7
<1> QED BY <1>1, <1>2 DEF Modes

\* What the names of a chain and of a mode are read as.
LEMMA NamesRead ==
    ASSUME NEW name
    PROVE  /\ NewChainType(name) \in {"Ethereum", "Bitcoin", "Omni", "error"}
           /\ GetIPFSMode(name) # "error" => GetIPFSMode(name) \in Modes
<1>1. NewChainType(name) \in {"Ethereum", "Bitcoin", "Omni", "error"}
  BY SMTT(30) DEF NewChainType
<1>2. GetIPFSMode(name) # "error" => GetIPFSMode(name) \in Modes
  <2>1. NewIPFSMode(name) \in Modes \cup {"error"}
    BY DEF NewIPFSMode, Modes
  <2>2. GetIPFSMode(name) \in Modes \cup {"error"}
    BY <2>1 DEF GetIPFSMode, Modes
  <2> QED BY <2>2
<1> QED BY <1>1, <1>2

\* ResyncWiredHolds: resync starts exactly if the names are known and the chain has
\* the data, and then indexes every payload once, in the tables of its chain.
LEMMA ResyncWiredHolds ==
    ASSUME NEW s \in AllSettings
    PROVE  ResyncWired(s)
<1> DEFINE chain == NewChainType(s.chain)
           mode == GetIPFSMode(s.mode)
           data == GenerateDataTypeFromString(s.data)
           hasData == \/ chain = "Ethereum"
                      \/ chain = "Bitcoin" /\ data \in {"full", "headers", "transactions"}
           c == ResyncConfig(s)
           service == NewResyncService(c)
           runs == c.ok /\ Built(service)
<1>1. /\ rsyncCmdCommand(s).runs = runs /\ rsyncCmdCommand(s).service = service
  BY DEF rsyncCmdCommand
<1>0. /\ c.chain = chain /\ c.mode = mode
      /\ c.client = Client(c.chain)
  BY DEF ResyncConfig
<1>2. c.ok <=> /\ mode # "error" /\ data # "error" /\ chain # "error"
               /\ SupportedDataType(data, chain)
  BY DEF ResyncConfig
<1>3. /\ DOMAIN service = {"Publisher", "Indexer", "Converter", "Retriever", "Fetcher", "Cleaner"}
      /\ service.Publisher = NewIPLDPublisher(c.chain, c.mode)
      /\ service.Indexer = NewCIDIndexer(c.chain, c.mode)
      /\ service.Converter = NewPayloadConverter(c.chain)
      /\ service.Retriever = NewCIDRetriever(c.chain)
      /\ service.Fetcher = NewPaylaodFetcher(c.chain, c.client)
      /\ service.Cleaner = NewCleaner(c.chain)
  <2> HIDE DEF c
  <2> QED BY DEF NewResyncService
<1> HIDE DEF c, service, chain, mode, data
<1>4. c.ok <=> mode # "error" /\ data # "error" /\ hasData
  BY <1>2, SMTT(30) DEF SupportedDataType
<1>9. ASSUME c.ok
      PROVE  c.chain \in Chains /\ c.chain = chain /\ c.mode \in Modes
  <2>1. chain \in Chains
    BY <1>4, <1>9 DEF Chains
  <2>2. mode \in Modes
    BY <1>4, <1>9, NamesRead DEF mode
  <2> QED BY <1>0, <2>1, <2>2
<1>5. ASSUME c.ok
      PROVE  Built(service)
  <2>1. c.chain \in Chains /\ c.mode \in Modes
    BY <1>5, <1>9
  <2>2. \A name : ForChain(name, c.chain) # Failed
    BY <2>1, PartFields
  <2>3. service.Publisher # Failed /\ service.Converter # Failed /\ service.Retriever # Failed
        /\ service.Cleaner # Failed /\ service.Fetcher # Failed
    BY <1>0, <1>3, <2>2 DEF NewIPLDPublisher, NewPayloadConverter, NewCIDRetriever, NewCleaner,
                            NewPaylaodFetcher
  <2>4. service.Indexer # Failed
    BY <1>3, <2>1, WritesOnce
  <2> QED BY <1>3, <2>3, <2>4 DEF Built
<1>7. ASSUME c.ok PROVE StoredOnce(service, chain)
  <2>1. c.chain \in Chains /\ c.chain = chain /\ c.mode \in Modes
    BY <1>7, <1>9
  <2>2. RowsOfPublish(NewIPLDPublisher(c.chain, c.mode))
          \o RowsOfIndex(NewCIDIndexer(c.chain, c.mode)) = <<c.chain>>
    BY <2>1, WritesOnce
  <2> QED BY <1>3, <2>1, <2>2 DEF StoredOnce
<1>8. c.ok \in BOOLEAN
  BY DEF c, ResyncConfig
<1> QED BY <1>1, <1>4, <1>5, <1>7, <1>8 DEF ResyncWired, chain, mode, data

\* The servers of a chain: clients can subscribe, and Bitcoin has no API for HTTP.
LEMMA ServersOpen ==
    ASSUME NEW chain \in Chains
    PROVE  LET servers == startServers(chain)
           IN  /\ "vdb" \in servers.ws /\ "vdb" \in servers.ipc
               /\ servers.http = {} <=> chain = "Bitcoin"
<1>1. /\ startServers(chain).ipc = APIs(chain) /\ startServers(chain).ws = APIs(chain) \cap {"vdb"}
      /\ startServers(chain).http = APIs(chain) \cap {API(chain)}
  BY DEF startServers
<1>2. "vdb" \in APIs(chain)
  BY DEF APIs
<1>3. CASE chain = "Bitcoin"
  <2>1. NewPublicAPI(chain) = Failed /\ API(chain) = "btc"
    BY <1>3, SMTT(30) DEF NewPublicAPI, API
  <2>2. "btc" \notin APIs(chain)
    BY <2>1 DEF APIs
  <2> QED BY <1>1, <1>2, <1>3, <2>1, <2>2
<1>4. CASE chain = "Ethereum"
  <2>1. NewPublicAPI(chain) = Part("PublicEthAPI", chain) /\ API(chain) = "eth"
    BY <1>4, SMTT(30) DEF NewPublicAPI, API
  <2>2. NewPublicAPI(chain) # Failed
    BY <2>1, PartFields
  <2>3. "eth" \in APIs(chain)
    BY <2>2 DEF APIs
  <2>4. chain # "Bitcoin"
    BY <1>4
  <2> QED BY <1>1, <1>2, <2>1, <2>3, <2>4
<1> QED BY <1>3, <1>4 DEF Chains

\* What watch has built when it runs.
LEMMA WatchParts ==
    ASSUME NEW s \in AllSettings, watch(s).runs
    PROVE  LET w == watch(s)
               chain == NewChainType(s.chain)
               mode == GetIPFSMode(s.mode)
               syncing(p) == IF s.sync THEN p ELSE Nil
               serving(p) == IF s.serve THEN p ELSE Nil
           IN  /\ chain \in {"Ethereum", "Bitcoin", "Omni"} /\ mode \in Modes
               /\ s.sync \/ s.serve \/ s.historical => chain \in Chains
               /\ w.servers = startServers(chain)
               /\ w.watcher.Streamer = syncing(ForChain("PayloadStreamer", chain))
               /\ w.watcher.Converter = syncing(ForChain("PayloadConverter", chain))
               /\ w.watcher.Publisher = syncing(NewIPLDPublisher(chain, mode))
               /\ w.watcher.Indexer = syncing(NewCIDIndexer(chain, mode))
               /\ w.watcher.Filterer = syncing(ForChain("ResponseFilterer", chain))
               /\ w.watcher.IPLDFetcher = serving(NewIPLDFetcher(chain, mode))
               /\ w.filler.Publisher = NewIPLDPublisher(chain, mode)
               /\ w.filler.Indexer = NewCIDIndexer(chain, mode)
<1> DEFINE chain == NewChainType(s.chain)
           c == WatchConfig(s)
           h == HistoricalConfig(s)
           w == watch(s)
<1>1. /\ w.watcher = NewWatcher(c) /\ w.filler = NewBackFillService(h)
      /\ w.servers = startServers(c.chain)
  <2> HIDE DEF c, h
  <2> QED BY DEF watch, c, h
<1>2. w.runs <=> c.ok /\ Built(NewWatcher(c)) /\ (c.historical => Built(NewBackFillService(h)))
  <2> HIDE DEF c, h
  <2> QED BY DEF watch, c, h
<1>3. /\ c.chain = chain /\ c.mode = GetIPFSMode(s.mode)
      /\ h.chain = chain /\ h.mode = GetIPFSMode(s.mode)
      /\ h.client = Client(h.chain)
      /\ c.client = IF c.sync THEN Client(c.chain) ELSE "nil"
  <2>1. /\ c.chain = chain /\ c.mode = GetIPFSMode(s.mode)
        /\ c.client = IF c.sync THEN Client(c.chain) ELSE "nil"
    <3> HIDE DEF h, w
    <3> QED BY DEF WatchConfig
  <2>2. /\ h.chain = chain /\ h.mode = GetIPFSMode(s.mode)
        /\ h.client = Client(h.chain)
    <3> HIDE DEF c, w
    <3> QED BY DEF HistoricalConfig
  <2> QED BY <2>1, <2>2
<1>4. c.sync = s.sync /\ c.serve = s.serve /\ c.historical = s.historical
  BY DEF WatchConfig
<1> HIDE DEF h, w
<1>5. c.ok <=> chain # "error" /\ GetIPFSMode(s.mode) # "error"
  BY DEF WatchConfig
<1> HIDE DEF c, chain
<1>6. /\ c.ok /\ Built(NewWatcher(c)) /\ (s.historical => Built(NewBackFillService(h)))
      /\ chain \in {"Ethereum", "Bitcoin", "Omni"}
      /\ c.chain = chain /\ h.chain = chain /\ c.mode \in Modes /\ h.mode = c.mode
  <2>1. w.runs
    BY DEF w
  <2>2. /\ c.ok /\ Built(NewWatcher(c)) /\ (s.historical => Built(NewBackFillService(h)))
    BY <1>2, <1>4, <2>1
  <2>3. chain # "error" /\ GetIPFSMode(s.mode) # "error"
    BY <1>5, <2>2
  <2>4. chain \in {"Ethereum", "Bitcoin", "Omni"} /\ GetIPFSMode(s.mode) \in Modes
    BY <2>3, NamesRead DEF chain
  <2> QED BY <1>3, <2>2, <2>4
<1> DEFINE syncing(p) == IF c.sync THEN p ELSE Nil
           serving(p) == IF c.serve THEN p ELSE Nil
           parts == NewWatcher(c)
           filler == NewBackFillService(h)
<1>7. /\ DOMAIN parts = {"Streamer", "Converter", "Publisher", "Indexer", "Filterer", "Retriever",
                         "IPLDFetcher"}
      /\ parts.Streamer = syncing(NewPayloadStreamer(c.chain, c.client))
      /\ parts.Converter = syncing(NewPayloadConverter(c.chain))
      /\ parts.Publisher = syncing(NewIPLDPublisher(c.chain, c.mode))
      /\ parts.Indexer = syncing(NewCIDIndexer(c.chain, c.mode))
      /\ parts.Filterer = syncing(NewResponseFilterer(c.chain))
      /\ parts.Retriever = serving(NewCIDRetriever(c.chain))
      /\ parts.IPLDFetcher = serving(NewIPLDFetcher(c.chain, c.mode))
  BY DEF NewWatcher
<1>8. /\ DOMAIN filler = {"Publisher", "Indexer", "Converter", "Retriever", "Fetcher"}
      /\ filler.Publisher = NewIPLDPublisher(h.chain, h.mode)
      /\ filler.Indexer = NewCIDIndexer(h.chain, h.mode)
      /\ filler.Converter = NewPayloadConverter(h.chain)
  BY DEF NewBackFillService
<1>9. Built(parts) => parts.Converter # Failed /\ parts.Retriever # Failed
  <2> HIDE DEF parts, syncing, serving
  <2> QED BY <1>7 DEF Built
<1>10. Built(filler) => filler.Converter # Failed
  <2> HIDE DEF filler
  <2> QED BY <1>8 DEF Built
<1> HIDE DEF parts, filler
<1>11. s.sync \/ s.serve \/ s.historical => chain \in Chains
  <2> SUFFICES ASSUME chain \notin Chains PROVE ~s.sync /\ ~s.serve /\ ~s.historical
    OBVIOUS
  <2>1. \A name : ForChain(name, chain) = Failed
    BY OtherChains
  <2>2. /\ NewPayloadConverter(c.chain) = Failed /\ NewCIDRetriever(c.chain) = Failed
        /\ NewPayloadConverter(h.chain) = Failed
    BY <1>6, <2>1 DEF NewPayloadConverter, NewCIDRetriever
  <2>3. ~s.sync /\ ~s.serve
    BY <1>4, <1>6, <1>7, <1>9, <2>2 DEF parts
  <2>4. ~s.historical
    BY <1>6, <1>8, <1>10, <2>2 DEF filler
  <2> QED BY <2>3, <2>4
<1>12. c.sync => NewPayloadStreamer(c.chain, c.client) = ForChain("PayloadStreamer", c.chain)
  BY <1>3 DEF NewPayloadStreamer
<1>13. /\ parts.Streamer = syncing(ForChain("PayloadStreamer", chain))
       /\ parts.Converter = syncing(ForChain("PayloadConverter", chain))
       /\ parts.Filterer = syncing(ForChain("ResponseFilterer", chain))
  BY <1>6, <1>7, <1>12 DEF NewPayloadConverter, NewResponseFilterer
<1>14. /\ parts.Publisher = syncing(NewIPLDPublisher(chain, c.mode))
       /\ parts.Indexer = syncing(NewCIDIndexer(chain, c.mode))
       /\ parts.IPLDFetcher = serving(NewIPLDFetcher(chain, c.mode))
       /\ filler.Publisher = NewIPLDPublisher(chain, c.mode)
       /\ filler.Indexer = NewCIDIndexer(chain, c.mode)
  BY <1>6, <1>7, <1>8
<1>15. w.watcher = parts /\ w.filler = filler /\ w.servers = startServers(chain)
       /\ c.mode = GetIPFSMode(s.mode)
  BY <1>1, <1>3, <1>6 DEF parts, filler
<1> QED BY <1>4, <1>6, <1>11, <1>13, <1>14, <1>15 DEF w, chain

\* Sync, Serve and BackFill run in watch exactly if they are set.
LEMMA WatchStarted ==
    ASSUME NEW s \in AllSettings
    PROVE  /\ "sync" \in watch(s).started <=> s.sync
           /\ "serve" \in watch(s).started <=> s.serve
           /\ "backfill" \in watch(s).started <=> s.historical
           /\ watch(s).started \subseteq {"sync", "serve", "backfill"}
<1> DEFINE c == WatchConfig(s)
<1>1. c.sync = s.sync /\ c.serve = s.serve /\ c.historical = s.historical
  BY DEF WatchConfig
<1> HIDE DEF c
<1>2. watch(s).started = {p \in {"sync", "serve", "backfill"} :
                            CASE p = "sync" -> c.sync
                              [] p = "serve" -> c.serve
                              [] p = "backfill" -> c.historical}
  BY DEF watch, c
<1>3. watch(s).started = {p \in {"sync", "serve", "backfill"} :
                            CASE p = "sync" -> s.sync
                              [] p = "serve" -> s.serve
                              [] p = "backfill" -> s.historical}
  BY <1>1, <1>2
<1> QED BY <1>3

\* WatchWiredHolds: what watch leaves running uses only parts that were built,
\* with the one exception that WatchWired names.
LEMMA WatchWiredHolds ==
    ASSUME NEW s \in AllSettings
    PROVE  WatchWired(s)
<1> DEFINE w == watch(s)
           chain == NewChainType(s.chain)
           mode == GetIPFSMode(s.mode)
           syncing(p) == IF s.sync THEN p ELSE Nil
           serving(p) == IF s.serve THEN p ELSE Nil
           fed == "serve" \in w.started /\ ("sync" \in w.started \/ "backfill" \in w.started)
<1> SUFFICES ASSUME w.runs
             PROVE  /\ "sync" \in w.started =>
                         /\ \A f \in {"Streamer", "Converter", "Publisher", "Indexer"} :
                              w.watcher[f] # Nil
                         /\ StoredOnce(w.watcher, chain)
                    /\ "backfill" \in w.started => StoredOnce(w.filler, chain)
                    /\ "serve" \in w.started =>
                         \A p \in {w.watcher.Publisher, w.filler.Publisher} \ {Nil} :
                           FetchesFrom(w.watcher.IPLDFetcher) = PublishesTo(p)
                    /\ "serve" \in w.started =>
                         /\ "vdb" \in w.servers.ws /\ "vdb" \in w.servers.ipc
                         /\ (w.servers.http = {}) <=> (chain = "Bitcoin")
                    /\ fed => ((w.watcher.Filterer = Nil) <=> ("sync" \notin w.started))
                    /\ w.started # {} => chain # "Omni"
  BY DEF WatchWired
<1>1. /\ chain \in {"Ethereum", "Bitcoin", "Omni"} /\ mode \in Modes
      /\ s.sync \/ s.serve \/ s.historical => chain \in Chains
      /\ w.servers = startServers(chain)
      /\ w.watcher.Streamer = syncing(ForChain("PayloadStreamer", chain))
      /\ w.watcher.Converter = syncing(ForChain("PayloadConverter", chain))
      /\ w.watcher.Publisher = syncing(NewIPLDPublisher(chain, mode))
      /\ w.watcher.Indexer = syncing(NewCIDIndexer(chain, mode))
      /\ w.watcher.Filterer = syncing(ForChain("ResponseFilterer", chain))
      /\ w.watcher.IPLDFetcher = serving(NewIPLDFetcher(chain, mode))
      /\ w.filler.Publisher = NewIPLDPublisher(chain, mode)
      /\ w.filler.Indexer = NewCIDIndexer(chain, mode)
  BY WatchParts
<1>2. /\ "sync" \in w.started <=> s.sync
      /\ "serve" \in w.started <=> s.serve
      /\ "backfill" \in w.started <=> s.historical
      /\ w.started \subseteq {"sync", "serve", "backfill"}
  BY WatchStarted
<1> HIDE DEF w, chain, mode
<1>3. ASSUME chain \in Chains
      PROVE  /\ RowsOfPublish(NewIPLDPublisher(chain, mode))
                  \o RowsOfIndex(NewCIDIndexer(chain, mode)) = <<chain>>
             /\ NewCIDIndexer(chain, mode) # Nil
             /\ FetchesFrom(NewIPLDFetcher(chain, mode))
                  = PublishesTo(NewIPLDPublisher(chain, mode))
  BY <1>1, <1>3, WritesOnce
<1>4. ASSUME chain \in Chains
      PROVE  \A name : ForChain(name, chain) # Nil
  <2> SUFFICES ASSUME NEW name PROVE ForChain(name, chain) # Nil
    OBVIOUS
  <2>1. ForChain(name, chain) = Part(name, chain) /\ Part(name, chain) # Nil
    BY <1>4, PartFields
  <2> QED BY <2>1
<1>5. ASSUME s.sync
      PROVE  /\ \A f \in {"Streamer", "Converter", "Publisher", "Indexer"} : w.watcher[f] # Nil
             /\ StoredOnce(w.watcher, chain)
  <2>1. chain \in Chains
    BY <1>1, <1>5
  <2>2. w.watcher.Streamer # Nil /\ w.watcher.Converter # Nil /\ w.watcher.Publisher # Nil
    BY <1>1, <1>4, <1>5, <2>1 DEF NewIPLDPublisher
  <2>3. w.watcher.Indexer # Nil
    BY <1>1, <1>3, <1>5, <2>1
  <2>4. StoredOnce(w.watcher, chain)
    BY <1>1, <1>3, <1>5, <2>1 DEF StoredOnce
  <2> QED BY <2>2, <2>3, <2>4
<1>6. ASSUME s.historical PROVE StoredOnce(w.filler, chain)
  <2>1. chain \in Chains
    BY <1>1, <1>6
  <2> QED BY <1>1, <1>3, <2>1 DEF StoredOnce
<1>7. ASSUME s.serve
      PROVE  /\ \A p \in {w.watcher.Publisher, w.filler.Publisher} \ {Nil} :
                  FetchesFrom(w.watcher.IPLDFetcher) = PublishesTo(p)
             /\ "vdb" \in w.servers.ws /\ "vdb" \in w.servers.ipc
             /\ (w.servers.http = {}) <=> (chain = "Bitcoin")
  <2>1. chain \in Chains
    BY <1>1, <1>7
  <2>2. \A p \in {w.watcher.Publisher, w.filler.Publisher} \ {Nil} :
          p = NewIPLDPublisher(chain, mode)
    BY <1>1
  <2>3. FetchesFrom(w.watcher.IPLDFetcher) = PublishesTo(NewIPLDPublisher(chain, mode))
    BY <1>1, <1>3, <1>7, <2>1
  <2>4. /\ "vdb" \in w.servers.ws /\ "vdb" \in w.servers.ipc
        /\ (w.servers.http = {}) <=> (chain = "Bitcoin")
    BY <1>1, <2>1, ServersOpen
  <2> QED BY <2>2, <2>3, <2>4
<1>8. ASSUME s.serve PROVE (w.watcher.Filterer = Nil) <=> ~s.sync
  <2>1. chain \in Chains
    BY <1>1, <1>8
  <2> QED BY <1>1, <1>4, <2>1
<1>9. ASSUME w.started # {} PROVE chain # "Omni"
  <2>1. s.sync \/ s.serve \/ s.historical
    BY <1>2, <1>9
  <2>2. chain \in Chains
    BY <1>1, <2>1
  <2> QED BY <2>2 DEF Chains
<1> QED BY <1>2, <1>5, <1>6, <1>7, <1>8, <1>9

\* CommandsWiredHolds: whatever the environment and the configuration file set,
\* watch and resync run on parts that were built, of one chain, and index every
\* payload once.
THEOREM CommandsWiredHolds == InputTyped => CommandsWired
  BY WatchWiredHolds, ResyncWiredHolds, SettingsUsableHolds DEF InputTyped, CommandsWired

-----------------------------------------------------------------------------
(***************************************************************************)
(* The helpers of the gap search.                                           *)
(***************************************************************************)
\* The arguments of GetBlockHeightBins are unsigned, and the heights of
\* MissingHeightsToGaps are naturals.
GapTyped == args \in Uint \X Uint \X Uint /\ heights \in Seq(Nat)

\* They stay so in every run of the gap search.
LEMMA GapTypedHolds == GapSpec => []GapTyped
<1>1. GapInit => GapTyped
  <2> SUFFICES ASSUME GapInit PROVE GapTyped
    OBVIOUS
  <2>1. 0 \in Uint
    BY UintModAssumption, SMTT(30) DEF Uint
  <2>2. <<0, 0, 0>> \in Uint \X Uint \X Uint
    BY <2>1
  <2>3. <<>> \in Seq(Nat)
    BY SMTT(30)
  <2> QED BY <2>2, <2>3 DEF GapInit, GapTyped
<1>2. GapTyped /\ [GapNext]_gapVars => GapTyped'
  <2> SUFFICES ASSUME GapTyped, [GapNext]_gapVars PROVE GapTyped'
    OBVIOUS
  <2>1. CASE Call
    BY <2>1 DEF Call, GapTyped
  <2>2. CASE List
    <3>1. PICK h \in 0..MaxListed : heights' = Append(heights, h)
      BY <2>2 DEF List
    <3>2. h \in Nat /\ heights \in Seq(Nat)
      BY MCGapFindingAssumption, SMTT(30) DEF GapTyped
    <3>3. Append(heights, h) \in Seq(Nat)
      BY <3>2, SMTT(30)
    <3> QED BY <2>2, <3>1, <3>3 DEF List, GapTyped
  <2>3. CASE Write
    BY <2>3 DEF Write, GapTyped
  <2>4. CASE UNCHANGED gapVars
    BY <2>4 DEF gapVars, GapTyped
  <2> QED BY <2>1, <2>2, <2>3, <2>4 DEF GapNext
<1> QED BY <1>1, <1>2, PTL DEF GapSpec

\* GapHelpersExactHolds: for every unsigned type, range and batch size the bins of
\* GetBlockHeightBins hold every height of the range once, and for every list of
\* heights the closed form of MissingHeightsToGaps is what its loop appends.
THEOREM GapHelpersExactHolds == GapSpec => []GapHelpersExact
<1>1. GapTyped => GapHelpersExact
  <2> SUFFICES ASSUME GapTyped PROVE GapHelpersExact
    OBVIOUS
  <2>1. Uint \subseteq Nat
    BY UintModAssumption, SMTT(30) DEF Uint
  <2>2. args[1] \in Nat /\ args[2] \in Nat /\ args[3] \in Nat
    BY <2>1 DEF GapTyped
  <2>3. BinsPartition(args[1], args[2], args[3])
    BY <2>2, BinsPartitionHolds
  <2>4. MissingHeightsToGaps(heights) = HeightsLoop(heights)
    BY HeightsLoopAgrees DEF GapTyped
  <2> QED BY <2>3, <2>4 DEF GapHelpersExact
<1> QED BY <1>1, GapTypedHolds, PTL
=============================================================================
