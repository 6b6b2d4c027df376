----------------------------- MODULE IpldFetch ------------------------------
(***************************************************************************)
(* Fetching the data that the retriever has selected of a block, from the   *)
(* IPFS block service or from the tables under it.                          *)
(*                                                                          *)
(*   pkg/eth/ipld_fetcher.go, ipld_pg_fetcher.go; pkg/btc likewise          *)
(*                                                                          *)
(* What is selected is [header, uncles, txs, rcts, state, storage]: a CID,  *)
(* sequences of CIDs, and sequences of nodes [cid, key, stateKey], where ""  *)
(* stands for a CID or key that is missing (a removed node, a storage node  *)
(* below a state node that is no leaf).  there is the set of CIDs whose     *)
(* data can be had.  The block service gives up for a CID that is not there *)
(* only if the exchange does; not to return is not told apart from an       *)
(* error.                                                                   *)
(***************************************************************************)
EXTENDS Integers, Sequences, FiniteSets, Functions, Listings

None == ""

\* A block of data with its CID, or the error of not getting it.
BlockModel(cid) == [CID |-> cid, Data |-> <<"data", cid>>]
NoBlock == [error |-> TRUE]

\* A node with the keys it belongs to.
Node(n, ipld) == IF ipld = NoBlock THEN NoBlock
                 ELSE [IPLD |-> ipld, key |-> n.key, stateKey |-> n.stateKey]

\* The first error ends Fetch, with nothing returned.
Whole(parts) ==
    IF \E f \in DOMAIN parts : NoBlock \in Range(parts[f]) THEN [error |-> <<NoBlock>>]
    ELSE parts

-----------------------------------------------------------------------------
(***************************************************************************)
(* The block service (LocalInterface).  A batch comes in the order in which *)
(* the exchange finds its blocks: rank is the rank of each position.        *)
(***************************************************************************)
GetBlocks(cids, there, rank) ==
    LET found == {i \in DOMAIN cids : cids[i] \in there}
        arrival == Ascending({rank[i] : i \in found})
    IN  [k \in DOMAIN arrival |-> cids[CHOOSE i \in found : rank[i] = arrival[k]]]

fetch(cid, there) == IF cid \in there THEN BlockModel(cid) ELSE NoBlock

\* As many blocks as there are; that some are missing is no error here.
fetchBatch(cids, there, rank) ==
    LET blocks == GetBlocks(cids, there, rank)
    IN  [i \in DOMAIN blocks |-> BlockModel(blocks[i])]

\* The number of blocks is compared with the number expected.
AsMany(blocks, cids) == IF Len(blocks) # Len(cids) THEN <<NoBlock>> ELSE blocks

\* Mutant: the number of blocks is not compared.
FetchTrxs_Any(cids, there, rank) == fetchBatch(cids, there, rank)

FetchHeader(cid, there) == <<fetch(cid, there)>>
FetchUncles(cids, there, rank) == AsMany(fetchBatch(cids, there, rank), cids)
FetchTrxs(cids, there, rank) == AsMany(fetchBatch(cids, there, rank), cids)
FetchRcts(cids, there, rank) == AsMany(fetchBatch(cids, there, rank), cids)

\* One by one, "because it needs to maintain the data's relation to state keys".
FetchState(nodes, there) ==
    LET with == Picked(nodes, {i \in DOMAIN nodes : nodes[i].cid # None})
    IN  [i \in DOMAIN with |-> Node(with[i], fetch(with[i].cid, there))]
FetchStorage(nodes, there) ==
    LET with == Picked(nodes, {i \in DOMAIN nodes : nodes[i].cid # None /\ nodes[i].stateKey # None})
    IN  [i \in DOMAIN with |-> Node(with[i], fetch(with[i].cid, there))]

EthFetch(w, there, rank) ==
    Whole([header |-> FetchHeader(w.header, there), uncles |-> FetchUncles(w.uncles, there, rank),
           txs |-> FetchTrxs(w.txs, there, rank), rcts |-> FetchRcts(w.rcts, there, rank),
           state |-> FetchState(w.state, there), storage |-> FetchStorage(w.storage, there)])

BtcFetch(w, there, rank) ==
    Whole([header |-> FetchHeader(w.header, there), txs |-> FetchTrxs(w.txs, there, rank)])

-----------------------------------------------------------------------------
(***************************************************************************)
(* The tables (DirectPostgres): one statement for each CID, in order.       *)
(***************************************************************************)
FetchIPLDByMhKey(cid, there) == IF cid \in there THEN BlockModel(cid) ELSE NoBlock

PGFetchEach(cids, there) == [i \in DOMAIN cids |-> FetchIPLDByMhKey(cids[i], there)]

PGFetchState(nodes, there) ==
    LET with == Picked(nodes, {i \in DOMAIN nodes : nodes[i].cid # None})
    IN  [i \in DOMAIN with |-> Node(with[i], FetchIPLDByMhKey(with[i].cid, there))]

PGFetchStorage(nodes, there) ==
    LET with == Picked(nodes, {i \in DOMAIN nodes : nodes[i].cid # None /\ nodes[i].stateKey # None})
    IN  [i \in DOMAIN with |-> Node(with[i], FetchIPLDByMhKey(with[i].cid, there))]

EthPGFetch(w, there) ==
    Whole([header |-> PGFetchEach(<<w.header>>, there), uncles |-> PGFetchEach(w.uncles, there),
           txs |-> PGFetchEach(w.txs, there), rcts |-> PGFetchEach(w.rcts, there),
           state |-> PGFetchState(w.state, there), storage |-> PGFetchStorage(w.storage, there)])

BtcPGFetch(w, there) ==
    Whole([header |-> PGFetchEach(<<w.header>>, there), txs |-> PGFetchEach(w.txs, there)])

-----------------------------------------------------------------------------
\* The CIDs without which Fetch must fail.
Needed(w) ==
    {w.header} \cup Range(w.uncles) \cup Range(w.txs) \cup Range(w.rcts)
    \cup {n.cid : n \in {m \in Range(w.state) : m.cid # None}}
    \cup {n.cid : n \in {m \in Range(w.storage) : m.cid # None /\ m.stateKey # None}}

\* The same parts, each with the same data in some order.
SameParts(a, b) ==
    /\ DOMAIN a = DOMAIN b
    /\ \A f \in DOMAIN a : Len(a[f]) = Len(b[f]) /\ Range(a[f]) = Range(b[f])

\* FetchAgrees: from the block service, in whatever order a batch arrives, and
\* from the tables comes the same data, that of every state and storage node in
\* the order of their keys; and Fetch fails from both if anything is not there.
FetchAgrees(w, there, rank) ==
    LET ipfs == EthFetch(w, there, rank)
        pg == EthPGFetch(w, there)
    IN  /\ SameParts(ipfs, pg) /\ SameParts(BtcFetch(w, there, rank), BtcPGFetch(w, there))
        /\ DOMAIN pg = IF Needed(w) \subseteq there THEN DOMAIN w ELSE {"error"}
        /\ Needed(w) \subseteq there => ipfs.state = pg.state /\ ipfs.storage = pg.storage
=============================================================================
