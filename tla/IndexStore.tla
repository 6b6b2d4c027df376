----------------------------- MODULE IndexStore -----------------------------
(***************************************************************************)
(* The Postgres database behind the watcher: the tables of headers, uncles, *)
(* transactions, receipts, state and storage nodes and accounts (Ethereum)  *)
(* or headers, transactions, inputs and outputs (Bitcoin), and the IPLD     *)
(* blocks (public.blocks) they refer to by multihash key.                   *)
(*                                                                          *)
(*   db/schema.sql, pkg/eth/publisher.go, publish_and_indexer.go,           *)
(*   indexer.go, cleaner.go; pkg/btc likewise                               *)
(*                                                                          *)
(* A store is [rows, ipld, tv]: rows are [kind, id, block], block being the *)
(* header the row hangs under and id what makes it unique in its table,     *)
(* ipld the keys of public.blocks, tv the times_validated of the headers.   *)
(* The operators give the store after a transaction has been committed.     *)
(* A block has at most one row of each kind: more of them would be treated  *)
(* alike.                                                                   *)
(***************************************************************************)
EXTENDS Integers, Sequences, FiniteSetsExt

CONSTANTS
    EthBlocks, BtcBlocks,
    Height,         \* Height[b]: the block number
    Data,           \* Data[b]: from the kinds of data b has to their keys
    TxId,           \* TxId[b]: the transaction of b, as far as ids tell it apart
    NoKey,          \* "key" of the rows that refer to no IPLD
    MaxValidated    \* bound: times_validated is not counted beyond

Blocks == EthBlocks \cup BtcBlocks

ChainBlocks(chain) == IF chain = "eth" THEN EthBlocks ELSE BtcBlocks

\* What Publish of the IPFS modes puts, in order.  The nodes of the transaction
\* and receipt tries are published and never indexed (in Ethereum getNodes makes
\* them of the leaves as they are, so that they have the keys of the leaves); accounts, inputs and
\* outputs are indexed only.
EthPublishes == <<"header", "uncle", "tx", "txTrie", "rct", "rctTrie", "state", "storage">>
BtcPublishes == <<"header", "tx", "txTrie">>
Publishes(b) == IF b \in EthBlocks THEN EthPublishes ELSE BtcPublishes
Tries == {"txTrie", "rctTrie"}
EthKinds == Range(EthPublishes) \cup {"account"}
BtcKinds == Range(BtcPublishes) \cup {"input", "output"}

\* The rows whose identity is that of a transaction.  It is unique within its
\* header in Ethereum (TxId[b] = b), in the whole table in Bitcoin.
TxKinds == {"tx", "rct", "input", "output"}

ASSUME IndexStoreAssumption ==
    /\ EthBlocks \cap BtcBlocks = {} /\ MaxValidated \in Nat \ {0}
    /\ Height \in [Blocks -> Nat]
    /\ \A b \in Blocks :
         /\ "header" \in DOMAIN Data[b]
         /\ DOMAIN Data[b] \subseteq IF b \in EthBlocks THEN EthKinds ELSE BtcKinds
    /\ \A b \in EthBlocks : TxId[b] = b
    /\ \A b \in EthBlocks :      \* the data of a trie node is that of its leaf
         \A k \in {"txTrie", "rctTrie"} \cap DOMAIN Data[b] :
           Data[b][k] = Data[b][IF k = "txTrie" THEN "tx" ELSE "rct"]
    /\ \A b, c \in Blocks :     \* the same transaction has the same content
         TxId[b] = TxId[c] => \A k \in TxKinds \cap DOMAIN Data[b] :
                                k \in DOMAIN Data[c] /\ Data[b][k] = Data[c][k]
    /\ \A b \in Blocks : \A k \in DOMAIN Data[b] :  \* what is published has a key
         Data[b][k] = NoKey <=> k \notin Range(Publishes(b))

-----------------------------------------------------------------------------
Row(b, k) == [kind |-> k, id |-> IF k \in TxKinds THEN TxId[b] ELSE b, block |-> b]
Header(b) == Row(b, "header")
RowsOf(b) == {Row(b, k) : k \in DOMAIN Data[b] \ Tries}
MhKey(r) == Data[r.block][r.kind]
KeysOf(b, kinds) == {Data[b][k] : k \in kinds \cap DOMAIN Data[b]} \ {NoKey}

\* The row that the foreign key header_id, tx_id or state_id of a row refers to.
Parent(r) == CASE r.kind = "header" -> r
               [] r.kind \in {"uncle", "tx", "state"} -> Row(r.block, "header")
               [] r.kind \in {"rct", "input", "output"} -> Row(r.block, "tx")
               [] r.kind \in {"account", "storage"} -> Row(r.block, "state")
Ancestors(r) == {r, Parent(r), Parent(Parent(r))}

\* What a converter returns has a transaction for every receipt, input and output
\* and a state node for every account and storage node.
ASSUME ParentAssumption == \A b \in Blocks : \A r \in RowsOf(b) : Parent(r) \in RowsOf(b)

\* A key is the hash of the data.  Of the rows that refer to an IPLD, only headers
\* and uncles, and the nodes of the state and storage tries, are encoded alike.
Alike == {<<"header", "uncle">>, <<"uncle", "header">>,
          <<"state", "storage">>, <<"storage", "state">>}
ASSUME EncodingAssumption ==
    \A b, c \in Blocks : \A r \in RowsOf(b), q \in RowsOf(c) :
      MhKey(r) = MhKey(q) /\ MhKey(r) # NoKey /\ r.kind # q.kind => <<r.kind, q.kind>> \in Alike

ForeignKeysHold(st) ==
    \A r \in st.rows : Parent(r) \in st.rows /\ MhKey(r) \in st.ipld \cup {NoKey}

EmptyStore == [rows |-> {}, ipld |-> {}, tv |-> [b \in Blocks |-> 0]]

-----------------------------------------------------------------------------
(***************************************************************************)
(* Publishing and indexing.                                                 *)
(***************************************************************************)
\* INSERT INTO public.blocks ... ON CONFLICT DO NOTHING, or a DagPut each.
Published(st, b, kinds) == [st EXCEPT !.ipld = @ \cup KeysOf(b, kinds)]

\* The upserts of a block: a row with the same id is taken over, also from
\* another header (a Bitcoin transaction that two forks contain).
Upserted(st, b) ==
    [st EXCEPT
       !.rows = RowsOf(b) \cup {r \in @ : \A n \in RowsOf(b) : r.kind # n.kind \/ r.id # n.id},
       !.tv[b] = IF Header(b) \notin st.rows THEN 1
                 ELSE IF @ < MaxValidated THEN @ + 1 ELSE @]

\* The foreign keys are deferred: they are checked by COMMIT, and if one does
\* not hold nothing is written.  The caller is not told: the deferred function
\* assigns the error when the result has been evaluated.
Commit(old, new) == IF ForeignKeysHold(new) THEN new ELSE old

\* Index of the CIDIndexer, in one transaction.
Indexed(st, b) == Commit(st, Upserted(st, b))

\* Publish of the IPLDPublisherAndIndexer: both, in one transaction.
PublishedAndIndexed(st, b) ==
    Commit(st, Upserted(Published(st, b, Range(Publishes(b))), b))

-----------------------------------------------------------------------------
(***************************************************************************)
(* Cleaning.                                                                *)
(***************************************************************************)
Within(b, rng) == rng[1] <= Height[b] /\ Height[b] <= rng[2]

\* Rows of a table, joined with the headers of a range.
Selected(st, chain, kind, rng) ==
    {r \in st.rows : r.kind = kind /\ r.block \in ChainBlocks(chain) /\ Within(r.block, rng)}

\* ON DELETE CASCADE: with a row go the rows that refer to it.
Removed(st, gone) ==
    LET left == {r \in st.rows : Ancestors(r) \cap gone = {}}
    IN  [st EXCEPT !.rows = left,
                   !.tv = [b \in Blocks |-> IF Header(b) \in left THEN @[b] ELSE 0]]

\* clean...IPLDs: the blocks of a kind in the range are deleted, and with them
\* every row, in the range or not, that refers to the same key.
IPLDsDeleted(st, chain, kind, rng) ==
    LET keys == {MhKey(r) : r \in Selected(st, chain, kind, rng)}
    IN  Removed([st EXCEPT !.ipld = @ \ keys], {r \in st.rows : MhKey(r) \in keys})

\* clean...MetaData: the rows of a kind in the range are deleted.
RowsDeleted(st, chain, kind, rng) == Removed(st, Selected(st, chain, kind, rng))

EthTypes == {"full", "headers", "uncles", "transactions", "receipts", "state", "storage"}
BtcTypes == {"full", "headers", "transactions"}

\* Mutant: state nodes are cleaned before the storage nodes below them.
EthCleanOrder_StateFirst(t) ==
    CASE t \in {"full", "headers"} -> <<"state", "storage", "rct", "tx", "uncle", "header">>
      [] t = "uncles"       -> <<"uncle">>
      [] t = "transactions" -> <<"rct", "tx">>
      [] t = "receipts"     -> <<"rct">>
      [] t = "state"        -> <<"storage", "state">>
      [] t = "storage"      -> <<"storage">>

\* The kinds whose IPLDs are deleted for a type of data, in order; of the last
\* one the rows are deleted, too.
EthCleanOrder(t) ==
    CASE t \in {"full", "headers"} -> <<"storage", "state", "rct", "tx", "uncle", "header">>
      [] t = "uncles"       -> <<"uncle">>
      [] t = "transactions" -> <<"rct", "tx">>
      [] t = "receipts"     -> <<"rct">>
      [] t = "state"        -> <<"storage", "state">>
      [] t = "storage"      -> <<"storage">>
BtcCleanOrder(t) == IF t = "transactions" THEN <<"tx">> ELSE <<"tx", "header">>

\* A loop over a list, starting with st.
ForEach(step(_, _), st, list) ==
    MapThenFoldSet(LAMBDA x, s : step(s, x), st, LAMBDA i : list[i], Max, DOMAIN list)

clean(st, chain, rng, t) ==
    LET order == IF chain = "eth" THEN EthCleanOrder(t) ELSE BtcCleanOrder(t)
    IN  RowsDeleted(ForEach(LAMBDA s, kind : IPLDsDeleted(s, chain, kind, rng), st, order),
                    chain, order[Len(order)], rng)

\* Clean: all ranges in one transaction.
Cleaned(st, chain, rngs, t) ==
    ForEach(LAMBDA s, rng : clean(s, chain, rng, t), st, rngs)

ValidationReset(st, chain, rngs) ==
    [st EXCEPT !.tv = [b \in Blocks |->
        IF b \in ChainBlocks(chain) /\ \E i \in DOMAIN rngs : Within(b, rngs[i])
        THEN 0 ELSE @[b]]]

-----------------------------------------------------------------------------
\* The blocks that have a key in common: their data is stored once.
Share(b, c) == KeysOf(b, DOMAIN Data[b]) \cap KeysOf(c, DOMAIN Data[c]) # {}
=============================================================================
