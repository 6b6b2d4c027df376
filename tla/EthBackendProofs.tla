-------------------------- MODULE EthBackendProofs --------------------------
(***************************************************************************)
(* The block answered by the eth_ API is the one asked for, whole, and was  *)
(* complete at one moment, and an error means that it was not complete all  *)
(* the time, for all blocks, requests, stores, cleanings and any number of  *)
(* commits between the statements of a request.                             *)
(***************************************************************************)
EXTENDS EthBackend, IndexStoreProofs, FiniteSetTheorems, TLAPS

\* The time allowed to a prover for a leaf: Zenon, unless the leaf asks for the
\* SMT solver.
USE ZenonT(30)

\* The statements that come after a header row was chosen.
Chosen == {"uncles", "txs", "rcts", "fetchHeader", "fetchUncles", "fetchTxs", "fetchRcts",
           "td", "answered"}

\* The block is the one asked for.
AskedFor(b) ==
    /\ b \in EthBlocks
    /\ IF req.method = "blockByHash" THEN b = req.hash ELSE Height[b] = number

\* The inductive invariant: between the statements of a request for a block the
\* header row stays the one that was chosen, and an answer has been compared
\* with it through its hash.
ReadInv ==
    /\ OfBlock(req) =>
         /\ pc \in Statements \cup {"idle", "answered", "error"}
         /\ pc \notin {"transaction", "logs"}
         /\ pc \in Chosen => AskedFor(block)
    /\ AnswerWhole

\* No request has begun.
LEMMA InitReadInv == Init => ReadInv
BY DEF Init, ReadInv, AnswerWhole, Chosen, OfBlock

\* The statements that look for rows.
LEMMA RetrieveReadInv ==
    ASSUME ReadInv,
           \/ Ask \/ RetrieveLastBlockNumber \/ RetrieveHeaderCIDs
           \/ RetrieveUncleCIDsByHeaderID \/ RetrieveTxCIDsByHeaderID
           \/ RetrieveReceiptCIDsByTxIDs \/ RetrieveTransaction \/ RetrieveRctCIDs
    PROVE  ReadInv'
<1> USE DEF ReadInv, AnswerWhole, Chosen, OfBlock, AskedFor, Statements
<1>1. CASE Ask
  BY <1>1 DEF Ask, ByNumber
<1>2. CASE RetrieveLastBlockNumber
  BY <1>2 DEF RetrieveLastBlockNumber
<1>3. CASE RetrieveHeaderCIDs
  BY <1>3 DEF RetrieveHeaderCIDs, Headers
<1>4. CASE RetrieveUncleCIDsByHeaderID
  BY <1>4 DEF RetrieveUncleCIDsByHeaderID
<1>5. CASE RetrieveTxCIDsByHeaderID
  BY <1>5 DEF RetrieveTxCIDsByHeaderID
<1>6. CASE RetrieveReceiptCIDsByTxIDs
  BY <1>6 DEF RetrieveReceiptCIDsByTxIDs
<1>7. CASE RetrieveTransaction
  BY <1>7 DEF RetrieveTransaction
<1>8. CASE RetrieveRctCIDs
  BY <1>8 DEF RetrieveRctCIDs
<1> QED BY <1>1, <1>2, <1>3, <1>4, <1>5, <1>6, <1>7, <1>8

\* The statements that fetch data.
LEMMA FetchReadInv ==
    ASSUME ReadInv, FetchHeader \/ FetchUncles \/ FetchTrxs \/ FetchRcts
    PROVE  ReadInv'
<1> USE DEF ReadInv, AnswerWhole, Chosen, OfBlock, AskedFor, Statements, FetchIPLD, reading
<1>1. CASE FetchHeader
  BY <1>1 DEF FetchHeader
<1>2. CASE FetchUncles
  BY <1>2 DEF FetchUncles
<1>3. CASE FetchTrxs
  BY <1>3 DEF FetchTrxs
<1>4. CASE FetchRcts
  BY <1>4 DEF FetchRcts
<1> QED BY <1>1, <1>2, <1>3, <1>4

\* The hash of what was put together is looked up: it is that of a block of the
\* chain only if nothing was missing.
LEMMA AnswersBlock ==
    ASSUME GetTd, OfBlock(req), pc' = "answered"
    PROVE  answer' = block /\ found = Body(block) /\ inOrder
<1>1. answer' = NewBlock /\ NewBlock \in EthBlocks
  BY DEF GetTd, Marshalled, OfBlock, Headers
<1>2. Partial \notin EthBlocks
  BY EthBackendAssumption
<1> QED BY <1>1, <1>2 DEF NewBlock

LEMMA GetTdReadInv == ASSUME ReadInv, GetTd PROVE ReadInv'
<1>1. OfBlock(req) /\ pc' = "answered" =>
        answer' = block /\ found = Body(block) /\ inOrder
  BY AnswersBlock
<1>2. UNCHANGED <<req, reading>>
  BY DEF GetTd
<1> QED BY <1>1, <1>2, SMTT(30) DEF ReadInv, AnswerWhole, Chosen, OfBlock, AskedFor, Statements,
            GetTd, reading, Body

\* Commits of other processes change nothing that was read.
LEMMA CommitsReadInv == ASSUME ReadInv, NEW st, Commits(st) PROVE ReadInv'
BY DEF ReadInv, AnswerWhole, Chosen, OfBlock, AskedFor, Statements, Commits

\* AnswerWhole holds in every behaviour: whatever is indexed and cleaned between
\* its statements, GetBlockByNumber or GetBlockByHash answers with the block
\* asked for and all its uncles, transactions and receipts.
THEOREM AnswerWholeHolds == Spec => []AnswerWhole
<1>1. ReadInv /\ [Next]_vars => ReadInv'
  <2> SUFFICES ASSUME ReadInv, [Next]_vars PROVE ReadInv'
    OBVIOUS
  <2>1. CASE \E b \in EthBlocks : WriterIndexes(b)
    BY <2>1, CommitsReadInv DEF WriterIndexes
  <2>2. CASE \E c \in Cleanings : CleanerCleans(c)
    BY <2>2, CommitsReadInv DEF CleanerCleans
  <2>3. CASE UNCHANGED vars
    BY <2>3 DEF vars, ReadInv, AnswerWhole, OfBlock, AskedFor
  <2> QED BY <2>1, <2>2, <2>3, RetrieveReadInv, FetchReadInv, GetTdReadInv DEF Next
<1> QED BY <1>1, InitReadInv, PTL DEF Spec, ReadInv

-----------------------------------------------------------------------------
(***************************************************************************)
(* The rows of a block that is answered.                                    *)
(***************************************************************************)
EthRows == UNION {RowsOf(b) : b \in EthBlocks}

\* The rows and keys that make up a block are some of its own.
LEMMA RowOfBody ==
    ASSUME NEW b \in EthBlocks, NEW k \in Body(b) \cup {"header"}
    PROVE  k \in DOMAIN Data[b] /\ Row(b, k) \in RowsOf(b) /\ MhKey(Row(b, k)) = Data[b][k]
<1>1. b \in Blocks
  BY DEF Blocks
<1>2. k \in DOMAIN Data[b]
  <2>1. "header" \in DOMAIN Data[b]
    BY <1>1, IndexStoreAssumption
  <2> QED BY <2>1 DEF Body
<1>3. k \notin Tries
  BY DEF Tries, Body
<1>4. Row(b, k).kind = k /\ Row(b, k).block = b
  BY RowFields
<1> QED BY <1>2, <1>3, <1>4 DEF RowsOf, MhKey

\* A row found in the tables is one that its block has.
LEMMA RowTells ==
    ASSUME NEW b, NEW k, Row(b, k) \in EthRows
    PROVE  Row(b, k) \in RowsOf(b) /\ k \in DOMAIN Data[b]
<1>1. PICK c \in EthBlocks : Row(b, k) \in RowsOf(c)
  BY DEF EthRows
<1>2. PICK j \in DOMAIN Data[c] \ Tries : Row(b, k) = Row(c, j)
  BY <1>1 DEF RowsOf
<1>3. /\ Row(b, k).kind = k /\ Row(b, k).block = b
      /\ Row(c, j).kind = j /\ Row(c, j).block = c
  BY RowFields
<1>4. b = c /\ k = j
  BY <1>2, <1>3
<1> QED BY <1>1, <1>2, <1>4

\* Receipts come with their transactions.
LEMMA RctHasTx == ASSUME NEW b \in EthBlocks, "rct" \in Body(b) PROVE "tx" \in Body(b)
<1>1. b \in Blocks
  BY DEF Blocks
<1>2. Row(b, "rct") \in RowsOf(b)
  BY RowOfBody
<1>3. Parent(Row(b, "rct")) \in RowsOf(b)
  BY <1>1, <1>2, ParentAssumption
<1>4. Parent(Row(b, "rct")) = Row(b, "tx")
  BY RowFields, SMTT(30) DEF Parent
<1>5. Row(b, "tx") \in EthRows
  BY <1>3, <1>4 DEF EthRows
<1>6. "tx" \in DOMAIN Data[b]
  BY <1>5, RowTells
<1> QED BY <1>6 DEF Body

\* The foreign keys keep the data of the rows.
LEMMA CompleteByRows ==
    ASSUME NEW st \in Sound, NEW b \in EthBlocks,
           \A k \in Body(b) \cup {"header"} : Row(b, k) \in st.rows
    PROVE  Complete(st, b)
<1>1. ForeignKeysHold(st)
  BY DEF Sound
<1>2. ASSUME NEW x \in KeysOf(b, Body(b) \cup {"header"}) PROVE x \in st.ipld
  <2>1. PICK k \in Body(b) \cup {"header"} : x = Data[b][k] /\ x # NoKey
    BY <1>2 DEF KeysOf
  <2>2. MhKey(Row(b, k)) = Data[b][k]
    BY RowOfBody
  <2>3. MhKey(Row(b, k)) \in st.ipld \cup {NoKey}
    BY <1>1 DEF ForeignKeysHold
  <2> QED BY <2>1, <2>2, <2>3
<1> QED BY <1>2 DEF Complete

\* All that is fetched for a complete block is there.
LEMMA CompleteKeys ==
    ASSUME NEW st, NEW b, Complete(st, b), NEW kinds \in SUBSET {"header", "uncle", "tx", "rct"}
    PROVE  KeysOf(b, kinds) \subseteq st.ipld
<1>1. kinds \cap DOMAIN Data[b] \subseteq (Body(b) \cup {"header"}) \cap DOMAIN Data[b]
  BY DEF Body
<1>2. KeysOf(b, kinds) \subseteq KeysOf(b, Body(b) \cup {"header"})
  <2> DEFINE s == Body(b) \cup {"header"}
             D == DOMAIN Data[b]
  <2>1. kinds \cap D \subseteq s \cap D
    BY <1>1
  <2> HIDE DEF s
  <2>2. KeysOf(b, kinds) \subseteq KeysOf(b, s)
    BY <2>1 DEF KeysOf
  <2> QED BY <2>2 DEF s
<1> QED BY <1>2 DEF Complete

\* A block with a header row is complete, or has a row that is missing.
LEMMA CompleteOrMissing ==
    ASSUME NEW st \in Sound, NEW b \in EthBlocks, Header(b) \in st.rows
    PROVE  Complete(st, b) \/ \E k \in Body(b) : Row(b, k) \notin st.rows
BY CompleteByRows DEF Header

\* Of finitely many blocks one is the highest.
LEMMA Highest ==
    ASSUME NEW S \in SUBSET EthBlocks, S # {}
    PROVE  Max({Height[b] : b \in S}) \in Nat
<1>1. IsFiniteSet(S)
  BY EthBackendAssumption, FS_Subset
<1>2. PICK N \in Nat : ExistsSurjection(1..N, S)
  BY <1>1, FS_NatSurjection
<1>3. PICK f \in [1..N -> S] : \A b \in S : \E n \in 1..N : f[n] = b
  BY <1>2 DEF ExistsSurjection, Surjection
<1>4. \A b \in S : Height[b] \in Nat
  BY IndexStoreAssumption DEF Blocks
<1> DEFINE h(n) == Height[f[n]]
           P == {n \in 0..N : n = 0 \/ \E i \in 1..n : \A j \in 1..n : h(i) >= h(j)}
<1>5. \A n \in 1..N : h(n) \in Nat
  BY <1>4
<1>6. 0 \in P
  BY SMTT(30)
<1>7. ASSUME NEW n \in 1..N, n - 1 \in P PROVE n \in P
  <2> HIDE DEF h
  <2>1. n \in 0..N /\ n \in 1..n /\ 1..n = 1..(n - 1) \cup {n} /\ 1..n \subseteq 1..N
    BY SMTT(30)
  <2>2. CASE n - 1 = 0
    BY <1>5, <2>1, <2>2, SMTT(30)
  <2>3. CASE \E i \in 1..(n - 1) : \A j \in 1..(n - 1) : h(i) >= h(j)
    <3>1. PICK i \in 1..(n - 1) : \A j \in 1..(n - 1) : h(i) >= h(j)
      BY <2>3
    <3>2. h(i) \in Nat /\ h(n) \in Nat /\ \A j \in 1..n : h(j) \in Nat
      BY <1>5, <2>1
    <3>3. CASE h(i) >= h(n)
      BY <2>1, <3>1, <3>3
    <3>4. CASE ~(h(i) >= h(n))
      <4>1. \A j \in 1..n : h(n) >= h(j)
        BY <2>1, <3>1, <3>2, <3>4, SMTT(30)
      <4> QED BY <2>1, <4>1
    <3> QED BY <3>3, <3>4
  <2> QED BY <1>7, <2>2, <2>3
<1>8. N \in P
  <2>1. N \in 0..N
    BY SMTT(30)
  <2> HIDE DEF P
  <2> QED BY <1>6, <1>7, <2>1, Stepwise
<1>9. N # 0
  <2>1. PICK b : b \in S
    OBVIOUS
  <2>2. PICK n \in 1..N : f[n] = b
    BY <1>3, <2>1
  <2> QED BY <2>2, SMTT(30)
<1>10. PICK i \in 1..N : \A j \in 1..N : h(i) >= h(j)
  BY <1>8, <1>9
<1> DEFINE T == {Height[b] : b \in S}
<1>11. h(i) \in T /\ \A y \in T : h(i) >= y
  <2>1. f[i] \in S
    BY <1>3
  <2>2. ASSUME NEW b \in S PROVE h(i) >= Height[b]
    <3>1. PICK j \in 1..N : f[j] = b
      BY <1>3
    <3>2. h(i) >= h(j)
      BY <1>10
    <3> QED BY <3>1, <3>2
  <2> QED BY <2>1, <2>2
<1>12. Max(T) \in T
  <2> HIDE DEF T
  <2> QED BY <1>11 DEF Max
<1> QED BY <1>4, <1>12

-----------------------------------------------------------------------------
(***************************************************************************)
(* What other processes commit.                                             *)
(***************************************************************************)
\* The store that a commit leaves: sound, and with no row more of a block unless
\* all of the block is there.
Committable(st) ==
    /\ st \in Sound /\ st.rows \subseteq EthRows
    /\ \A b \in EthBlocks :
         \/ Complete(st, b)
         \/ \A k : Row(b, k) \in st.rows => Row(b, k) \in store.rows

\* IPLDPublisherAndIndexer commits a block as a whole, and takes no row from
\* another Ethereum block.
LEMMA WriterCommits ==
    ASSUME store \in Sound, store.rows \subseteq EthRows, NEW b \in EthBlocks
    PROVE  Committable(PublishedAndIndexed(store, b))
<1> DEFINE new == PublishedAndIndexed(store, b)
<1>1. b \in Blocks
  BY DEF Blocks
<1>2. new \in Sound /\ new.rows = RowsOf(b) \cup Kept(store.rows, b)
  BY <1>1, PublishedAndIndexedStore
<1> HIDE DEF new
<1>3. RowsOf(b) \subseteq EthRows /\ Kept(store.rows, b) \subseteq store.rows
  BY DEF EthRows, Kept
<1>4. new.rows \subseteq EthRows
  BY <1>2, <1>3
<1>5. Complete(new, b)
  <2>1. \A k \in Body(b) \cup {"header"} : Row(b, k) \in new.rows
    BY <1>2, RowOfBody
  <2> QED BY <1>2, <2>1, CompleteByRows
<1>6. ASSUME NEW c \in EthBlocks, c # b, NEW k, Row(c, k) \in new.rows
      PROVE  Row(c, k) \in store.rows
  <2>1. CASE Row(c, k) \in RowsOf(b)
    <3>1. Row(c, k).block = c /\ Row(c, k).block = b
      BY <1>1, <2>1, RowFields, RowOfBlock
    <3> QED BY <1>6, <3>1
  <2> QED BY <1>2, <1>3, <1>6, <2>1
<1>7. Committable(new)
  BY <1>2, <1>4, <1>5, <1>6 DEF Committable
<1> QED BY <1>7 DEF new

\* A clean takes rows, with those below them.
LEMMA CleanerCommits ==
    ASSUME store \in Sound, store.rows \subseteq EthRows, NEW c \in Cleanings
    PROVE  Committable(Cleaned(store, "eth", <<c.range>>, c.data))
<1> DEFINE rngs == <<c.range>>
           new == Cleaned(store, "eth", rngs, c.data)
<1>1. c.range \in Seq(Nat) /\ c.data \in EthTypes
  BY EthBackendAssumption
<1>2. rngs \in Seq(Seq(Nat))
  BY <1>1, SMTT(30)
<1> HIDE DEF rngs
<1>3. new \in CutAll(store, "eth", rngs)
  BY <1>1, <1>2, CleanedStore
<1> HIDE DEF new
<1>4. new \in Sound /\ new.rows \subseteq store.rows
  BY <1>3 DEF CutAll
<1>5. Committable(new)
  BY <1>4 DEF Committable
<1> QED BY <1>5 DEF new, rngs

-----------------------------------------------------------------------------
(***************************************************************************)
(* The inductive invariant.                                                 *)
(***************************************************************************)
\* The statements before a row was chosen, and those after all were.
Early == {"idle", "last", "headers", "transaction", "logs"}
Fetching == {"fetchHeader", "fetchUncles", "fetchTxs", "fetchRcts", "td"}

\* The statements of a method.
PathOf(m) ==
    {"idle", "answered", "error"} \cup
    CASE m = "header"      -> {"last", "headers", "fetchHeader", "td"}
      [] m = "transaction" -> {"transaction", "fetchTxs"}
      [] m = "logs"        -> {"logs", "fetchRcts"}
      [] OTHER             -> {"last", "headers", "uncles", "txs", "rcts"} \cup Fetching

PathInv ==
    /\ pc \in PathOf(req.method)
    /\ pc \in Early \cup {"uncles"} => found = {}
    /\ pc \in Early => block = NoBlock
    /\ pc \in Chosen => block \in EthBlocks
    /\ req.method = "logs" /\ pc \in Chosen => block = req.hash
    /\ req.method \in ByNumber /\ pc = "headers" => number \in Nat
    /\ OfBlock(req) /\ pc = "answered" => answer = block /\ found = Body(block)

\* What the histories say of the store.
StoreInv ==
    /\ store \in Sound
    /\ always \subseteq CompleteIn(store) /\ CompleteIn(store) \subseteq ever
    /\ \A b \in always : Header(b) \notin gone /\ Row(b, "tx") \notin gone

\* A block that was complete at no moment so far has a row that is still missing
\* and was not found.
MomentInv ==
    OfBlock(req) /\ pc \in Chosen =>
        block \in ever \/ \E k \in Body(block) : Row(block, k) \notin store.rows /\ k \notin found

\* Of a block that was complete all the time every statement found its rows.
KeptInv ==
    /\ OfBlock(req) /\ block \in always =>
         /\ pc = "txs" => found = Body(block) \cap {"uncle"}
         /\ pc = "rcts" => found = Body(block) \cap {"uncle", "tx"}
         /\ pc \in Fetching => found = Body(block)
         /\ pc \in {"txs", "rcts"} \cup Fetching /\ block \notin TwoUncles => inOrder
    /\ req.method = "logs" /\ pc \in Chosen /\ block \in always => found = Body(block) \cap {"rct"}

BackInv == TypeOK /\ PathInv /\ StoreInv /\ MomentInv /\ KeptInv /\ ErrorMeansMoved

\* The answer follows.
LEMMA BackInvAnswers == BackInv => AnswerMoment
<1> SUFFICES ASSUME BackInv, pc = "answered", OfBlock(req) PROVE answer \in ever
  BY DEF AnswerMoment
<1>1. answer = block /\ found = Body(block)
  BY DEF BackInv, PathInv
<1>2. pc \in Chosen
  BY DEF Chosen
<1> QED BY <1>1, <1>2 DEF BackInv, MomentInv

\* No request has begun; the foreign keys hold in the store that it finds.
LEMMA InitBackInv == Init => BackInv
<1> SUFFICES ASSUME Init PROVE BackInv
  OBVIOUS
<1> USE DEF Init
<1>1. /\ store \in [rows : SUBSET EthRows,
                     ipld : SUBSET UNION {KeysOf(b, DOMAIN Data[b]) : b \in EthBlocks},
                     tv : [Blocks -> 0..MaxValidated]]
      /\ ForeignKeysHold(store)
  BY EthBackendAssumption DEF EthRows
<1>2. store \in Sound /\ store.rows \subseteq EthRows
  <2>1. EthRows \subseteq AllRows
    BY DEF EthRows, AllRows, Blocks
  <2>2. UNION {KeysOf(b, DOMAIN Data[b]) : b \in EthBlocks} \subseteq AllKeys
    BY DEF AllKeys, Blocks
  <2>3. store \in AllStores /\ store.rows \subseteq EthRows
    BY <1>1, <2>1, <2>2, SMTT(30) DEF AllStores
  <2> QED BY <1>1, <2>3 DEF Sound
<1>3. TypeOK
  <2>1. 0 \in 0..MaxWrites
    BY EthBackendAssumption, SMTT(30)
  <2>2. CompleteIn(store) \subseteq EthBlocks
    BY DEF CompleteIn
  <2> QED BY <1>2, <2>1, <2>2 DEF TypeOK, EthRows
<1>4. PathInv
  BY DEF PathInv, PathOf, Chosen, Early
<1>5. StoreInv
  BY <1>2 DEF StoreInv
<1>6. MomentInv /\ ErrorMeansMoved
  BY DEF MomentInv, Chosen, ErrorMeansMoved
<1>7. KeptInv
  BY DEF KeptInv, Chosen, Fetching
<1> QED BY <1>3, <1>4, <1>5, <1>6, <1>7 DEF BackInv

\* A commit between two statements.
LEMMA CommitsBackInv == ASSUME BackInv, NEW st, Commits(st), Committable(st) PROVE BackInv'
<1> USE DEF BackInv
<1>1. /\ store' = st /\ gone' = gone \cup (store.rows \ st.rows)
      /\ always' = always \cap CompleteIn(st) /\ ever' = ever \cup CompleteIn(st)
      /\ UNCHANGED <<req, pc, number, block, found, inOrder, answer>>
      /\ pc \in Statements
  BY DEF Commits
<1>2. st \in Sound /\ st.rows \subseteq EthRows
  BY DEF Committable
<1>3. TypeOK'
  <2>1. writes' \in 0..MaxWrites
    <3>1. writes \in 0..MaxWrites /\ writes < MaxWrites /\ writes' = writes + 1
      BY DEF TypeOK, Commits
    <3>2. MaxWrites \in Nat
      BY EthBackendAssumption
    <3> QED BY <3>1, <3>2, SMTT(30)
  <2>2. store'.rows \subseteq EthRows /\ gone' \subseteq EthRows
    BY <1>1, <1>2 DEF TypeOK, EthRows
  <2>3. always' \subseteq ever' /\ ever' \subseteq EthBlocks
    BY <1>1 DEF TypeOK, CompleteIn
  <2>4. /\ number' \in Nat \cup {Latest, Pending} /\ block' \in EthBlocks \cup {NoBlock}
        /\ found' \subseteq {"uncle", "tx", "rct"} /\ inOrder' \in BOOLEAN
        /\ answer' \in EthBlocks \cup {NoBlock, Partial}
        /\ req' \in Requests /\ pc' \in Statements \cup {"idle", "answered", "error"}
    BY <1>1 DEF TypeOK
  <2> QED BY <2>1, <2>2, <2>3, <2>4 DEF TypeOK, EthRows
<1>4. PathInv'
  BY <1>1 DEF PathInv, OfBlock, Body
<1>5. StoreInv'
  <2>1. ASSUME NEW b \in always' PROVE Header(b) \notin gone' /\ Row(b, "tx") \notin gone'
    <3>1. b \in always /\ b \in EthBlocks /\ Complete(st, b) /\ Complete(store, b)
      BY <1>1 DEF StoreInv, CompleteIn
    <3>2. Header(b) \in st.rows
      BY <3>1 DEF Complete, Header
    <3>3. Row(b, "tx") \in store.rows => Row(b, "tx") \in st.rows
      <4> SUFFICES ASSUME Row(b, "tx") \in store.rows PROVE Row(b, "tx") \in st.rows
        OBVIOUS
      <4>1. Row(b, "tx") \in EthRows
        BY DEF TypeOK, EthRows
      <4>2. "tx" \in DOMAIN Data[b]
        BY <4>1, RowTells
      <4>3. "tx" \in Body(b)
        BY <4>2 DEF Body
      <4> QED BY <3>1, <4>3 DEF Complete
    <3> QED BY <1>1, <3>1, <3>2, <3>3 DEF StoreInv
  <2>2. always' \subseteq CompleteIn(store)' /\ CompleteIn(store)' \subseteq ever'
    <3>1. CompleteIn(store)' = CompleteIn(st)
      BY <1>1 DEF CompleteIn, Complete
    <3> QED BY <1>1, <3>1
  <2> QED BY <1>1, <1>2, <2>1, <2>2 DEF StoreInv
<1>6. MomentInv'
  <2> SUFFICES ASSUME OfBlock(req'), pc' \in Chosen
               PROVE  \/ block' \in ever'
                      \/ \E k \in Body(block') : Row(block', k) \notin store'.rows /\ k \notin found'
    BY DEF MomentInv, OfBlock
  <2>1. OfBlock(req) /\ pc \in Chosen
    BY <1>1 DEF OfBlock
  <2>2. block \in EthBlocks
    BY <2>1 DEF PathInv
  <2>3. CASE block \in ever
    BY <1>1, <2>3
  <2>4. CASE \E k \in Body(block) : Row(block, k) \notin store.rows /\ k \notin found
    <3>1. PICK k \in Body(block) : Row(block, k) \notin store.rows /\ k \notin found
      BY <2>4
    <3>2. CASE Complete(st, block)
      BY <1>1, <2>2, <3>2 DEF CompleteIn
    <3>3. CASE Row(block, k) \notin st.rows
      BY <1>1, <3>1, <3>3
    <3> QED BY <2>2, <3>1, <3>2, <3>3 DEF Committable
  <2> QED BY <2>1, <2>3, <2>4 DEF MomentInv
<1>7. KeptInv'
  <2>1. always' \subseteq always
    BY <1>1
  <2> QED BY <1>1, <2>1 DEF KeptInv, OfBlock, Body
<1>8. ErrorMeansMoved'
  BY <1>1 DEF ErrorMeansMoved, Statements
<1> QED BY <1>3, <1>4, <1>5, <1>6, <1>7, <1>8

-----------------------------------------------------------------------------
(***************************************************************************)
(* The statements of a request.                                             *)
(***************************************************************************)
\* They change nothing of the store.
Reads == UNCHANGED <<store, req, history>> /\ gone' \subseteq gone

\* What they read has its type, and the store stays as it is.
LEMMA ReadsTypeOK ==
    ASSUME BackInv, Reads, pc' \in Statements \cup {"answered", "error"},
           number' \in Nat \cup {Latest, Pending}, block' \in EthBlocks \cup {NoBlock},
           found' \subseteq {"uncle", "tx", "rct"}, inOrder' \in BOOLEAN,
           answer' \in EthBlocks \cup {NoBlock, Partial}
    PROVE  TypeOK' /\ StoreInv'
<1>1. /\ store' = store /\ req' = req /\ writes' = writes /\ always' = always /\ ever' = ever
      /\ gone' \subseteq gone
  BY DEF Reads, history
<1>2. TypeOK /\ StoreInv
  BY DEF BackInv
<1>3. TypeOK'
  BY <1>1, <1>2 DEF TypeOK
<1>4. CompleteIn(store)' = CompleteIn(store)
  BY <1>1 DEF CompleteIn, Complete
<1>5. StoreInv'
  BY <1>1, <1>2, <1>4 DEF StoreInv
<1> QED BY <1>3, <1>5

\* The methods.
LEMMA Methods ==
    ASSUME BackInv
    PROVE  /\ req.method \in {"header", "block", "blockByHash", "logs", "transaction"}
           /\ req.number \in Nat \cup {Latest, Pending}
           /\ req.method \in ByHash => req.hash \in EthBlocks
<1>1. req \in Requests
  BY DEF BackInv, TypeOK
<1> QED BY <1>1, EthBackendAssumption DEF ByNumber, ByHash

\* A request is sent on its way; the pending block is the only one refused.
LEMMA AskBackInv == ASSUME BackInv, Ask PROVE BackInv'
<1>1. /\ req.method \in {"header", "block", "blockByHash", "logs", "transaction"}
      /\ req.number \in Nat \cup {Latest, Pending}
  BY Methods
<1>2. /\ UNCHANGED <<store, req, block, found, inOrder, gone, answer, history>>
      /\ block = NoBlock /\ found = {}
  BY DEF Ask, BackInv, PathInv, Early
<1>3. /\ pc' \in PathOf(req.method) /\ pc' \in (Early \ {"idle"}) \cup {"error"}
      /\ number' \in Nat \cup {Latest, Pending}
      /\ req.method \in ByNumber /\ pc' = "headers" => number' \in Nat
      /\ pc' = "error" => number' = Pending
  BY <1>1 DEF Ask, PathOf, Early, Fetching, ByNumber
<1>4. TypeOK' /\ StoreInv'
  <2>1. Reads
    BY <1>2 DEF Reads
  <2>2. pc' \in Statements \cup {"answered", "error"}
    BY <1>3 DEF Early, Statements
  <2>3. /\ inOrder' \in BOOLEAN /\ answer' \in EthBlocks \cup {NoBlock, Partial}
        /\ block' \in EthBlocks \cup {NoBlock} /\ found' \subseteq {"uncle", "tx", "rct"}
    BY <1>2 DEF BackInv, TypeOK
  <2> QED BY <1>3, <2>1, <2>2, <2>3, ReadsTypeOK
<1>5. pc' \notin Chosen /\ pc' \notin Fetching /\ pc' # "txs" /\ pc' # "rcts" /\ pc' # "uncles"
      /\ pc' # "answered"
  BY <1>3 DEF Chosen, Fetching, Early
<1>6. PathInv'
  BY <1>2, <1>3, <1>5 DEF PathInv
<1>7. MomentInv' /\ KeptInv'
  BY <1>5 DEF MomentInv, KeptInv
<1>8. ErrorMeansMoved'
  BY <1>3, <1>5 DEF ErrorMeansMoved
<1> QED BY <1>4, <1>6, <1>7, <1>8 DEF BackInv

\* A block that is complete all the time has its header row.
LEMMA AlwaysThere ==
    ASSUME BackInv, NEW b \in always
    PROVE  /\ b \in EthBlocks /\ b \in Headers /\ Complete(store, b)
           /\ Header(b) \notin gone /\ Row(b, "tx") \notin gone
<1>1. b \in EthBlocks /\ Complete(store, b) /\ Header(b) \notin gone /\ Row(b, "tx") \notin gone
  BY DEF BackInv, StoreInv, CompleteIn
<1>2. Header(b) \in store.rows
  BY <1>1 DEF Complete, Header
<1> QED BY <1>1, <1>2 DEF Headers

\* There is a last block unless there is none.
LEMMA LastBackInv == ASSUME BackInv, RetrieveLastBlockNumber PROVE BackInv'
<1>1. /\ UNCHANGED <<store, req, block, found, inOrder, gone, answer, history>>
      /\ block = NoBlock /\ found = {} /\ pc = "last" /\ pc' \in {"error", "headers"}
  BY DEF RetrieveLastBlockNumber, BackInv, PathInv, Early
<1>2. number' \in Nat \cup {Latest, Pending} /\ (pc' = "headers" => number' \in Nat)
  <2>1. CASE Headers = {}
    BY <2>1 DEF RetrieveLastBlockNumber, BackInv, TypeOK
  <2>2. CASE Headers # {}
    <3>1. Headers \in SUBSET EthBlocks
      BY DEF Headers
    <3>2. number' = Max({Height[b] : b \in Headers})
      BY <2>2 DEF RetrieveLastBlockNumber
    <3>3. Max({Height[b] : b \in Headers}) \in Nat
      BY <2>2, <3>1, Highest
    <3> QED BY <3>2, <3>3
  <2> QED BY <2>1, <2>2
<1>3. pc' \in PathOf(req.method)
  <2>1. "last" \in PathOf(req.method)
    BY <1>1 DEF BackInv, PathInv
  <2>2. req.method \in {"header", "block", "blockByHash", "logs", "transaction"}
    BY Methods
  <2> QED BY <1>1, <2>1, <2>2 DEF PathOf
<1>4. TypeOK' /\ StoreInv'
  <2>1. Reads
    BY <1>1 DEF Reads
  <2>2. pc' \in Statements \cup {"answered", "error"}
    BY <1>1 DEF Statements
  <2>3. /\ inOrder' \in BOOLEAN /\ answer' \in EthBlocks \cup {NoBlock, Partial}
        /\ block' \in EthBlocks \cup {NoBlock} /\ found' \subseteq {"uncle", "tx", "rct"}
    BY <1>1 DEF BackInv, TypeOK
  <2> QED BY <1>2, <2>1, <2>2, <2>3, ReadsTypeOK
<1>5. pc' \notin Chosen /\ pc' \notin Fetching /\ pc' # "txs" /\ pc' # "rcts" /\ pc' # "uncles"
      /\ pc' # "answered"
  BY <1>1 DEF Chosen, Fetching
<1>6. PathInv'
  BY <1>1, <1>2, <1>3, <1>5 DEF PathInv
<1>7. MomentInv' /\ KeptInv'
  BY <1>5 DEF MomentInv, KeptInv
<1>8. ErrorMeansMoved'
  <2>1. pc' = "error" => always' = {}
    <3>1. pc' = "error" => Headers = {}
      BY DEF RetrieveLastBlockNumber
    <3>2. always' = always
      BY <1>1 DEF history
    <3> QED BY <3>1, <3>2, AlwaysThere
  <2>2. block' = NoBlock
    BY <1>1
  <2> QED BY <1>5, <2>1, <2>2 DEF ErrorMeansMoved
<1> QED BY <1>4, <1>6, <1>7, <1>8 DEF BackInv

\* RetrieveBlockByHash and RetrieveBlockByNumber: the header row is there for what
\* is complete all the time; a block with a header row is complete now or lacks a
\* row that is still to be looked for.
LEMMA HeaderBackInv == ASSUME BackInv, RetrieveHeaderCIDs PROVE BackInv'
<1> DEFINE there == {b \in Headers : IF req.method = "blockByHash" THEN b = req.hash
                                     ELSE Height[b] = number}
<1>1. /\ UNCHANGED <<store, req, number, found, inOrder, answer, history>> /\ gone' = {}
      /\ pc = "headers" /\ block = NoBlock /\ found = {}
      /\ \/ there = {} /\ pc' = "error" /\ block' = NoBlock
         \/ block' \in there /\ pc' = IF req.method = "header" THEN "fetchHeader" ELSE "uncles"
  BY DEF RetrieveHeaderCIDs, BackInv, PathInv, Early
<1>2. there \subseteq EthBlocks /\ there \subseteq Headers
  BY DEF Headers
<1>3. req.method \in {"header", "block", "blockByHash"}
  <2>1. "headers" \in PathOf(req.method)
    BY <1>1 DEF BackInv, PathInv
  <2>2. req.method \in {"header", "block", "blockByHash", "logs", "transaction"}
    BY Methods
  <2> QED BY <2>1, <2>2 DEF PathOf
<1>4. TypeOK' /\ StoreInv'
  <2>1. Reads
    BY <1>1 DEF Reads
  <2>2. pc' \in Statements \cup {"answered", "error"}
    BY <1>1 DEF Statements
  <2>3. block' \in EthBlocks \cup {NoBlock}
    BY <1>1, <1>2
  <2>4. /\ inOrder' \in BOOLEAN /\ answer' \in EthBlocks \cup {NoBlock, Partial}
        /\ found' \subseteq {"uncle", "tx", "rct"} /\ number' \in Nat \cup {Latest, Pending}
    BY <1>1 DEF BackInv, TypeOK
  <2> QED BY <2>1, <2>2, <2>3, <2>4, ReadsTypeOK
<1>5. PathInv'
  <2>1. pc' \in PathOf(req.method)
    BY <1>1, <1>3 DEF PathOf, Fetching
  <2>2. pc' \notin Early /\ pc' # "answered" /\ (pc' \in Chosen => block' \in EthBlocks)
    BY <1>1, <1>2 DEF Early, Chosen
  <2>3. req'.method # "logs" /\ pc' # "headers" /\ req' = req /\ found' = {}
    BY <1>1, <1>3
  <2> QED BY <2>1, <2>2, <2>3 DEF PathInv
<1>6. MomentInv'
  <2> SUFFICES ASSUME pc' \in Chosen
               PROVE  \/ block' \in ever'
                      \/ \E k \in Body(block') : Row(block', k) \notin store'.rows /\ k \notin found'
    BY DEF MomentInv
  <2>1. block' \in EthBlocks /\ Header(block') \in store.rows
    BY <1>1 DEF Headers, Chosen
  <2>2. store \in Sound /\ CompleteIn(store) \subseteq ever
    BY DEF BackInv, StoreInv
  <2>3. Complete(store, block') \/ \E k \in Body(block') : Row(block', k) \notin store.rows
    BY <2>1, <2>2, CompleteOrMissing
  <2>4. found' = {} /\ store' = store /\ ever' = ever
    BY <1>1 DEF history
  <2> QED BY <2>1, <2>2, <2>3, <2>4 DEF CompleteIn
<1>7. KeptInv'
  <2>1. pc' # "txs" /\ pc' # "rcts" /\ (OfBlock(req') => pc' \notin Fetching) /\ req'.method # "logs"
    BY <1>1, <1>3 DEF OfBlock, Fetching
  <2> QED BY <2>1 DEF KeptInv, OfBlock
<1>8. ErrorMeansMoved'
  <2>1. pc' # "answered"
    BY <1>1
  <2>2. ASSUME pc' = "error", NEW b \in always
        PROVE  IF req.method = "blockByHash" THEN b # req.hash ELSE number >= 0 /\ Height[b] # number
    <3>1. b \in Headers /\ b \notin there
      BY <1>1, <2>2, AlwaysThere
    <3>2. req.method # "blockByHash" => number \in Nat
      BY <1>1, <1>3 DEF BackInv, PathInv, ByNumber
    <3>3. number \in Nat => number >= 0
      BY SMTT(30)
    <3> QED BY <3>1, <3>2, <3>3
  <2>3. pc' = "error" => block' = NoBlock
    BY <1>1
  <2>4. req' = req /\ number' = number /\ always' = always /\ req.method # "transaction"
    BY <1>1, <1>3 DEF history
  <2> QED BY <2>1, <2>2, <2>3, <2>4 DEF ErrorMeansMoved
<1> QED BY <1>4, <1>5, <1>6, <1>7, <1>8 DEF BackInv

\* A row below the header is one that the block has.
LEMMA BelowTells ==
    ASSUME BackInv, NEW k \in {"uncle", "tx", "rct"}, Row(block, k) \in store.rows
    PROVE  k \in Body(block)
<1>1. Row(block, k) \in EthRows
  BY DEF BackInv, TypeOK, EthRows
<1>2. k \in DOMAIN Data[block]
  BY <1>1, RowTells
<1> QED BY <1>2 DEF Body

\* The rows of a block that is complete all the time are found.
LEMMA BelowAlways ==
    ASSUME BackInv, block \in always, NEW k \in {"uncle", "tx", "rct"}
    PROVE  /\ Row(block, k) \in store.rows <=> k \in Body(block)
           /\ Below(k) <=> k \in Body(block)
<1>1. Complete(store, block) /\ Header(block) \notin gone
  BY AlwaysThere
<1>2. k \in Body(block) => Row(block, k) \in store.rows
  BY <1>1 DEF Complete
<1>3. Row(block, k) \in store.rows <=> k \in Body(block)
  BY <1>2, BelowTells
<1> QED BY <1>1, <1>3 DEF Below

\* The methods that read all rows of a block.
LEMMA OfBlockOnly ==
    ASSUME BackInv, pc \in {"uncles", "txs", "rcts", "fetchUncles"}
    PROVE  /\ OfBlock(req) /\ req.method \notin {"header", "logs", "transaction"}
           /\ PathOf(req.method) = {"idle", "answered", "error"} \cup
                {"last", "headers", "uncles", "txs", "rcts"} \cup Fetching
           /\ block \in EthBlocks
<1>1. pc \in PathOf(req.method) /\ (pc \in Chosen => block \in EthBlocks)
  BY DEF BackInv, PathInv
<1>2. req.method \in {"header", "block", "blockByHash", "logs", "transaction"}
  BY Methods
<1>3. req.method \notin {"header", "logs", "transaction"}
  BY <1>1 DEF PathOf
<1> QED BY <1>1, <1>2, <1>3 DEF PathOf, OfBlock, Chosen

\* RetrieveUncleCIDsByHeaderID.
LEMMA UncleBackInv == ASSUME BackInv, RetrieveUncleCIDsByHeaderID PROVE BackInv'
<1>1. /\ UNCHANGED <<store, req, number, block, gone, answer, history>>
      /\ pc = "uncles" /\ pc' = "txs" /\ found' = IF Below("uncle") THEN {"uncle"} ELSE {}
      /\ inOrder' \in IF Below("uncle") /\ block \in TwoUncles THEN BOOLEAN ELSE {TRUE}
  BY DEF RetrieveUncleCIDsByHeaderID
<1>2. /\ OfBlock(req) /\ req.method \notin {"header", "logs", "transaction"} /\ block \in EthBlocks
      /\ pc' \in PathOf(req.method)
  BY <1>1, OfBlockOnly
<1>3. TypeOK' /\ StoreInv'
  <2>1. Reads
    BY <1>1 DEF Reads
  <2>2. pc' \in Statements \cup {"answered", "error"} /\ inOrder' \in BOOLEAN
    BY <1>1 DEF Statements
  <2>3. /\ block' \in EthBlocks \cup {NoBlock} /\ answer' \in EthBlocks \cup {NoBlock, Partial}
        /\ found' \subseteq {"uncle", "tx", "rct"} /\ number' \in Nat \cup {Latest, Pending}
    BY <1>1 DEF BackInv, TypeOK
  <2> QED BY <2>1, <2>2, <2>3, ReadsTypeOK
<1>4. PathInv'
  BY <1>1, <1>2 DEF PathInv, Early, Chosen
<1>5. MomentInv'
  <2>1. \/ block \in ever
        \/ \E k \in Body(block) : Row(block, k) \notin store.rows /\ k \notin found
    BY <1>1, <1>2 DEF BackInv, MomentInv, Chosen
  <2>2. ASSUME NEW k, Row(block, k) \notin store.rows, k \notin found PROVE k \notin found'
    BY <1>1, <2>2 DEF Below
  <2>3. block' = block /\ ever' = ever /\ store' = store
    BY <1>1 DEF history
  <2> QED BY <2>1, <2>2, <2>3 DEF MomentInv, Body
<1>6. KeptInv'
  <2>1. block \in always => found' = Body(block) \cap {"uncle"} /\ (block \notin TwoUncles => inOrder')
    BY <1>1, BelowAlways
  <2>2. block' = block /\ always' = always /\ pc' = "txs" /\ req' = req /\ req.method # "logs"
    BY <1>1, <1>2 DEF history
  <2> QED BY <2>1, <2>2 DEF KeptInv, Fetching, Body
<1>7. ErrorMeansMoved'
  BY <1>1 DEF ErrorMeansMoved
<1> QED BY <1>3, <1>4, <1>5, <1>6, <1>7 DEF BackInv

\* RetrieveTxCIDsByHeaderID.
LEMMA TxBackInv == ASSUME BackInv, RetrieveTxCIDsByHeaderID PROVE BackInv'
<1>1. /\ UNCHANGED <<store, req, number, block, inOrder, answer, history>>
      /\ pc = "txs" /\ pc' = "rcts" /\ gone' \subseteq gone
      /\ found' = found \cup IF Below("tx") THEN {"tx"} ELSE {}
  BY DEF RetrieveTxCIDsByHeaderID
<1>2. /\ OfBlock(req) /\ req.method \notin {"header", "logs", "transaction"} /\ block \in EthBlocks
      /\ pc' \in PathOf(req.method)
  BY <1>1, OfBlockOnly
<1>3. TypeOK' /\ StoreInv'
  <2>1. Reads
    BY <1>1 DEF Reads
  <2>2. pc' \in Statements \cup {"answered", "error"}
    BY <1>1 DEF Statements
  <2>3. /\ block' \in EthBlocks \cup {NoBlock} /\ answer' \in EthBlocks \cup {NoBlock, Partial}
        /\ inOrder' \in BOOLEAN /\ number' \in Nat \cup {Latest, Pending}
        /\ found \subseteq {"uncle", "tx", "rct"}
    BY <1>1 DEF BackInv, TypeOK
  <2>4. found' \subseteq {"uncle", "tx", "rct"}
    BY <1>1, <2>3
  <2> QED BY <2>1, <2>2, <2>3, <2>4, ReadsTypeOK
<1>4. PathInv'
  BY <1>1, <1>2 DEF PathInv, Early, Chosen
<1>5. MomentInv'
  <2>1. \/ block \in ever
        \/ \E k \in Body(block) : Row(block, k) \notin store.rows /\ k \notin found
    BY <1>1, <1>2 DEF BackInv, MomentInv, Chosen
  <2>2. ASSUME NEW k, Row(block, k) \notin store.rows, k \notin found PROVE k \notin found'
    BY <1>1, <2>2 DEF Below
  <2>3. block' = block /\ ever' = ever /\ store' = store
    BY <1>1 DEF history
  <2> QED BY <2>1, <2>2, <2>3 DEF MomentInv, Body
<1>6. KeptInv'
  <2>1. ASSUME block \in always
        PROVE  found' = Body(block) \cap {"uncle", "tx"} /\ (block \notin TwoUncles => inOrder')
    <3>1. found = Body(block) \cap {"uncle"} /\ (block \notin TwoUncles => inOrder)
      BY <1>1, <1>2, <2>1 DEF BackInv, KeptInv
    <3>2. Below("tx") <=> "tx" \in Body(block)
      BY <2>1, BelowAlways
    <3> HIDE DEF Below
    <3> QED BY <1>1, <3>1, <3>2
  <2>2. block' = block /\ always' = always /\ pc' = "rcts" /\ req' = req /\ req.method # "logs"
    BY <1>1, <1>2 DEF history
  <2> QED BY <2>1, <2>2 DEF KeptInv, Fetching, Body
<1>7. ErrorMeansMoved'
  BY <1>1 DEF ErrorMeansMoved
<1> QED BY <1>3, <1>4, <1>5, <1>6, <1>7 DEF BackInv

\* RetrieveReceiptCIDsByTxIDs finds the receipts of the transactions found.
LEMMA RctBackInv == ASSUME BackInv, RetrieveReceiptCIDsByTxIDs PROVE BackInv'
<1> DEFINE there == /\ "tx" \in found /\ Row(block, "tx") \notin gone
                    /\ Row(block, "rct") \in store.rows
<1>1. /\ UNCHANGED <<store, req, number, block, inOrder, gone, answer, history>>
      /\ pc = "rcts" /\ pc' = "fetchHeader"
      /\ found' = found \cup IF there THEN {"rct"} ELSE {}
  BY DEF RetrieveReceiptCIDsByTxIDs
<1>2. /\ OfBlock(req) /\ req.method \notin {"header", "logs", "transaction"} /\ block \in EthBlocks
      /\ pc' \in PathOf(req.method)
  BY <1>1, OfBlockOnly DEF Fetching
<1>3. TypeOK' /\ StoreInv'
  <2>1. Reads
    BY <1>1 DEF Reads
  <2>2. pc' \in Statements \cup {"answered", "error"}
    BY <1>1 DEF Statements
  <2>3. /\ block' \in EthBlocks \cup {NoBlock} /\ answer' \in EthBlocks \cup {NoBlock, Partial}
        /\ inOrder' \in BOOLEAN /\ number' \in Nat \cup {Latest, Pending}
        /\ found \subseteq {"uncle", "tx", "rct"}
    BY <1>1 DEF BackInv, TypeOK
  <2>4. found' \subseteq {"uncle", "tx", "rct"}
    BY <1>1, <2>3
  <2> QED BY <2>1, <2>2, <2>3, <2>4, ReadsTypeOK
<1>4. PathInv'
  BY <1>1, <1>2 DEF PathInv, Early, Chosen
<1>5. MomentInv'
  <2>1. \/ block \in ever
        \/ \E k \in Body(block) : Row(block, k) \notin store.rows /\ k \notin found
    BY <1>1, <1>2 DEF BackInv, MomentInv, Chosen
  <2>2. ASSUME NEW k, Row(block, k) \notin store.rows, k \notin found PROVE k \notin found'
    BY <1>1, <2>2
  <2>3. block' = block /\ ever' = ever /\ store' = store
    BY <1>1 DEF history
  <2> QED BY <2>1, <2>2, <2>3 DEF MomentInv, Body
<1>6. KeptInv'
  <2>1. ASSUME block \in always
        PROVE  found' = Body(block) /\ (block \notin TwoUncles => inOrder')
    <3>1. /\ found = Body(block) \cap {"uncle", "tx"} /\ (block \notin TwoUncles => inOrder)
      BY <1>1, <1>2, <2>1 DEF BackInv, KeptInv
    <3>2. there <=> "rct" \in Body(block)
      <4>1. Row(block, "rct") \in store.rows <=> "rct" \in Body(block)
        BY <2>1, BelowAlways
      <4>2. Row(block, "tx") \notin gone
        BY <2>1, AlwaysThere
      <4>3. "rct" \in Body(block) => "tx" \in Body(block)
        BY <1>2, RctHasTx
      <4> QED BY <3>1, <4>1, <4>2, <4>3
    <3>3. Body(block) \subseteq {"uncle", "tx", "rct"}
      BY DEF Body
    <3> HIDE DEF there
    <3> QED BY <1>1, <3>1, <3>2, <3>3
  <2>2. block' = block /\ always' = always /\ pc' = "fetchHeader" /\ req' = req /\ req.method # "logs"
    BY <1>1, <1>2 DEF history
  <2> QED BY <2>1, <2>2 DEF KeptInv, Fetching, Body
<1>7. ErrorMeansMoved'
  BY <1>1 DEF ErrorMeansMoved
<1> QED BY <1>3, <1>4, <1>5, <1>6, <1>7 DEF BackInv

\* GetTransaction: a transaction of a block that is complete all the time is found.
LEMMA TransactionBackInv == ASSUME BackInv, RetrieveTransaction PROVE BackInv'
<1> DEFINE there == {b \in Headers : Row(b, "tx") \in store.rows /\ MhKey(Row(b, "tx")) = req.tx}
<1>1. /\ UNCHANGED <<store, req, number, inOrder, gone, answer, history>>
      /\ pc = "transaction" /\ block = NoBlock
      /\ \/ there = {} /\ pc' = "error" /\ block' = NoBlock /\ found' = found
         \/ block' \in there /\ found' = {"tx"} /\ pc' = "fetchTxs"
  BY DEF RetrieveTransaction, BackInv, PathInv, Early
<1>2. req.method = "transaction"
  <2>1. "transaction" \in PathOf(req.method)
    BY <1>1 DEF BackInv, PathInv
  <2>2. req.method \in {"header", "block", "blockByHash", "logs", "transaction"}
    BY Methods
  <2> QED BY <2>1, <2>2 DEF PathOf, Fetching
<1>3. there \subseteq EthBlocks
  BY DEF Headers
<1>4. TypeOK' /\ StoreInv'
  <2>1. Reads
    BY <1>1 DEF Reads
  <2>2. pc' \in Statements \cup {"answered", "error"}
    BY <1>1 DEF Statements
  <2>3. block' \in EthBlocks \cup {NoBlock}
    BY <1>1, <1>3
  <2>4. /\ inOrder' \in BOOLEAN /\ answer' \in EthBlocks \cup {NoBlock, Partial}
        /\ number' \in Nat \cup {Latest, Pending} /\ found \subseteq {"uncle", "tx", "rct"}
    BY <1>1 DEF BackInv, TypeOK
  <2>5. found' \subseteq {"uncle", "tx", "rct"}
    BY <1>1, <2>4
  <2> QED BY <2>1, <2>2, <2>3, <2>4, <2>5, ReadsTypeOK
<1>5. ~OfBlock(req') /\ req' = req
  BY <1>1, <1>2 DEF OfBlock
<1>6. PathInv'
  <2>1. pc' \in PathOf(req.method)
    BY <1>1, <1>2 DEF PathOf
  <2>2. pc' \notin Early \cup {"uncles"} /\ pc' # "headers" /\ (pc' \in Chosen => block' \in EthBlocks)
    BY <1>1, <1>3 DEF Early, Chosen
  <2> QED BY <1>2, <1>5, <2>1, <2>2 DEF PathInv, OfBlock
<1>7. MomentInv' /\ KeptInv'
  BY <1>2, <1>5 DEF MomentInv, KeptInv, OfBlock
<1>8. ErrorMeansMoved'
  <2>1. ASSUME pc' = "error", NEW b \in always, "tx" \in Body(b) PROVE Data[b].tx # req.tx
    <3>1. b \in EthBlocks /\ b \in Headers /\ Complete(store, b) /\ there = {}
      BY <1>1, <2>1, AlwaysThere
    <3>2. Row(b, "tx") \in store.rows
      BY <2>1, <3>1 DEF Complete
    <3>3. MhKey(Row(b, "tx")) = Data[b]["tx"]
      BY <2>1, <3>1, RowOfBody
    <3> QED BY <3>1, <3>2, <3>3
  <2>2. pc' # "answered" /\ (pc' = "error" => block' = NoBlock) /\ always' = always
    BY <1>1 DEF history
  <2>3. req'.method = "transaction" /\ req'.method # "blockByHash" /\ req' = req
    BY <1>2, <1>5
  <2> QED BY <2>1, <2>2, <2>3 DEF ErrorMeansMoved, Body
<1> QED BY <1>4, <1>6, <1>7, <1>8 DEF BackInv

\* GetLogs of a block hash.
LEMMA LogsBackInv == ASSUME BackInv, RetrieveRctCIDs PROVE BackInv'
<1>1. /\ UNCHANGED <<store, req, number, inOrder, gone, answer, history>>
      /\ pc = "logs" /\ pc' = "fetchRcts" /\ block' = req.hash
      /\ found' = {"rct"} \cap {k \in Body(req.hash) : Row(req.hash, k) \in store.rows}
  BY DEF RetrieveRctCIDs
<1>2. req.method = "logs" /\ req.hash \in EthBlocks
  <2>1. "logs" \in PathOf(req.method)
    BY <1>1 DEF BackInv, PathInv
  <2>2. /\ req.method \in {"header", "block", "blockByHash", "logs", "transaction"}
        /\ req.method \in ByHash => req.hash \in EthBlocks
    BY Methods
  <2> QED BY <2>1, <2>2 DEF PathOf, Fetching, ByHash
<1>3. TypeOK' /\ StoreInv'
  <2>1. Reads
    BY <1>1 DEF Reads
  <2>2. /\ pc' \in Statements \cup {"answered", "error"} /\ found' \subseteq {"uncle", "tx", "rct"}
        /\ block' \in EthBlocks \cup {NoBlock}
    BY <1>1, <1>2 DEF Statements
  <2>3. /\ inOrder' \in BOOLEAN /\ answer' \in EthBlocks \cup {NoBlock, Partial}
        /\ number' \in Nat \cup {Latest, Pending}
    BY <1>1 DEF BackInv, TypeOK
  <2> QED BY <2>1, <2>2, <2>3, ReadsTypeOK
<1>4. ~OfBlock(req') /\ req' = req
  BY <1>1, <1>2 DEF OfBlock
<1>5. PathInv'
  <2>1. pc' \in PathOf(req.method)
    BY <1>1, <1>2 DEF PathOf
  <2>2. pc' \notin Early \cup {"uncles"} /\ pc' # "headers" /\ block' \in EthBlocks /\ block' = req.hash
    BY <1>1, <1>2 DEF Early
  <2> QED BY <1>2, <1>4, <2>1, <2>2 DEF PathInv, OfBlock
<1>6. KeptInv'
  <2>1. ASSUME req.hash \in always PROVE found' = Body(req.hash) \cap {"rct"}
    <3>1. Complete(store, req.hash)
      BY <2>1, AlwaysThere
    <3> QED BY <1>1, <3>1 DEF Complete
  <2>2. block' = req.hash /\ always' = always
    BY <1>1 DEF history
  <2> QED BY <1>4, <2>1, <2>2 DEF KeptInv, OfBlock, Body
<1>7. MomentInv' /\ ErrorMeansMoved'
  BY <1>1, <1>4 DEF MomentInv, ErrorMeansMoved, OfBlock
<1> QED BY <1>3, <1>5, <1>6, <1>7 DEF BackInv

\* A statement that fetches data fails only if some of the block's is missing.
LEMMA FetchBackInv ==
    ASSUME BackInv, NEW at \in Fetching, NEW kinds \in SUBSET {"header", "uncle", "tx", "rct"},
           NEW next \in (PathOf(req.method) \cap Fetching) \cup {"answered"},
           OfBlock(req) => next # "answered",
           FetchIPLD(at, kinds, next)
    PROVE  BackInv'
<1>1. /\ store' = store /\ req' = req /\ number' = number /\ block' = block /\ found' = found
      /\ inOrder' = inOrder /\ gone' = gone /\ always' = always /\ ever' = ever /\ writes' = writes
      /\ pc = at /\ pc' = IF KeysOf(block, kinds) \subseteq store.ipld THEN next ELSE "error"
      /\ answer' = IF pc' = "answered" THEN block ELSE answer
  BY DEF FetchIPLD, reading, history
<1>2. pc \in Chosen /\ block \in EthBlocks
  BY <1>1 DEF BackInv, PathInv, Fetching, Chosen
<1>3. pc' \in Fetching \cup {"answered", "error"} /\ pc' \in PathOf(req.method)
  BY <1>1 DEF PathOf
<1>4. TypeOK' /\ StoreInv'
  <2>1. Reads
    BY <1>1 DEF Reads, history
  <2>2. pc' \in Statements \cup {"answered", "error"}
    BY <1>3 DEF Statements, Fetching
  <2>3. /\ inOrder' \in BOOLEAN /\ block' \in EthBlocks \cup {NoBlock}
        /\ number' \in Nat \cup {Latest, Pending} /\ found' \subseteq {"uncle", "tx", "rct"}
        /\ answer \in EthBlocks \cup {NoBlock, Partial}
    BY <1>1 DEF BackInv, TypeOK
  <2>4. answer' \in EthBlocks \cup {NoBlock, Partial}
    BY <1>1, <1>2, <2>3
  <2> QED BY <2>1, <2>2, <2>3, <2>4, ReadsTypeOK
<1>5. PathInv'
  <2>1. pc' \notin Early \cup {"uncles"} /\ pc' # "headers"
    BY <1>3 DEF Fetching, Early
  <2>2. req.method = "logs" => block = req.hash
    BY <1>2 DEF BackInv, PathInv
  <2>3. OfBlock(req) => pc' # "answered"
    BY <1>1
  <2> QED BY <1>1, <1>2, <1>3, <2>1, <2>2, <2>3 DEF PathInv, OfBlock
<1>6. MomentInv'
  <2>1. OfBlock(req) => \/ block \in ever
                        \/ \E k \in Body(block) : Row(block, k) \notin store.rows /\ k \notin found
    BY <1>2 DEF BackInv, MomentInv
  <2> QED BY <1>1, <2>1 DEF MomentInv, OfBlock, Body
<1>7. req.method = "logs" /\ block \in always => found = Body(block) \cap {"rct"}
  BY <1>2 DEF BackInv, KeptInv
<1>8. KeptInv'
  <2>1. OfBlock(req) /\ block \in always => found = Body(block) /\ (block \notin TwoUncles => inOrder)
    BY <1>1 DEF BackInv, KeptInv
  <2>2. pc' # "txs" /\ pc' # "rcts"
    BY <1>3 DEF Fetching
  <2> QED BY <1>1, <1>7, <2>1, <2>2 DEF KeptInv, OfBlock, Body
<1>9. ErrorMeansMoved'
  <2>1. pc' = "error" => block \notin always
    <3> SUFFICES ASSUME pc' = "error", block \in always PROVE FALSE
      OBVIOUS
    <3>1. Complete(store, block)
      BY AlwaysThere
    <3>2. KeysOf(block, kinds) \subseteq store.ipld
      BY <3>1, CompleteKeys
    <3> QED BY <1>1, <1>3, <3>2 DEF Fetching
  <2>2. block # NoBlock
    BY <1>2, EthBackendAssumption
  <2>3. req.method = "logs" => block = req.hash
    BY <1>2 DEF BackInv, PathInv
  <2> QED BY <1>1, <1>7, <2>1, <2>2, <2>3 DEF ErrorMeansMoved, Body
<1> QED BY <1>4, <1>5, <1>6, <1>8, <1>9 DEF BackInv

\* Each of them fetches data of the block that was chosen.
LEMMA FetchesBackInv ==
    ASSUME BackInv, FetchHeader \/ FetchUncles \/ FetchTrxs \/ FetchRcts
    PROVE  BackInv'
<1>1. /\ req.method \in {"header", "block", "blockByHash", "logs", "transaction"}
      /\ pc \in PathOf(req.method)
  BY Methods DEF BackInv, PathInv
<1>2. CASE FetchHeader
  <2> DEFINE next == IF req.method = "header" THEN "td" ELSE "fetchUncles"
  <2>1. FetchIPLD("fetchHeader", {"header"}, next)
    BY <1>2 DEF FetchHeader
  <2>2. pc = "fetchHeader"
    BY <2>1 DEF FetchIPLD
  <2>3. next \in (PathOf(req.method) \cap Fetching) \cup {"answered"} /\ next # "answered"
    BY <1>1, <2>2 DEF PathOf, Fetching
  <2>4. "fetchHeader" \in Fetching
    BY DEF Fetching
  <2> HIDE DEF next
  <2> QED BY <2>1, <2>3, <2>4, FetchBackInv
<1>3. CASE FetchUncles
  <2>1. FetchIPLD("fetchUncles", found \cap {"uncle"}, "fetchTxs")
    BY <1>3 DEF FetchUncles
  <2>2. pc = "fetchUncles"
    BY <2>1 DEF FetchIPLD
  <2>3. "fetchTxs" \in (PathOf(req.method) \cap Fetching) \cup {"answered"}
    BY <1>1, <2>2 DEF PathOf, Fetching
  <2>4. "fetchUncles" \in Fetching /\ found \cap {"uncle"} \in SUBSET {"header", "uncle", "tx", "rct"}
    BY DEF Fetching
  <2> QED BY <2>1, <2>3, <2>4, FetchBackInv
<1>4. CASE FetchTrxs
  <2> DEFINE next == IF req.method = "transaction" THEN "answered" ELSE "fetchRcts"
  <2>1. FetchIPLD("fetchTxs", found \cap {"tx"}, next)
    BY <1>4 DEF FetchTrxs
  <2>2. pc = "fetchTxs"
    BY <2>1 DEF FetchIPLD
  <2>3. next \in (PathOf(req.method) \cap Fetching) \cup {"answered"}
    BY <1>1, <2>2 DEF PathOf, Fetching
  <2>4. "fetchTxs" \in Fetching /\ found \cap {"tx"} \in SUBSET {"header", "uncle", "tx", "rct"}
    BY DEF Fetching
  <2>5. OfBlock(req) => next # "answered"
    BY DEF OfBlock
  <2> HIDE DEF next
  <2> QED BY <2>1, <2>3, <2>4, <2>5, FetchBackInv
<1>5. CASE FetchRcts
  <2> DEFINE next == IF req.method = "logs" THEN "answered" ELSE "td"
  <2>1. FetchIPLD("fetchRcts", found \cap {"rct"}, next)
    BY <1>5 DEF FetchRcts
  <2>2. pc = "fetchRcts"
    BY <2>1 DEF FetchIPLD
  <2>3. next \in (PathOf(req.method) \cap Fetching) \cup {"answered"}
    BY <1>1, <2>2 DEF PathOf, Fetching
  <2>4. "fetchRcts" \in Fetching /\ found \cap {"rct"} \in SUBSET {"header", "uncle", "tx", "rct"}
    BY DEF Fetching
  <2>5. OfBlock(req) => next # "answered"
    BY DEF OfBlock
  <2> HIDE DEF next
  <2> QED BY <2>1, <2>3, <2>4, <2>5, FetchBackInv
<1> QED BY <1>2, <1>3, <1>4, <1>5

\* A block whose rows were all found has the hash of its header row.
LEMMA GetTdBackInv == ASSUME BackInv, GetTd PROVE BackInv'
<1>1. /\ store' = store /\ req' = req /\ number' = number /\ block' = block /\ found' = found
      /\ inOrder' = inOrder /\ gone' = gone /\ always' = always /\ ever' = ever /\ writes' = writes
      /\ pc = "td" /\ IF Marshalled \in Headers THEN pc' = "answered" /\ answer' = Marshalled
                      ELSE pc' = "error" /\ answer' = answer
  BY DEF GetTd, reading, history
<1>2. pc \in Chosen /\ pc \in Fetching /\ block \in EthBlocks /\ pc' \in {"answered", "error"}
  BY <1>1 DEF BackInv, PathInv, Fetching, Chosen
<1>3. req.method \in {"header", "block", "blockByHash"}
  <2>1. "td" \in PathOf(req.method)
    BY <1>1 DEF BackInv, PathInv
  <2>2. req.method \in {"header", "block", "blockByHash", "logs", "transaction"}
    BY Methods
  <2> QED BY <2>1, <2>2 DEF PathOf
<1>4. TypeOK' /\ StoreInv'
  <2>1. Reads
    BY <1>1 DEF Reads, history
  <2>2. pc' \in Statements \cup {"answered", "error"}
    BY <1>2
  <2>3. /\ inOrder' \in BOOLEAN /\ block' \in EthBlocks \cup {NoBlock}
        /\ number' \in Nat \cup {Latest, Pending} /\ found' \subseteq {"uncle", "tx", "rct"}
        /\ answer \in EthBlocks \cup {NoBlock, Partial}
    BY <1>1 DEF BackInv, TypeOK
  <2>4. answer' \in EthBlocks \cup {NoBlock, Partial}
    BY <1>1, <2>3 DEF Headers
  <2> QED BY <2>1, <2>2, <2>3, <2>4, ReadsTypeOK
<1>5. PathInv'
  <2>1. pc' \notin Early \cup {"uncles"} /\ pc' # "headers" /\ pc' \in PathOf(req.method)
    BY <1>2 DEF Early, PathOf
  <2>2. OfBlock(req) /\ pc' = "answered" => answer' = block /\ found = Body(block)
    BY AnswersBlock
  <2> QED BY <1>1, <1>2, <1>3, <2>1, <2>2 DEF PathInv, OfBlock, Body
<1>6. MomentInv'
  <2>1. OfBlock(req) => \/ block \in ever
                        \/ \E k \in Body(block) : Row(block, k) \notin store.rows /\ k \notin found
    BY <1>2 DEF BackInv, MomentInv
  <2> QED BY <1>1, <2>1 DEF MomentInv, OfBlock, Body
<1>7. KeptInv'
  <2>1. pc' # "txs" /\ pc' # "rcts" /\ pc' \notin Fetching /\ req'.method # "logs"
    BY <1>1, <1>2, <1>3 DEF Fetching
  <2> QED BY <2>1 DEF KeptInv
<1>8. ErrorMeansMoved'
  <2>1. ASSUME pc' = "error", block \in always
        PROVE  OfBlock(req) /\ block \in TwoUncles /\ ~inOrder
    <3>1. block \in Headers
      BY <2>1, AlwaysThere
    <3>2. Marshalled # block
      BY <1>1, <2>1, <3>1
    <3>3. OfBlock(req)
      BY <1>3, <3>2 DEF Marshalled, OfBlock
    <3>4. found = Body(block) /\ (block \notin TwoUncles => inOrder)
      BY <1>2, <2>1, <3>3 DEF BackInv, KeptInv
    <3>5. ~inOrder
      BY <3>2, <3>4 DEF Marshalled, NewBlock
    <3> QED BY <3>3, <3>4, <3>5
  <2>2. block # NoBlock /\ req.method # "logs"
    BY <1>2, <1>3, EthBackendAssumption
  <2> QED BY <1>1, <2>1, <2>2 DEF ErrorMeansMoved
<1> QED BY <1>4, <1>5, <1>6, <1>7, <1>8 DEF BackInv

\* Nothing happens.
LEMMA StutterBackInv == ASSUME BackInv, UNCHANGED vars PROVE BackInv'
<1>1. /\ store' = store /\ req' = req /\ number' = number /\ block' = block /\ found' = found
      /\ inOrder' = inOrder /\ gone' = gone /\ always' = always /\ ever' = ever /\ writes' = writes
      /\ pc' = pc /\ answer' = answer
  BY DEF vars
<1>2. TypeOK'
  BY <1>1 DEF BackInv, TypeOK
<1>3. PathInv'
  BY <1>1 DEF BackInv, PathInv, OfBlock, Body
<1>4. StoreInv'
  BY <1>1 DEF BackInv, StoreInv, CompleteIn, Complete
<1>5. MomentInv'
  BY <1>1 DEF BackInv, MomentInv, OfBlock, Body
<1>6. KeptInv'
  BY <1>1 DEF BackInv, KeptInv, OfBlock, Body
<1>7. ErrorMeansMoved'
  BY <1>1 DEF BackInv, ErrorMeansMoved, Body
<1> QED BY <1>2, <1>3, <1>4, <1>5, <1>6, <1>7 DEF BackInv

\* The invariant holds in every behaviour.
LEMMA BackInvHolds == Spec => []BackInv
<1>1. BackInv /\ [Next]_vars => BackInv'
  <2> SUFFICES ASSUME BackInv, [Next]_vars PROVE BackInv'
    OBVIOUS
  <2>1. store \in Sound /\ store.rows \subseteq EthRows
    BY DEF BackInv, StoreInv, TypeOK, EthRows
  <2>2. CASE \E b \in EthBlocks : WriterIndexes(b)
    <3>1. PICK b \in EthBlocks : WriterIndexes(b)
      BY <2>2
    <3>2. Committable(PublishedAndIndexed(store, b))
      BY <2>1, WriterCommits
    <3> QED BY <3>1, <3>2, CommitsBackInv DEF WriterIndexes
  <2>3. CASE \E c \in Cleanings : CleanerCleans(c)
    <3>1. PICK c \in Cleanings : CleanerCleans(c)
      BY <2>3
    <3>2. Committable(Cleaned(store, "eth", <<c.range>>, c.data))
      BY <2>1, CleanerCommits
    <3> QED BY <3>1, <3>2, CommitsBackInv DEF CleanerCleans
  <2> QED BY <2>2, <2>3, AskBackInv, LastBackInv, HeaderBackInv, UncleBackInv, TxBackInv,
             RctBackInv, TransactionBackInv, LogsBackInv, FetchesBackInv, GetTdBackInv,
             StutterBackInv DEF Next
<1> QED BY <1>1, InitBackInv, PTL DEF Spec

\* TypeOK holds in every behaviour: the backend works with blocks of the chain
\* only, and with a number that the last header row has given it.
THEOREM TypeOKHolds == Spec => []TypeOK
BY BackInvHolds, PTL DEF BackInv

\* AnswerMoment holds in every behaviour: although its statements see different
\* states of the database, GetBlockByNumber or GetBlockByHash answers with a
\* block that was complete in it at one moment.
THEOREM AnswerMomentHolds == Spec => []AnswerMoment
BY BackInvHolds, BackInvAnswers, PTL

\* ErrorMeansMoved holds in every behaviour: an early return of backend.go with an
\* error means that what was asked for was not complete all the time, or that
\* two uncles came in the other order.
THEOREM ErrorMeansMovedHolds == Spec => []ErrorMeansMoved
BY BackInvHolds, PTL DEF BackInv
=============================================================================
