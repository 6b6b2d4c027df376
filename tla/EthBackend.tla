----------------------------- MODULE EthBackend -----------------------------
(***************************************************************************)
(* The eth_ JSON-RPC API, answered from the database while other processes  *)
(* write to it and clean it.                                                *)
(*                                                                          *)
(*   pkg/eth/api.go        GetHeaderByNumber, GetBlockByNumber, ...         *)
(*   pkg/eth/backend.go    Backend, rpcMarshalBlock                         *)
(*   pkg/eth/cid_retriever.go  RetrieveBlockByHash, RetrieveBlockByNumber   *)
(*   pkg/eth/ipld_pg_fetcher.go  FetchHeader .. FetchRcts                   *)
(*                                                                          *)
(* A request is a sequence of SQL statements.  Its transactions run at the  *)
(* default isolation level (read committed), where every statement sees     *)
(* what is committed when it begins: there is one action per statement, and *)
(* commits of writers come between.  Rows are found by the serial id of the *)
(* row above, which a deleted row takes with it: gone are the rows deleted  *)
(* since they were read, a row with the same content inserted again being   *)
(* another one.                                                             *)
(***************************************************************************)
EXTENDS IndexStore

CONSTANTS
    Requests,     \* what clients may ask for
    Stores,       \* the stores that requests may find
    TwoUncles,    \* blocks whose "uncle" stands for two of them
    Partial,      \* a block that is none of the chain: its hash is new
    NoBlock,
    Cleanings,    \* the ranges and types of data that may be cleaned
    MaxWrites     \* bound: commits of writers during a request

\* A request names a method of the API and what it asks for: a height (header,
\* block), a block hash (blockByHash, logs) or a transaction.
ByNumber == {"header", "block"}
ByHash == {"blockByHash", "logs"}

\* The block numbers that stand for no height.
Latest == -1
Pending == -2

\* The rows whose data make up a block.
Body(b) == {"uncle", "tx", "rct"} \cap DOMAIN Data[b]

ASSUME EthBackendAssumption ==
    /\ \A r \in Requests :
         /\ r.method \in ByNumber \cup ByHash \cup {"transaction"}
         /\ r.number \in Nat \cup {Latest, Pending}
         /\ r.method \in ByHash => r.hash \in EthBlocks
    /\ \A c \in Cleanings : c.range \in Seq(Nat) /\ c.data \in EthTypes
    /\ TwoUncles \subseteq EthBlocks /\ MaxWrites \in Nat
    /\ NoBlock \notin EthBlocks /\ Partial \notin EthBlocks /\ NoBlock # Partial
    /\ IsFiniteSet(EthBlocks)
    /\ \A st \in Stores :
         /\ st \in [rows : SUBSET UNION {RowsOf(b) : b \in EthBlocks},
                    ipld : SUBSET UNION {KeysOf(b, DOMAIN Data[b]) : b \in EthBlocks},
                    tv : [Blocks -> 0..MaxValidated]]
         /\ ForeignKeysHold(st)

VARIABLES
    store,
    req,        \* the request
    pc,         \* its next statement
    number,     \* the height looked for
    block,      \* the block whose header row was chosen
    found,      \* the kinds of rows found under it
    inOrder,    \* whether two uncles were returned in the block's order
    gone,       \* rows deleted since they were read
    answer,     \* the block that was answered
    writes,
    always,     \* history: the blocks complete in the store since the request began
    ever        \* history: the blocks complete at some moment since then

vars == <<store, req, pc, number, block, found, inOrder, gone, answer, writes, always, ever>>
reading == <<number, block, found, inOrder, gone>>
history == <<writes, always, ever>>

\* The block can be answered from the store.
Complete(st, b) ==
    /\ \A k \in Body(b) \cup {"header"} : Row(b, k) \in st.rows
    /\ KeysOf(b, Body(b) \cup {"header"}) \subseteq st.ipld

CompleteIn(st) == {b \in EthBlocks : Complete(st, b)}

Statements == {"last", "headers", "uncles", "txs", "rcts", "fetchHeader", "fetchUncles",
               "fetchTxs", "fetchRcts", "td", "transaction", "logs"}

Init ==
    /\ store \in Stores
    /\ req \in Requests /\ pc = "idle"
    /\ number = Latest /\ block = NoBlock /\ found = {} /\ inOrder = TRUE /\ gone = {}
    /\ answer = NoBlock /\ writes = 0
    /\ always = CompleteIn(store) /\ ever = CompleteIn(store)

\* A client calls a method; a pending block is refused before any statement.
Ask ==
    /\ pc = "idle"
    /\ number' = IF req.method \in ByNumber THEN req.number ELSE Latest
    /\ pc' = CASE req.method = "logs"        -> "logs"
               [] req.method = "transaction" -> "transaction"
               [] req.method = "blockByHash" -> "headers"
               [] req.method \in ByNumber    ->
                    IF req.number = Latest THEN "last"
                    ELSE IF req.number = Pending THEN "error" ELSE "headers"
    /\ UNCHANGED <<store, req, block, found, inOrder, gone, answer, history>>

-----------------------------------------------------------------------------
(***************************************************************************)
(* Looking for the rows.                                                    *)
(***************************************************************************)
Headers == {b \in EthBlocks : Header(b) \in store.rows}

\* LatestBlockNumber, outside of the transaction of what follows.
RetrieveLastBlockNumber ==
    /\ pc = "last"
    /\ IF Headers = {} THEN pc' = "error" /\ UNCHANGED number
       ELSE pc' = "headers" /\ number' = Max({Height[b] : b \in Headers})
    /\ UNCHANGED <<store, req, block, found, inOrder, gone, answer, history>>

\* The header row of the hash, or any first one of the height.
RetrieveHeaderCIDs ==
    LET there == {b \in Headers : IF req.method = "blockByHash" THEN b = req.hash
                                  ELSE Height[b] = number}
    IN  /\ pc = "headers"
        /\ \/ there = {} /\ pc' = "error" /\ UNCHANGED block
           \/ /\ block' \in there
              /\ pc' = IF req.method = "header" THEN "fetchHeader" ELSE "uncles"
        /\ gone' = {}
        /\ UNCHANGED <<store, req, number, found, inOrder, answer, history>>

\* A row of a kind below the header row that was read.
Below(kind) == Row(block, kind) \in store.rows /\ Header(block) \notin gone

\* The statement has no ORDER BY.
RetrieveUncleCIDsByHeaderID ==
    /\ pc = "uncles" /\ pc' = "txs"
    /\ found' = IF Below("uncle") THEN {"uncle"} ELSE {}
    /\ inOrder' \in IF Below("uncle") /\ block \in TwoUncles THEN BOOLEAN ELSE {TRUE}
    /\ UNCHANGED <<store, req, number, block, gone, answer, history>>

RetrieveTxCIDsByHeaderID ==
    /\ pc = "txs" /\ pc' = "rcts"
    /\ found' = found \cup IF Below("tx") THEN {"tx"} ELSE {}
    /\ gone' = gone \ {Row(block, "tx")}
    /\ UNCHANGED <<store, req, number, block, inOrder, answer, history>>

\* Mutant: no receipts are taken for an error.
RetrieveReceiptCIDsByTxIDs_NoneIsError ==
    LET there == /\ "tx" \in found /\ Row(block, "tx") \notin gone
                 /\ Row(block, "rct") \in store.rows
    IN  /\ pc = "rcts"
        /\ pc' = IF there THEN "fetchHeader" ELSE "error"
        /\ found' = found \cup IF there THEN {"rct"} ELSE {}
        /\ UNCHANGED <<store, req, number, block, inOrder, gone, answer, history>>

RetrieveReceiptCIDsByTxIDs ==
    LET there == /\ "tx" \in found /\ Row(block, "tx") \notin gone
                 /\ Row(block, "rct") \in store.rows
    IN  /\ pc = "rcts" /\ pc' = "fetchHeader"
        /\ found' = found \cup IF there THEN {"rct"} ELSE {}
        /\ UNCHANGED <<store, req, number, block, inOrder, gone, answer, history>>

\* Mutant: the error is not looked at and a zero row is worked with.
RetrieveTransaction_ErrorIgnored ==
    LET there == {b \in Headers : Row(b, "tx") \in store.rows /\ MhKey(Row(b, "tx")) = req.tx}
    IN  /\ pc = "transaction" /\ pc' = "fetchTxs" /\ found' = {"tx"}
        /\ block' \in IF there = {} THEN {Partial} ELSE there
        /\ UNCHANGED <<store, req, number, inOrder, gone, answer, history>>

\* GetTransaction: the row of the transaction in any of the blocks that have it.
RetrieveTransaction ==
    LET there == {b \in Headers : Row(b, "tx") \in store.rows /\ MhKey(Row(b, "tx")) = req.tx}
    IN  /\ pc = "transaction"
        /\ \/ there = {} /\ pc' = "error" /\ UNCHANGED <<block, found>>
           \/ block' \in there /\ found' = {"tx"} /\ pc' = "fetchTxs"
        /\ UNCHANGED <<store, req, number, inOrder, gone, answer, history>>

\* GetLogs of a block hash: one statement joins headers, transactions and
\* receipts; no receipt is no error.
RetrieveRctCIDs ==
    /\ pc = "logs" /\ pc' = "fetchRcts" /\ block' = req.hash
    /\ found' = {"rct"} \cap {k \in Body(req.hash) : Row(req.hash, k) \in store.rows}
    /\ UNCHANGED <<store, req, number, inOrder, gone, answer, history>>

-----------------------------------------------------------------------------
(***************************************************************************)
(* Fetching the data.                                                       *)
(***************************************************************************)
\* SELECT data FROM public.blocks for the rows of a kind; none is an error.
FetchIPLD(at, kinds, next) ==
    /\ pc = at
    /\ pc' = IF KeysOf(block, kinds) \subseteq store.ipld THEN next ELSE "error"
    /\ answer' = IF pc' = "answered" THEN block ELSE answer
    /\ UNCHANGED <<store, req, reading, history>>

FetchHeader ==
    FetchIPLD("fetchHeader", {"header"}, IF req.method = "header" THEN "td" ELSE "fetchUncles")
FetchUncles == FetchIPLD("fetchUncles", found \cap {"uncle"}, "fetchTxs")
FetchTrxs ==
    FetchIPLD("fetchTxs", found \cap {"tx"},
              IF req.method = "transaction" THEN "answered" ELSE "fetchRcts")
FetchRcts ==
    FetchIPLD("fetchRcts", found \cap {"rct"}, IF req.method = "logs" THEN "answered" ELSE "td")

\* Mutant: the roots of the header are kept.
NewBlock_RootsKept == block

\* types.NewBlock computes the roots of the header from what it is given, so
\* that the hash is that of the block only if nothing is missing or misplaced.
NewBlock == IF found = Body(block) /\ inOrder THEN block ELSE Partial

Marshalled == IF req.method = "header" THEN block ELSE NewBlock

\* rpcMarshalHeader, rpcMarshalBlock: the total difficulty of the hash.
GetTd ==
    /\ pc = "td"
    /\ IF Marshalled \in Headers
       THEN pc' = "answered" /\ answer' = Marshalled
       ELSE pc' = "error" /\ UNCHANGED answer
    /\ UNCHANGED <<store, req, reading, history>>

-----------------------------------------------------------------------------
(***************************************************************************)
(* What other processes commit meanwhile.                                   *)
(***************************************************************************)
\* A commit that changes nothing is none.
Commits(st) ==
    /\ pc \in Statements /\ writes < MaxWrites /\ st # store
    /\ store' = st /\ writes' = writes + 1
    /\ gone' = gone \cup (store.rows \ st.rows)
    /\ always' = always \cap CompleteIn(st)
    /\ ever' = ever \cup CompleteIn(st)
    /\ UNCHANGED <<req, pc, number, block, found, inOrder, answer>>

\* Mutant: every row is inserted in a transaction of its own.
WriterIndexes_Apart(b) ==
    \E r \in RowsOf(b) :
      /\ Parent(r) \in store.rows \cup {r}
      /\ Commits([Published(store, b, Range(Publishes(b))) EXCEPT !.rows = @ \cup {r}])

WriterIndexes(b) == Commits(PublishedAndIndexed(store, b))

CleanerCleans(c) == Commits(Cleaned(store, "eth", <<c.range>>, c.data))

Next ==
    \/ Ask
    \/ RetrieveLastBlockNumber \/ RetrieveHeaderCIDs \/ RetrieveUncleCIDsByHeaderID
    \/ RetrieveTxCIDsByHeaderID \/ RetrieveReceiptCIDsByTxIDs
    \/ RetrieveTransaction \/ RetrieveRctCIDs
    \/ FetchHeader \/ FetchUncles \/ FetchTrxs \/ FetchRcts \/ GetTd
    \/ \E b \in EthBlocks : WriterIndexes(b)
    \/ \E c \in Cleanings : CleanerCleans(c)

Spec == Init /\ [][Next]_vars

-----------------------------------------------------------------------------
\* TypeOK: the types of the state; only blocks of the chain are worked with.
TypeOK ==
    /\ store.rows \subseteq UNION {RowsOf(b) : b \in EthBlocks}
    /\ req \in Requests
    /\ pc \in Statements \cup {"idle", "answered", "error"}
    /\ number \in Nat \cup {Latest, Pending} /\ block \in EthBlocks \cup {NoBlock}
    /\ found \subseteq {"uncle", "tx", "rct"} /\ inOrder \in BOOLEAN
    /\ gone \subseteq UNION {RowsOf(b) : b \in EthBlocks}
    /\ answer \in EthBlocks \cup {NoBlock, Partial} /\ writes \in 0..MaxWrites
    /\ always \subseteq ever /\ ever \subseteq EthBlocks

\* The requests that answer with a block.
OfBlock(r) == r.method \in {"block", "blockByHash"}

\* AnswerWhole: whatever is written and cleaned between the statements, the
\* block answered (api.go GetBlockByNumber, GetBlockByHash) is the one asked
\* for, with all its uncles, transactions and receipts.
AnswerWhole ==
    pc = "answered" /\ OfBlock(req) =>
        /\ answer \in EthBlocks /\ found = Body(answer) /\ inOrder
        /\ IF req.method = "blockByHash" THEN answer = req.hash ELSE Height[answer] = number

\* AnswerMoment: although the statements of a request see different states of
\* the database, the block answered was complete in it at one moment during the
\* request.
AnswerMoment == pc = "answered" /\ OfBlock(req) => answer \in ever

\* ErrorMeansMoved: a request fails (backend.go, any early return) only if what
\* it asked for was not complete in the database all the time, or a block was
\* asked for whose two uncles came in the other order; and logs are left out only
\* of a block that was not complete all the time.
ErrorMeansMoved ==
    /\ pc = "error" /\ number # Pending =>
         IF block # NoBlock
         THEN block \in always => OfBlock(req) /\ block \in TwoUncles /\ ~inOrder
         ELSE \A b \in always : CASE req.method = "blockByHash" -> b # req.hash
                                 [] req.method = "transaction" ->
                                      "tx" \in Body(b) => Data[b].tx # req.tx
                                 [] OTHER -> number >= 0 /\ Height[b] # number
    /\ pc = "answered" /\ req.method = "logs" /\ req.hash \in always =>
         found = Body(req.hash) \cap {"rct"}
=============================================================================
