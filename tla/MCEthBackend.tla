--------------------------- MODULE MCEthBackend ---------------------------
(***************************************************************************)
(* Requests over three heights.  e0 is empty; e1 and its fork f1 have the   *)
(* same transaction, f1 is one of two uncles of e2, e1 has one uncle, and   *)
(* e1 and e2 have the same receipt.                                         *)
(***************************************************************************)
EXTENDS EthBackend

Eth == {"e0", "e1", "e2", "f1"}

HeightOf == [b \in Eth |-> CASE b = "e0" -> 0 [] b \in {"e1", "f1"} -> 1 [] b = "e2" -> 2]

Contents ==
    [e0 |-> [header |-> "E0", state |-> "S0"],
     e1 |-> [header |-> "E1", uncle |-> "F0", tx |-> "T1", txTrie |-> "T1", rct |-> "R", rctTrie |-> "R"],
     f1 |-> [header |-> "F1", tx |-> "T1", rct |-> "RF"],
     e2 |-> [header |-> "E2", uncle |-> "F1", tx |-> "T2", rct |-> "R"]]

TxIds == [b \in Eth |-> b]

\* The blocks of any set have been indexed; all have been, and one type of their
\* data has been cleaned.
IndexedAll(bs) == FoldSet(LAMBDA b, st : PublishedAndIndexed(st, b), EmptyStore, bs)
Indexings ==
    {IndexedAll(bs) : bs \in SUBSET Eth}
    \cup {Cleaned(IndexedAll(Eth), "eth", <<<<0, 2>>>>, data) :
            data \in {"uncles", "transactions", "receipts"}}

CleanedData ==
    [range : {<<1, 1>>}, data : {"full", "uncles", "transactions", "receipts"}]
    \cup [range : {<<0, 0>>, <<2, 2>>}, data : {"full", "receipts"}]
    \cup [range : {<<0, 2>>}, data : {"full", "transactions", "uncles"}]

Asked ==
    [method : {"header", "block"}, number : {0, 1, 2, Latest}, hash : {NoBlock}, tx : {NoKey}]
    \cup [method : {"block"}, number : {Pending}, hash : {NoBlock}, tx : {NoKey}]
    \cup [method : {"blockByHash", "logs"}, number : {0}, hash : {"e1", "e2"}, tx : {NoKey}]
    \cup [method : {"transaction"}, number : {0}, hash : {NoBlock}, tx : {"T1"}]
=============================================================================
