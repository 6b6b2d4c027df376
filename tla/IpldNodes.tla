----------------------------- MODULE IpldNodes -----------------------------
(***************************************************************************)
(* The IPLD nodes of the two chains: what Tree lists, what Resolve finds    *)
(* under a path and what Links returns; and the keys in the nodes of        *)
(* Ethereum's tries.                                                        *)
(*                                                                          *)
(*   pkg/ipfs/ipld                                                          *)
(*                                                                          *)
(* Values are left out: a result of Resolve names the field it is from.     *)
(***************************************************************************)
EXTENDS Integers, Sequences

CONSTANT Numerals   \* the decimal numerals of 0, 1, 2, ...

ASSUME NumeralsAssumption == Numerals \in Seq(STRING)

Link(name, rest) == [kind |-> "link", name |-> name, rest |-> rest]
Value(name, rest) == [kind |-> "value", name |-> name, rest |-> rest]
Self == Value(<<>>, <<>>)
Err == [kind |-> "error"]
Panic == [kind |-> "panic"]

-----------------------------------------------------------------------------
(***************************************************************************)
(* Headers, transactions, receipts, accounts and Merkle nodes.              *)
(***************************************************************************)
FlatTypes == {"EthHeader", "EthTx", "EthReceipt", "EthAccount", "BtcHeader", "BtcTxTrie"}

EthHeaderLinks == {"parent", "receipts", "root", "tx", "uncles"}
EthHeaderValues == {"bloom", "coinbase", "difficulty", "extra", "gaslimit", "gasused",
                    "mixdigest", "nonce", "number", "time"}

\* Links carry the rest of the path, values do not allow one.
EthHeaderResolve(p) ==
    CASE p = <<>>                               -> Self
      [] p # <<>> /\ p[1] \in EthHeaderLinks    -> Link(<<p[1]>>, Tail(p))
      [] Len(p) = 1 /\ p[1] \in EthHeaderValues -> Value(p, <<>>)
      [] OTHER                                  -> Err

\* One field of the node and nothing behind it.
OneField(p, links, values) ==
    CASE p = <<>>                            -> Self
      [] Len(p) = 1 /\ p[1] \in links        -> Link(p, <<>>)
      [] Len(p) = 1 /\ p[1] \in values       -> Value(p, <<>>)
      [] OTHER                               -> Err

EthTxResolve(p) ==
    OneField(p, {}, {"gas", "gasPrice", "input", "nonce", "r", "s", "toAddress", "v", "value"})

EthReceiptResolve(p) ==
    OneField(p, {}, {"root", "status", "cumulativeGasUsed", "logsBloom", "logs",
                     "transactionHash", "contractAddress", "gasUsed"})

EthAccountResolve(p) == OneField(p, {"codeHash", "root"}, {"balance", "nonce"})

\* The first field, whatever is behind it.
FirstField(p, links, values) ==
    CASE p # <<>> /\ p[1] \in links  -> Link(<<p[1]>>, Tail(p))
      [] p # <<>> /\ p[1] \in values -> Value(<<p[1]>>, Tail(p))
      [] OTHER                       -> Err

BtcHeaderResolve(p) == FirstField(p, {"parent", "tx"}, {"version", "timestamp", "bits", "nonce"})
BtcTxTrieResolve(p) == FirstField(p, {"0", "1"}, {})

Resolve(type, p) ==
    CASE type = "EthHeader"  -> EthHeaderResolve(p)
      [] type = "EthTx"      -> EthTxResolve(p)
      [] type = "EthReceipt" -> EthReceiptResolve(p)
      [] type = "EthAccount" -> EthAccountResolve(p)
      [] type = "BtcHeader"  -> BtcHeaderResolve(p)
      [] type = "BtcTxTrie"  -> BtcTxTrieResolve(p)

\* Tree("", -1), the whole of the node.
EthHeaderTree == EthHeaderLinks \cup
    {"time", "bloom", "coinbase", "difficulty", "extra", "gaslimit", "gasused", "mixdigest",
     "nonce", "number"}
EthTxTree == {"gas", "gasPrice", "input", "nonce", "r", "s", "toAddress", "v", "value"}
EthReceiptTree == {"root", "status", "cumulativeGasUsed", "logsBloom", "logs",
                   "transactionHash", "contractAddress", "gasUsed"}
EthAccountTree == {"balance", "codeHash", "nonce", "root"}
BtcHeaderTree == {"difficulty", "nonce", "version", "timestamp", "tx", "parent"}
BtcTxTrieTree == {"0", "1"}

Tree(type) ==
    CASE type = "EthHeader"  -> EthHeaderTree
      [] type = "EthTx"      -> EthTxTree
      [] type = "EthReceipt" -> EthReceiptTree
      [] type = "EthAccount" -> EthAccountTree
      [] type = "BtcHeader"  -> BtcHeaderTree
      [] type = "BtcTxTrie"  -> BtcTxTrieTree

\* The links that Links returns, by the field they are from.
EthHeaderNodeLinks == {"parent", "receipts", "root", "tx", "uncles"}
BtcHeaderNodeLinks == {"tx", "parent"}
BtcTxTrieNodeLinks == {"0", "1"}

NodeLinks(type) ==
    CASE type = "EthHeader" -> EthHeaderNodeLinks
      [] type = "BtcHeader" -> BtcHeaderNodeLinks
      [] type = "BtcTxTrie" -> BtcTxTrieNodeLinks
      [] OTHER              -> {}

-----------------------------------------------------------------------------
(***************************************************************************)
(* Bitcoin transactions, with ins inputs and outs outputs.                  *)
(***************************************************************************)
Index(i) == Numerals[i + 1]

\* The steps of a path: names, and numbers as fmt.Sprint writes them.
Steps == {"version", "timeLock", "lockTime", "inputs", "outputs", "prevTx", "seqNo", "script",
          "value"} \cup {Numerals[i] : i \in DOMAIN Numerals}

\* strconv.Atoi of such a step (it also reads "+1" and "01"), and the comparison
\* with the length.
IsIndex(s, n) == \E i \in 0..n - 1 : s = Index(i)

BtcTxResolve(ins, outs, p) ==
    LET n == IF p[1] = "inputs" THEN ins ELSE outs
        values == IF p[1] = "inputs" THEN {"seqNo", "script"} ELSE {"value", "script"}
    IN  IF p = <<>> THEN Panic
        ELSE IF p[1] \in {"version", "lockTime"} THEN Value(<<p[1]>>, Tail(p))
        ELSE IF p[1] \notin {"inputs", "outputs"} THEN Err
        ELSE IF Len(p) = 1 THEN Value(p, <<>>)
        ELSE IF ~IsIndex(p[2], n) THEN Err
        ELSE IF Len(p) = 2 THEN Value(p, <<>>)
        ELSE IF p[3] \in values THEN Value(SubSeq(p, 1, 3), SubSeq(p, 4, Len(p)))
        ELSE IF p[1] = "inputs" /\ p[3] = "prevTx"
             THEN Link(SubSeq(p, 1, 3), SubSeq(p, 4, Len(p)))
        ELSE Err

treeInputs(ins, depth) ==
    {<<"inputs", Index(i)>> : i \in IF depth < 2 THEN {} ELSE 0..ins - 1}
    \cup {<<"inputs", Index(i), f>> : i \in IF depth > 2 THEN 0..ins - 1 ELSE {},
                                      f \in {"prevTx", "seqNo", "script"}}

\* Mutant: the paths of an output are listed one level too early.
treeOutputs_Early(outs, depth) ==
    {<<"outputs", Index(i)>> : i \in IF depth < 2 THEN {} ELSE 0..outs - 1}
    \cup {<<"outputs", Index(i), f>> : i \in IF depth >= 2 THEN 0..outs - 1 ELSE {},
                                       f \in {"script", "value"}}

treeOutputs(outs, depth) ==
    {<<"outputs", Index(i)>> : i \in IF depth < 2 THEN {} ELSE 0..outs - 1}
    \cup {<<"outputs", Index(i), f>> : i \in IF depth > 2 THEN 0..outs - 1 ELSE {},
                                       f \in {"script", "value"}}

BtcTxTree(ins, outs, p, depth) ==
    CASE depth = 0     -> {}
      [] depth # 0 /\ p = <<"inputs">>  -> treeInputs(ins, depth + 1)
      [] depth # 0 /\ p = <<"outputs">> -> treeOutputs(outs, depth + 1)
      [] depth # 0 /\ p = <<>> ->
           {<<"version">>, <<"timeLock">>, <<"inputs">>, <<"outputs">>}
           \cup treeInputs(ins, depth) \cup treeOutputs(outs, depth)
      [] OTHER -> {}

BtcTxLinks(ins) == {<<"inputs", Index(i), "prevTx">> : i \in 0..ins - 1}

-----------------------------------------------------------------------------
Found(r) == r.kind \in {"link", "value"}

\* What disagrees in the code is named: a Bitcoin header lists "difficulty" and
\* resolves "bits", and an account has links that Links does not return and that
\* end a path.
FlatListed(type, p) ==
    LET r == Resolve(type, p)
    IN  /\ p # <<>> /\ Found(r) => r.name \o r.rest = p
        /\ Len(p) = 1 =>
             /\ \/ Found(r) <=> p[1] \in Tree(type)
                \/ type = "BtcHeader" /\ p[1] \in {"difficulty", "bits"}
             /\ \/ r.kind = "link" <=> p[1] \in NodeLinks(type)
                \/ type = "EthAccount"
        /\ Len(p) = 2 /\ p[1] \in NodeLinks(type) => r = Link(<<p[1]>>, Tail(p))

\* "timeLock" is listed and "lockTime" is resolved.  A negative depth, which asks
\* for the entire object, lists the fields of the first level only.
TxListed(ins, outs, depth, p) ==
    LET r == BtcTxResolve(ins, outs, p)
    IN  /\ p # <<"timeLock">> /\ p # <<"lockTime">> =>
             (p \in BtcTxTree(ins, outs, <<>>, depth) <=>
                Len(p) <= (IF depth < 0 THEN 1 ELSE depth) /\ Found(r) /\ r.rest = <<>>)
        /\ p[1] \in {"inputs", "outputs"} /\ Len(p) > 1 =>
             (p \in BtcTxTree(ins, outs, <<p[1]>>, depth) <=>
                p \in BtcTxTree(ins, outs, <<>>, depth + 1))
        /\ Found(r) => r.name \o r.rest = p
        /\ r.kind = "link" <=> Len(p) >= 3 /\ SubSeq(p, 1, 3) \in BtcTxLinks(ins)

-----------------------------------------------------------------------------
(***************************************************************************)
(* The keys of leafs and extensions.                                        *)
(***************************************************************************)
\* How go-ethereum writes a key: nibbles in bytes, behind the flag for a leaf and
\* for an odd number of them.
Compact(n, leaf) ==
    LET flag == (IF leaf THEN 2 ELSE 0) + (Len(n) % 2)
        all == IF Len(n) % 2 = 1 THEN <<flag>> \o n ELSE <<flag, 0>> \o n
    IN  [i \in 1..Len(all) \div 2 |-> 16 * all[2 * i - 1] + all[2 * i]]

nibbleToByte(k) == [i \in 1..2 * Len(k) |-> IF i % 2 = 1 THEN k[(i + 1) \div 2] \div 16
                                            ELSE k[i \div 2] % 16]

\* The first nibble tells the kind, and whether the second is a filler.
decodeCompactKey(key) ==
    LET n == nibbleToByte(key)
    IN  CASE n[1] = 0 -> [kind |-> "extension", key |-> SubSeq(n, 3, Len(n))]
          [] n[1] = 1 -> [kind |-> "extension", key |-> SubSeq(n, 2, Len(n))]
          [] n[1] = 2 -> [kind |-> "leaf", key |-> SubSeq(n, 3, Len(n))]
          [] n[1] = 3 -> [kind |-> "leaf", key |-> SubSeq(n, 2, Len(n))]
          [] OTHER    -> Err
=============================================================================
