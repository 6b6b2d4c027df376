---------------------------- MODULE MCFunctions -----------------------------
(***************************************************************************)
(* The parts of the program that compute an answer from their arguments,    *)
(* each on every small input: the gap search, the filters, eth_getLogs, the *)
(* IPLD fetchers, the IPLD nodes and tries, the nodes of a Bitcoin block    *)
(* and the settings of the commands.                                        *)
(***************************************************************************)
EXTENDS MCGapFinding, PureFunctions, IpldTries

CONSTANTS x, y,         \* addresses; a Bitcoin address, witness or class
          t, u,         \* topics
          null          \* the leaf key of a node that is no leaf

Seqs(S, n) == UNION {[1..k -> S] : k \in 0..n}
Some == {{}, {x}}
Addresses == {x, y}
ThreeNumerals == <<"0", "1", "2">>
UpTo(n, S) == {T \in SUBSET S : Cardinality(T) <= n}

Init == GapInit /\ input = <<"none">>

-----------------------------------------------------------------------------
(***************************************************************************)
(* Filters and eth_getLogs.                                                 *)
(***************************************************************************)
Log(topics) == [address : Addresses, topics : topics]
Tx(logs) == [src : Addresses, dst : Addresses, logs : logs]
Leafs == [key : Addresses, leaf : {TRUE},
          storage : SUBSET {[key |-> x, leaf |-> TRUE], [key |-> null, leaf |-> FALSE]}]
Branch == [key |-> null, leaf |-> FALSE, storage |-> {}]
Outs == [multisig : BOOLEAN, addresses : Some, class : Addresses]

NoSettings ==
    [header |-> [off |-> FALSE, uncles |-> FALSE],
     tx |-> [off |-> FALSE, src |-> {}, dst |-> {}],
     rct |-> [off |-> FALSE, matchTxs |-> FALSE, addresses |-> {}, topics |-> <<>>],
     state |-> [off |-> FALSE, addresses |-> {}, intermediate |-> FALSE],
     storage |-> [off |-> FALSE, addresses |-> {}, keys |-> {}, intermediate |-> TRUE]]

\* Two transactions with at most one log each, the second sent by y, and filters
\* for them.
TxsAndReceipts ==
    /\ Kind("none")
    /\ \E tf \in [off : BOOLEAN, src : Some, dst : Some],
          rf \in [off : {FALSE}, matchTxs : BOOLEAN, addresses : Some,
                  topics : Seqs({{}, {t}}, Slots + 1)],
          txs \in [1..2 -> Tx({{}} \cup {{l} : l \in Log({<<>>, <<t>>, <<u, t>>})})] :
         /\ txs[2].src = y
         /\ input' = <<"filter", [NoSettings EXCEPT !.tx = tf, !.rct = rf],
                       [txs |-> txs, nodes |-> {}]>>

Nodes ==
    /\ Kind("none")
    /\ \E h \in [off : BOOLEAN, uncles : BOOLEAN],
          f \in [off : BOOLEAN, addresses : Some, intermediate : BOOLEAN],
          g \in [off : BOOLEAN, addresses : Some, intermediate : BOOLEAN,
                 keys : SUBSET {[hash |-> x, canonical |-> TRUE],
                                [hash |-> x, canonical |-> FALSE],
                                [hash |-> y, canonical |-> TRUE]}],
          nodes \in UpTo(2, Leafs \cup {Branch}) :
         input' = <<"filter", [NoSettings EXCEPT !.header = h, !.state = f, !.storage = g],
                    [txs |-> <<>>, nodes |-> nodes]>>

Btc ==
    /\ Kind("none")
    /\ \E h \in [off : BOOLEAN],
          f \in [off : BOOLEAN, segwit : BOOLEAN, multisig : BOOLEAN, witnesses : Some,
                 addresses : Some, indexes : {{}, {0}}, classes : Some],
          witness \in {x, y, null}, index \in 0..1, inputs \in 1..2,
          outs \in UpTo(2, Outs) \ {{}} :
         input' = <<"btc", [header |-> h, tx |-> f],
                    {[segwit |-> witness # null, witness |-> witness,
                      index |-> index, inputs |-> inputs, outs |-> outs]}>>

\* Two blocks of one transaction with up to two logs and with up to one, asked
\* for by a hash or a range, of which the ends may be nil.
Queries == [hash : {{}}, from : {{}, {0}, {1}}, to : {{}, {0}, {1}}]
           \cup [hash : {{1}}, from : {{}}, to : {{}}]
Logs ==
    /\ Kind("none")
    /\ \E first \in 0..1, crit \in Queries, addresses \in Some,
          topics \in Seqs({{}, {t}}, Slots + 1) :
       \E ls \in [first..first + 1 -> UpTo(2, Log({<<>>, <<t>>, <<u, t>>}))] :
         /\ Cardinality(ls[first + 1]) <= 1
         /\ input' = <<"logs", [h \in DOMAIN ls |->
                                   [txs |-> <<[src |-> x, dst |-> x, logs |-> ls[h]]>>, nodes |-> {}]],
                       crit, addresses, topics>>

-----------------------------------------------------------------------------
(***************************************************************************)
(* Fetching.                                                                *)
(***************************************************************************)
\* Two or no uncles, transactions and receipts, and up to two state and storage
\* nodes; one of the CIDs may not be there.
StateNodes == [cid : {"", "s1", "s2"}, key : {"k"}, stateKey : {""}]
StorageNodes == [cid : {"", "g1", "g2"}, key : {"l"}, stateKey : {"", "k"}]
AllCids == {"h", "u1", "u2", "t1", "t2", "r1", "r2", "s1", "s2", "g1", "g2"}

Fetches ==
    /\ Kind("none")
    /\ \E uncles \in {<<>>, <<"u1", "u2">>}, txs \in {<<>>, <<"t1", "t2">>},
          rcts \in {<<>>, <<"r1", "r2">>}, state \in Seqs(StateNodes, 2),
          storage \in Seqs(StorageNodes, 2), gone \in {{}} \cup {{c} : c \in AllCids},
          rank \in {<<1, 2>>, <<2, 1>>} :
         input' = <<"fetch", [header |-> "h", uncles |-> uncles, txs |-> txs, rcts |-> rcts,
                              state |-> state, storage |-> storage],
                    AllCids \ gone, rank>>

-----------------------------------------------------------------------------
(***************************************************************************)
(* Fields of nodes.                                                         *)
(***************************************************************************)
Names == UNION {Tree(type) : type \in FlatTypes} \cup {"bits", "uncle"}

\* A path in a node, and one in a transaction of up to two inputs and outputs,
\* which may go on behind a field.
Fields ==
    /\ Kind("none")
    /\ \E type \in FlatTypes, p \in Seqs(Names, 2) : input' = <<"field", type, p>>

TxFields ==
    /\ Kind("none")
    /\ \E ins \in 0..2, outs \in 0..2, depth \in {-1} \cup 1..3, p \in Seqs(Steps, 3),
          more \in {<<>>, <<"0">>} :
         p # <<>> /\ input' = <<"txfield", ins, outs, depth, p \o more>>

-----------------------------------------------------------------------------
(***************************************************************************)
(* Tries.  A node is named by the keys below it and their common part; what *)
(* it holds follows the Ethereum rules for building a trie.  A trie is of a *)
(* type and its leaves hold objects of the type, or else bytes.             *)
(***************************************************************************)
TrieKeys == {<<a, b, c, 15>> : a \in 0..1, b \in 0..1, c \in 0..1}

Under(S, prefix) == {k \in S : IsPrefix(prefix, k)}
CommonLen(S) == LET same(n) == \A k, l \in S : SubSeq(k, 1, n) = SubSeq(l, 1, n)
                IN  CHOOSE n \in 0..4 : same(n) /\ (n = 4 \/ ~same(n + 1))

Item(what, v) == [t |-> what, v |-> v]

\* The raw node of the keys S, of which d nibbles have been used.
Raw(content, S, d) ==
    LET some == CHOOSE k \in S : TRUE
        c == CommonLen(S)
        child(i) == Under(S, Append(SubSeq(some, 1, d), i))
    IN  CASE Cardinality(S) = 1 ->
               <<Item("key", Compact(SubSeq(some, d + 1, 4), TRUE)), Item(content, some)>>
          [] Cardinality(S) > 1 /\ c > d ->
               <<Item("key", Compact(SubSeq(some, d + 1, c), FALSE)), Item("hash", <<S, c>>)>>
          [] OTHER ->
               [i \in 1..17 |-> IF i = 17 \/ child(i - 1) = {} THEN Item("nothing", <<>>)
                                ELSE Item("hash", <<child(i - 1), d + 1>>)]

\* From node to node, as a reader of the DAG follows the links.
Decoded(trie, node) == decodeTrieNode(trie.codec, Raw(trie.content, node[1], node[2]))

RECURSIVE Walk(_, _, _)
Walk(trie, node, p) ==
    LET n == Decoded(trie, node)
        link == ResolveLink(n, p)
    IN  IF link # Err THEN Walk(trie, link.name, link.rest) ELSE TrieResolve(n, p)

RECURSIVE Below(_, _)
Below(trie, node) == {node} \cup UNION {Below(trie, l) : l \in TrieLinks(Decoded(trie, node))}

\* The digits of a key, cut into elements after some of them.
Cut(k, cuts) ==
    LET starts == {1} \cup {c + 1 : c \in cuts}
        ends == cuts \cup {Len(k)}
        from == SetToSortSeq(starts, <)
        to == SetToSortSeq(ends, <)
    IN  [i \in DOMAIN from |-> SubSeq(k, from[i], to[i])]

Tries ==
    /\ Kind("none")
    /\ \E trie \in {[codec |-> "tx", content |-> "object"], [codec |-> "state", content |-> "bytes"],
                    [codec |-> "storage", content |-> "bytes"]},
          S \in UpTo(3, TrieKeys) \ {{}}, k \in TrieKeys, n \in 1..4, cuts \in SUBSET (1..3),
          rest \in {<<>>, <<<<16>>>>} :
         /\ \A c \in cuts : c < n
         /\ trie.content # "object" => Cardinality(S) <= 2 /\ rest = <<>>
         /\ input' = <<"trie", trie, S, k, n, Cut(SubSeq(k, 1, n), cuts) \o rest, rest>>

\* TrieLookup: following a path from the root finds the object of its key, with
\* what is behind the key left to resolve, however the digits are divided into
\* elements.  It finds nothing in a storage trie, whose leaves are no nodes, and
\* fails hard at a leaf that could not be decoded, since decodeTrieNode drops that
\* error.  A path that is no key of the trie finds nothing; the links lead from
\* the root to a leaf for every key; and what Tree lists of a node is a link (it
\* lists no child of a branch).
TrieLookup ==
    Kind("trie") =>
    LET trie == input[2]
        S == input[3]
        k == input[4]
        isKey == input[5] = 4 /\ k \in S
        found == Walk(trie, <<S, 0>>, input[6])
        undecoded == trie.codec # "storage" /\ trie.content # "object"
        node(b) == Decoded(trie, b)
    IN  /\ isKey => found = CASE trie.codec = "storage" -> Err
                              [] undecoded              -> Panic
                              [] OTHER                  -> Value(k, input[7])
        /\ ~isKey => found = Err \/ (found = Panic /\ undecoded)
        /\ S = UNION {b[1] : b \in {c \in Below(trie, <<S, 0>>) : Cardinality(c[1]) = 1}}
        /\ \A b \in Below(trie, <<S, 0>>) : \A p \in TrieTree(node(b)) :
             /\ TrieResolve(node(b), p).kind = "link"
             /\ TrieResolve(node(b), p).name \in TrieLinks(node(b))

-----------------------------------------------------------------------------
(***************************************************************************)
(* Bitcoin blocks.                                                          *)
(***************************************************************************)
BtcBlock ==
    /\ Kind("none")
    /\ \E n \in 1..7 : \E witness \in [1..n -> BOOLEAN] :
         input' = <<"block", [i \in 1..n |-> [id |-> i, witness |-> witness[i]]]>>

\* The root that the header commits to: the tree over the transactions without
\* their witness data, node i of a level over nodes 2i and 2i+1 of the one
\* below, of which the last stands for a missing one.
RECURSIVE MerkleNode(_, _, _)
MerkleNode(txs, level, i) ==
    LET width == (Len(txs) + 2^(level - 1) - 1) \div 2^(level - 1)
        right == IF 2 * i + 1 < width THEN 2 * i + 1 ELSE width - 1
    IN  IF level = 0 THEN <<"tx", txs[i + 1].id, FALSE>>
        ELSE <<"node", MerkleNode(txs, level - 1, 2 * i), MerkleNode(txs, level - 1, right)>>
TreeLevels(n) == CHOOSE l \in 0..n : 2^l >= n /\ \A m \in 0..l - 1 : 2^m < n
MerkleRoot(txs) == MerkleNode(txs, TreeLevels(Len(txs)), 0)

RECURSIVE Reached(_, _)
Reached(cid, published) ==
    IF cid \notin published THEN {}
    ELSE {cid} \cup IF cid[1] = "node"
                    THEN Reached(cid[2], published) \cup Reached(cid[3], published) ELSE {}

\* BtcBlockLinked: everything that is published of a block is reached from the
\* header's link to its transactions, if no transaction has witness data; if one
\* has, FromHeaderAndTxs publishes it under another hash and the link leads to
\* nothing that was published.
BtcBlockLinked ==
    Kind("block") =>
    LET dag == FromHeaderAndTxs(input[2])
        published == ToSet(dag.txs) \cup ToSet(dag.txTrie)
    IN  Reached(MerkleRoot(input[2]), published) =
          IF \E i \in DOMAIN input[2] : input[2][i].witness THEN {} ELSE published

-----------------------------------------------------------------------------
(***************************************************************************)
(* Settings.                                                                *)
(***************************************************************************)
Numbers == {-IntHalf, -1, 0, 1, IntHalf - 1}
LowerCase(s) == IF s = "ETH" THEN "eth" ELSE s

Settings ==
    /\ Kind("none")
    /\ \E s \in [chain : {"ETH", "btc", "omni", "dogecoin"},
                 mode : {"", "interface", "remote", "direct"},
                 sync : BOOLEAN, serve : BOOLEAN, historical : BOOLEAN,
                 data : {"full", "txs", "state", "blocks"}, workers : {-1, 0, 2},
                 batchNumber : Numbers, batchSize : {-1, 0}, frequency : {0, 31, 32},
                 timeout : {0, 32}, start : {0}, stop : {1}] :
         input' = <<"settings", s>>

-----------------------------------------------------------------------------
\* The arguments are of the types that the theorems about them assume.
Compute ==
    /\ GapInit /\ UNCHANGED gapVars
    /\ \/ BtcBlock \/ Tries \/ Fields \/ TxFields \/ Fetches \/ Settings
       \/ Btc \/ Logs \/ TxsAndReceipts \/ Nodes
    /\ Assert(InputTyped', "an input that is not of its type")
Next == (Kind("none") /\ GapNext /\ UNCHANGED input) \/ Compute
Spec == Init /\ [][Next]_<<gapVars, input>>
=============================================================================
