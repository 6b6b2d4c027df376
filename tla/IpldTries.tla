----------------------------- MODULE IpldTries ------------------------------
(***************************************************************************)
(* The nodes of Ethereum's tries, and the nodes that a Bitcoin block is     *)
(* published as.                                                            *)
(*                                                                          *)
(*   pkg/ipfs/ipld                                                          *)
(***************************************************************************)
EXTENDS IpldNodes, SequencesExt, FiniteSets

-----------------------------------------------------------------------------
(***************************************************************************)
(* Trie nodes.  Raw data is a sequence of items [t, v]: "key" with bytes,   *)
(* "hash" of the node below, "nothing", "object" with the encoding of an    *)
(* object of the trie's type, "bytes" of anything else, "list" for a node   *)
(* so small that it stands in its parent.  A decoded node has its elements. *)
(* A path is a sequence of elements, an element a sequence of characters:   *)
(* 0..15 the hexadecimal digits, 16 any other.                              *)
(***************************************************************************)
\* The children: a CID for a hash, nil for nothing.
parseTrieNodeBranch(items) ==
    IF \E i \in DOMAIN items : items[i].t \notin {"nothing", "hash"} THEN Err
    ELSE [kind |-> "branch", elements |-> items]

\* The elements of a leaf: its key and the node in it, a transaction, a receipt or
\* an account.  The leaf of a storage trie keeps the bytes.  None for an error.
leafDecoder(codec, key, item) ==
    CASE codec = "storage"                       -> <<key, item>>
      [] codec # "storage" /\ item.t = "object"  -> <<key, [t |-> "node", v |-> item.v]>>
      [] OTHER                                   -> <<>>

\* Both items are asserted to be strings, and the first has a first byte.  The
\* error of the leafDecoder is dropped: that node is returned without elements.
decodeTrieNode(codec, items) ==
    CASE Len(items) = 2 ->
           IF "list" \in {items[1].t, items[2].t} \/ items[1].v = <<>> THEN Panic
           ELSE LET c == decodeCompactKey(items[1].v)
                IN  CASE c.kind = "extension" ->
                           [kind |-> "extension", elements |-> <<c.key, items[2]>>]
                      [] c.kind = "leaf" ->
                           [kind |-> "leaf", elements |-> leafDecoder(codec, c.key, items[2])]
                      [] OTHER -> Err
      [] Len(items) = 17 -> parseTrieNodeBranch(items)
      [] OTHER -> Err

\* Mutant: what is left of the element that was cut is lost.
shiftFromPath_DropsRest(p, i) ==
    LET all == FlattenSeq(p)
        used(k) == Len(FlattenSeq(SubSeq(p, 1, k - 1)))
        left(k) == IF used(k) < i THEN <<>> ELSE p[k]
    IN  [out  |-> SubSeq(all, 1, IF i < Len(all) THEN i ELSE Len(all)),
         rest |-> SelectSeq([k \in DOMAIN p |-> left(k)], LAMBDA e : e # <<>>)]

\* The first i characters of a path, and what is left of its elements.
shiftFromPath(p, i) ==
    LET all == FlattenSeq(p)
        used(k) == Len(FlattenSeq(SubSeq(p, 1, k - 1)))
        left(k) == SubSeq(p[k], IF used(k) < i THEN i - used(k) + 1 ELSE 1, Len(p[k]))
    IN  [out  |-> SubSeq(all, 1, IF i < Len(all) THEN i ELSE Len(all)),
         rest |-> SelectSeq([k \in DOMAIN p |-> left(k)], LAMBDA e : e # <<>>)]

getHexIndex(c) == IF Len(c) = 1 /\ c[1] \in 0..15 THEN c[1] ELSE -1

resolveTrieNodeExtension(n, p) ==
    LET key == n.elements[1]
        s == shiftFromPath(p, Len(key))
    IN  IF s.out = key THEN Link(n.elements[2].v, s.rest) ELSE Err

\* The node in the leaf resolves the rest; bytes are no node.
resolveTrieNodeLeaf(n, p) ==
    IF n.elements = <<>> THEN Panic
    ELSE LET key == n.elements[1]
             s == shiftFromPath(p, Len(key))
         IN  IF s.out = key /\ n.elements[2].t = "node"
             THEN Value(n.elements[2].v, IF key = <<>> THEN p ELSE s.rest) ELSE Err

resolveTrieNodeBranch(n, p) ==
    LET s == shiftFromPath(p, 1)
        i == getHexIndex(s.out)
    IN  IF i # -1 /\ n.elements[i + 1].t = "hash" THEN Link(n.elements[i + 1].v, s.rest) ELSE Err

TrieResolve(n, p) ==
    CASE n.kind = "extension" -> resolveTrieNodeExtension(n, p)
      [] n.kind = "leaf"      -> resolveTrieNodeLeaf(n, p)
      [] n.kind = "branch"    -> resolveTrieNodeBranch(n, p)

ResolveLink(n, p) == IF TrieResolve(n, p).kind = "link" THEN TrieResolve(n, p) ELSE Err

\* Tree looks for pointers to CIDs among the children of a branch, which are
\* CIDs: it lists none.
TrieTree(n) == IF n.kind = "extension" THEN {<<n.elements[1]>>} ELSE {}

TrieLinks(n) ==
    CASE n.kind = "extension" -> {n.elements[2].v}
      [] n.kind = "branch"    -> {n.elements[i].v : i \in {j \in 1..17 : n.elements[j].t = "hash"}}
      [] OTHER                -> {}

-----------------------------------------------------------------------------
(***************************************************************************)
(* What a Bitcoin block is published as.  Hashes are injective: a CID is    *)
(* what it is the hash of.                                                  *)
(***************************************************************************)
\* A transaction is published as it is serialized, with its witness data.
NewBtcTx(tx) == <<"tx", tx.id, tx.witness>>
BtcTxTrieCid(left, right) == <<"node", left, right>>

\* Mutant: the last node of an odd layer is left alone.
mkMerkleLayer_Short(layer) ==
    [i \in 1..Len(layer) \div 2 |-> BtcTxTrieCid(layer[2 * i - 1], layer[2 * i])]

\* A layer of an odd length is extended with its last node.
mkMerkleLayer(layer) ==
    LET even == IF Len(layer) % 2 # 0 THEN Append(layer, Last(layer)) ELSE layer
    IN  [i \in 1..Len(even) \div 2 |-> BtcTxTrieCid(even[2 * i - 1], even[2 * i])]

RECURSIVE mkMerkleTree(_)
mkMerkleTree(layer) ==
    IF Len(layer) <= 1 THEN <<>>
    ELSE mkMerkleLayer(layer) \o mkMerkleTree(mkMerkleLayer(layer))

\* The CIDs of the transactions and of the nodes above them.
FromHeaderAndTxs(txs) ==
    LET txNodes == [i \in DOMAIN txs |-> NewBtcTx(txs[i])]
    IN  [txs |-> txNodes, txTrie |-> mkMerkleTree(txNodes)]
=============================================================================
