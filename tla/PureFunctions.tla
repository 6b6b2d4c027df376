--------------------------- MODULE PureFunctions ----------------------------
(***************************************************************************)
(* The parts of the program that compute an answer from their arguments:    *)
(* the filters, eth_getLogs, the IPLD fetchers, the fields of IPLD nodes    *)
(* and the settings of the commands.  The variable holds the arguments of   *)
(* one of them; a property says what is computed from any such arguments.   *)
(***************************************************************************)
EXTENDS Filters, IpldNodes, IpldFetch, Wiring

VARIABLE input          \* what is computed, and from what: <<kind, arguments...>>

Kind(k) == input[1] = k

-----------------------------------------------------------------------------
(***************************************************************************)
(* The arguments that the types of the program allow, as far as it matters. *)
(***************************************************************************)
\* Settings and a block; a Bitcoin transaction has an input and an output.
FilterTyped(s, block) ==
    /\ s.state.intermediate \in BOOLEAN /\ s.rct.matchTxs \in BOOLEAN
    /\ Len(s.rct.topics) \in Nat
    /\ \A n \in block.nodes : n.leaf \in BOOLEAN
BtcTyped(block) == \A tx \in block : tx.inputs \in Nat \ {0} /\ tx.outs # {}

\* A chain with a first and a last block, whose logs have at most Slots topics.
LogsTyped(chain, crit) ==
    /\ \A f \in {"from", "to"} : crit[f] \subseteq Int /\ \A m, n \in crit[f] : m = n
    /\ DOMAIN chain \subseteq Nat
    /\ DOMAIN chain # {} => \E first, last \in DOMAIN chain :
                              \A h \in DOMAIN chain : first <= h /\ h <= last
    /\ \A h \in DOMAIN chain : \A i \in 1..Len(chain[h].txs) :
         \A l \in chain[h].txs[i].logs : Len(l.topics) \in 0..Slots

\* What the retriever has selected; an order of arrival for n positions.
Selected(w, n) ==
    /\ DOMAIN w = {"header", "uncles", "txs", "rcts", "state", "storage"}
    /\ \A f \in {"uncles", "txs", "rcts"} : w[f] \in Seq(STRING) /\ Len(w[f]) <= n
    /\ \A f \in {"state", "storage"} :
         w[f] \in Seq([cid : STRING, key : STRING, stateKey : STRING])
FetchTyped(w, rank) ==
    /\ rank \in Seq(Nat) /\ rank \in Injection(1..Len(rank), 1..Len(rank))
    /\ Selected(w, Len(rank))

\* A path in a transaction of so many inputs and outputs as there are numerals.
FieldTyped(type, p) == type \in FlatTypes /\ p \in Seq(STRING)
TxFieldTyped(ins, outs, depth, p) ==
    /\ {ins, outs} \subseteq 0..Len(Numerals) /\ depth \in Int \ {0}
    /\ p \in Seq(Steps) \ {<<>>}

InputTyped ==
    /\ Kind("filter") => FilterTyped(input[2], input[3])
    /\ Kind("btc") => BtcTyped(input[3])
    /\ Kind("logs") => LogsTyped(input[2], input[3])
    /\ Kind("fetch") => FetchTyped(input[2], input[4])
    /\ Kind("field") => FieldTyped(input[2], input[3])
    /\ Kind("txfield") => TxFieldTyped(input[2], input[3], input[4], input[5])
    /\ Kind("settings") => input[2] \in AllSettings

-----------------------------------------------------------------------------

\* FiltersAgree: what the queries of Retrieve select of a block is a part of what
\* ResponseFilterer.Filter selects of it, and with plain settings both select the
\* same and none fails; likewise for a Bitcoin block.
FiltersAgree ==
    /\ Kind("filter") => WithinLive(input[2], input[3]) /\ PlainAgree(input[2], input[3])
    /\ Kind("btc") => BtcWithinLive(input[2], input[3])

\* GetLogsComplete: eth_getLogs leaves out no log of the block or the range that
\* was asked for, and returns none of another block unless the range begins with 0.
GetLogsComplete ==
    Kind("logs") => LogsFound(input[2], input[3], input[4], input[5])

\* FetchersAgree: from the block service, in whatever order a batch arrives, and
\* from the tables comes the same data, that of every state and storage node in
\* the order of their keys; and Fetch fails from both if anything is not there.
FetchersAgree ==
    Kind("fetch") => FetchAgrees(input[2], input[3], input[4])

\* FieldsListed: Tree lists the fields that Resolve finds and no others, those of
\* a Bitcoin transaction to any depth but for a negative one ("the entire object"),
\* for which it lists one level; a result accounts for the whole path, and the
\* links that Resolve follows are those of Links.
FieldsListed ==
    /\ Kind("field") => FlatListed(input[2], input[3])
    /\ Kind("txfield") => TxListed(input[2], input[3], input[4], input[5])

\* CommandsWired: watch and resync run only with the parts they use, of their
\* chain, and index every payload once, except for a Serve fed by the back fill
\* alone, which has no filterer; resync runs for every chain and data it can do
\* and for no other; and the numbers that the services run on are positive after
\* the defaults, except for a negative number of workers and for so many seconds
\* that they overflow a time.Duration.
CommandsWired ==
    Kind("settings") =>
      WatchWired(input[2]) /\ ResyncWired(input[2]) /\ SettingsUsable(input[2])
=============================================================================
