------------------------------ MODULE MCResync ------------------------------
(***************************************************************************)
(* Resync on three heights.  Ethereum: e0, e1, e2 and a fork f1 at height 1 *)
(* that is an uncle of e2; e0 and e1 have the same receipt, e1 and f1 the   *)
(* same transaction and state node.  Bitcoin: b0, b1 and a fork g0 at       *)
(* height 0 with the transaction of b0.                                     *)
(***************************************************************************)
EXTENDS Resync

Eth == {"e0", "e1", "e2", "f1"}
Btc == {"b0", "b1", "g0"}

Heights ==
    [b \in Eth \cup Btc |-> CASE b \in {"e0", "b0", "g0"} -> 0
                              [] b \in {"e1", "f1", "b1"} -> 1
                              [] b = "e2" -> 2]

Contents ==
    [e0 |-> [header |-> "E0", tx |-> "T0", rct |-> "R", state |-> "S0",
             account |-> "none", storage |-> "M"],
     e1 |-> [header |-> "E1", tx |-> "T1", txTrie |-> "T1", rct |-> "R",
             rctTrie |-> "R", state |-> "S1", account |-> "none", storage |-> "M1"],
     f1 |-> [header |-> "F1", tx |-> "T1", rct |-> "RF", state |-> "S1", account |-> "none"],
     e2 |-> [header |-> "E2", uncle |-> "F1", state |-> "S2"],
     b0 |-> [header |-> "B0", tx |-> "BT", txTrie |-> "BX", input |-> "none", output |-> "none"],
     g0 |-> [header |-> "G0", tx |-> "BT", txTrie |-> "GX", input |-> "none", output |-> "none"],
     b1 |-> [header |-> "B1", tx |-> "BU", txTrie |-> "BY", input |-> "none", output |-> "none"]]

TxIds == [b \in Eth \cup Btc |-> IF b \in {"b0", "g0"} THEN "bt" ELSE b]

Chain == [eth |-> [h \in 0..2 |-> <<"e0", "e1", "e2">>[h + 1]],
          btc |-> [h \in 0..1 |-> <<"b0", "b1">>[h + 1]]]

Config(chain, data, rng, reset, clear, direct) ==
    [chain |-> chain, data |-> data, ranges |-> <<rng>>, reset |-> reset,
     clear |-> clear, direct |-> direct]

\* One range that the command is configured with, an inverted one included.
Settings ==
    {Config("eth", s[1], s[2], TRUE, TRUE, FALSE) :
        s \in {<<"full", <<0, 2>>>>, <<"state", <<1, 1>>>>, <<"storage", <<0, 1>>>>,
               <<"transactions", <<0, 2>>>>, <<"receipts", <<1, 1>>>>,
               <<"uncles", <<2, 2>>>>}}
    \cup {Config("eth", "headers", s[1], s[2], s[3], TRUE) :
            s \in {<<<<1, 1>>, TRUE, TRUE>>, <<<<1, 2>>, TRUE, FALSE>>,
                   <<<<2, 1>>, FALSE, TRUE>>}}
    \cup {Config("btc", s[1], s[2], FALSE, TRUE, s[3]) :
            s \in {<<"full", <<0, 1>>, FALSE>>, <<"headers", <<0, 0>>, TRUE>>,
                   <<"transactions", <<0, 1>>, TRUE>>}}
=============================================================================
