--------------------------- MODULE MCWatcherServe ---------------------------
(***************************************************************************)
(* Two clients with the kinds of settings that take different paths.        *)
(***************************************************************************)
EXTENDS WatcherServe, TLC

CONSTANTS c1, c2

Ask(start, end, hist, only) ==
    [chain |-> TRUE, start |-> start, end |-> end, hist |-> hist, only |-> only]

TwoClients == {c1, c2}
OneClient == {c1}
NoClient == {}
Symmetry == Permutations(TwoClients)

LiveAtOne == Ask(1, 1, FALSE, FALSE)
HistoryAndLive == Ask(0, 0, TRUE, FALSE)
HistoryOfOne == Ask(1, 1, FALSE, TRUE)
OtherChain == [HistoryOfOne EXCEPT !.chain = FALSE]

MixedSettings == {LiveAtOne, HistoryAndLive}
HistoryToOne == Ask(0, 1, TRUE, FALSE)
HistorySettings == {HistoryAndLive, HistoryToOne, HistoryOfOne, OtherChain}
=============================================================================
