--------------------------- MODULE MCWatcherSync ----------------------------
(***************************************************************************)
(* The head sync with two workers and very short channels.                  *)
(***************************************************************************)
EXTENDS WatcherSync

CONSTANTS a, b

OneHash == {a}
TwoHashes == {a, b}
=============================================================================
