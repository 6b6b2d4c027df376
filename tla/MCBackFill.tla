----------------------------- MODULE MCBackFill -----------------------------
(***************************************************************************)
(* The backfill service with two workers on a small chain.                  *)
(***************************************************************************)
EXTENDS BackFill

CONSTANTS a, b

OneHash == {a}
TwoHashes == {a, b}
=============================================================================
