---------------------------- MODULE BackFillPass ----------------------------
(***************************************************************************)
(* What one pass of the backfill process promises to the next one: a pass   *)
(* takes a set of heights, works them off in any order, and is over only    *)
(* when none is left, so a new search for gaps never races with work that   *)
(* is still in flight.  Work may be cut short only by the process going     *)
(* down.                                                                    *)
(***************************************************************************)
CONSTANT PassHeights     \* the block heights

VARIABLES phase,         \* "idle", "pass" or "down"
          pending        \* heights of the current pass that are not settled

vars == <<phase, pending>>

Init == phase = "idle" /\ pending = {}

\* A search for gaps starts a pass over the heights it found.
Begin == /\ phase = "idle" /\ phase' = "pass"
         /\ pending' \in SUBSET PassHeights

\* Some heights are settled: indexed, or given up after an error.
Settle == /\ phase = "pass" /\ phase' = "pass"
          /\ pending' \in SUBSET pending

\* The pass is over: nothing may be pending.
End == /\ phase = "pass" /\ pending = {}
       /\ phase' = "idle" /\ pending' = {}

\* Shutdown, panic or loss of the process.
Down == phase' = "down" /\ pending' = {}

\* A new process.
Up == phase = "down" /\ phase' = "idle" /\ pending' = {}

\* The only way out of a pass with pending work goes through the process.
Next == Begin \/ Settle \/ End \/ Down \/ Up

Spec == Init /\ [][Next]_vars
=============================================================================
