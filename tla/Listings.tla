------------------------------ MODULE Listings ------------------------------
(***************************************************************************)
(* Lists made from sets: what the code gets from an ORDER BY, or from a     *)
(* loop that skips some of the elements of a slice.                         *)
(***************************************************************************)
EXTENDS Integers, FiniteSets

\* Ascending listing of a finite set of numbers.
Ascending(S) ==
    [i \in 1..Cardinality(S) |->
       CHOOSE h \in S : Cardinality({k \in S : k < h}) = i - 1]

\* The elements of a list at the places S, in the order of the list.
Picked(list, S) == [k \in 1..Cardinality(S) |-> list[Ascending(S)[k]]]
=============================================================================
