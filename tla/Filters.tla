-------------------------------- MODULE Filters --------------------------------
(***************************************************************************)
(* The loops that keep some elements of a list, in the order of the list.   *)
(* SelectSeq is recursive; these are defined by the rank of what is kept,   *)
(* which proofs can use.                                                    *)
(***************************************************************************)
EXTENDS Naturals, FiniteSets

\* The elements of a finite set of numbers, in their order.
Ascending(I) ==
    [n \in 1..Cardinality(I) |-> CHOOSE i \in I : Cardinality({j \in I : j <= i}) = n]

\* Those of the list s whose index is in I.
Kept(s, I) == [n \in 1..Cardinality(I) |-> s[Ascending(I)[n]]]

Filter(s, Test(_)) == Kept(s, {i \in DOMAIN s : Test(s[i])})
================================================================================
