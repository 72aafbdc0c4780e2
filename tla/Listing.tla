------------------------------ MODULE Listing ------------------------------
(***************************************************************************)
(* Lists of what a set holds, in some order: what the loops over packages, *)
(* files and declarations yield, and what sorting without duplicates does. *)
(* (SortSeq, SelectSeq and what is made of them have no definition that    *)
(* could be reasoned with.)                                                *)
(***************************************************************************)
EXTENDS Integers, Sequences, FiniteSets

\* The members of a finite set in the order a relation gives them.
InOrder(S, before) ==
    CHOOSE s \in [1 .. Cardinality(S) -> S] :
        \A j, k \in DOMAIN s : j < k => <<s[j], s[k]>> \in before

Ascending(S) == InOrder(S, {x \in S \X S : x[1] < x[2]})

\* The order in which nested loops come to places, each given by the indices
\* of the loops from the outermost one on.
Earlier(a, b) ==
    \E i \in DOMAIN a : a[i] < b[i] /\ \A j \in DOMAIN a : j < i => a[j] = b[j]

InLoopOrder(S) == InOrder(S, {x \in S \X S : Earlier(x[1], x[2])})
=============================================================================
