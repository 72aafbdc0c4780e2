------------------------------ MODULE Prepare ------------------------------
(***************************************************************************)
(* What Engine.Run does before it builds mutants, except for the choice of *)
(* a selector: the packages are loaded (Load), the tests that may be run   *)
(* are found (Discover) and the mutation points are collected (Collect).   *)
(* One stage follows the other; they share the loaded packages.  How       *)
(* mutants are built from the points, and tests selected for them, is in   *)
(* Pipeline and Selection.                                                 *)
(***************************************************************************)
EXTENDS Discover, Collect

vars == <<loadVars, discoverVars, collectVars>>

Init == LoadInit /\ DiscoverInit /\ CollectInit

Step ==
    \/ (LoadFails \/ LoadOK) /\ UNCHANGED <<discoverVars, collectVars>>
    \/ DiscoverNext /\ UNCHANGED collectVars
    \/ CollectNext /\ UNCHANGED discoverVars

Finished == stage \in {"failed", "prepared"} /\ UNCHANGED vars

Next == Step \/ Finished

\* All of it is sequential code: as long as it has a step to take, it takes one.
Spec == Init /\ [][Next]_vars /\ WF_vars(Step)

-----------------------------------------------------------------------------
\* Every variable holds a value of its kind; in particular the packages are what
\* Selection assumes of them.
TypeOK ==
    /\ stage \in {"load", "failed", "discover", "decide", "collect", "walk", "prepared"}
    /\ ArePackages(pkgs)
    /\ DiscoverTypeOK
    /\ CollectTypeOK

\* The preparation ends, whichever functions call each other and however the
\* syntax trees are nested.
PrepareReturns == <>(stage \in {"failed", "prepared"})
=============================================================================
