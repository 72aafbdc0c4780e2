----------------------------- MODULE MCPipeline -----------------------------
(***************************************************************************)
(* Small instances of Pipeline: every plan of at most three attempts.      *)
(***************************************************************************)
EXTENDS Pipeline

MCPlans == UNION {[1 .. n -> [does : Behaviours, tests : BOOLEAN]] : n \in 0 .. 3}

\* Every plan whose rules only ever return proper nodes.
MCProperPlans == {p \in MCPlans : \A j \in DOMAIN p : p[j].does = "changed"}
=============================================================================
