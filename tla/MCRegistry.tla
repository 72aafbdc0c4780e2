----------------------------- MODULE MCRegistry -----------------------------
(***************************************************************************)
(* Small instance of Registry: three registrations, two runs, a concrete   *)
(* node type and an interface type, one explicit name.                     *)
(***************************************************************************)
EXTENDS Registry

CONSTANTS c1, c2, c3, callExpr, expr, named

MCCallers == {c1, c2, c3}
MCTypes == {callExpr, expr}
MCConcrete == {callExpr}
MCNames == {named}
CallerSymmetry == Permutations(MCCallers)
=============================================================================
