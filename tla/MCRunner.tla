------------------------------ MODULE MCRunner ------------------------------
(***************************************************************************)
(* Small instances of Runner.                                              *)
(***************************************************************************)
EXTENDS Runner

\* An empty batch; one mutant for two workers; and more mutants than workers,
\* with one, two or no packages selected.
MCBatches == {<<>>, <<{1, 2}>>, <<{1, 2}, {}, {2}>>}
=============================================================================
