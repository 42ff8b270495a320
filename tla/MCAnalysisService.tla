-------------------------- MODULE MCAnalysisService --------------------------
(* AnalysisService for TLC: symmetry.                                        *)
EXTENDS AnalysisService, TLC

\* Run identifiers are interchangeable, and so are players.  Not for liveness.
Symmetry == Permutations(RunIds) \cup Permutations(Players)
==============================================================================
