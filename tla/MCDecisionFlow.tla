--------------------------- MODULE MCDecisionFlow ---------------------------
(* DecisionFlow for TLC: symmetry of the identifiers.                        *)
EXTENDS DecisionFlow, TLC

\* Not for liveness.
Symmetry == Permutations(RunIds) \cup Permutations(Players) \cup Permutations(Analyses)
                \cup Permutations(Replays \ ({Sample} \cup Playerless))
=============================================================================
