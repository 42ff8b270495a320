------------------------------ MODULE PlayerRuns ------------------------------
(***************************************************************************)
(* What an analysis job promises its clients about coaching runs, whatever *)
(* process happens to serve them: a player has at most one run at a time,  *)
(* a run ends at most once, its result is its own, and a result that has   *)
(* been shown stays until its player is coached again - a restart included.*)
(* AnalysisService implements it.                                          *)
(***************************************************************************)
CONSTANTS Players, RunIds, None

VARIABLES
    runs,     \* [Players -> Run]: each player's latest run
    issued    \* run identifiers used so far

vars == <<runs, issued>>

NoRun == [id |-> None, status |-> "not_started", result |-> None]

Init == /\ runs = [p \in Players |-> NoRun]
        /\ issued = {}

\* A player who is not being coached can be coached, under a new identifier.
Start(p) ==
    /\ runs[p].status # "running"
    /\ \E r \in RunIds \ issued :
        /\ runs' = [runs EXCEPT
               ![p] = [id |-> r, status |-> "running", result |-> None]]
        /\ issued' = issued \cup {r}

Finish(p) ==
    /\ runs[p].status = "running"
    /\ runs' = [runs EXCEPT ![p].status = "complete", ![p].result = runs[p].id]
    /\ UNCHANGED issued

Fail(p) ==
    /\ runs[p].status = "running"
    /\ runs' = [runs EXCEPT ![p].status = "failed"]
    /\ UNCHANGED issued

\* A process stops.  The runs it was coaching may end without their result,
\* keeping an earlier one, and an identifier may be spent on no run; every
\* other run stays as it was.
Interrupt ==
    /\ runs' \in [Players -> [id : RunIds \cup {None},
                              status : {"not_started", "running", "complete", "failed"},
                              result : RunIds \cup {None}]]
    /\ \A p \in Players :
        \/ runs'[p] = runs[p]
        \/ /\ runs[p].status = "running"
           /\ runs'[p].id = runs[p].id
           /\ runs'[p].status \in {"failed", "complete"}
           /\ runs'[p].result # runs[p].id
    /\ issued \subseteq issued' /\ issued' \subseteq RunIds

Next == \/ \E p \in Players : Start(p) \/ Finish(p) \/ Fail(p)
        \/ Interrupt

Spec == Init /\ [][Next]_vars
==============================================================================
