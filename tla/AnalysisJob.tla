----------------------------- MODULE AnalysisJob -----------------------------
(***************************************************************************)
(* The record of one analysis job (class AnalysisJob of                    *)
(* backend/app/orchestration.py) as values: what each operation makes of   *)
(* it, what is cached of it, what a restart rebuilds and what the read     *)
(* endpoints answer from it.  AnalysisService says when, and in which      *)
(* steps, these happen.                                                    *)
(***************************************************************************)
CONSTANTS
    Players,      \* players of the replay with a first-contact decision
    RunIds,       \* identifiers uuid4 can issue
    None          \* Python's None

\* What the read endpoints answer when they have no result.
NoResult == {"no_run", "failed", "not_ready"}

ASSUME NoneAssumption == None \notin RunIds /\ None \notin Players
ASSUME RunIdAssumption == RunIds \cap NoResult = {}

-----------------------------------------------------------------------------
(* The job and its artifacts.  A result is named by the run that made it.  *)

JobStatus == {"processing", "ready", "coaching", "complete", "failed"}
RunStatus == {"not_started", "running", "complete", "failed"}

Result == RunIds \cup {None}
Run  == [id : Result, status : RunStatus, result : Result]
Runs == [Players -> Run]
Job  == [status : JobStatus, prepared : BOOLEAN,
         selected : Players \cup {None}, result : Result, runs : Runs]

ASSUME NoJobAssumption == None \notin Job

\* A player with no entry in player_runs.
NoRun == [id |-> None, status |-> "not_started", result |-> None]

NewJob == [status |-> "processing", prepared |-> FALSE, selected |-> None,
           result |-> None, runs |-> [p \in Players |-> NoRun]]

\* Mutant: state.json says nothing of the runs.
SnapshotWithoutRuns(j) ==
    [j EXCEPT !.result = None, !.runs = [p \in Players |-> NoRun]]

\* What _persist_job writes to state.json: no result is in it.
Snapshot(j) ==
    [j EXCEPT !.result = None,
              !.runs = [p \in Players |-> [j.runs[p] EXCEPT !.result = None]]]

\* Mutant: result.json holds the selected player's result alone.
ResultsOfSelected(j) ==
    [p \in Players |-> IF p = j.selected THEN j.runs[p].result ELSE None]

\* What _persist_job writes to result.json.
ResultsOf(j) == [p \in Players |-> j.runs[p].result]

\* Mutant: an interrupted run is restored with a status no reader knows.
RestoredStatusUnknown(state, run) ==
    IF state.status = "coaching" /\ run.status = "running"
    THEN "interrupted" ELSE run.status

\* Mutant: every run of a job left coaching is failed.
RestoredStatusAllFailed(state, run) ==
    IF state.status = "coaching" THEN "failed" ELSE run.status

\* Runs still marked running are failed only when the job itself was left
\* coaching.
RestoredStatus(state, run) ==
    IF state.status = "coaching" /\ run.status = "running"
    THEN "failed" ELSE run.status

\* One run as a restart finds it.
RestoredRun(state, run, result) ==
    IF run.status = "not_started" THEN NoRun
    ELSE [id |-> run.id, status |-> RestoredStatus(state, run), result |-> result]

\* The job both restore functions build from the two artifacts.
Restored(state, results) ==
    LET runs == [p \in Players |-> RestoredRun(state, state.runs[p], results[p])]
    IN  [status   |-> IF state.status # "coaching" THEN state.status
                      ELSE IF state.prepared THEN "ready" ELSE "failed",
         prepared |-> state.prepared,
         selected |-> state.selected,
         result   |-> IF state.selected \in Players
                      THEN runs[state.selected].result ELSE None,
         runs     |-> runs]

-----------------------------------------------------------------------------
(* What the read endpoints answer from a job in memory.                    *)

\* GET .../result?player_id=p
ResultOfPlayer(j, p) ==
    LET run == j.runs[p]
    IN  IF run.status = "not_started" THEN "no_run"
        ELSE IF run.result # None     THEN run.result
        ELSE IF run.status = "failed" THEN "failed"
        ELSE "not_ready"

\* GET .../result
ResultOfJob(j) ==
    IF j.result # None THEN j.result
    ELSE IF j.status = "failed" THEN "failed" ELSE "not_ready"

\* The coaching POST .../intent explains: the snapshot it takes under the lock.
IntentSource(j, p) ==
    IF j.runs[p].status = "not_started" THEN "no_run"
    ELSE IF j.runs[p].status # "complete" \/ j.runs[p].result = None
         THEN "not_ready"
    ELSE j.runs[p].result

-----------------------------------------------------------------------------
(* What the coaching of a player makes of the job.                         *)

\* Mutant: the status of the player's previous run is not looked at.
SelectableWhileRunning(j, p) == j.prepared

Selectable(j, p) == j.prepared /\ j.runs[p].status # "running"

\* Mutant: the player's entry is updated in place and keeps its result.
StartedKeepsRunResult(j, p, r) ==
    [j EXCEPT !.selected = p, !.status = "coaching", !.result = None,
              !.runs[p] = [@ EXCEPT !.id = r, !.status = "running"]]

\* Mutant: the job's own result is not dropped.
StartedKeepsJobResult(j, p, r) ==
    [j EXCEPT !.selected = p, !.status = "coaching",
              !.runs[p] = [id |-> r, status |-> "running", result |-> None]]

Started(j, p, r) ==
    [j EXCEPT !.selected = p, !.status = "coaching", !.result = None,
              !.runs[p] = [id |-> r, status |-> "running", result |-> None]]

\* Mutant: the answer is recorded for whoever is selected by now.
SucceededForSelected(j, c) ==
    [j EXCEPT !.result = c.run, !.status = "complete",
              !.runs[j.selected] =
                  [id |-> c.run, status |-> "complete", result |-> c.run]]

Succeeded(j, c) ==
    [j EXCEPT !.result = c.run, !.status = "complete",
              !.runs[c.player] =
                  [id |-> c.run, status |-> "complete", result |-> c.run]]

\* Mutant: only the run is failed, not the job.
FailedRunOnly(j, c) ==
    [j EXCEPT !.runs[c.player] =
                  [id |-> c.run, status |-> "failed", result |-> None]]

\* Mutant: only the job is failed, not the run.
FailedJobOnly(j, c) == [j EXCEPT !.status = "failed"]

Failed(j, c) ==
    [j EXCEPT !.status = "failed",
              !.runs[c.player] =
                  [id |-> c.run, status |-> "failed", result |-> None]]

=============================================================================
