---------------------------- MODULE AnalysisFlow ----------------------------
(***************************************************************************)
(* The state of the page and what each action of its reducer makes of it   *)
(* (frontend/src/domain/analysis-flow.ts), as values.  DecisionFlow says   *)
(* when these actions are dispatched.                                      *)
(*                                                                         *)
(* A screen is the reducer's state: only the fields a guard or another     *)
(* screen depends on are kept.  An action the screen does not expect       *)
(* leaves it as it is.                                                     *)
(***************************************************************************)
EXTENDS AnalysisJob, Naturals

CONSTANTS
    Replays,      \* replay_id: uploaded files and the hosted sample
    Analyses      \* analysis_id

ASSUME NoReplayAssumption == None \notin Replays /\ None \notin Analyses

-----------------------------------------------------------------------------
(* Screens.                                                                *)

SampleScreens == {"loading-samples", "samples-error", "samples-ready",
                  "selecting-sample", "sample-selection-error"}

\* The screens of a chosen player: "Back to player selection" leads out of them.
PlayerScreens == {"running-coaching", "recovering-result", "result-recovery-error",
                  "coaching-error", "loading-visualization", "visualization-error",
                  "viewer"}

ScreenStatus == {"choose", "uploading", "upload-error", "preparing-analysis",
                 "analysis-prepare-error", "waiting-for-players", "players-error",
                 "choosing-player"} \cup SampleScreens \cup PlayerScreens

\* The screens that wait for the backend.
Waiting == {"loading-samples", "selecting-sample", "uploading", "preparing-analysis",
            "waiting-for-players", "running-coaching", "recovering-result",
            "loading-visualization"}

\* "final" is an error whose retryable flag is false.
ScreenError == {"none", "retryable", "final"}

\* A coaching result: what the reducer compares of it, and the run that made it.
CoachingResult == [replay : Replays, player : Players, run : RunIds]

Screen == [status : ScreenStatus, request : Nat, error : ScreenError,
           sample : BOOLEAN,                    \* sampleId is kept
           replay : Replays \cup {None}, analysis : Analyses \cup {None},
           player : Players \cup {None}, result : CoachingResult \cup {None}]

\* The screen of RESET.
Choose == [status |-> "choose", request |-> 0, error |-> "none", sample |-> FALSE,
           replay |-> None, analysis |-> None, player |-> None, result |-> None]

\* s goes on to a screen that waits for request id (0 where none is compared).
Enter(s, status, id) ==
    [s EXCEPT !.status = status, !.request = id, !.error = "none"]

Fail(s, status, error) ==
    [s EXCEPT !.status = status, !.request = 0, !.error = error]

\* Mutant: an answer is taken whatever request it answers.
ExpectsAny(s, status, id) == s.status = status

\* The guard of every answer that carries a requestId.
Expects(s, status, id) == s.status = status /\ s.request = id

-----------------------------------------------------------------------------
(* Samples, uploads and preparation.                                       *)

OpenSamples(s) ==
    IF s.status \in {"choose", "samples-error"}
    THEN Enter(Choose, "loading-samples", 0) ELSE s

SelectSample(s) ==
    IF s.status \in {"samples-ready", "sample-selection-error"}
    THEN Enter(s, "selecting-sample", 0) ELSE s

SampleReplayReady(s, replay, analysis) ==
    IF s.status = "selecting-sample"
    THEN [Enter(s, "waiting-for-players", 0) EXCEPT
              !.sample = TRUE, !.replay = replay, !.analysis = analysis]
    ELSE s

\* The analysis a player was waited for in is dropped; sampleId is kept.
RetryAnalysisPrepare(s) ==
    IF s.status \in {"analysis-prepare-error", "players-error"} /\ s.error = "retryable"
    THEN [Enter(s, "preparing-analysis", 0) EXCEPT !.analysis = None]
    ELSE s

\* A second preparation forgets that the replay was a sample.
AnalysisPrepared(s, analysis) ==
    IF s.status = "preparing-analysis"
    THEN [Enter(s, "waiting-for-players", 0) EXCEPT
              !.sample = FALSE, !.analysis = analysis]
    ELSE s

AnalysisPrepareFailed(s, error) ==
    IF s.status = "preparing-analysis"
    THEN [Fail(s, "analysis-prepare-error", error) EXCEPT !.sample = FALSE]
    ELSE s

PlayersLoaded(s, players) ==
    IF s.status # "waiting-for-players" THEN s
    ELSE IF players = {} THEN Fail(s, "players-error", "final")
    ELSE Enter(s, "choosing-player", 0)

-----------------------------------------------------------------------------
(* Coaching, recovery and the viewer.                                      *)

\* Mutant: no result is compared with the selection.
MatchesAny(result, s) == TRUE

ResultMatchesSelection(result, s) ==
    result.replay = s.replay /\ result.player = s.player

\* A result of another selection ends in an error that cannot be retried.
FinishCoaching(s, result) ==
    IF ResultMatchesSelection(result, s)
    THEN [Enter(s, "loading-visualization", 0) EXCEPT !.result = result]
    ELSE Fail(s, "coaching-error", "final")

SelectPlayer(s, player, id) ==
    IF s.status = "choosing-player"
    THEN [Enter(s, "running-coaching", id) EXCEPT !.player = player] ELSE s

CoachingSucceeded(s, id, result) ==
    IF Expects(s, "running-coaching", id) THEN FinishCoaching(s, result) ELSE s

CoachingRequestUncertain(s, id) ==
    IF Expects(s, "running-coaching", id) THEN Enter(s, "recovering-result", 0) ELSE s

CoachingFailed(s, id) ==
    IF Expects(s, "running-coaching", id)
    THEN Fail(s, "coaching-error", "retryable") ELSE s

RetryCoaching(s, id) ==
    IF s.status = "coaching-error" /\ s.error = "retryable"
    THEN Enter(s, "running-coaching", id) ELSE s

ResultRecovered(s, result) ==
    IF s.status = "recovering-result" THEN FinishCoaching(s, result) ELSE s

\* Mutant: a recovery that takes too long permits a rerun.
DispositionOfTimeout(status, timedOut) ==
    IF status = "failed" \/ (status # "complete" /\ timedOut) THEN "retry-coaching"
    ELSE IF status = "complete" THEN "retry-result" ELSE "continue"

\* Mutant: the recovery has no deadline.
DispositionWithoutDeadline(status, timedOut) ==
    IF status = "failed" THEN "retry-coaching"
    ELSE IF status = "complete" THEN "retry-result" ELSE "continue"

ResultRecoveryDisposition(status, timedOut) ==
    IF status = "failed" THEN "retry-coaching"
    ELSE IF status = "complete" \/ timedOut THEN "retry-result" ELSE "continue"

RetryResultRecovery(s) ==
    IF s.status = "result-recovery-error" /\ s.error = "retryable"
    THEN Enter(s, "recovering-result", 0) ELSE s

VisualizationLoaded(s) ==
    IF s.status = "loading-visualization" THEN Enter(s, "viewer", 0) ELSE s

RetryVisualization(s) ==
    IF s.status = "visualization-error" /\ s.error = "retryable"
    THEN Enter(s, "loading-visualization", 0) ELSE s

\* Mutant: the player of the screen that is left stays selected.
ReturnKeepsPlayer(s) ==
    IF s.status \in PlayerScreens THEN Enter(s, "choosing-player", 0) ELSE s

ReturnToPlayerSelection(s) ==
    IF s.status \in PlayerScreens
    THEN [Enter(s, "choosing-player", 0) EXCEPT !.player = None, !.result = None]
    ELSE s

\* The viewer kept in memory, if it is of the replay whose players are shown.
RestoreViewer(s, result) ==
    IF /\ s.status = "choosing-player"
       /\ ResultMatchesSelection(result, [s EXCEPT !.player = result.player])
    THEN [Enter(s, "viewer", 0) EXCEPT !.player = result.player, !.result = result]
    ELSE s
=============================================================================
