---------------------------- MODULE DecisionFlow ----------------------------
(***************************************************************************)
(* One visitor's page (frontend/src/components/DecisionFlow.tsx) and the   *)
(* analysis jobs behind it: the effects that call the backend, the buttons *)
(* and the browser history dispatch the actions of AnalysisFlow; the jobs  *)
(* change by the operations of AnalysisJob.                                *)
(*                                                                         *)
(* A screen that waits owns one effect, which ends with the screen, so its *)
(* answer can find no other screen.  The exception is POST .../run: its    *)
(* request lives on in the backend after the page has left, and its answer *)
(* may still arrive.  The backend here neither stops nor fails to write:   *)
(* AnalysisService is about that.                                          *)
(***************************************************************************)
EXTENDS AnalysisFlow, FiniteSets, Sequences

CONSTANTS
    Sample,       \* the replay of the hosted sample, or None
    Playerless,   \* replays whose player list is empty
    MaxRequests,  \* coaching requests the visitor makes
    MaxHistory    \* entries of the browser history

ASSUME SampleAssumption == Sample \in Replays \cup {None}
ASSUME PlayerlessAssumption == Playerless \subseteq Replays
ASSUME NoOwnerAssumption == None \notin [analysis : Analyses, player : Players]
ASSUME BoundsAssumption == MaxRequests \in Nat /\ MaxHistory \in Nat \ {0}

VARIABLES
    screen,       \* the reducer's state
    effect,       \* what the running effect remembers between its calls
    cache,        \* uploadedViewerCache.current
    lastId,       \* requestSequence, counting coaching requests
    history,      \* the session history and the current position
    requests,     \* POST .../run calls that were sent and not answered; one
                  \* whose request or answer is lost stays here for good
    jobs,         \* the job of each analysis, None before POST .../prepare
    replayOf,     \* source_replay_id of each job
    owner,        \* the analysis and player each run was made for, or None
    uploaded,     \* replays that were uploaded
    unlocked      \* replays whose manifest says visualization_unlocked

page    == <<screen, effect, cache>>
backend == <<jobs, replayOf, owner, uploaded, unlocked>>
vars    == <<page, lastId, history, requests, backend>>

-----------------------------------------------------------------------------
(* What travels, and what is remembered.                                   *)

\* late: the effect's deadline has passed; second: the job had no answer yet
\* and its status is asked for.
Effect   == [late : BOOLEAN, second : BOOLEAN]
NewEffect == [late |-> FALSE, second |-> FALSE]

\* "sent" is on its way to the backend; "refused" (409), "failed" (503),
\* "broken" (500, no JSON) and "done" are on their way back.
RequestStage == {"sent", "running", "unlocking", "refused", "failed", "broken", "done"}
Request == [id : Nat, analysis : Analyses, player : Players,
            stage : RequestStage, run : RunIds \cup {None}]

View == {"home", "samples", "upload", "upload-viewer"}

\* Who a request, or what is on the screen, is about.
Owner(x) == [analysis |-> x.analysis, player |-> x.player]

\* The result of run r as the page receives it.
ResultOf(a, r) == [replay |-> replayOf[a], player |-> owner[r].player, run |-> r]

\* The players GET .../players lists.
Listed(a) == IF replayOf[a] \in Playerless THEN {} ELSE Players

\* The reducer returns s; a new screen starts its effect anew.
Show(s) == /\ screen' = s
           /\ effect' = IF s = screen THEN effect ELSE NewEffect

\* The page sends POST .../run for the player of screen s.
Post(s) == [id |-> s.request, analysis |-> s.analysis, player |-> s.player,
            stage |-> "sent", run |-> None]

Moved(q, stage) == (requests \ {q}) \cup {[q EXCEPT !.stage = stage]}

Init ==
    /\ screen = Choose /\ effect = NewEffect /\ cache = None
    /\ lastId = 0 /\ requests = {}
    /\ history = [entries |-> <<"home">>, at |-> 1]
    /\ jobs = [a \in Analyses |-> None]
    /\ replayOf = [a \in Analyses |-> None]
    /\ owner = [r \in RunIds |-> None]
    /\ uploaded = {}
    /\ unlocked \in SUBSET ({Sample} \ {None})

-----------------------------------------------------------------------------
(* The backend.                                                            *)

\* POST .../prepare answers with a new job for the replay.
NewAnalysis(a, replay) ==
    /\ jobs[a] = None
    /\ jobs' = [jobs EXCEPT ![a] = NewJob]
    /\ replayOf' = [replayOf EXCEPT ![a] = replay]

PreparationEnds(a) ==
    /\ jobs[a] # None /\ jobs[a].status = "processing"
    /\ \/ jobs' = [jobs EXCEPT ![a].status = "ready", ![a].prepared = TRUE]
       \/ jobs' = [jobs EXCEPT ![a].status = "failed"]
    /\ UNCHANGED <<page, lastId, history, requests, replayOf, owner, uploaded, unlocked>>

Receive(q) ==
    /\ q.stage = "sent"
    /\ IF Selectable(jobs[q.analysis], q.player)
       THEN \E r \in RunIds :
                /\ owner[r] = None
                /\ owner' = [owner EXCEPT ![r] = Owner(q)]
                /\ jobs' = [jobs EXCEPT ![q.analysis] = Started(@, q.player, r)]
                /\ requests' = (requests \ {q})
                                  \cup {[q EXCEPT !.stage = "running", !.run = r]}
       ELSE requests' = Moved(q, "refused") /\ UNCHANGED <<jobs, owner>>
    /\ UNCHANGED <<page, lastId, history, replayOf, uploaded, unlocked>>

RunEnds(q) ==
    /\ q.stage = "running"
    /\ \/ /\ jobs' = [jobs EXCEPT ![q.analysis] = Succeeded(@, q)]
          /\ requests' = Moved(q, "unlocking")
       \/ /\ jobs' = [jobs EXCEPT ![q.analysis] = Failed(@, q)]
          /\ requests' = Moved(q, "failed")
    /\ UNCHANGED <<page, lastId, history, replayOf, owner, uploaded, unlocked>>

\* unlock_visualization, which may fail after the result was saved: the request
\* fails too if the Blob store does, and breaks on anything else.
Unlock(q) ==
    /\ q.stage = "unlocking"
    /\ \/ unlocked' = unlocked \cup {replayOf[q.analysis]} /\ requests' = Moved(q, "done")
       \/ unlocked' = unlocked /\ \E stage \in {"failed", "broken"} : requests' = Moved(q, stage)
    /\ UNCHANGED <<page, lastId, history, jobs, replayOf, owner, uploaded>>

-----------------------------------------------------------------------------
(* Effects: samples, upload, preparation.                                  *)

\* A call that fails; the page keeps what it has.
CallFails(status, error) ==
    /\ Show(Fail(screen, status, error))
    /\ UNCHANGED <<cache, lastId, history, requests, backend>>

SamplesAnswered ==
    /\ screen.status = "loading-samples"
    /\ \/ /\ Show(Enter(screen, "samples-ready", 0))
          /\ UNCHANGED <<cache, lastId, history, requests, backend>>
       \/ CallFails("samples-error", "retryable")

SampleAnswered ==
    /\ screen.status = "selecting-sample"
    /\ \/ \E a \in Analyses :
              /\ NewAnalysis(a, Sample)
              /\ Show(SampleReplayReady(screen, Sample, a))
              /\ UNCHANGED <<cache, lastId, history, requests, owner, uploaded, unlocked>>
       \/ CallFails("sample-selection-error", "retryable")

UploadAnswered ==
    /\ screen.status = "uploading"
    /\ \/ \E r \in Replays \ (uploaded \cup {Sample}) :
              /\ uploaded' = uploaded \cup {r}
              /\ Show([Enter(screen, "preparing-analysis", 0) EXCEPT !.replay = r])
              /\ UNCHANGED <<cache, lastId, history, requests, jobs, replayOf, owner, unlocked>>
       \/ \E e \in {"retryable", "final"} : CallFails("upload-error", e)

PrepareAnswered ==
    /\ screen.status = "preparing-analysis"
    /\ \/ \E a \in Analyses :
              /\ NewAnalysis(a, screen.replay)
              /\ Show(AnalysisPrepared(screen, a))
              /\ UNCHANGED <<cache, lastId, history, requests, owner, uploaded, unlocked>>
       \/ \E e \in {"retryable", "final"} :
              /\ Show(AnalysisPrepareFailed(screen, e))
              /\ UNCHANGED <<cache, lastId, history, requests, backend>>

\* GET .../players, and while there is none, GET .../{id} and again.
PlayersPolled ==
    /\ screen.status = "waiting-for-players"
    /\ \/ LET j == jobs[screen.analysis]
          IN  IF ~effect.second
              THEN IF j.prepared
                   THEN Show(PlayersLoaded(screen, Listed(screen.analysis)))
                   ELSE effect' = [effect EXCEPT !.second = TRUE] /\ UNCHANGED screen
              ELSE IF j.status = "failed" \/ effect.late
                   THEN Show(Fail(screen, "players-error", "retryable"))
                   ELSE effect' = [effect EXCEPT !.second = FALSE] /\ UNCHANGED screen
       \/ Show(Fail(screen, "players-error", "retryable"))
    /\ UNCHANGED <<cache, lastId, history, requests, backend>>

-----------------------------------------------------------------------------
(* Effects: coaching, recovery, the replay map.                            *)

\* The answer to a coaching request arrives, its screen still there or not.
CoachingAnswered(q) ==
    /\ q.stage \in {"refused", "failed", "broken", "done"}
    /\ Show(CASE q.stage = "done" ->
                     CoachingSucceeded(screen, q.id, ResultOf(q.analysis, q.run))
              [] q.stage = "broken" -> CoachingRequestUncertain(screen, q.id)
              [] OTHER -> CoachingFailed(screen, q.id))
    /\ requests' = requests \ {q}
    /\ UNCHANGED <<cache, lastId, history, backend>>

\* 45 seconds without an answer, or an answer that cannot be read.
CoachingTimesOut ==
    /\ screen.status = "running-coaching"
    /\ Show(CoachingRequestUncertain(screen, screen.request))
    /\ UNCHANGED <<cache, lastId, history, requests, backend>>

\* GET .../result, and while there is none, GET .../{id} and again.
RecoveryPolled ==
    /\ screen.status = "recovering-result"
    /\ \/ LET j      == jobs[screen.analysis]
              answer == ResultOfJob(j)
              next   == ResultRecoveryDisposition(j.status, effect.late)
          IN  IF ~effect.second
              THEN CASE answer \in RunIds ->
                            Show(ResultRecovered(screen, ResultOf(screen.analysis, answer)))
                     [] answer = "not_ready" ->
                            effect' = [effect EXCEPT !.second = TRUE] /\ UNCHANGED screen
                     [] OTHER -> Show(Fail(screen, "result-recovery-error", "retryable"))
              ELSE CASE next = "retry-coaching" ->
                            Show(Fail(screen, "coaching-error", "retryable"))
                     [] next = "retry-result" ->
                            Show(Fail(screen, "result-recovery-error", "retryable"))
                     [] OTHER ->
                            effect' = [effect EXCEPT !.second = FALSE] /\ UNCHANGED screen
       \/ Show(Fail(screen, "result-recovery-error", "retryable"))
    /\ UNCHANGED <<cache, lastId, history, requests, backend>>

\* GET /api/replay/{id}/json until it is unlocked.
VisualizationPolled ==
    /\ screen.status = "loading-visualization"
    /\ \/ /\ screen.replay \in unlocked
          /\ Show(VisualizationLoaded(screen))
          /\ cache' = screen.result
       \/ /\ screen.replay \notin unlocked
          /\ Show(IF effect.late THEN Fail(screen, "visualization-error", "retryable")
                                 ELSE screen)
          /\ UNCHANGED cache
       \/ /\ \E e \in {"retryable", "final"} : Show(Fail(screen, "visualization-error", e))
          /\ UNCHANGED cache
    /\ UNCHANGED <<lastId, history, requests, backend>>

Deadline ==
    /\ screen.status \in {"waiting-for-players", "recovering-result", "loading-visualization"}
    /\ ~effect.late
    /\ effect' = [effect EXCEPT !.late = TRUE]
    /\ UNCHANGED <<screen, cache, lastId, history, requests, backend>>

-----------------------------------------------------------------------------
(* The browser history.                                                    *)

CurrentView == history.entries[history.at]

\* pushState: what lay ahead is gone.
Push(view) ==
    /\ history.at < MaxHistory
    /\ history' = [entries |-> Append(SubSeq(history.entries, 1, history.at), view),
                   at |-> history.at + 1]

\* What syncFromLocation makes of the screen when an entry is reached.  Only
\* an upload's entries lead back to its players.
Reached(view) ==
    CASE view = "upload"        -> ReturnToPlayerSelection(screen)
      [] view = "upload-viewer" -> IF cache = None THEN screen ELSE RestoreViewer(screen, cache)
      [] view = "samples"       -> OpenSamples(Choose)
      [] OTHER                  -> Choose

\* history.back() and its popstate event, which follows at once.
GoTo(n) ==
    /\ n \in 1 .. Len(history.entries)
    /\ history' = [history EXCEPT !.at = n]
    /\ Show(Reached(history.entries[n]))

\* The browser's own buttons.
Back ==
    /\ GoTo(history.at - 1)
    /\ UNCHANGED <<cache, lastId, requests, backend>>

Forward ==
    /\ GoTo(history.at + 1)
    /\ UNCHANGED <<cache, lastId, requests, backend>>

-----------------------------------------------------------------------------
(* Buttons.                                                                *)

OpenLandingView ==
    /\ screen.status = "choose"
    /\ Push("samples")
    /\ Show(OpenSamples(Choose))
    /\ UNCHANGED <<cache, lastId, requests, backend>>

SelectReplayFile ==
    /\ screen.status = "choose"
    /\ Push("upload")
    /\ Show(Enter(screen, "uploading", 0))
    /\ UNCHANGED <<cache, lastId, requests, backend>>

\* onSelectPlayer.
ChoosePlayer(p) ==
    /\ screen.status = "choosing-player"
    /\ lastId < MaxRequests
    /\ Push("upload-viewer")
    /\ lastId' = lastId + 1
    /\ Show(SelectPlayer(screen, p, lastId'))
    /\ requests' = requests \cup {Post(screen')}
    /\ cache' = None
    /\ UNCHANGED backend

RepeatCoaching ==
    /\ lastId < MaxRequests
    /\ screen.status = "coaching-error" /\ screen.error = "retryable"
    /\ lastId' = lastId + 1
    /\ Show(RetryCoaching(screen, lastId'))
    /\ requests' = requests \cup {Post(screen')}
    /\ UNCHANGED <<cache, history, backend>>

\* The other retry buttons.  A sample whose players cannot be listed is
\* prepared again; an upload asks the same job again.
Retry ==
    /\ screen.error = "retryable"
    /\ screen.status \notin {"coaching-error", "sample-selection-error"}
    /\ Show(CASE screen.status = "samples-error"       -> OpenSamples(screen)
              [] screen.status = "upload-error"        -> Enter(screen, "uploading", 0)
              [] screen.status = "players-error" /\ ~screen.sample ->
                                               Enter(screen, "waiting-for-players", 0)
              [] screen.status = "result-recovery-error" -> RetryResultRecovery(screen)
              [] screen.status = "visualization-error" -> RetryVisualization(screen)
              [] OTHER                                 -> RetryAnalysisPrepare(screen))
    /\ UNCHANGED <<cache, lastId, history, requests, backend>>

ChooseSample ==
    /\ Sample # None
    /\ screen.status \in {"samples-ready", "sample-selection-error"}
    /\ Show(SelectSample(screen))
    /\ UNCHANGED <<cache, lastId, history, requests, backend>>

\* onBack of every screen that has it.
ReturnHome ==
    /\ screen.status \notin {"choose", "running-coaching", "recovering-result",
                             "loading-visualization", "visualization-error", "viewer"}
    /\ IF CurrentView # "home" THEN GoTo(history.at - 1)
       ELSE Show(Choose) /\ UNCHANGED history
    /\ UNCHANGED <<cache, lastId, requests, backend>>

\* "Back to player selection" and "Choose another player".
ReturnToPlayers ==
    /\ screen.status \in PlayerScreens
    /\ IF CurrentView = "upload-viewer" THEN GoTo(history.at - 1)
       ELSE Show(ReturnToPlayerSelection(screen)) /\ UNCHANGED history
    /\ UNCHANGED <<cache, lastId, requests, backend>>

Next ==
    \/ \E a \in Analyses : PreparationEnds(a)
    \/ \E q \in requests : Receive(q) \/ RunEnds(q) \/ Unlock(q) \/ CoachingAnswered(q)
    \/ SamplesAnswered \/ SampleAnswered \/ UploadAnswered \/ PrepareAnswered \/ PlayersPolled
    \/ CoachingTimesOut \/ RecoveryPolled \/ VisualizationPolled \/ Deadline
    \/ Back \/ Forward \/ OpenLandingView \/ SelectReplayFile \/ ChooseSample
    \/ \E p \in Players : ChoosePlayer(p)
    \/ RepeatCoaching \/ Retry \/ ReturnHome \/ ReturnToPlayers

Spec == Init /\ [][Next]_vars

\* Every call of an effect is answered or fails, and its timers fire.  Nothing
\* is assumed of the backend's own steps, of the requests it was sent, or of
\* the visitor.
Fairness ==
    /\ WF_vars(SamplesAnswered) /\ WF_vars(SampleAnswered)
    /\ WF_vars(UploadAnswered) /\ WF_vars(PrepareAnswered)
    /\ WF_vars(PlayersPolled) /\ WF_vars(CoachingTimesOut)
    /\ WF_vars(RecoveryPolled) /\ WF_vars(VisualizationPolled)
    /\ WF_vars(Deadline)

FairSpec == Spec /\ Fairness

-----------------------------------------------------------------------------
(* Properties.                                                             *)

\* Every variable has its type; a player is on the screen exactly where one is
\* chosen, and an analysis that exists has a replay.
FlowTypeOK ==
    /\ screen \in Screen /\ screen.request \in 0 .. lastId
    /\ (screen.player # None) = (screen.status \in PlayerScreens)
    /\ effect \in Effect /\ cache \in CoachingResult \cup {None}
    /\ lastId \in 0 .. MaxRequests
    /\ history \in [entries : Seq(View), at : Nat]
    /\ history.at \in 1 .. Len(history.entries)
    /\ Len(history.entries) <= MaxHistory
    /\ requests \subseteq Request
    /\ jobs \in [Analyses -> Job \cup {None}]
    /\ replayOf \in [Analyses -> Replays \cup {None}]
    /\ \A a \in Analyses : (jobs[a] = None) = (replayOf[a] = None)
    /\ owner \in [RunIds -> [analysis : Analyses, player : Players] \cup {None}]
    /\ uploaded \subseteq Replays /\ unlocked \subseteq Replays

\* A result shown to the visitor of an upload was made for the analysis and the
\* player on the screen, whichever way it got there: as the answer of the
\* request, through recovery, which asks for the job's latest result, or from
\* the viewer kept for browser Forward (analysis-flow.ts resultMatchesSelection,
\* DecisionFlow.tsx uploadedViewerCache).
ShownRunIsOfTheSelection ==
    screen.result # None /\ screen.replay # Sample =>
        owner[screen.result.run] = Owner(screen)

\* A coaching screen never ends in the "did not match" error: the answers of
\* requests the visitor has left do not reach it (analysis-flow.ts requestId).
DirectAnswersMatch ==
    [][screen.status = "running-coaching" /\ screen'.status = "coaching-error"
           => screen'.error = "retryable"]_vars

\* Recovery gives up on a request only when the player's run neither runs nor
\* has a result: what it decides is about that run (DecisionFlow.tsx
\* recovering-result effect, analysis-flow.ts resultRecoveryDisposition).
RecoveryIsAboutTheRun ==
    [][screen.status = "recovering-result" /\ screen'.status = "coaching-error"
           => /\ screen'.error = "retryable"
              /\ jobs[screen.analysis].runs[screen.player].status
                     \notin {"running", "complete"}]_vars

\* "Back to player selection" shows the players of the same analysis.
ReturnsToPlayers ==
    [][ReturnToPlayers => /\ screen'.status = "choosing-player"
                          /\ screen'.analysis = screen.analysis]_vars

\* Every screen that waits for the backend is left, whatever the backend does.
EveryWaitEnds == (screen.status \in Waiting) ~> (screen.status \notin Waiting)
=============================================================================
