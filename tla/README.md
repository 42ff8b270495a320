# RE:DECIDE in TLA+

RE:DECIDE takes a Counter-Strike 2 demo, finds the moments where players first
come into contact, has a language model coach one player's decisions at those
moments, and shows the coaching on a replay map; beside that, it trains the
models its estimates come from.  This directory specifies the program and checks
it: TLC on small instances, TLAPS for any values of the constants.

`PROJECT.json` maps every definition that models code to the lines it models,
and lists the runs, the hazards they are for, the findings and the theorems.

## 1. The system

| Part | Where | State it keeps | Operations |
|---|---|---|---|
| Analysis service | `backend/app/orchestration.py`, `analysis_store.py` | one `AnalysisJob` per replay in memory; `state.json` and `result.json` per job | prepare, select_player (start and end of a coaching run), result, run_intent_coaching, restore |
| HTTP routes, progress stream | `backend/app/main.py` | a stream's position in the job's updates | one route per operation; `GET .../events` follows a job |
| Blob client | `backend/storage/blob.py` | none (the store is Vercel Blob) | signed put and get, bounded retries |
| Replay store, ingestion, import | `backend/replay_api/`, `blob_import.py` | `coaching.json`, `manifest.json`, `visualization.json` per replay | upload, import, status, json, unlock |
| Hosted samples | `backend/app/sample_replay.py` | the same artifacts under a fixed id | prepare from the cache or from a download |
| Retention, Blob routes | `frontend/src/app/api/` | none | a daily sweep of old artifacts; upload tickets, cleanup |
| Replay pipeline | `backend/app/replay/`, `replay_engine/training/engagement_windows.py`, `action_labeler.py` | none | cut decision windows, label them, choose first contacts |
| Coach adapters, output merge | `backend/app/coach/pi_connector.py`, `replay_engine_connector.py` | none | one provider call per run, merge of its output |
| Intent coaching | `backend/app/coach/intent_*.py` | none | evaluate an intent against one decision of a complete run |
| Front-end flow | `frontend/src/domain/analysis-flow.ts`, `components/DecisionFlow.tsx` | a reducer state, request ids, a cached viewer | upload, prepare, choose, coach, recover, visualize |
| Agent harness | `agent-harness/` | a session's counters, the processes of its tools | admit, run, time out, abort and answer tool calls |
| Round simulator | `replay_engine/model/src/cs2_sim/simulator.py`, `rules.py` | the state of one round | the loop of a round behind the tool `simulate_round` |
| Candidate decisions | `candidate_states.py`, `split_candidate_dataset.py`, `train_candidate_value.py`, ... | files of decisions, labels, models, metrics | extract, label, split, train, evaluate |
| Replay database | `build_replay_db.py`, `replay_cleaning.py`, `extract_features.py` | one SQLite file | build and rebuild in one transaction |
| Round-value training | `train_full_replay.py`, `benchmark_dataset.py`, `export_parquet.py`, `dataset_registry.py`, `replay_value.py` | model files and their manifest, a sealed benchmark, a registry | train, calibrate, score, seal, evaluate, export, load |
| Dataset download | `download_dataset.py`, `stream_sidecars.py` | sidecars, a manifest of checksums | download, lock, verify, stream |
| Model releases | `model_bundle.py`, `build_release_manifest.py` | release directories, `current.json` | stage, activate, roll back, load |

(The training files without a directory are under `backend/replay_engine/training/`.)

How they interact.  The browser uploads a demo to the replay API, which parses
it and writes the replay's artifacts; it asks the service to prepare the
replay, whose pipeline cuts the moments; it chooses a player and posts a run,
whose request calls the provider and answers minutes later; the run route then
unlocks the visualization in the manifest, for which the browser polls.  While a
run goes on the browser follows the job's event stream, and afterwards it may
ask about a moment (intent coaching).  The service and the replay API share
nothing but the artifacts, which a daily sweep deletes.  A filesystem deployment
has one process; on Vercel any number of Function instances serve the same job
over one Blob store.  Offline, datasets are downloaded and locked, built into a
database, trained on, scored, and staged as releases that the service loads.

What is hard.  The provider is called without the job's lock, so runs of
several players overlap.  Every group of artifacts is several writes, each may
fail, be retried or be applied twice, and a process may stop between them; the
sweep decides from an old listing.  The manifest is read, changed and rewritten
without a lock.  Instances hold copies of the same job.  The browser gives up
long before the server does.  The pipeline looks at a whole match, and what it
tells the coach, a model or a player must not know what happened later.  The
coach answers in any order and may say anything.  A tool's answer races its
timeout.  A training writes file after file over those of an earlier one.

What makes each part correct:

- *service*: an outcome is recorded for the run and player it belongs to; an
  answered result is never lost or relabelled; every run ends and its player
  can be coached again; a cache that fails does not fail a request;
- *progress stream*: it ends only when a run's end was told, and tells the log
  as it is;
- *replay store, samples, retention*: a coached upload stays unlocked and
  nothing else is; what says "ready" is whole; a pinned sample is never swept,
  and limits starve no expired upload;
- *pipeline, merge*: a moment is a player's very first contact; inputs know
  nothing of what came later; coaching is about the moment it is shown under;
- *intent*: facts do not betray the outcome; advice fits what the player said
  and cites what was there;
- *front-end flow*: only the answer to the present request is shown, what is
  shown belongs to the selected player, and no wait is for ever;
- *harness, simulator*: limits hold however many tools run at once, every call
  is answered; every round is decided;
- *training, datasets, releases*: no score is one of matches that were learnt;
  restored data and active releases are whole.

## 2. The modules

| Module | Models | State |
|---|---|---|
| `AnalysisJob` | class `AnalysisJob` as values: what selecting, ending, caching and restoring make of it, what the read endpoints answer | none |
| `AnalysisService` | the service's processes over one job and its artifacts | see below |
| `PlayerRuns` | the abstract promise: each player's latest run and the identifiers used | `runs`, `issued` |
| `AnalysisFlow` | the page's reducer, `analysis-flow.ts`, as values: what each action makes of a screen | none |
| `DecisionFlow` | one visitor's page, `DecisionFlow.tsx`: effects, buttons, browser history, beside the analysis jobs | see below |
| `AnalysisEvents` | the job's log, the stream that sends it and the page that follows it | `updates`, `stream`, `source`, ... |
| `ReplayStore` | the requests that write replays and analyses into one store, put by put | `store`, `tasks`, ... |
| `BlobRetention` | `ReplayStore` composed with the sweep | + `sweep`, `swept` |
| `EngagementWindows` | decision windows, their features and labels, of one record | none |
| `ReplayPipeline` | moments, key events, what the coach is told, which answers count, the merge | none |
| `IntentCoach` | stated goals, facts of a moment, advice, published summaries | none |
| `CoachedReplay` | the three above on one replay's way from record to coaching and questions | `stage`, `record`, `request`, `analyses`, ... |
| `CandidateStates` | the state before each kill, its legal actions and labels | none |
| `CandidateTraining` | splitting, training and evaluating on those decisions, file by file | `splitDir`, `modelDir`, ... |
| `ReplayDatabase` | cleaning and building the database, in one transaction | `tables`, `building` |
| `ReplayTraining` | `ReplayDatabase` composed with training, benchmark, exports and registry | + `artifacts`, `scores`, ... |
| `DatasetFiles` | downloads within a budget, the locked manifest, streaming | `onDisk`, `fetch`, ... |
| `ModelReleases` | building, staging, activating, rolling back, loading, several operators | `release`, `pointer`, `work` |
| `AgentHarness` | the tool calls of a session and their processes | `call`, `process`, ... |
| `RoundSimulator` | the loop of a simulated round | `clock`, `bomb`, `body`, ... |
| `MC...` | instances for TLC: `MCBackend` puts the parts that share no state side by side | |
| `...Proofs` | the theorems of section 5 | |

`AnalysisService` and `DecisionFlow` both change jobs by the operators of
`AnalysisJob`.  The first is about processes, locks and artifacts; the second
takes a job that is never lost, and is about the page that uses it.

### AnalysisService

Jobs share nothing but the dictionary that holds them, so the module has one.

| Variable | Code |
|---|---|
| `job[i]` | the `AnalysisJob` in process `i`'s `_jobs`, or `None` |
| `section[i]` | the critical section that holds `job.lock` in process `i`: its operation, its next step and the job as it was before |
| `calls[i]` | `select_player` requests between the two sections, waiting for the provider |
| `stored` | `state.json` and `result.json` |
| `intake` | the request that prepares the job: nobody else knows its id before it answers |
| `owner`, `replied` | history: the player each run id was issued for, and what that request was told |

A player with no entry in `player_runs` has `NoRun`, and a result is named by
the run that made it.  A critical section is several steps, and a process can
stop between any two: the change in memory (`SelectPlayer`, `CoachSucceeds`,
`CoachFails`, `PreparationSucceeds`, ...), `WriteState`, `WriteResult`, and
`EndSection`, which stands for the log lines and the release of the lock.  The
section's request then calls the provider or answers.  No other request of the
process sees the job while the lock is held, so every reader's guard is
`Free(i)`.

Failing writes are actions of their own.  `CacheFault` is an exception
`_persist_job` catches: the second write is skipped with the first.
`BlobFault` is the Blob client's `RuntimeError`, which it does not catch.
`LogFault` is an `OSError` of `_write_log`.  `Raise` is what an exception that
leaves the section does: the request fails, except in the pipeline loop, whose
handler records a failed preparation.

`Crash` and `ReadState`/`ReadResult` are the stop and the restore, at start-up
(`_restore_persisted_jobs`) or at the first request (`_restore_blob_job`): both
functions read the state first and the results after it and build the same job
from them (`Restored`).  The restore of a filesystem deployment happens before
any request, which the guard `~Up(i)` says of both.

### PlayerRuns and the refinement

`PlayerRuns` says what a client may rely on whatever process serves it: at most
one run per player at a time, a run ends at most once, its result is its own,
and it stays until the player is coached again; a stop can end a run in
progress and spend an identifier, and nothing else.  `AnalysisService` with one
process and no failing write implements it through any sequence of stops.  The
mapping (`VisibleRuns`, `IssuedRuns`) shows a section's change from the step
that makes it durable: `state.json` for the start of a run, both artifacts for
its end.  A run that stops between the writes that end it may come back
"complete" without its result, or "failed" with an earlier result of the same
player; the abstract `Interrupt` allows both, and `IntentExplainsTheShownRun`
says that no reader takes the second for the new run.

### DecisionFlow

| Variable | Code |
|---|---|
| `screen` | the reducer's state: its status, the fields guards depend on, and whether its error is retryable |
| `effect` | what the running effect remembers between two calls: that its deadline passed, that the job had no answer yet and its status is asked for |
| `cache` | `uploadedViewerCache.current` |
| `lastId` | `requestSequence`, counting coaching requests only |
| `history` | the entries of the session history and the position in them |
| `requests` | `POST .../run` calls that were sent and not yet answered |
| `jobs`, `replayOf`, `unlocked`, `uploaded` | the backend: each job, the replay it was made for, the manifests that say `visualization_unlocked`, the uploads |
| `owner` | history: the analysis and player each run was made for |

An effect is an action that is enabled on its own screen: React ends the effect
with the screen (the cleanup sets `isCurrent` to false and aborts the call), so
its answer can find no other screen and needs no request id.  A coaching request
is the exception.  The page may leave or time out after 45 seconds, the server
goes on for minutes, and the answer may still come; it is therefore a record in
`requests` that the backend receives, runs, ends and unlocks in steps of its own
(`Receive`, `RunEnds`, `Unlock`), and whose answer is compared with the request
id on the screen (`Expects`).  A lost request or answer is one that never takes
its next step.  A status poll is two calls, the second only after the first had
no answer, and the job may change in between (`effect.second`).

`Reached` is what a `popstate` makes of the screen; the event is taken to follow
its `history.back()` at once.  One hosted sample stands for all.  Left out:
`sample-selected` (nothing dispatches `SAMPLE_SELECTED`), the catalog of
processed replays, progress events, and the per-moment intent requests.

### ReplayStore and BlobRetention

A request is a task with its next step; the steps are the puts of
`start_replay` and `finish_visualization`, the two reads of `_load_cached`, the
run and the read and write of `unlock_visualization`, in the code's order
(`NextStep`).  A put is answered (`PutAnswered`), or its answer is lost, and then
it may have been applied all the same and is tried again up to `MaxAttempts`
(`PutUnanswered`); in between, any other task may write.  A task may stop
anywhere.  An upload's client learns its id from the answer of its last put, so
nobody can run an analysis of it earlier; a sample's id is known to all.  The
sweep lists both prefixes (each possibly cut at `MaxScanned` in the middle of a
group), inspects group by group with one read each, and deletes at the end what
it found (`SweepLists`, `SweepInspects`, `SweepDeletes`); `Day` lets artifacts
age while no request or sweep is in progress, which last minutes.

### From the record to coaching

`EngagementWindows`, `ReplayPipeline` and `IntentCoach` are functions of a
record, which is what the demo parser found: events, positions sampled at ticks,
grenades, plants and round bounds.  Seconds of the code are constants in ticks,
places are members of a set, and features that are numbers are named by what
they are computed from.  `CoachedReplay` takes a record through preparation
(`Prepare`), a selection (`SelectPlayer`), an answer of the coach, which may name
moments in any order, twice, or unknown ones (`CoachAnswers`), and a question
about a moment: the text's phrases, an interpreting and an advising model whose
answers are arbitrary, malformed or missing.

### Offline training

`CandidateStates` continues `EngagementWindows` with the state as it was right
before a kill; `CandidateTraining` has one action per file a split writes and a
stop between any two, and a training that saves the statistical model, may stop
with or without the full one, and ends with full model and metrics.  `ReplayDatabase` keeps the tables as sets and bags of
rows labelled by the demo they came from; a build collects its records and
commits them together.  `ReplayTraining` follows one training and two exports
beside it; a file is the number of the command that wrote it and what that
command had learnt.  `DatasetFiles` names what is at a file's place: the whole
file, a cut one, one of another revision, a longer one.  `ModelReleases` names a
file by the build that wrote it.

### AgentHarness and RoundSimulator

A tool call is admitted and counted in one step, because nothing is awaited
between the count and the start of its process (`CallTool`); from then on the
process's answer, its timeout, the session's abort, SIGTERM, SIGKILL and a crash
come in any order, and `Settle` is what the `close` handler makes of it.  The
simulator's step is one pass of its loop, with choices, actions, bomb timer and
winner in the code's order; any legal action may be chosen.  A planted bomb may
have ticked for any time already, as it has in `agent_bridge.py`.

### MCBackend

The parts that share no state are checked in one run: `part` says which one is at
work, the variables of the others rest.  Two properties are stated there because
they are the same promise of several parts: `InputsPrecedeOutcomes` (windows,
candidate decisions, database rows) and `ScoresAreOfUnseenMatches` (both kinds of
training, the benchmark, the registry, the loaded model).

## 3. The runs

| Run | Instance | What it shows |
|---|---|---|
| `service_crash` | 1 process, 2 players, 4 run ids, 2 stops | the durability properties and the refinement |
| `service_faults` | 2 processes, 2 players, 3 run ids, every failing write, 1 stop | the safety invariants that hold in every deployment |
| `service_live` | 1 process, 2 players, 3 run ids, failing cache writes, fair | every run ends, every accepted selection is answered |
| `service_orphan` | 1 process, 1 stop | violated: a restart can leave a player blocked for good |
| `service_raise` | 1 process, failing Blob writes | violated: a failed write fails a successful run |
| `service_instances` | 2 processes | violated: an instance erases results it does not know |
| `flow_upload` | 2 uploads, 2 players, 2 analyses, 2 requests, 4 history entries | what is shown was made for the selection; late answers find no screen |
| `flow_sample` | the sample, 1 player, 2 analyses, 2 requests, 3 history entries, fair | every wait ends; recovery permits a rerun only of a run that failed or never began |
| `flow_recovery` | as `flow_upload` | violated: recovery speaks of another player's run |
| `flow_back` | as `flow_upload` | violated: the way back to the players may lead nowhere |
| `storage` | 1 upload, the sample, 1 analysis, 3 requests of which 2 at once, 2 attempts of a put, the sweep; 900,000 states | what is released, cached, pinned and swept stays consistent |
| `backend` | the nine parts of `MCBackend`; 324,000 states, two minutes | the promises of pipeline, coaching, stream, harness, simulator, datasets, training and releases |

### Bounds

Two players are what an interference between players needs: the
properties name at most two.  Three run ids let one player be coached twice
while the other is coached, or the other way round; four let both be coached
twice, which with two stops covers a stop in a first and in a second run of
each.  Two processes are what a stale copy needs.  `MaxCrashes` bounds `Crash`
only, and `RunIds` bounds how many selections are accepted.  The symmetric runs
check no liveness.  `CHECK_DEADLOCK FALSE` in the service's runs: when the run
ids are used up and all runs have ended the system rests, and a preparation that
was lost ends the story of its job.

For the page, two requests are a request and the one that is made while its
answer is still under way, of the same player or of another.  Two analyses and
two replays let a visitor leave one selection for another and come back.  Four
history entries hold home, upload and two viewer entries, which is the history
`flow_back` needs; three hold home, samples and a viewer.  `MaxRequests` bounds
`ChoosePlayer` and `RepeatCoaching`, `MaxHistory` bounds `Push`; when both are
used up the browser's own buttons remain, so deadlock is checked.  `flow_sample`
takes one player because with two `RecoveryIsAboutTheRun` does not hold
(`flow_recovery`), and no upload because with one the run takes too long; the
screens an upload waits on are the same after its preparation.

`storage`: three requests are an upload or a sample's preparation twice and a run,
two of them at once; two attempts are the first put whose answer is lost and the
one that follows it; `MaxScanned` cuts a listing in the middle of a group and
`MaxDeleted` is one group; a day is what one kind of artifact is kept and two
another, and ages stop counting where nothing tells them apart.  Requests are
bounded (`MaxRequests`), hence `CHECK_DEADLOCK FALSE`.

`backend`, part by part.  Records are of two kinds: fights of up to three
damages among three players at five ticks of a round, with a kill or without,
which is what debouncing, the lead and the ends of windows depend on; and matches
of three rounds with a death, a plant, no contact, an early end, which is what
selection, merging and questions depend on.  An answer of the coach has up to two
entries about two moments or an unknown one.  The stream follows two runs and one
lost connection or restart.  Two tool calls in two turns, of three names of which
one is not registered, with sizes on both sides of both limits.  Three players
for four ticks of a round and a bomb of four, a plant of two and a defuse of
three, so that each can end before, with and after the other.  Two files of two
chunks under a budget of four.  Two operators, two versions of two builds.  Four
decisions of three replays (and two of two), two splits.  Five demos of four
matches, one with a row told twice and a round too long to be clean, four
commands, two exports at once.  Each bound is a constant of the module that
guards an action (`MaxSelections`, `MaxTurns`, `MaxRuns`, `MaxBuilds`,
`MaxSplits`, `MaxCommands`, `MaxExports`, ...); each part rests when its bound is
reached, hence `CHECK_DEADLOCK FALSE`.

### Properties

Properties of the service, and the code they are about:

- `LiveCallOwnsRun`: the provider call in flight is the run its player's entry
  records.  It rests on the status check of `select_player`, on the lock, and
  on nothing that a failing write or another instance can change.
- `JobResultIsRetained`, `ResultsBelongToTheirPlayer`, `CoachingHasARun`: the
  job's own result and status are second copies of what the runs say.
- `RestartRebuildsRuns`, `AnsweredResultIsServed`, `ResultsAreRetained`,
  `IntentExplainsTheShownRun`: what the two artifacts are for.
- `SuccessIsAnswered`, `PreparedJobIsReusable`: what two comments of the code
  promise; they hold in one process lifetime with a failing local cache, and
  the runs `service_raise` and `service_orphan` show where they do not.
- `RunsEnd`, `SelectionsAreAnswered`: liveness.

Properties of the page:

- `ShownRunIsOfTheSelection`: `resultMatchesSelection` compares the replay and
  the player, never the analysis.  That the analysis is right too rests on an
  upload being prepared successfully at most once.  It is stated for uploads:
  a sample has the same replay id in every analysis, and browser Forward can
  show the viewer of an older one.
- `DirectAnswersMatch`: the request id keeps the answers of abandoned requests
  away; the error "did not match" is never the answer of one's own request.
- `RecoveryIsAboutTheRun`: recovery ends in an offer to coach again only when
  that player's run neither runs nor has a result.
- `EveryWaitEnds`: no screen waits for ever, whatever the backend does.
- `ReturnsToPlayers`: "Choose another player" shows the players.

Of the storage run:

- `ReleasedAfterCoaching`: a manifest is unlocked only for a replay with a
  successful run; no repeated put and no stale copy unlocks it.
- `UploadStaysUnlocked`: and an upload stays so; every write of its ingestion,
  repeated ones too, is over before its analysis can run.  For a sample it does
  not hold (section 6).
- `ReadyIsWhole`: a manifest that says "ready" has its other artifacts, and so
  has a sample answered from its cache, whatever happens between the two reads.
- `SweepIsFair`: the pinned sample is never swept, not even in part; and a sweep
  that met an expired upload and no error deletes something, so the limits
  postpone and never starve.

Of the backend run:

- `MomentsAreFirstContacts`, `CoachingIsAboutItsMoment`,
  `ShownMomentsCanBeExplained`: the way of a moment from the record to the
  screen; `Merge` and the alias by position are where it could go wrong.
- `InputsPrecedeOutcomes`: what a model learns from is the same if the match had
  gone on differently; the check cuts the record and computes again.
- `FactsAreOutcomeBlind`: so is what the coach is told of a moment (the moment
  itself, its events) if the record ends with the reaction, and what the language
  model may cite, then without kills too; candidates and highlighted events are
  computed again from the cut record.  The win probability the coach is told is
  one that could be estimated of the record cut at the contact, but not always the
  same one: the pipeline keeps every n-th sampled state, and n depends on how many
  the whole match has.  The bounds and the winners of rounds are not cut.
- `AdviceIsGrounded`: what is published fits a stated goal and a grenade that is
  there, cites facts of the moment, and tells of no kill.
- `ProgressIsTheLog`, `FirstEndIsReported`: the stream.  The second is liveness:
  the stream may read the updates before a run's end and the status after it and
  stop without having told it; the browser's reconnection makes it good.
- `ToolCallsAreContained`, `ToolCallsEnd`, `RoundIsDecided`: harness, simulator.
- `SnapshotsMatchTheirRounds`: a snapshot's label is its round's winner and it
  counts the kills and damages stored of that round so far, once each, but for
  those by the world (a fall, the bomb) or by the player against themselves: these
  are stored too and are not counted (`_real_kill`).
- `DatasetIsWhole`, `ScoresAreOfUnseenMatches`, `ActiveReleaseIsWhole`: data and
  models, whatever stops half way.

### Fairness

A thread that holds the lock goes on (`Persist`); the
request that prepares the job ends; a provider call ends, each player's on its
own, because the adapter has a timeout and whatever it raises is caught; a
process with nothing in memory restores.  Nothing is assumed about users,
failing writes or stops.  Weak fairness is enough for `CoachEnds` in the
instance because a section in progress ends before another starts and the
selections are bounded by `RunIds`, as they are in practice by what users do
while one run lasts: the lock of a job is not held while a provider is called.

The page's `Fairness` is weak fairness of its own effects and timers: a `fetch`
resolves or rejects, and `setTimeout` fires.  Nothing is assumed of the backend's
steps, of the requests it was sent, or of the visitor, so every wait ends by an
answer, an error, or a deadline.

`EventsFairness`: the server drives the generator of a response and the browser
its EventSource.  `HarnessFairness`: a timer fires, SIGKILL cannot be ignored, a
closed process is noticed.  Nothing is assumed about runs that are in progress,
about processes that answer, or about the visitor.

## 4. The findings

1. **A restart can block a player for good** (`service_orphan`).
   `_restore_persisted_jobs` fails interrupted runs only if the job's status is
   "coaching".  When two players are coached at once and one ends, the status is
   that end's; a restart then brings the other run back as "running".
2. **A Blob write that fails turns a success into an error** (`service_raise`).
   `_persist_job` catches `OSError`, `TypeError` and `ValueError`; the Blob
   client raises a `RuntimeError`.
3. **Instances erase each other's results** (`service_instances`).  Each
   instance keeps the copy of the job it restored first and writes the whole
   `result.json` from it.
4. **Recovery is not about the player** (`flow_recovery`).  It reads
   `GET .../result` without a `player_id` and the job's own status, so another
   player's run decides: its result ends in an error that cannot be retried, its
   failure offers to coach again while the first run is still in progress.
5. **The way back to the players can lead nowhere** (`flow_back`).  After
   browser Back and Forward the selector is shown on an entry "upload-viewer";
   choosing a player pushes a second one, and going back one entry reaches the
   first, where nothing happens without a cached viewer.

Other limits are listed in section 6.

## 5. What is proved

### The service

`AnalysisServiceProofs`, for any sets of processes, players and run ids, any
set of failing writes and any number of stops, from the assumptions of
`AnalysisJob` and `AnalysisService` alone (`None` is no run, player or job, and
no run id is one of the answers "no_run", "failed", "not_ready"):

    Spec => []TypeOK                        TypeCorrectness
    Spec => []LiveCallOwnsRun               CallsOwnTheirRuns
    Spec => []ResultsBelongToTheirPlayer    ResultsStayWithTheirPlayer
    Spec => []JobResultIsRetained           JobResultStaysRetained
    Spec => []CoachingHasARun               CoachingJobHasARun

`CoachingHasARun` is inductive with the types alone.  The other three are not.
`ServiceInv` is, and conjoins the type invariant, `CoachingHasARun` and

- `SectionInv`: what a section in progress may assume.  A section that persists
  or logs has a job in memory and is not a restore; a "load" step runs only in a
  process without a job; the sections that start or end a run name a player and
  a run; and a section that starts a run is about an entry that is running under
  the run it issued, with no call in flight for that player.  Without it
  `EndSection` could put a second call in flight for a player;
- `LiveCallOwnsRun`, which needs `SectionInv` for that step, and gives
  `CoachSucceeds` and `CoachFails` the entry they overwrite;
- `OwnerInv`: the runs of the calls in flight, the results in every job and the
  stored results were issued for the player they appear under.  It is what makes
  `ResultsBelongToTheirPlayer` survive a restore, which combines two artifacts
  of different moments;
- `JobResultIsRetained`.

The proof has a lemma per action, and under it a step per conjunct; helper
lemmas state the types of `Restored`, `Snapshot`, `Started`, `Succeeded` and
`Failed`, the last three in `AnalysisJobProofs`.

Two more hold only where writes fail in a certain way, which the theorems assume
in so many words; `service_raise` shows that the first is false otherwise:

    ASSUME Faults \subseteq {"cache"}
    Spec => []SuccessIsAnswered             SuccessesAreAnswered
    ASSUME Instances = {i}, Faults \subseteq {"cache"}, MaxCrashes = 0
    Spec => []PreparedJobIsReusable         PreparedJobsAreReusable

The first rests on what is known of each run by itself (`AnswerInv`): a section
that records a run's end has a request to answer, and while a run is recorded
complete no other section will end it.

### One process and its restarts

`AnalysisRestartProofs`, for any players, any run ids and any number of stops,
where one process serves the job and no write fails (`Instances = {i}`,
`Faults = {}`): with two processes or failing Blob writes the properties are
false, which `service_instances` and `service_raise` show.

    Spec => []RestartRebuildsRuns           RestartsRebuildRuns
    Spec => []IntentExplainsTheShownRun     IntentIsAboutTheShownRun
    Spec => []AnsweredResultIsServed        AnsweredResultsAreServed
    Spec => ResultsAreRetained              ResultsStayRetained
    Spec => PlayerRuns!Spec                 ServiceImplementsPlayerRuns

`RestartInv`, inductive with `ServiceInv`, says in which order a section brings
its change to the store: before "state" the two artifacts rebuild the runs it
found, between "state" and "result" the first is new and the second is not, and
after "result" both are what it made (`WritesInv`); what it made differs from
what it found in its own player only (`Edits`).  "Rebuilds" allows one
difference: a running entry comes back failed (`Fits`).  An entry, in memory or
rebuilt, has no result but its own run's, and has it for good once its request
was answered "done" (`RunSound`).  The refinement maps a job to what is durable
or will be after the section in progress; a step of the service is a step of
`PlayerRuns` exactly when it writes state.json, and a stutter otherwise.

### The page

For any sets of replays, analyses, players and runs, any number of requests and
history entries, with a sample or without, from the assumptions of
`AnalysisJob`, `AnalysisFlow` and `DecisionFlow` (`None` is none of the
identifiers and no owner; the bounds are numbers; the sample is a replay):

    Spec => []FlowTypeOK                     FlowTypes            (DecisionFlowProofs)
    Spec => DirectAnswersMatch               AnswersMatch         (DecisionFlowProofs)
    Spec => []ShownRunIsOfTheSelection       ShownRunMatches      (DecisionFlowProofs)
    Spec => RecoveryIsAboutTheRun            RecoveryAsksAboutTheRun, where Players = {p}

`FlowInv`, inductive, conjoins the type invariant and

- `ScreenOK`: a screen beyond the preparation has its replay and analysis, and
  has a player exactly if it is a screen of a player;
- `PlaceOK`: the analysis on the screen is of the replay on the screen, and any
  request in flight with the id the screen waits for is about its selection;
- `RequestsOK`: ids in flight were issued, and a run belongs to its request.

Most steps of the page are covered by one relation: `Follows(t, s)` says that
`t` is `s` or waits for no coaching request and shows no other analysis; a lemma
per reducer action proves it, and `PageStep` takes it to `FlowInv'`.  The
remaining steps make a job, send a request or belong to the backend.

`ShownInv` adds what `ShownRunIsOfTheSelection` rests on: a result on the screen
or in the cache is labelled with its own run's player and replay (`Made`), a
job's result is of that job (`KeptResults`), and an upload has at most one
analysis and none while it is prepared (`UploadsPreparedOnce`), which needs the
page's `sample` flag to tell which replays may be prepared again (`ShownOK`).
`ShownInv` is inductive with `FlowInv`.

The recovery of a lost answer asks after the player on the screen.  With several
players it may speak of another one's run (`flow_recovery`); with one it gives up
only when that run failed or never began: `FailuresAreOfTheRun` says that a poll
or a refused repetition that reports a failure was answered by the job the screen
shows, at or after a state in which the run had ended.

### Storage

`BlobRetentionProofs`, for any uploads, jobs, samples, requests and attempts, and
any limits of the sweep:

    Spec => []StorageTypeOK                 StorageTypes
    Spec => []ReleasedAfterCoaching         ReplaysAreReleasedAfterCoaching
    Spec => [][...]_vars                    UploadsStayUnlocked
    Spec => []ReadyIsWhole                  ReadyReplaysAreWhole
    Spec => []SweepIsFair                   SweepsAreFair, where MaxDeleted >= 3

`RetentionInv` says of every request what it may still rely on (`TaskSound`): its
earlier puts are in the store, unless the sweep took something of that replay,
and a manifest it read and will write back, if it says "ready", is that of a
complete replay.  Besides, an upload is ingested by one request, its coaching
artifact is the first in the store, nobody runs an analysis of an upload before
its id is known, and the groups the sweep has yet to inspect are those of its
listing.  `UploadsStayUnlocked` is an action property of the same invariant.
`SweepsAreFair` needs `MaxDeleted` to be at least the three artifacts of a replay:
with less the sweep would skip every group.  The route takes 1 to 1000 and
defaults to 500 (`REDECIDE_RETENTION_MAX_DELETED_BLOBS`,
`frontend/src/app/api/cron/blob-retention/route.ts:13, 165-167`).

### From the record to coaching

`CoachingProofs`, for any set of well-formed records, texts and answers:

    ReplaySpec => []CoachingIsAboutItsMoment      TextsAreOfTheirOwnMoments
    ReplaySpec => []AdviceIsGrounded              PublishedAdviceIsGrounded
    ReplaySpec => []ShownMomentsCanBeExplained    CompletedTextsCanBeAskedAbout,
                                                  where CloseTicks <= MaxReaction
    ReplaySpec => []MomentsAreFirstContacts       MomentsStartAtFirstContacts,
                                                  where no limit cuts a record
    ReplaySpec => []FactsAreOutcomeBlind          FactsHideTheOutcome,
                                                  where no limit cuts a record
    ReplaySpec => []FeaturesPrecedeLabels         FeaturesComeBeforeLabels
    ReplaySpec => []ReplayTypeOK                  ReplaysAreTyped

`CloseTicks <= MaxReaction` is the code's: the pipeline watches a reaction for
2.5 seconds and the intent engine accepts 3 (`MAX_REACTION_SECONDS`).  That no
limit cuts a record (`WithinLimits`) is needed for one part of
`MomentsAreFirstContacts`, that a player who had time has a moment: the code keeps
the first windows and the first moments only, and drops the rest of a long match.
`FactsHideTheOutcome` needs it for the moment of a cut record to be among those
that are kept.

The module begins with the lemmas the functions of a record need.  Sorting is
taking the element with n - 1 elements before it as the n-th (`InOrder`); in a
finite set with a strict total order every rank is taken exactly once
(`RanksGrow`, `RanksExist`, by the library's theorem on injections between sets
of one size, so without an induction), hence `RankedSequence` and, for what a
filter makes of a sequence, `PickedElements`.  From there up: contacts, anchors
and windows are of real events of the record; a player has one first contact in
a round, so that moments are totally ordered; a moment's reaction ends between
its contact and `CloseTicks` later (`CandidatesAreMoments`); evenly spaced
indices reach from the first to the last (`SelectionSpans`).

An anchor is defined by recursion along the contacts: a contact is one unless an
anchor of the same fight opened less than a horizon before it.  The library's
induction cannot be cited here (its predicate is a parameter), so that such a
function exists is shown by a least counterexample (`ChoicesExist`, from
`LeastNumber`).  Then the first contact of a fight is an anchor, as no earlier one
is of its fight (`FirstOfAFightIsAnAnchor`), and the debouncing of other fights
never hides a player's first.  Features are computed from rows and events up to
the decision, labels from those after it, and cutting the record changes neither
(`FeaturesUpTo`, `LabelsAfter`).

That a moment does not depend on what follows it is an argument about a *part* of
a record (`IsPart`: its events up to a tick, in their order, of which kills may be
left out, and its rows and deeds up to it; see `PartsTell`).  The real events of a part are those of the whole up to the tick
(`RealEventsOfAPart`); whether a contact is an anchor depends on earlier contacts
only (`AnchorRule`), so the anchors agree (`AnchorsOfAPart`), hence the windows and
which of them is a player's first (`WindowsOfAPart`, `FirstOfAPart`), and the
moments correspond one to one (`MomentsOfAPart`).  What a player was seen to do is
told from rows up to the end of the reaction (`ActionUpTo`); it is "unknown" where
the cut removes the player's first position (`IsMomentOf`).  An estimate at a tick
is the same of any record cut at or after it (`FoughtUpTo`, `EstimatesUpTo`), and
the one told is of a tick up to the contact (`ProbabilityIsPast`).

`ReplayInv` is the invariant of a replay: what was prepared is the pipeline's
result for its record, what the coach was asked is the payload of one of its
players, each text is of the chosen moment its alias names, and a question is the
prompt of one of the texts; `ReplayTypeInv` adds the statuses of replies.  The properties
follow with lemmas about the operators: `Merge` (`MergedTexts`), the evidence of a record that tells the same
up to a tick (`TellsUpTo`, `TelemetryUpTo`, `MomentEventsUpTo`), the resolution
of an advice (`ResolveIsAllowed`) and the first two of the cited facts
(`SummariesTell`, which needs the facts of a moment to be finitely many).

### Training and scores

`BackendProofs`, for any corpora, inputs, shuffles and commands:

    Spec => []ScoresAreOfUnseenMatches            ScoresStayOfUnseenMatches

and, of the action model alone, `ScoresAreOfUnseenReplays`.  `TrainingInv` says
how far the commands have come that write file by file (`CommandsFollow`): the
files of a split that was not stopped are of one cut of the corpus, whose sides
share no replay, and the models of a training that followed it are of those
files.  `LearningInv` says the same of the round-value training: what is in the
tables is of the inputs (`TablesAreOfInputs`), every file is the number and the
knowledge of one command (`FilesFollow`), and registries name disjoint groups,
also the ones an export in progress has read (`RegistriesAreApart`).  That a last
group of a shuffle exists is `OneIsLast`.

### The database, and all parts

`BackendProofs` again, for any values of the constants the assumptions of the
modules allow:

    Spec => []InputsPrecedeOutcomes      InputsComeBeforeOutcomes
    Spec => []BackendTypeOK              BackendIsTyped
    Spec => []SnapshotsMatchTheirRounds  SnapshotsStayTrue, where demos are told
                                         alike and repeated rows agree

`DatabaseInv` says of the tables (`TablesAreSound`) that each snapshot is one of a
told demo, as it is or cleaned, and that the fights stored of its round are those
of that version, each once (`IsStored`), whether the snapshots count them or not; and of a build in progress that its
records are told ones, cleaned or not.  A demo may be built both ways, one after
the other.  The second build then adds its events to the first's unless the unique
index over the snapshots stops it, and nothing but the snapshots makes it stop: so
the argument is that cleaning keeps every snapshot of a round it keeps
(`CleaningKeepsStates`) and hence a second version that has a round with a stored
snapshot collides (`RepeatsCollide`).  This is where the two hypotheses are needed.
`DemosAreToldAlike`: a demo is parsed to the same record, whatever file it is in.
`RepeatsAgree`: rows told twice for a player and a tick agree on side and life.
Where they do not, cleaning keeps the first of them and a snapshot of the
uncleaned record may have no counterpart; section 6 says what happens then.  Both
hold of the run's records, and TLC evaluates them there (`ToldAssumption`, with
`WithinLimits`).

That rows are blind to what follows them rests on `CleanedIsCounted` and
`NearUntil`: the events of a record that is cut at a tick are, up to it, those of
the whole (`SnapshotsAreBlind`, `EventRowsAreBlind`, `KillsStayUnseen`).
`PartsInv` is the invariant of whichever part is at work, and of the database
always.

### Stream, harness, simulator, datasets, releases

`PartsProofs`, for any values of the constants the modules' assumptions allow:

    EventsSpec    => []ProgressIsTheLog        ProgressFollowsTheLog
    HarnessSpec   => []ToolCallsAreContained   ToolsStayContained
    SimulatorSpec => []RoundIsDecided          RoundsAreDecided
    DatasetSpec   => []DatasetIsWhole          DatasetStaysWhole
    ReleaseSpec   => []ActiveReleaseIsWhole    ActiveReleasesAreWhole
    ReleaseSpec   => [][...]_releaseVars       ReleasesStay

Each is the same argument: an inductive invariant, one step per action.

- `EventsInv`: what a connection has delivered is the beginning of the log as far
  as its index; the log only grows while the process runs, and a restart ends
  every connection.
- `HarnessInv`: the processes started in the present turn are at most the calls
  counted (`StartsAreCounted`), no call is of a later turn, and only a waiting
  call has a process that may still do something (`CallsMatchProcesses`).  The
  limits of a tool follow although the code counts the calls of all tools.
- `SimulatorInv`: an undecided round has time left for what it waits for
  (`TimeIsLeft`): before the plant some of the round's, after it as much as the
  bomb needs; and one player has the bomb and alone can plant it (`OneBomb`).
- `DatasetInv`: what the command in progress has reached (`FetchIsSound`): every
  locked file before the one at hand is verified, and what is fetched into a
  settled directory is no file its manifest lists.
- `ReleaseInv`: what an operator's command knows (`WorkIsBacked`): the version it
  is about to write into the pointer is a release that is there, and releases
  never change.

### Only model-checked

- The liveness properties (`RunsEnd`, `SelectionsAreAnswered`,
  `EveryWaitEnds`, `FirstEndIsReported`, `ToolCallsEnd`): the prover handles
  neither fairness nor `ENABLED`.  Every other property of a passing run is
  stated by a theorem.
- What is false, by its nature: the five runs of section 4.

## 6. What is left out, and limits of the code

Not modelled:

- Estimators and numbers: rollouts, Bayesian updates, gradient boosting, map
  geometry, confidence; reports and their wording (`candidate_coverage.py`,
  `candidate_analysis.py`, `analysis_harness.py`, `full_match_report.py`,
  `recommendations.py`, `bayesian_decisions.py`, `train_engagement_lightgbm.py`,
  `cs2_sim/api.py` apart from loading).  Their state is their result, and nothing
  in it is an order, a choice or a failure that a model checker tells apart.
- Regular expressions over a player's words (a text is the phrases found in it),
  the size bound of a prompt, and the guard that rejects an answer that repeats a
  hidden number: all are about characters.
- On the page: rendering, the catalog of processed replays, the per-moment intent
  requests; a backend that stops or fails to write, which is the service's
  module.
- HTTP routes that translate exceptions, upload tickets and their cleanup, URL
  checks and redirects of the Blob client: checks of one request.
- The model session of the agent harness (a library) and the demo parser.  The
  session is aborted at most once: the CLI aborts on the first SIGINT only and
  serves one prompt (`main.ts`).
- A Blob write that arrives after its retry was answered: a put is applied at its
  own attempt or never, so that an older write never replaces a newer one.
- Build scripts and the lockfile check.
- A Blob write of the *service* whose answer is lost although it was applied: the
  state it leaves is that of a write followed by a failing log line, which is
  there; the replay store's writes have it as a step.

Limits met while modelling.  No run states them as a property; most contradict no
text of the repository (where one does, it is named), and some are assumptions of
a module.

*Service and page.*  The player list of an upload whose preparation failed is
asked of the same failed job again.  A map whose unlocking failed stays locked.
Forward restores a sample's viewer under a new analysis.

*Storage* (`API.md` is that of `backend/replay_api/`).  A second preparation of a sample can lock it again after its coaching
(`API.md:186` speaks of the unlock only).  A sweep and an unlock at once can write
a manifest of a replay that is gone; unlocking a swept replay ends in a 500.  A
group is deleted in part when a listing was cut inside it (`API.md:30` says
complete groups).  A group in use for longer than it is kept is deleted.  With the Blob store the
replay API answers the JSON and visualization routes by a redirect
(`replay_api/main.py:79-88`), where `API.md:113-123` and `158-160` show content.

*Stream.*  With a second run, the first run's end is read again from position 0
and lets the page stop before the second's; after a restart the updates are gone,
the stream ends at once and the page goes on asking.

*Replay and intent.*  Which of the sampled states the told probability is of depends
on how many rows the whole match has, those of later rounds included
(`pipeline.py:601-603`): the number tells a little of the match's length, not how
the fight ended.  The pipeline bounds a reaction by the told end of a round
only, the windows also by the official one.  A grenade advised as a fallback is
published without the telemetry the model would have had to cite; the fallback
among several goals is always "reassess", which every goal allows; one phrase of
the vocabulary ("re-engage") cannot match after normalisation; the told state of
a contact may have a health of 0; markers of kills within the reaction are in the
coach's prompt, as events; a published summary tells the first two cited facts by
priority.  Inputs of the win-probability estimate keep fields that are not
features.

*Harness.*  The Python side allows larger responses than the bridge reads, so
that a long one is reported as `OUTPUT_TOO_LARGE`; a tool's limit counts the calls
of every tool in the turn, denied ones included; nothing listens to an error of
the process's standard input.

*Candidate decisions.*  Sampled positions may be old; no enemy is ever visible in
a replay's state; a dropped bomb is not followed; the decisions of one record
index are not those of one match; commands of training are run one at a time.  A
split into the directory of a split that stopped half way leaves files of two;
a model stays where a later training refused, and is evaluated.

*Database and training.*  Rows told twice that disagree on who lives are a warning
of the audit, and cleaning keeps the first (`replay_cleaning.py:142-145`,
`197-210`): a demo built cleaned and then as it is may then not collide and its
events are stored twice, under snapshots that count them once.  Rebuilding a demo that yields no snapshots stores its
events twice; `--replace` commits the removal before the new content; records
with one source path merge, and the header of a rebuilt replay is not updated;
event-only rows are grouped by demo, not by match; an export reads twice and can
be torn; a stop after publishing leaves a directory nobody registered; two
registry writers lose one entry, and public and private registries are never
compared (`dataset_registry.py:3-5` speaks of any two roles); a benchmark is compared with the database,
not with what the model learnt, hence the condition in `BenchmarkIsUnseen`; the
calibrator is fitted to the new prior although an old small model may be loaded;
a manifest is rewritten in place.

*Datasets and releases.*  A cut sidecar is kept by a later run and may be locked;
parallel downloads share a `.part` name (one command at a time is modelled).  Two
activations at once lose one previous version; a rollback of a rollback goes
forward; a stop leaves staging litter; a stale file in an output directory is
packaged.

## 7. The plan

Done: the service and the page (first), then the storage with its sweep, the
stream, the replay from record to questions, harness, simulator, and the offline
side, with the theorems of section 5.  What remains, in order:

1. The stream over several runs beside `AnalysisService`, with the page's polling.
2. The per-moment intent requests and their cancellation on the page.
3. The registry and the benchmark as abstract specifications that training and
   exporting implement.
