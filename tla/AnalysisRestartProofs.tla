------------------------ MODULE AnalysisRestartProofs ------------------------
(***************************************************************************)
(* What a restart finds, where one process serves the job and its writes   *)
(* succeed: for any number of players and runs, and wherever and however   *)
(* often the process stops, the two artifacts rebuild the runs that were   *)
(* shown.  From this follow the properties of restarts and results, and    *)
(* that the service implements PlayerRuns.                                 *)
(***************************************************************************)
EXTENDS AnalysisServiceProofs

-----------------------------------------------------------------------------
(* The inductive invariant.                                                *)

\* A player's entry, in memory or rebuilt: it is the player's own, only a run
\* that ended has a result, a complete run has its own or none, and it is and
\* stays the result of a run whose request was told "done".
RunSound(run, p, own, rep) ==
    /\ run.status = "not_started" => run = NoRun
    /\ run.status # "not_started" => run.id \in RunIds /\ own[run.id] = p
    /\ run.status = "running" => run.result = None
    /\ run.status = "complete" => run.result \in {run.id, None}
    /\ run.id # None /\ rep[run.id] = "done" =>
           run.status = "complete" /\ run.result = run.id

Sound(runs, own, rep) == \A p \in Players : RunSound(runs[p], p, own, rep)

\* A run as a restart shows it: as it was, or failed if it was running.
Fits(back, run) ==
    \/ back = run
    \/ run.status = "running" /\ back = [run EXCEPT !.status = "failed"]

Rebuilds(state, results, runs) ==
    \A p \in Players : Fits(Restored(state, results).runs[p], runs[p])

NoResults == [p \in Players |-> None]

\* What a section has made of the job it found: nothing of another player's.
Edits(s, j, rep) ==
    /\ \A q \in Players : q # s.player => j.runs[q] = s.before.runs[q]
    /\ s.op \in {"select", "complete", "fail"} \/ s.player = None
    /\ s.op = "receive" => s.before = NewJob
    /\ s.op = "select" =>
           /\ s.before.runs[s.player].status # "running"
           /\ s.before.runs[s.player].result # s.run
           /\ j.status = "coaching"
           /\ j.runs[s.player] = [id |-> s.run, status |-> "running", result |-> None]
    /\ s.op \in {"complete", "fail"} =>
           /\ s.before.runs[s.player] = [id |-> s.run, status |-> "running", result |-> None]
           /\ rep[s.run] # "done"
    /\ s.op = "complete" =>
           j.runs[s.player] = [id |-> s.run, status |-> "complete", result |-> s.run]
    /\ s.op = "fail" =>
           j.runs[s.player] = [id |-> s.run, status |-> "failed", result |-> None]

\* The artifacts fit each other, whatever is in memory.
ArtifactsInv ==
    /\ stored.state = None => stored.results = NoResults
    /\ stored.state # None =>
           /\ Sound(Restored(stored.state, stored.results).runs, owner, replied)
           /\ \A p \in Players :
                  stored.state.runs[p].status = "not_started" => stored.results[p] = None

\* How far the artifacts of a section in progress are: state.json first.
WritesInv(i) ==
    LET s == section[i]
    IN  /\ s.step = "state" =>
              /\ stored.results = ResultsOf(s.before)
              /\ s.op = "receive" => stored.state = None
              /\ s.op # "receive" =>
                    /\ stored.state # None
                    /\ Rebuilds(stored.state, stored.results, s.before.runs)
        /\ s.step = "result" =>
              stored.state = Snapshot(job[i]) /\ stored.results = ResultsOf(s.before)
        /\ s.step = "log" =>
              stored.state = Snapshot(job[i]) /\ stored.results = ResultsOf(job[i])

RestartInv(i) ==
    /\ intake = "idle" => stored.state = None /\ ~Up(i) /\ Free(i)
    /\ \A r \in RunIds : owner[r] = None => replied[r] # "done"
    /\ ArtifactsInv
    /\ Up(i) => Sound(job[i].runs, owner, replied)
    /\ Up(i) /\ Free(i) =>
           /\ stored.state # None
           /\ Rebuilds(stored.state, stored.results, job[i].runs)
    /\ ~Free(i) /\ ~Up(i) => stored.state # None /\ section[i].before = stored.state
    /\ ~Free(i) /\ Up(i) =>
           /\ Sound(section[i].before.runs, owner, replied)
           /\ Edits(section[i], job[i], replied)
           /\ WritesInv(i)

-----------------------------------------------------------------------------
(* What the artifacts rebuild.                                             *)

\* One entry of a restored job.
LEMMA RestoredEntry ==
    ASSUME NEW j \in Job, NEW results \in [Players -> Result], NEW p \in Players
    PROVE  /\ j.runs[p].status = "not_started" =>
                  Restored(j, results).runs[p] = NoRun
           /\ j.runs[p].status # "not_started" =>
                  Restored(j, results).runs[p] =
                      [id     |-> j.runs[p].id,
                       status |-> IF j.status = "coaching" /\ j.runs[p].status = "running"
                                  THEN "failed" ELSE j.runs[p].status,
                       result |-> results[p]]
<1>1. Restored(j, results).runs[p] = RestoredRun(j, j.runs[p], results[p])
  BY DEF Restored
<1> QED
  BY <1>1 DEF RestoredRun, RestoredStatus

\* One entry of state.json.
LEMMA SnapshotEntry ==
    ASSUME NEW j \in Job, NEW p \in Players
    PROVE  /\ Snapshot(j).status = j.status
           /\ Snapshot(j).runs[p].id = j.runs[p].id
           /\ Snapshot(j).runs[p].status = j.runs[p].status
BY DEF Snapshot, Job, Runs, Run

\* An entry comes back from the job's snapshot and its own result.
LEMMA EntryComesBack ==
    ASSUME NEW j \in Job, NEW results \in [Players -> Result], NEW p \in Players,
           NEW own, NEW rep, RunSound(j.runs[p], p, own, rep),
           results[p] = j.runs[p].result
    PROVE  Fits(Restored(Snapshot(j), results).runs[p], j.runs[p])
<1>1. Snapshot(j) \in Job
  BY SnapshotType
<1>2. j.runs[p] \in Run
  BY DEF Job, Runs
<1>3. CASE j.runs[p].status = "not_started"
  <2>1. j.runs[p] = NoRun
    BY <1>3 DEF RunSound
  <2>2. Snapshot(j).runs[p].status = "not_started"
    BY <1>3, SnapshotEntry
  <2>3. Restored(Snapshot(j), results).runs[p] = NoRun
    BY <1>1, <2>2, RestoredEntry
  <2> QED
    BY <2>1, <2>3 DEF Fits
<1>4. CASE j.runs[p].status # "not_started"
  <2>1. Restored(Snapshot(j), results).runs[p] =
          [id     |-> j.runs[p].id,
           status |-> IF j.status = "coaching" /\ j.runs[p].status = "running"
                      THEN "failed" ELSE j.runs[p].status,
           result |-> j.runs[p].result]
    BY <1>1, <1>4, RestoredEntry, SnapshotEntry
  <2> QED
    BY <1>2, <2>1 DEF Fits, Run
<1> QED
  BY <1>3, <1>4

\* What fits a sound run is sound.
LEMMA FittingIsSound ==
    ASSUME NEW run \in Run, NEW back, NEW p \in Players, NEW own, NEW rep,
           RunSound(run, p, own, rep), Fits(back, run)
    PROVE  RunSound(back, p, own, rep)
BY DEF RunSound, Fits, Run

\* A job that is wholly written is rebuilt, and soundly.
LEMMA JobComesBack ==
    ASSUME NEW j \in Job, NEW own, NEW rep, Sound(j.runs, own, rep)
    PROVE  /\ Rebuilds(Snapshot(j), ResultsOf(j), j.runs)
           /\ Sound(Restored(Snapshot(j), ResultsOf(j)).runs, own, rep)
           /\ \A p \in Players :
                  Snapshot(j).runs[p].status = "not_started" => ResultsOf(j)[p] = None
<1>1. ResultsOf(j) \in [Players -> Result] /\ \A p \in Players : ResultsOf(j)[p] = j.runs[p].result
  BY ResultsOfType
<1>2. ASSUME NEW p \in Players
      PROVE  /\ Fits(Restored(Snapshot(j), ResultsOf(j)).runs[p], j.runs[p])
             /\ RunSound(Restored(Snapshot(j), ResultsOf(j)).runs[p], p, own, rep)
             /\ Snapshot(j).runs[p].status = "not_started" => ResultsOf(j)[p] = None
  <2>1. RunSound(j.runs[p], p, own, rep) /\ j.runs[p] \in Run
    BY DEF Sound, Job, Runs
  <2>2. Fits(Restored(Snapshot(j), ResultsOf(j)).runs[p], j.runs[p])
    BY <1>1, <2>1, EntryComesBack
  <2>3. Snapshot(j).runs[p].status = "not_started" => ResultsOf(j)[p] = None
    BY <1>1, <2>1, SnapshotEntry DEF RunSound, NoRun
  <2> QED
    BY <2>1, <2>2, <2>3, FittingIsSound
<1> QED
  BY <1>2 DEF Rebuilds, Sound

\* A stop between the two writes of a section finds the new state.json beside
\* the old result.json: sound all the same.
LEMMA HalfWrittenIsSound ==
    ASSUME NEW j \in Job, NEW s \in Section, NEW own, NEW rep,
           Sound(j.runs, own, rep), Sound(s.before.runs, own, rep), Edits(s, j, rep)
    PROVE  /\ Sound(Restored(Snapshot(j), ResultsOf(s.before)).runs, own, rep)
           /\ \A p \in Players :
                  Snapshot(j).runs[p].status = "not_started" => ResultsOf(s.before)[p] = None
<1> DEFINE results == ResultsOf(s.before)
<1>1. s.before \in Job /\ Snapshot(j) \in Job
  BY SnapshotType DEF Section
<1>2. results \in [Players -> Result] /\ \A p \in Players : results[p] = s.before.runs[p].result
  BY <1>1, ResultsOfType
<1> HIDE DEF results
<1>3. ASSUME NEW p \in Players
      PROVE  /\ RunSound(Restored(Snapshot(j), results).runs[p], p, own, rep)
             /\ Snapshot(j).runs[p].status = "not_started" => results[p] = None
  <2>1. RunSound(j.runs[p], p, own, rep) /\ j.runs[p] \in Run
        /\ RunSound(s.before.runs[p], p, own, rep) /\ s.before.runs[p] \in Run
    BY <1>1 DEF Sound, Job, Runs
  <2>2. CASE p # s.player
    <3>1. j.runs[p] = s.before.runs[p]
      BY <2>2 DEF Edits
    <3>2. Fits(Restored(Snapshot(j), results).runs[p], j.runs[p])
      BY <1>2, <2>1, <3>1, EntryComesBack
    <3>3. Snapshot(j).runs[p].status = "not_started" => results[p] = None
      BY <1>2, <2>1, <3>1, SnapshotEntry DEF RunSound, NoRun
    <3> QED
      BY <2>1, <3>2, <3>3, FittingIsSound
  <2>3. CASE p = s.player
    <3>1. s.op \in {"select", "complete", "fail"}
      BY <2>3, NoneAssumption DEF Edits
    <3>2. j.runs[p].status # "not_started"
      BY <2>3, <3>1 DEF Edits
    <3>3. Restored(Snapshot(j), results).runs[p] =
            [id     |-> j.runs[p].id,
             status |-> IF j.status = "coaching" /\ j.runs[p].status = "running"
                        THEN "failed" ELSE j.runs[p].status,
             result |-> s.before.runs[p].result]
      BY <1>1, <1>2, <3>2, RestoredEntry, SnapshotEntry
    <3>4. Snapshot(j).runs[p].status # "not_started"
      BY <3>2, SnapshotEntry
    <3>5. CASE s.op = "select"
      <4>1. j.status = "coaching" /\ j.runs[p] = [id |-> s.run, status |-> "running", result |-> None]
        BY <2>3, <3>5 DEF Edits
      <4> QED
        BY <2>1, <3>3, <3>4, <4>1 DEF RunSound
    <3>6. CASE s.op = "complete"
      <4>1. /\ j.runs[p] = [id |-> s.run, status |-> "complete", result |-> s.run]
            /\ s.before.runs[p] = [id |-> s.run, status |-> "running", result |-> None]
            /\ rep[s.run] # "done"
        BY <2>3, <3>6 DEF Edits
      <4> QED
        BY <2>1, <3>3, <3>4, <4>1 DEF RunSound
    <3>7. CASE s.op = "fail"
      <4>1. /\ j.runs[p] = [id |-> s.run, status |-> "failed", result |-> None]
            /\ s.before.runs[p] = [id |-> s.run, status |-> "running", result |-> None]
            /\ rep[s.run] # "done"
        BY <2>3, <3>7 DEF Edits
      <4> QED
        BY <2>1, <3>3, <3>4, <4>1 DEF RunSound
    <3> QED
      BY <3>1, <3>5, <3>6, <3>7
  <2> QED
    BY <2>2, <2>3
<1> QED
  BY <1>3 DEF Sound, results

\* The results of artifacts that rebuild a job are the job's.
LEMMA RebuiltResults ==
    ASSUME NEW state \in Job, NEW results \in [Players -> Result], NEW j \in Job,
           Rebuilds(state, results, j.runs),
           \A p \in Players : state.runs[p].status = "not_started" => results[p] = None
    PROVE  results = ResultsOf(j)
<1>1. ASSUME NEW p \in Players PROVE results[p] = j.runs[p].result
  <2>1. PICK back : back = Restored(state, results).runs[p]
    OBVIOUS
  <2>2. Fits(back, j.runs[p]) /\ j.runs[p] \in Run
    BY <2>1 DEF Rebuilds, Job, Runs
  <2>3. back.result = j.runs[p].result
    BY <2>2 DEF Fits, Run
  <2>4. CASE state.runs[p].status = "not_started"
    <3>1. back = NoRun
      BY <2>1, <2>4, RestoredEntry
    <3> QED
      BY <2>3, <2>4, <3>1 DEF NoRun
  <2>5. CASE state.runs[p].status # "not_started"
    <3>1. back = [id     |-> state.runs[p].id,
                  status |-> IF state.status = "coaching" /\ state.runs[p].status = "running"
                             THEN "failed" ELSE state.runs[p].status,
                  result |-> results[p]]
      BY <2>1, <2>5, RestoredEntry
    <3> QED
      BY <2>3, <3>1
  <2> QED
    BY <2>4, <2>5
<1> QED
  BY <1>1 DEF ResultsOf


\* Runs stay sound while identifiers are issued,
LEMMA SoundWithOwners ==
    ASSUME NEW runs \in Runs, NEW own, NEW own2, NEW rep, Sound(runs, own, rep),
           \A x \in RunIds : own[x] \in Players => own2[x] = own[x]
    PROVE  Sound(runs, own2, rep)
<1>1. ASSUME NEW p \in Players PROVE RunSound(runs[p], p, own2, rep)
  BY DEF Sound, RunSound
<1> QED
  BY <1>1 DEF Sound

\* and when a request is answered that its run, still the player's and
\* complete, is done - or that it is not.
LEMMA SoundWithAnswer ==
    ASSUME NEW runs \in Runs, NEW own, NEW rep, NEW rep2, Sound(runs, own, rep),
           NEW r \in RunIds, \A x \in RunIds \ {r} : rep2[x] = rep[x],
           \A p \in Players : runs[p].id = r /\ rep2[r] = "done" =>
               runs[p].status = "complete" /\ runs[p].result = r
    PROVE  Sound(runs, own, rep2)
<1>1. ASSUME NEW p \in Players PROVE RunSound(runs[p], p, own, rep2)
  <2>1. runs[p] \in Run /\ RunSound(runs[p], p, own, rep)
    BY DEF Sound, Runs
  <2>2. runs[p].id = None \/ runs[p].id \in RunIds
    BY <2>1 DEF Run, Result
  <2> QED
    BY <2>1, <2>2 DEF RunSound
<1> QED
  BY <1>1 DEF Sound

-----------------------------------------------------------------------------
(* Every step preserves the invariant.                                     *)

\* The types the steps work with.
LEMMA TypesOfOne ==
    ASSUME ServiceInv, NEW i \in Instances
    PROVE  /\ Up(i) => job[i] \in Job
           /\ ~Free(i) => section[i] \in Section
           /\ stored.state \in Job \cup {None}
           /\ stored.results \in [Players -> Result]
BY DEF ServiceInv, TypeOK, Up, Free, Stored

\* Nothing is stored, and nothing runs, before the job is prepared.
LEMMA InitRestart ==
    ASSUME Init, NEW i \in Instances
    PROVE  RestartInv(i)
BY DEF Init, RestartInv, ArtifactsInv, Up, Free, NoResults

\* A free process enters a section with a job that is sound and differs in
\* the section's player alone: the artifacts still rebuild what was shown.
LEMMA EnterRestart ==
    ASSUME ServiceInv, NEW i \in Instances, RestartInv(i), Up(i), Free(i),
           NEW s \in Section, s.step = "state", s.before = job[i],
           s.op \notin {"receive", "restore"}, NEW j \in Job,
           job'[i] = j, section'[i] = s,
           UNCHANGED <<stored, intake, replied>>,
           \A x \in RunIds : owner[x] \in Players => owner'[x] = owner[x],
           \A x \in RunIds : owner'[x] = None => owner[x] = None,
           Sound(j.runs, owner', replied), Edits(s, j, replied)
    PROVE  RestartInv(i)'
<1>1. /\ job[i] \in Job /\ stored.state \in Job
      /\ stored.results \in [Players -> Result]
      /\ Rebuilds(stored.state, stored.results, job[i].runs)
  BY TypesOfOne DEF RestartInv
<1>2. /\ Sound(Restored(stored.state, stored.results).runs, owner, replied)
      /\ \A p \in Players :
             stored.state.runs[p].status = "not_started" => stored.results[p] = None
      /\ Sound(job[i].runs, owner, replied)
  BY <1>1, NoJobAssumption DEF RestartInv, ArtifactsInv
<1>3. job[i].runs \in Runs /\ Restored(stored.state, stored.results).runs \in Runs
  BY <1>1, RestoredJob DEF Job
<1>4. /\ Sound(Restored(stored.state, stored.results).runs, owner', replied)
      /\ Sound(job[i].runs, owner', replied)
  BY <1>2, <1>3, SoundWithOwners
<1>5. stored.results = ResultsOf(job[i])
  BY <1>1, <1>2, RebuiltResults
<1>6. Up(i)' /\ ~Free(i)'
  BY NoJobAssumption, NoSectionAssumption DEF Up, Free
<1>7. ArtifactsInv'
  BY <1>1, <1>2, <1>4, NoJobAssumption DEF ArtifactsInv
<1>8. WritesInv(i)'
  BY <1>1, <1>5, NoJobAssumption DEF WritesInv
<1>9. Sound(section'[i].before.runs, owner', replied')
  BY <1>4
<1>10. Sound(job'[i].runs, owner', replied') /\ Edits(section'[i], job'[i], replied')
  OBVIOUS
<1> QED
  BY <1>6, <1>7, <1>8, <1>9, <1>10 DEF RestartInv


\* The new job, of which nothing is stored yet.
LEMMA PrepareRestart ==
    ASSUME ServiceInv, NEW i \in Instances, RestartInv(i), Prepare(i)
    PROVE  RestartInv(i)'
<1>1. stored.state = None /\ stored.results = NoResults
  BY DEF Prepare, RestartInv, ArtifactsInv
<1>2. PICK s : s = [op |-> "receive", player |-> None, run |-> None,
                    step |-> "state", before |-> NewJob]
  OBVIOUS
<1>3. s \in Section
  BY <1>2, NewJobType DEF Section, Operations, Result
<1>4. job'[i] = NewJob /\ section'[i] = s /\ intake' = "working"
      /\ UNCHANGED <<stored, owner, replied>>
  BY <1>2 DEF Prepare, Enter, ServiceInv, TypeOK
<1>5. Up(i)' /\ ~Free(i)'
  BY <1>3, <1>4, NewJobType, NoJobAssumption, NoSectionAssumption DEF Up, Free
<1>6. Sound(NewJob.runs, owner, replied)
  BY DEF Sound, RunSound, NewJob, NoRun
<1>7. ResultsOf(NewJob) = NoResults
  BY DEF ResultsOf, NewJob, NoRun, NoResults
<1>8. Edits(s, NewJob, replied)
  BY <1>2 DEF Edits
<1>9. WritesInv(i)'
  BY <1>1, <1>2, <1>4, <1>7 DEF WritesInv
<1>10. ArtifactsInv'
  BY <1>1, <1>4 DEF ArtifactsInv
<1>11. \A r \in RunIds : owner'[r] = None => replied'[r] # "done"
  BY <1>4 DEF RestartInv
<1> QED
  BY <1>2, <1>4, <1>5, <1>6, <1>8, <1>9, <1>10, <1>11 DEF RestartInv

\* Preparation ends: no run is touched.
LEMMA PreparedRestart ==
    ASSUME ServiceInv, NEW i \in Instances, RestartInv(i), Up(i), Free(i),
           NEW j \in Job, j.runs = job[i].runs, job'[i] = j,
           NEW op \in {"ready", "prepare_failed"}, Enter(i, op, None, None, job[i]),
           UNCHANGED <<stored, intake, owner, replied>>
    PROVE  RestartInv(i)'
<1>1. job[i] \in Job /\ Sound(job[i].runs, owner, replied)
  BY TypesOfOne DEF RestartInv
<1>2. PICK s : s = [op |-> op, player |-> None, run |-> None,
                    step |-> "state", before |-> job[i]]
  OBVIOUS
<1>3. s \in Section
  BY <1>1, <1>2 DEF Section, Operations, Result
<1>4. section'[i] = s
  BY <1>2 DEF Enter, ServiceInv, TypeOK
<1>5. Edits(s, j, replied)
  BY <1>2 DEF Edits
<1> QED
  BY <1>1, <1>2, <1>3, <1>4, <1>5, EnterRestart

LEMMA PreparationSucceedsRestart ==
    ASSUME ServiceInv, NEW i \in Instances, RestartInv(i), PreparationSucceeds(i)
    PROVE  RestartInv(i)'
<1>1. job[i] \in Job
  BY TypesOfOne DEF PreparationSucceeds
<1>2. PICK j : j = [job[i] EXCEPT !.prepared = TRUE, !.status = "ready"]
  OBVIOUS
<1>3. j \in Job /\ j.runs = job[i].runs
  BY <1>1, <1>2 DEF Job, JobStatus
<1>4. job'[i] = j
  BY <1>2 DEF PreparationSucceeds, ServiceInv, TypeOK
<1> QED
  BY <1>3, <1>4, PreparedRestart DEF PreparationSucceeds

LEMMA PreparationFailsRestart ==
    ASSUME ServiceInv, NEW i \in Instances, RestartInv(i), PreparationFails(i)
    PROVE  RestartInv(i)'
<1>1. job[i] \in Job
  BY TypesOfOne DEF PreparationFails
<1>2. PICK j : j = [job[i] EXCEPT !.status = "failed"]
  OBVIOUS
<1>3. j \in Job /\ j.runs = job[i].runs
  BY <1>1, <1>2 DEF Job, JobStatus
<1>4. job'[i] = j
  BY <1>2 DEF PreparationFails, ServiceInv, TypeOK
<1> QED
  BY <1>3, <1>4, PreparedRestart DEF PreparationFails

\* A run starts under an identifier that no result carries.
LEMMA SelectRestart ==
    ASSUME ServiceInv, NEW i \in Instances, RestartInv(i),
           NEW p \in Players, SelectPlayer(i, p)
    PROVE  RestartInv(i)'
<1>1. Up(i) /\ Free(i) /\ job[i] \in Job /\ job[i].runs[p].status # "running"
      /\ Sound(job[i].runs, owner, replied)
  BY TypesOfOne DEF SelectPlayer, Selectable, RestartInv
<1>2. PICK r \in RunIds :
        /\ owner[r] = None
        /\ owner' = [owner EXCEPT ![r] = p]
        /\ job' = [job EXCEPT ![i] = Started(job[i], p, r)]
        /\ Enter(i, "select", p, r, job[i])
  BY DEF SelectPlayer
<1>3. PICK j : j = Started(job[i], p, r)
  OBVIOUS
<1>4. /\ j \in Job /\ j.status = "coaching"
      /\ j.runs[p] = [id |-> r, status |-> "running", result |-> None]
      /\ \A q \in Players \ {p} : j.runs[q] = job[i].runs[q]
  BY <1>1, <1>3, StartedJob
<1>5. PICK s : s = [op |-> "select", player |-> p, run |-> r,
                    step |-> "state", before |-> job[i]]
  OBVIOUS
<1>6. s \in Section
  BY <1>1, <1>5 DEF Section, Operations, Result
<1>7. job'[i] = j /\ section'[i] = s /\ UNCHANGED <<stored, intake, replied>>
  BY <1>2, <1>3, <1>5 DEF SelectPlayer, Enter, ServiceInv, TypeOK
<1>8. /\ \A x \in RunIds : owner[x] \in Players => owner'[x] = owner[x]
      /\ \A x \in RunIds : owner'[x] = None => owner[x] = None
      /\ owner'[r] = p /\ replied[r] # "done"
  BY <1>2, NoneAssumption DEF ServiceInv, TypeOK, RestartInv
<1>9. Sound(j.runs, owner', replied)
  <2>1. job[i].runs \in Runs
    BY <1>1 DEF Job
  <2>2. Sound(job[i].runs, owner', replied)
    BY <1>1, <1>8, <2>1, SoundWithOwners
  <2>3. RunSound(j.runs[p], p, owner', replied)
    BY <1>4, <1>8 DEF RunSound
  <2> QED
    BY <1>4, <2>2, <2>3 DEF Sound
<1>10. job[i].runs[p].result # r
  <2>1. job[i].runs[p].result # None => owner[job[i].runs[p].result] = p
    BY <1>1 DEF ServiceInv, OwnerInv
  <2> QED
    BY <1>2, <2>1, NoneAssumption
<1>11. Edits(s, j, replied)
  BY <1>1, <1>4, <1>5, <1>10 DEF Edits
<1> QED
  BY <1>1, <1>4, <1>5, <1>6, <1>7, <1>8, <1>9, <1>11, EnterRestart

\* A run ends: the entry it had is that of the call, and nobody was told yet
\* how it ended.
LEMMA EndsRestart ==
    ASSUME ServiceInv, NEW i \in Instances, RestartInv(i), Free(i),
           NEW c \in calls[i], NEW op \in {"complete", "fail"}, NEW j \in Job,
           j.runs[c.player] = IF op = "complete"
               THEN [id |-> c.run, status |-> "complete", result |-> c.run]
               ELSE [id |-> c.run, status |-> "failed", result |-> None],
           \A q \in Players \ {c.player} : j.runs[q] = job[i].runs[q],
           job' = [job EXCEPT ![i] = j],
           Enter(i, op, c.player, c.run, job[i]),
           UNCHANGED <<stored, intake, owner, replied>>
    PROVE  RestartInv(i)'
<1>1. c.player \in Players /\ c.run \in RunIds
  BY DEF ServiceInv, TypeOK, Call
<1>2. Up(i) /\ job[i].runs[c.player] = [id |-> c.run, status |-> "running", result |-> None]
  BY DEF ServiceInv, LiveCallOwnsRun
<1>3. job[i] \in Job /\ Sound(job[i].runs, owner, replied)
  BY <1>2, TypesOfOne DEF RestartInv
<1>4. RunSound(job[i].runs[c.player], c.player, owner, replied)
  BY <1>1, <1>3 DEF Sound
<1>5. owner[c.run] = c.player /\ replied[c.run] # "done"
  BY <1>1, <1>2, <1>4, NoneAssumption DEF RunSound
<1>6. PICK s : s = [op |-> op, player |-> c.player, run |-> c.run,
                    step |-> "state", before |-> job[i]]
  OBVIOUS
<1>7. s \in Section
  BY <1>1, <1>3, <1>6 DEF Section, Operations, Result
<1>8. job'[i] = j /\ section'[i] = s
  BY <1>6 DEF Enter, ServiceInv, TypeOK
<1>9. Sound(j.runs, owner, replied)
  <2>1. RunSound(j.runs[c.player], c.player, owner, replied)
    BY <1>1, <1>5 DEF RunSound
  <2> QED
    BY <1>3, <2>1 DEF Sound
<1>10. Edits(s, j, replied)
  BY <1>2, <1>5, <1>6 DEF Edits
<1> QED
  BY <1>2, <1>6, <1>7, <1>8, <1>9, <1>10, EnterRestart

LEMMA CoachEndsRestart ==
    ASSUME ServiceInv, NEW i \in Instances, RestartInv(i), NEW p \in Players, CoachEnds(i, p)
    PROVE  RestartInv(i)'
<1>1. PICK c \in calls[i] : CoachSucceeds(i, c) \/ CoachFails(i, c)
  BY DEF CoachEnds
<1>2. c \in Call
  BY DEF ServiceInv, TypeOK
<1>3. job[i] \in Job
  BY TypesOfOne DEF ServiceInv, LiveCallOwnsRun
<1>4. CASE CoachSucceeds(i, c)
  <2>1. PICK j : j = Succeeded(job[i], c)
    OBVIOUS
  <2>2. /\ j \in Job
        /\ j.runs[c.player] = [id |-> c.run, status |-> "complete", result |-> c.run]
        /\ \A q \in Players \ {c.player} : j.runs[q] = job[i].runs[q]
    BY <1>2, <1>3, <2>1, SucceededJob
  <2>3. /\ Free(i) /\ job' = [job EXCEPT ![i] = j]
        /\ Enter(i, "complete", c.player, c.run, job[i])
        /\ UNCHANGED <<stored, intake, owner, replied>>
    BY <1>4, <2>1 DEF CoachSucceeds
  <2> QED
    BY <2>2, <2>3, EndsRestart
<1>5. CASE CoachFails(i, c)
  <2>1. PICK j : j = Failed(job[i], c)
    OBVIOUS
  <2>2. /\ j \in Job
        /\ j.runs[c.player] = [id |-> c.run, status |-> "failed", result |-> None]
        /\ \A q \in Players \ {c.player} : j.runs[q] = job[i].runs[q]
    BY <1>2, <1>3, <2>1, FailedJob
  <2>3. /\ Free(i) /\ job' = [job EXCEPT ![i] = j]
        /\ Enter(i, "fail", c.player, c.run, job[i])
        /\ UNCHANGED <<stored, intake, owner, replied>>
    BY <1>5, <2>1 DEF CoachFails
  <2> QED
    BY <2>2, <2>3, EndsRestart
<1> QED
  BY <1>1, <1>4, <1>5


\* state.json is replaced: it fits result.json, new or old.
LEMMA WriteStateRestart ==
    ASSUME ServiceInv, NEW i \in Instances, RestartInv(i), WriteState(i)
    PROVE  RestartInv(i)'
<1>1. PICK s : s = section[i]
  OBVIOUS
<1>2. PICK j : j = job[i]
  OBVIOUS
<1>3. ~Free(i) /\ Up(i) /\ s.step = "state"
  BY <1>1 DEF WriteState, At, Free, ServiceInv, SectionInv
<1>4. j \in Job /\ s \in Section
  BY <1>1, <1>2, <1>3, TypesOfOne
<1>5. PICK t : t = [s EXCEPT !.step = "result"]
  OBVIOUS
<1>6. /\ t \in Section /\ t.step = "result" /\ t.before = s.before
      /\ t.op = s.op /\ t.player = s.player /\ t.run = s.run
  BY <1>4, <1>5 DEF Section
<1>7. /\ stored'.state = Snapshot(j) /\ stored'.results = stored.results
      /\ section'[i] = t /\ job'[i] = j
      /\ UNCHANGED <<job, intake, owner, replied>>
  BY <1>1, <1>2, <1>5 DEF WriteState, Goto, ServiceInv, TypeOK, Stored
<1>8. /\ Sound(j.runs, owner, replied) /\ Sound(s.before.runs, owner, replied)
      /\ Edits(s, j, replied) /\ stored.results = ResultsOf(s.before)
  BY <1>1, <1>2, <1>3 DEF RestartInv, WritesInv
<1>9. Edits(t, j, replied)
  BY <1>6, <1>8 DEF Edits
<1>10. Snapshot(j) \in Job
  BY <1>4, SnapshotType
<1>11. ArtifactsInv'
  BY <1>4, <1>7, <1>8, <1>10, NoJobAssumption, HalfWrittenIsSound DEF ArtifactsInv
<1>12. WritesInv(i)'
  BY <1>6, <1>7, <1>8 DEF WritesInv
<1>13. Up(i)' /\ ~Free(i)'
  BY <1>4, <1>6, <1>7, NoJobAssumption, NoSectionAssumption DEF Up, Free
<1>14. intake' # "idle" /\ \A r \in RunIds : owner'[r] = None => replied'[r] # "done"
  BY <1>3, <1>7 DEF RestartInv
<1> QED
  BY <1>6, <1>7, <1>8, <1>9, <1>11, <1>12, <1>13, <1>14 DEF RestartInv

\* result.json follows: now the artifacts rebuild the job in memory.
LEMMA WriteResultRestart ==
    ASSUME ServiceInv, NEW i \in Instances, RestartInv(i), WriteResult(i)
    PROVE  RestartInv(i)'
<1>1. PICK s : s = section[i]
  OBVIOUS
<1>2. PICK j : j = job[i]
  OBVIOUS
<1>3. ~Free(i) /\ Up(i) /\ s.step = "result"
  BY <1>1 DEF WriteResult, At, Free, ServiceInv, SectionInv
<1>4. j \in Job /\ s \in Section
  BY <1>1, <1>2, <1>3, TypesOfOne
<1>5. PICK t : t = [s EXCEPT !.step = "log"]
  OBVIOUS
<1>6. /\ t \in Section /\ t.step = "log" /\ t.before = s.before
      /\ t.op = s.op /\ t.player = s.player /\ t.run = s.run
  BY <1>4, <1>5 DEF Section
<1>7. /\ stored'.state = stored.state /\ stored'.results = ResultsOf(j)
      /\ section'[i] = t /\ job'[i] = j
      /\ UNCHANGED <<job, intake, owner, replied>>
  BY <1>1, <1>2, <1>5 DEF WriteResult, Goto, ServiceInv, TypeOK, Stored
<1>8. /\ Sound(j.runs, owner, replied) /\ Sound(s.before.runs, owner, replied)
      /\ Edits(s, j, replied) /\ stored.state = Snapshot(j)
  BY <1>1, <1>2, <1>3 DEF RestartInv, WritesInv
<1>9. Edits(t, j, replied)
  BY <1>6, <1>8 DEF Edits
<1>10. Snapshot(j) \in Job
  BY <1>4, SnapshotType
<1>11. ArtifactsInv'
  BY <1>4, <1>7, <1>8, <1>10, NoJobAssumption, JobComesBack DEF ArtifactsInv
<1>12. WritesInv(i)'
  BY <1>6, <1>7, <1>8 DEF WritesInv
<1>13. Up(i)' /\ ~Free(i)'
  BY <1>4, <1>6, <1>7, NoJobAssumption, NoSectionAssumption DEF Up, Free
<1>14. intake' # "idle" /\ \A r \in RunIds : owner'[r] = None => replied'[r] # "done"
  BY <1>3, <1>7 DEF RestartInv
<1> QED
  BY <1>6, <1>7, <1>8, <1>9, <1>11, <1>12, <1>13, <1>14 DEF RestartInv

\* What a request is told when its section ends is so.
LEMMA EndSectionRestart ==
    ASSUME ServiceInv, NEW i \in Instances, RestartInv(i), EndSection(i)
    PROVE  RestartInv(i)'
<1>1. PICK s : s = section[i]
  OBVIOUS
<1>2. PICK j : j = job[i]
  OBVIOUS
<1>3. ~Free(i) /\ Up(i) /\ s.step = "log"
  BY <1>1 DEF EndSection, At, Free, ServiceInv, SectionInv
<1>4. j \in Job /\ s \in Section
  BY <1>1, <1>2, <1>3, TypesOfOne
<1>5. /\ Sound(j.runs, owner, replied) /\ Edits(s, j, replied)
      /\ stored.state = Snapshot(j) /\ stored.results = ResultsOf(j)
      /\ intake # "idle" /\ \A r \in RunIds : owner[r] = None => replied[r] # "done"
  BY <1>1, <1>2, <1>3 DEF RestartInv, WritesInv
<1>6. section'[i] = None /\ job'[i] = j /\ UNCHANGED <<job, stored, owner>>
  BY <1>2 DEF EndSection, Leave, ServiceInv, TypeOK
<1>7. intake' # "idle"
  BY <1>5 DEF EndSection
<1>8. /\ Sound(j.runs, owner, replied')
      /\ \A r \in RunIds : owner[r] = None => replied'[r] # "done"
  <2>1. CASE s.op \notin {"complete", "fail"}
    <3>1. replied' = replied
      BY <1>1, <2>1 DEF EndSection
    <3> QED
      BY <1>5, <3>1
  <2>2. CASE s.op \in {"complete", "fail"}
    <3>1. s.player \in Players /\ s.run \in RunIds
      BY <1>1, <1>3, <2>2 DEF ServiceInv, SectionInv, Free
    <3>2. PICK answer : answer = IF s.op = "complete" THEN "done" ELSE "error"
      OBVIOUS
    <3>3. replied' = [replied EXCEPT ![s.run] = answer]
      BY <1>1, <2>2, <3>2 DEF EndSection
    <3>4. replied'[s.run] = answer /\ \A x \in RunIds \ {s.run} : replied'[x] = replied[x]
      BY <3>1, <3>3 DEF ServiceInv, TypeOK
    <3>5. s.op = "complete" =>
            j.runs[s.player] = [id |-> s.run, status |-> "complete", result |-> s.run]
      BY <1>5 DEF Edits
    <3>6. j.runs[s.player].id = s.run /\ j.runs[s.player].status # "not_started"
      BY <1>5, <2>2 DEF Edits
    <3>7. owner[s.run] = s.player
      BY <1>5, <3>1, <3>6 DEF Sound, RunSound
    <3>8. \A p \in Players : j.runs[p].id = s.run => p = s.player
      <4>1. ASSUME NEW p \in Players, j.runs[p].id = s.run PROVE p = s.player
        <5>1. RunSound(j.runs[p], p, owner, replied)
          BY <1>5 DEF Sound
        <5>2. j.runs[p].status # "not_started"
          BY <3>1, <4>1, <5>1, NoneAssumption DEF RunSound, NoRun
        <5> QED
          BY <3>7, <4>1, <5>1, <5>2 DEF RunSound
      <4> QED
        BY <4>1
    <3>9. \A p \in Players : j.runs[p].id = s.run /\ replied'[s.run] = "done" =>
              j.runs[p].status = "complete" /\ j.runs[p].result = s.run
      BY <3>2, <3>4, <3>5, <3>8
    <3>10. j.runs \in Runs
      BY <1>4 DEF Job
    <3>11. PICK answers : answers = replied'
      OBVIOUS
    <3>12. Sound(j.runs, owner, answers)
      BY <1>5, <3>1, <3>4, <3>9, <3>10, <3>11, SoundWithAnswer
    <3> QED
      BY <1>5, <3>1, <3>4, <3>7, <3>11, <3>12, NoneAssumption
  <2> QED
    BY <2>1, <2>2
<1>9. PICK answers : answers = replied'
  OBVIOUS
<1>10. Snapshot(j) \in Job
  BY <1>4, SnapshotType
<1>11. /\ Rebuilds(Snapshot(j), ResultsOf(j), j.runs)
       /\ Sound(Restored(Snapshot(j), ResultsOf(j)).runs, owner, answers)
       /\ \A p \in Players :
              Snapshot(j).runs[p].status = "not_started" => ResultsOf(j)[p] = None
  BY <1>4, <1>8, <1>9, JobComesBack
<1>12. ArtifactsInv'
  BY <1>5, <1>6, <1>9, <1>10, <1>11, NoJobAssumption DEF ArtifactsInv
<1>13. Up(i)' /\ Free(i)'
  BY <1>4, <1>6, NoJobAssumption DEF Up, Free
<1>14. stored'.state # None /\ Rebuilds(stored'.state, stored'.results, job'[i].runs)
  BY <1>5, <1>6, <1>10, <1>11, NoJobAssumption
<1> QED
  BY <1>6, <1>7, <1>8, <1>12, <1>13, <1>14 DEF RestartInv

\* A stop loses what is in memory; the artifacts are what they are.
LEMMA CrashRestart ==
    ASSUME ServiceInv, NEW i \in Instances, RestartInv(i), Crash(i)
    PROVE  RestartInv(i)'
<1>1. /\ job'[i] = None /\ section'[i] = None /\ intake' # "idle"
      /\ UNCHANGED <<stored, owner, replied>>
  BY DEF Crash, ServiceInv, TypeOK, RestartInv
<1>2. ArtifactsInv'
  BY <1>1 DEF RestartInv, ArtifactsInv
<1>3. \A r \in RunIds : owner'[r] = None => replied'[r] # "done"
  BY <1>1 DEF RestartInv
<1> QED
  BY <1>1, <1>2, <1>3 DEF RestartInv, Up, Free

LEMMA ReadStateRestart ==
    ASSUME ServiceInv, NEW i \in Instances, RestartInv(i), ReadState(i)
    PROVE  RestartInv(i)'
<1>1. /\ ~Up(i) /\ stored.state # None /\ intake # "idle"
      /\ UNCHANGED <<job, stored, intake, owner, replied>>
      /\ section'[i].before = stored.state /\ section'[i].step = "load"
  BY DEF ReadState, ServiceInv, TypeOK
<1>2. ~Up(i)'
  BY <1>1 DEF Up
<1>3. ArtifactsInv'
  BY <1>1 DEF RestartInv, ArtifactsInv
<1>4. \A r \in RunIds : owner'[r] = None => replied'[r] # "done"
  BY <1>1 DEF RestartInv
<1> QED
  BY <1>1, <1>2, <1>3, <1>4 DEF RestartInv

LEMMA ReadResultRestart ==
    ASSUME ServiceInv, NEW i \in Instances, RestartInv(i), ReadResult(i)
    PROVE  RestartInv(i)'
<1>1. ~Up(i) /\ ~Free(i)
  BY DEF ReadResult, At, Free, ServiceInv, SectionInv
<1>2. /\ stored.state # None /\ section[i].before = stored.state
      /\ stored.state \in Job /\ stored.results \in [Players -> Result]
      /\ intake # "idle" /\ \A r \in RunIds : owner[r] = None => replied[r] # "done"
  BY <1>1, TypesOfOne DEF RestartInv
<1>3. PICK j : j = Restored(stored.state, stored.results)
  OBVIOUS
<1>4. j \in Job
  BY <1>2, <1>3, RestoredJob
<1>5. /\ job'[i] = j /\ section'[i] = None
      /\ UNCHANGED <<stored, intake, owner, replied>>
  BY <1>2, <1>3 DEF ReadResult, Leave, ServiceInv, TypeOK
<1>6. ArtifactsInv'
  BY <1>5 DEF RestartInv, ArtifactsInv
<1>7. Sound(j.runs, owner, replied)
  BY <1>2, <1>3 DEF RestartInv, ArtifactsInv
<1>8. Rebuilds(stored.state, stored.results, j.runs)
  BY <1>3 DEF Rebuilds, Fits
<1>9. Up(i)' /\ Free(i)'
  BY <1>4, <1>5, NoJobAssumption DEF Up, Free
<1> QED
  BY <1>2, <1>5, <1>6, <1>7, <1>8, <1>9 DEF RestartInv

\* One process, whose writes succeed.
LEMMA NextRestart ==
    ASSUME NEW i, Instances = {i}, Faults = {}, ServiceInv, RestartInv(i), [Next]_vars
    PROVE  RestartInv(i)'
<1>1. CASE Next
  <2>1. \/ Prepare(i) \/ PreparationSucceeds(i) \/ PreparationFails(i)
        \/ \E p \in Players : SelectPlayer(i, p) \/ CoachEnds(i, p)
        \/ Persist(i)
        \/ CacheFault(i) \/ BlobFault(i) \/ LogFault(i)
        \/ Crash(i)
        \/ Restore(i)
    BY <1>1 DEF Next
  <2>2. i \in Instances
    OBVIOUS
  <2>3. CASE Prepare(i)
    BY <2>2, <2>3, PrepareRestart
  <2>4. CASE PreparationSucceeds(i)
    BY <2>2, <2>4, PreparationSucceedsRestart
  <2>5. CASE PreparationFails(i)
    BY <2>2, <2>5, PreparationFailsRestart
  <2>6. CASE \E p \in Players : SelectPlayer(i, p)
    BY <2>2, <2>6, SelectRestart
  <2>7. CASE \E p \in Players : CoachEnds(i, p)
    BY <2>2, <2>7, CoachEndsRestart
  <2>8. CASE Persist(i)
    BY <2>2, <2>8, WriteStateRestart, WriteResultRestart, EndSectionRestart DEF Persist
  <2>9. CASE CacheFault(i) \/ BlobFault(i) \/ LogFault(i)
    BY <2>9 DEF CacheFault, BlobFault, LogFault
  <2>10. CASE Crash(i)
    BY <2>2, <2>10, CrashRestart
  <2>11. CASE Restore(i)
    BY <2>2, <2>11, ReadStateRestart, ReadResultRestart DEF Restore
  <2> QED
    BY <2>1, <2>3, <2>4, <2>5, <2>6, <2>7, <2>8, <2>9, <2>10, <2>11
<1>2. CASE UNCHANGED vars
  BY <1>2 DEF vars, RestartInv, ArtifactsInv, WritesInv, Up, Free
<1> QED
  BY <1>1, <1>2


-----------------------------------------------------------------------------
(* The theorems, for a deployment of one process whose writes succeed.     *)

\* The inductive invariant holds in every reachable state.
THEOREM RestartInvariant ==
    ASSUME NEW i, Instances = {i}, Faults = {}
    PROVE  Spec => [](ServiceInv /\ RestartInv(i))
<1>1. Init => ServiceInv /\ RestartInv(i)
  <2>1. i \in Instances
    OBVIOUS
  <2> QED
    BY <2>1, InitInv, InitRestart
<1>2. ServiceInv /\ RestartInv(i) /\ [Next]_vars => (ServiceInv /\ RestartInv(i))'
  BY NextInv, NextRestart
<1> QED
  BY <1>1, <1>2, PTL DEF Spec

\* Wherever the process stops between two sections, the artifacts rebuild
\* every run it has, those in progress as failed.
THEOREM RestartsRebuildRuns ==
    ASSUME NEW i, Instances = {i}, Faults = {}
    PROVE  Spec => []RestartRebuildsRuns
<1>1. ServiceInv /\ RestartInv(i) => RestartRebuildsRuns
  BY DEF RestartInv, Rebuilds, Fits, RestartRebuildsRuns
<1> QED
  BY <1>1, RestartInvariant, PTL

\* What intent feedback explains is the coaching of the run the job shows.
THEOREM IntentIsAboutTheShownRun ==
    ASSUME NEW i, Instances = {i}, Faults = {}
    PROVE  Spec => []IntentExplainsTheShownRun
<1>1. ServiceInv /\ RestartInv(i) => IntentExplainsTheShownRun
  <2> SUFFICES ASSUME RestartInv(i), NEW p \in Players, Up(i),
                      IntentSource(job[i], p) \in RunIds
               PROVE  IntentSource(job[i], p) = job[i].runs[p].id
    BY DEF IntentExplainsTheShownRun
  <2>1. RunSound(job[i].runs[p], p, owner, replied)
    BY DEF RestartInv, Sound
  <2>2. IntentSource(job[i], p) \notin NoResult
    BY RunIdAssumption
  <2>3. /\ job[i].runs[p].status = "complete" /\ job[i].runs[p].result # None
        /\ IntentSource(job[i], p) = job[i].runs[p].result
    BY <2>2 DEF IntentSource, NoResult
  <2> QED
    BY <2>1, <2>3 DEF RunSound
<1> QED
  BY <1>1, RestartInvariant, PTL

\* A result a request was answered with is served by every later process.
THEOREM AnsweredResultsAreServed ==
    ASSUME NEW i, Instances = {i}, Faults = {}
    PROVE  Spec => []AnsweredResultIsServed
<1>1. ServiceInv /\ RestartInv(i) => AnsweredResultIsServed
  <2> SUFFICES ASSUME RestartInv(i), NEW p \in Players, NEW r \in RunIds,
                      Up(i), replied[r] = "done", job[i].runs[p].id = r
               PROVE  ResultOfPlayer(job[i], p) = r
    BY DEF AnsweredResultIsServed
  <2>1. job[i].runs[p].status = "complete" /\ job[i].runs[p].result = r
    BY NoneAssumption DEF RestartInv, Sound, RunSound
  <2> QED
    BY <2>1, NoneAssumption DEF ResultOfPlayer
<1> QED
  BY <1>1, RestartInvariant, PTL

\* A step that changes a player's result in result.json is the write of a
\* section about this player.
ResultsChangeInTheirSection ==
    \A p \in Players :
        stored.results[p] # None /\ stored'.results[p] # stored.results[p] =>
            \E i \in Instances : At(i, "result") /\ section[i].player = p

\* result.json loses or replaces a result only where its player is coached.
THEOREM ResultsStayRetained ==
    ASSUME NEW i, Instances = {i}, Faults = {}
    PROVE  Spec => ResultsAreRetained
<1>1. ServiceInv /\ RestartInv(i) /\ [Next]_vars => [ResultsChangeInTheirSection]_vars
  <2> SUFFICES ASSUME ServiceInv, RestartInv(i), Next, NEW p \in Players,
                      stored'.results[p] # stored.results[p]
               PROVE  At(i, "result") /\ section[i].player = p
    BY DEF ResultsChangeInTheirSection
  <2>1. WriteResult(i)
    <3>1. CASE WriteState(i)
      BY <3>1 DEF WriteState, ServiceInv, TypeOK, Stored
    <3> QED
      BY <3>1 DEF Next, Prepare, PreparationSucceeds, PreparationFails, SelectPlayer,
             CoachEnds, CoachSucceeds, CoachFails, Persist, EndSection, CacheFault,
             BlobFault, LogFault, Crash, Restore, ReadState, ReadResult
  <2>2. At(i, "result") /\ ~Free(i) /\ Up(i)
    BY <2>1 DEF WriteResult, At, Free, ServiceInv, SectionInv
  <2>3. job[i] \in Job /\ section[i] \in Section /\ section[i].before \in Job
    BY <2>2, TypesOfOne DEF Section
  <2>4. /\ stored.results[p] = section[i].before.runs[p].result
        /\ stored'.results[p] = job[i].runs[p].result
    BY <2>1, <2>2, <2>3, ResultsOfType
       DEF WriteResult, At, RestartInv, WritesInv, ServiceInv, TypeOK, Stored
  <2>5. job[i].runs[p] # section[i].before.runs[p]
    BY <2>4
  <2> QED
    BY <2>2, <2>5 DEF RestartInv, Edits
<1>2. ResultsAreRetained <=> [][ResultsChangeInTheirSection]_vars
  BY DEF ResultsAreRetained, ResultsChangeInTheirSection
<1> QED
  BY <1>1, <1>2, RestartInvariant, PTL DEF Spec


-----------------------------------------------------------------------------
(* The service implements PlayerRuns.  A start is shown with the write of  *)
(* state.json, an end with that of result.json, and a stop interrupts the  *)
(* runs; every other step changes nothing a client sees.                   *)

\* What a stop may make of the visible runs v.
Interrupts(v, w) ==
    /\ w \in Runs
    /\ \A p \in Players :
        \/ w[p] = v[p]
        \/ /\ v[p].status = "running"
           /\ w[p].id = v[p].id
           /\ w[p].status \in {"failed", "complete"}
           /\ w[p].result # v[p].id

\* What a step may make of them, and of the identifiers issued.
Promised(v, w, issued, issued2) ==
    \/ w = v /\ issued2 = issued
    \/ \E p \in Players : \E r \in RunIds \ issued :
           /\ v[p].status # "running"
           /\ w = [v EXCEPT ![p] = [id |-> r, status |-> "running", result |-> None]]
           /\ issued2 = issued \cup {r}
    \/ \E p \in Players :
           /\ v[p].status = "running"
           /\ \/ w = [v EXCEPT ![p].status = "complete", ![p].result = v[p].id]
              \/ w = [v EXCEPT ![p].status = "failed"]
           /\ issued2 = issued
    \/ Interrupts(v, w) /\ issued \subseteq issued2 /\ issued2 \subseteq RunIds

\* The three kinds of steps.
LEMMA StartIsPromised ==
    ASSUME NEW v, NEW w, NEW issued, NEW issued2, NEW p \in Players, NEW r \in RunIds \ issued,
           v[p].status # "running", issued2 = issued \cup {r},
           w = [v EXCEPT ![p] = [id |-> r, status |-> "running", result |-> None]]
    PROVE  Promised(v, w, issued, issued2)
BY DEF Promised

LEMMA EndIsPromised ==
    ASSUME NEW v \in Runs, NEW w \in Runs, NEW issued, NEW p \in Players, NEW r \in RunIds,
           v[p] = [id |-> r, status |-> "running", result |-> None],
           \/ w[p] = [id |-> r, status |-> "complete", result |-> r]
           \/ w[p] = [id |-> r, status |-> "failed", result |-> None],
           \A q \in Players : q # p => w[q] = v[q]
    PROVE  Promised(v, w, issued, issued)
<1>1. v[p].status = "running" /\ v[p].id = r
  OBVIOUS
<1>2. CASE w[p] = [id |-> r, status |-> "complete", result |-> r]
  <2>1. w[p] = [v[p] EXCEPT !.status = "complete", !.result = r]
    <3>1. PICK x : x = [id |-> r, status |-> "running", result |-> None]
      OBVIOUS
    <3>2. PICK y : y = [x EXCEPT !.status = "complete"]
      OBVIOUS
    <3>3. y = [id |-> r, status |-> "complete", result |-> None]
      BY <3>1, <3>2
    <3>4. [y EXCEPT !.result = r] = [id |-> r, status |-> "complete", result |-> r]
      BY <3>3
    <3>5. [x EXCEPT !.status = "complete", !.result = r] = [y EXCEPT !.result = r]
      BY <3>2
    <3> QED
      BY <1>2, <3>1, <3>4, <3>5
  <2>2. w = [v EXCEPT ![p].status = "complete", ![p].result = v[p].id]
    BY <1>1, <2>1 DEF Runs
  <2> QED
    BY <1>1, <2>2 DEF Promised
<1>3. CASE w[p] = [id |-> r, status |-> "failed", result |-> None]
  <2>1. w[p] = [v[p] EXCEPT !.status = "failed"]
    BY <1>3
  <2>2. w = [v EXCEPT ![p].status = "failed"]
    BY <2>1 DEF Runs
  <2> QED
    BY <1>1, <2>2 DEF Promised
<1> QED
  BY <1>2, <1>3

\* Rebuilding interrupts.
LEMMA RebuildingInterrupts ==
    ASSUME NEW v \in Runs, NEW state \in Job, NEW results \in [Players -> Result],
           NEW own, NEW rep, Sound(v, own, rep), Rebuilds(state, results, v)
    PROVE  Interrupts(v, Restored(state, results).runs)
<1>1. Restored(state, results).runs \in Runs
  BY RestoredJob DEF Job
<1>2. ASSUME NEW p \in Players, NEW back, Fits(back, v[p]), back # v[p]
      PROVE  /\ v[p].status = "running" /\ back.id = v[p].id
             /\ back.status \in {"failed", "complete"} /\ back.result # v[p].id
  <2>1. v[p] \in Run /\ RunSound(v[p], p, own, rep)
    BY DEF Runs, Sound
  <2> QED
    BY <1>2, <2>1, NoneAssumption DEF Fits, RunSound, Run
<1> QED
  BY <1>1, <1>2 DEF Rebuilds, Interrupts

\* So does a stop between the two writes: of the section's player, the run
\* that started is failed, the run that ended has lost its result.
LEMMA HalfWrittenInterrupts ==
    ASSUME NEW j \in Job, NEW s \in Section, NEW own, NEW rep,
           Sound(j.runs, own, rep), Sound(s.before.runs, own, rep), Edits(s, j, rep),
           NEW v, v = IF s.op \in {"complete", "fail"} THEN s.before.runs ELSE j.runs
    PROVE  Interrupts(v, Restored(Snapshot(j), ResultsOf(s.before)).runs)
<1> DEFINE results == ResultsOf(s.before)
<1>1. s.before \in Job /\ Snapshot(j) \in Job
  BY SnapshotType DEF Section
<1>2. results \in [Players -> Result] /\ \A p \in Players : results[p] = s.before.runs[p].result
  BY <1>1, ResultsOfType
<1> HIDE DEF results
<1>3. Restored(Snapshot(j), results).runs \in Runs
  BY <1>1, <1>2, RestoredJob DEF Job
<1>4. ASSUME NEW p \in Players, NEW back, back = Restored(Snapshot(j), results).runs[p],
             back # v[p]
      PROVE  /\ v[p].status = "running" /\ back.id = v[p].id
             /\ back.status \in {"failed", "complete"} /\ back.result # v[p].id
  <2>1. /\ RunSound(j.runs[p], p, own, rep) /\ j.runs[p] \in Run
        /\ RunSound(s.before.runs[p], p, own, rep) /\ s.before.runs[p] \in Run
    BY <1>1 DEF Sound, Job, Runs
  <2>2. CASE p # s.player
    <3>1. j.runs[p] = s.before.runs[p] /\ v[p] = j.runs[p]
      BY <2>2 DEF Edits
    <3>2. Fits(back, j.runs[p])
      BY <1>2, <1>4, <2>1, <3>1, EntryComesBack
    <3> QED
      BY <1>4, <2>1, <3>1, <3>2, NoneAssumption DEF Fits, RunSound, Run
  <2>3. CASE p = s.player
    <3>1. s.op \in {"select", "complete", "fail"}
      BY <2>3, NoneAssumption DEF Edits
    <3>2. j.runs[p].status # "not_started"
      BY <2>3, <3>1 DEF Edits
    <3>3. back = [id     |-> j.runs[p].id,
                  status |-> IF j.status = "coaching" /\ j.runs[p].status = "running"
                             THEN "failed" ELSE j.runs[p].status,
                  result |-> s.before.runs[p].result]
      BY <1>1, <1>2, <1>4, <3>2, RestoredEntry, SnapshotEntry
    <3>4. CASE s.op = "select"
      <4>1. /\ j.status = "coaching" /\ v[p] = j.runs[p]
            /\ j.runs[p] = [id |-> s.run, status |-> "running", result |-> None]
            /\ s.before.runs[p].result # s.run
        BY <2>3, <3>4 DEF Edits
      <4> QED
        BY <3>3, <4>1
    <3>5. CASE s.op \in {"complete", "fail"}
      <4>1. /\ j.runs[p].id = s.run /\ j.runs[p].status \in {"complete", "failed"}
            /\ s.before.runs[p] = [id |-> s.run, status |-> "running", result |-> None]
            /\ v[p] = s.before.runs[p]
        BY <2>3, <3>5 DEF Edits
      <4>2. s.run \in RunIds
        BY <2>1, <4>1 DEF RunSound
      <4> QED
        BY <3>3, <4>1, <4>2, NoneAssumption
    <3> QED
      BY <3>1, <3>4, <3>5
  <2> QED
    BY <2>2, <2>3
<1>5. PICK w : w = Restored(Snapshot(j), results).runs
  OBVIOUS
<1>6. Interrupts(v, w)
  BY <1>3, <1>4, <1>5 DEF Interrupts
<1> QED
  BY <1>5, <1>6 DEF results

\* A section that is to write works on a job in memory.
LEMMA EnteredIsUp ==
    ASSUME ServiceInv', NEW i \in Instances, section'[i] # None, section'[i].step = "state"
    PROVE  Up(i)'
BY DEF ServiceInv, SectionInv

\* A section that starts changes nothing a client sees.
LEMMA EnterShows ==
    ASSUME ServiceInv, ServiceInv', NEW i \in Instances, Up(i), Free(i),
           NEW op \in Operations, NEW p \in Players \cup {None}, NEW r \in Result,
           Enter(i, op, p, r, job[i]),
           \A x \in RunIds : owner'[x] # None <=>
               owner[x] # None \/ (op = "select" /\ x = r),
           op = "select" => owner[r] = None
    PROVE  VisibleRuns(i)' = VisibleRuns(i) /\ IssuedRuns(i)' = IssuedRuns(i)
<1>1. PICK s : s = [op |-> op, player |-> p, run |-> r, step |-> "state", before |-> job[i]]
  OBVIOUS
<1>2. job[i] \in Job
  BY TypesOfOne
<1>3. section'[i] = s /\ s \in Section
  BY <1>1, <1>2, EnterType DEF ServiceInv, Section
<1>4. s # None /\ Up(i)'
  <2>1. s # None /\ s.step = "state"
    BY <1>1, <1>3, NoSectionAssumption
  <2> QED
    BY <1>3, <2>1, EnteredIsUp
<1>5. VisibleRuns(i) = job[i].runs
  BY DEF VisibleRuns, HiddenBySection, Free
<1>6. VisibleRuns(i)' = job[i].runs
  BY <1>1, <1>3, <1>4 DEF VisibleRuns, HiddenBySection
<1>7. IssuedRuns(i) = {x \in RunIds : owner[x] # None}
  BY DEF IssuedRuns, At, Free
<1>8. IssuedRuns(i)' =
        {x \in RunIds : owner'[x] # None} \ (IF op = "select" THEN {r} ELSE {})
  BY <1>1, <1>3, <1>4 DEF IssuedRuns, At
<1> QED
  BY <1>5, <1>6, <1>7, <1>8

LEMMA EndingShows ==
    ASSUME ServiceInv, ServiceInv', NEW i \in Instances,
           \/ PreparationSucceeds(i) \/ PreparationFails(i)
           \/ \E p \in Players : CoachEnds(i, p)
    PROVE  VisibleRuns(i)' = VisibleRuns(i) /\ IssuedRuns(i)' = IssuedRuns(i)
<1>1. CASE PreparationSucceeds(i) \/ PreparationFails(i)
  <2>1. PICK op \in {"ready", "prepare_failed"} : Enter(i, op, None, None, job[i])
    BY <1>1 DEF PreparationSucceeds, PreparationFails
  <2>2. op \in Operations /\ op # "select"
    BY <2>1 DEF Operations
  <2>3. Up(i) /\ Free(i) /\ owner' = owner
    BY <1>1 DEF PreparationSucceeds, PreparationFails
  <2> QED
    BY <2>1, <2>2, <2>3, EnterShows DEF Result
<1>2. ASSUME NEW p \in Players, CoachEnds(i, p)
      PROVE  VisibleRuns(i)' = VisibleRuns(i) /\ IssuedRuns(i)' = IssuedRuns(i)
  <2>1. PICK c \in calls[i] : CoachSucceeds(i, c) \/ CoachFails(i, c)
    BY <1>2 DEF CoachEnds
  <2>2. PICK op \in {"complete", "fail"} : Enter(i, op, c.player, c.run, job[i])
    BY <2>1 DEF CoachSucceeds, CoachFails
  <2>3. op \in Operations /\ op # "select"
    BY <2>2 DEF Operations
  <2>4. Up(i) /\ c \in Call
    BY DEF ServiceInv, LiveCallOwnsRun, TypeOK
  <2>5. Free(i) /\ owner' = owner /\ c.player \in Players /\ c.run \in Result
    BY <2>1, <2>4 DEF CoachSucceeds, CoachFails, Call, Result
  <2> QED
    BY <2>2, <2>3, <2>4, <2>5, EnterShows
<1> QED
  BY <1>1, <1>2

LEMMA SelectShows ==
    ASSUME ServiceInv, ServiceInv', NEW i \in Instances, NEW p \in Players,
           SelectPlayer(i, p)
    PROVE  VisibleRuns(i)' = VisibleRuns(i) /\ IssuedRuns(i)' = IssuedRuns(i)
<1>1. PICK r \in RunIds :
        owner[r] = None /\ owner' = [owner EXCEPT ![r] = p] /\ Enter(i, "select", p, r, job[i])
  BY DEF SelectPlayer
<1>2. \A x \in RunIds : owner'[x] # None <=> owner[x] # None \/ x = r
  BY <1>1, NoneAssumption DEF ServiceInv, TypeOK
<1>3. Up(i) /\ Free(i)
  BY DEF SelectPlayer
<1> QED
  BY <1>1, <1>2, <1>3, EnterShows DEF Operations, Result

LEMMA PrepareShows ==
    ASSUME ServiceInv, ServiceInv', NEW i \in Instances, RestartInv(i), Prepare(i)
    PROVE  VisibleRuns(i)' = VisibleRuns(i) /\ IssuedRuns(i)' = IssuedRuns(i)
<1>1. PICK s : s = [op |-> "receive", player |-> None, run |-> None,
                    step |-> "state", before |-> NewJob]
  OBVIOUS
<1>2. section'[i] = s /\ s \in Section
  BY <1>1, NewJobType DEF Prepare, Enter, ServiceInv, TypeOK, Section, Operations, Result
<1>3. s # None /\ Up(i)'
  <2>1. s # None /\ s.step = "state"
    BY <1>1, <1>2, NoSectionAssumption
  <2> QED
    BY <1>2, <2>1, EnteredIsUp
<1>4. ~Up(i) /\ Free(i) /\ stored.state = None /\ owner' = owner
  BY DEF Prepare, RestartInv
<1>5. VisibleRuns(i) = NoRuns
  BY <1>4 DEF VisibleRuns
<1>6. VisibleRuns(i)' = NewJob.runs
  BY <1>1, <1>2, <1>3 DEF VisibleRuns, HiddenBySection
<1>7. NewJob.runs = NoRuns
  BY DEF NewJob, NoRuns
<1>8. IssuedRuns(i)' = IssuedRuns(i)
  BY <1>1, <1>2, <1>3, <1>4 DEF IssuedRuns, At, Free
<1> QED
  BY <1>5, <1>6, <1>7, <1>8

\* Two jobs whose players have the same runs show the same.
LEMMA SameRuns ==
    ASSUME NEW v \in Runs, NEW w \in Runs, \A p \in Players : w[p] = v[p]
    PROVE  w = v
BY DEF Runs

\* A start becomes visible with state.json.
LEMMA WriteStateShows ==
    ASSUME ServiceInv, ServiceInv', NEW i \in Instances, RestartInv(i), WriteState(i)
    PROVE  Promised(VisibleRuns(i), VisibleRuns(i)', IssuedRuns(i), IssuedRuns(i)')
<1>1. PICK s : s = section[i]
  OBVIOUS
<1>2. PICK j : j = job[i]
  OBVIOUS
<1>3. ~Free(i) /\ Up(i) /\ s.step = "state" /\ s # None
  BY <1>1 DEF WriteState, At, Free, ServiceInv, SectionInv
<1>4. j \in Job /\ s \in Section /\ j.runs \in Runs /\ s.before.runs \in Runs
  BY <1>1, <1>2, <1>3, TypesOfOne DEF Section, Job
<1>5. PICK t : t = [s EXCEPT !.step = "result"]
  OBVIOUS
<1>6. /\ t \in Section /\ t.step = "result" /\ t.before = s.before
      /\ t.op = s.op /\ t.player = s.player /\ t.run = s.run
  BY <1>4, <1>5 DEF Section
<1>7. section'[i] = t /\ job'[i] = j /\ UNCHANGED <<job, owner>>
  BY <1>1, <1>2, <1>5 DEF WriteState, Goto, ServiceInv, TypeOK
<1>8. Edits(s, j, replied)
  BY <1>1, <1>2, <1>3 DEF RestartInv
<1>9. t # None /\ Up(i)'
  BY <1>3, <1>6, <1>7, NoSectionAssumption DEF Up
<1>10. VisibleRuns(i) = s.before.runs
  BY <1>1, <1>3 DEF VisibleRuns, HiddenBySection
<1>11. VisibleRuns(i)' = IF s.op \in {"complete", "fail"} THEN s.before.runs ELSE j.runs
  BY <1>6, <1>7, <1>9 DEF VisibleRuns, HiddenBySection
<1>12. /\ IssuedRuns(i) = {x \in RunIds : owner[x] # None}
                             \ (IF s.op = "select" THEN {s.run} ELSE {})
       /\ IssuedRuns(i)' = {x \in RunIds : owner[x] # None}
  BY <1>1, <1>3, <1>6, <1>7, <1>9 DEF IssuedRuns, At
<1>13. CASE s.op = "select"
  <2>1. s.player \in Players /\ s.run \in RunIds /\ owner[s.run] = s.player
    BY <1>1, <1>3, <1>13 DEF ServiceInv, SectionInv
  <2>2. /\ s.before.runs[s.player].status # "running"
        /\ j.runs[s.player] = [id |-> s.run, status |-> "running", result |-> None]
        /\ \A q \in Players : q # s.player => j.runs[q] = s.before.runs[q]
    BY <1>8, <1>13 DEF Edits
  <2>3. j.runs = [s.before.runs EXCEPT ![s.player] =
                     [id |-> s.run, status |-> "running", result |-> None]]
    BY <1>4, <2>1, <2>2 DEF Runs
  <2>4. s.run \in RunIds \ IssuedRuns(i) /\ IssuedRuns(i)' = IssuedRuns(i) \cup {s.run}
    BY <1>12, <1>13, <2>1, NoneAssumption
  <2>5. VisibleRuns(i)' = j.runs
    BY <1>11, <1>13
  <2> QED
    BY <1>10, <2>1, <2>2, <2>3, <2>4, <2>5, StartIsPromised
<1>14. CASE s.op \in {"complete", "fail"}
  BY <1>10, <1>11, <1>12, <1>14 DEF Promised
<1>15. CASE s.op \notin {"select", "complete", "fail"}
  <2>1. \A q \in Players : j.runs[q] = s.before.runs[q]
    BY <1>8, <1>15, NoneAssumption DEF Edits
  <2>2. j.runs = s.before.runs
    BY <1>4, <2>1, SameRuns
  <2> QED
    BY <1>10, <1>11, <1>12, <1>15, <2>2 DEF Promised
<1> QED
  BY <1>13, <1>14, <1>15

\* An end becomes visible with result.json.
LEMMA WriteResultShows ==
    ASSUME ServiceInv, ServiceInv', NEW i \in Instances, RestartInv(i), WriteResult(i)
    PROVE  Promised(VisibleRuns(i), VisibleRuns(i)', IssuedRuns(i), IssuedRuns(i)')
<1>1. PICK s : s = section[i]
  OBVIOUS
<1>2. PICK j : j = job[i]
  OBVIOUS
<1>3. ~Free(i) /\ Up(i) /\ s.step = "result" /\ s # None
  BY <1>1 DEF WriteResult, At, Free, ServiceInv, SectionInv
<1>4. j \in Job /\ s \in Section /\ j.runs \in Runs /\ s.before.runs \in Runs
  BY <1>1, <1>2, <1>3, TypesOfOne DEF Section, Job
<1>5. PICK t : t = [s EXCEPT !.step = "log"]
  OBVIOUS
<1>6. t \in Section /\ t.step = "log"
  BY <1>4, <1>5 DEF Section
<1>7. section'[i] = t /\ job'[i] = j /\ UNCHANGED <<job, owner>>
  BY <1>1, <1>2, <1>5 DEF WriteResult, Goto, ServiceInv, TypeOK
<1>8. Edits(s, j, replied)
  BY <1>1, <1>2, <1>3 DEF RestartInv
<1>9. t # None /\ Up(i)'
  BY <1>3, <1>6, <1>7, NoSectionAssumption DEF Up
<1>10. VisibleRuns(i) = IF s.op \in {"complete", "fail"} THEN s.before.runs ELSE j.runs
  BY <1>1, <1>2, <1>3 DEF VisibleRuns, HiddenBySection
<1>11. VisibleRuns(i)' = j.runs
  BY <1>6, <1>7, <1>9 DEF VisibleRuns, HiddenBySection
<1>12. IssuedRuns(i)' = IssuedRuns(i)
  BY <1>1, <1>3, <1>6, <1>7, <1>9 DEF IssuedRuns, At
<1>13. CASE s.op \in {"complete", "fail"}
  <2>1. s.player \in Players /\ s.run \in RunIds
    BY <1>1, <1>3, <1>13 DEF ServiceInv, SectionInv
  <2>2. /\ s.before.runs[s.player] = [id |-> s.run, status |-> "running", result |-> None]
        /\ \A q \in Players : q # s.player => j.runs[q] = s.before.runs[q]
    BY <1>8, <1>13 DEF Edits
  <2>3. \/ j.runs[s.player] = [id |-> s.run, status |-> "complete", result |-> s.run]
        \/ j.runs[s.player] = [id |-> s.run, status |-> "failed", result |-> None]
    BY <1>8, <1>13 DEF Edits
  <2>4. Promised(s.before.runs, j.runs, IssuedRuns(i), IssuedRuns(i))
    BY <1>4, <2>1, <2>2, <2>3, EndIsPromised
  <2> QED
    BY <1>10, <1>11, <1>12, <1>13, <2>4
<1>14. CASE s.op \notin {"complete", "fail"}
  BY <1>10, <1>11, <1>12, <1>14 DEF Promised
<1> QED
  BY <1>13, <1>14


LEMMA EndSectionShows ==
    ASSUME ServiceInv, NEW i \in Instances, EndSection(i)
    PROVE  VisibleRuns(i)' = VisibleRuns(i) /\ IssuedRuns(i)' = IssuedRuns(i)
<1>1. /\ Up(i) /\ section[i] # None /\ section[i].step = "log"
      /\ section'[i] = None /\ UNCHANGED <<job, owner>>
  BY DEF EndSection, At, Leave, ServiceInv, SectionInv, TypeOK
<1>2. Up(i)'
  BY <1>1 DEF Up
<1>3. VisibleRuns(i) = job[i].runs /\ VisibleRuns(i)' = job[i].runs
  BY <1>1, <1>2 DEF VisibleRuns, HiddenBySection
<1> QED
  BY <1>1, <1>3 DEF IssuedRuns, At

\* A stop shows what the artifacts rebuild: of a section that has written
\* state.json alone, its run has ended without a result.
LEMMA CrashShows ==
    ASSUME ServiceInv, NEW i \in Instances, RestartInv(i), Crash(i)
    PROVE  Promised(VisibleRuns(i), VisibleRuns(i)', IssuedRuns(i), IssuedRuns(i)')
<1>1. PICK back : back = IF stored.state = None THEN NoRuns
                         ELSE Restored(stored.state, stored.results).runs
  OBVIOUS
<1>2. job'[i] = None /\ section'[i] = None /\ UNCHANGED <<stored, owner>>
  BY DEF Crash, ServiceInv, TypeOK
<1>3. VisibleRuns(i)' = back
  BY <1>1, <1>2 DEF VisibleRuns, Up
<1>4. IssuedRuns(i)' = {x \in RunIds : owner[x] # None}
  BY <1>2 DEF IssuedRuns, At
<1>5. IssuedRuns(i) \subseteq IssuedRuns(i)' /\ IssuedRuns(i)' \subseteq RunIds
  BY <1>4 DEF IssuedRuns
<1>6. stored.state \in Job \cup {None} /\ stored.results \in [Players -> Result]
  BY TypesOfOne
<1>7. back \in Runs
  <2>1. NoRuns \in Runs
    BY DEF NoRuns, NoRun, Runs, Run, RunStatus, Result
  <2> QED
    BY <1>1, <1>6, <2>1, RestoredJob DEF Job
<1>8. back = VisibleRuns(i) \/ Interrupts(VisibleRuns(i), back)
  <2>1. CASE ~Up(i)
    BY <1>1, <2>1 DEF VisibleRuns
  <2>2. CASE Up(i) /\ Free(i)
    <3>1. /\ job[i] \in Job /\ job[i].runs \in Runs /\ Sound(job[i].runs, owner, replied)
          /\ stored.state # None /\ Rebuilds(stored.state, stored.results, job[i].runs)
      BY <2>2, TypesOfOne DEF RestartInv, Job
    <3>2. VisibleRuns(i) = job[i].runs
      BY <2>2 DEF VisibleRuns, HiddenBySection, Free
    <3> QED
      BY <1>1, <1>6, <3>1, <3>2, RebuildingInterrupts
  <2>3. CASE Up(i) /\ ~Free(i)
    <3>1. PICK s : s = section[i]
      OBVIOUS
    <3>2. PICK j : j = job[i]
      OBVIOUS
    <3>3. /\ j \in Job /\ s \in Section /\ s # None /\ j.runs \in Runs
          /\ s.before \in Job /\ s.before.runs \in Runs
      BY <2>3, <3>1, <3>2, TypesOfOne, NoSectionAssumption DEF Section, Job
    <3>4. /\ Sound(j.runs, owner, replied) /\ Sound(s.before.runs, owner, replied)
          /\ Edits(s, j, replied) /\ WritesInv(i)
      BY <2>3, <3>1, <3>2 DEF RestartInv
    <3>5. s.step \in {"state", "result", "log"}
      BY <2>3, <3>1, <3>3 DEF ServiceInv, SectionInv, Section
    <3>6. Snapshot(j) \in Job /\ Snapshot(j) # None
      BY <3>3, SnapshotType, NoJobAssumption
    <3>7. CASE s.step = "state"
      <4>1. VisibleRuns(i) = s.before.runs
        BY <2>3, <3>1, <3>3, <3>7 DEF VisibleRuns, HiddenBySection
      <4>2. CASE s.op = "receive"
        <5>1. stored.state = None
          BY <3>1, <3>4, <3>7, <4>2 DEF WritesInv
        <5>2. s.before.runs = NoRuns
          BY <3>4, <4>2 DEF Edits, NewJob, NoRuns
        <5> QED
          BY <1>1, <4>1, <5>1, <5>2
      <4>3. CASE s.op # "receive"
        <5>1. stored.state # None /\ Rebuilds(stored.state, stored.results, s.before.runs)
          BY <3>1, <3>4, <3>7, <4>3 DEF WritesInv
        <5> QED
          BY <1>1, <1>6, <3>3, <3>4, <4>1, <5>1, RebuildingInterrupts
      <4> QED
        BY <4>2, <4>3
    <3>8. CASE s.step = "log"
      <4>1. VisibleRuns(i) = j.runs
        BY <2>3, <3>1, <3>2, <3>3, <3>8 DEF VisibleRuns, HiddenBySection
      <4>2. stored.state = Snapshot(j) /\ stored.results = ResultsOf(j)
        BY <3>1, <3>2, <3>4, <3>8 DEF WritesInv
      <4>3. Rebuilds(stored.state, stored.results, j.runs)
        BY <3>3, <3>4, <4>2, JobComesBack
      <4> QED
        BY <1>1, <1>6, <3>3, <3>4, <3>6, <4>1, <4>2, <4>3, RebuildingInterrupts
    <3>9. CASE s.step = "result"
      <4>1. stored.state = Snapshot(j) /\ stored.results = ResultsOf(s.before)
        BY <3>1, <3>2, <3>4, <3>9 DEF WritesInv
      <4>2. back = Restored(Snapshot(j), ResultsOf(s.before)).runs
        BY <1>1, <3>6, <4>1
      <4>3. VisibleRuns(i) = IF s.op \in {"complete", "fail"} THEN s.before.runs ELSE j.runs
        BY <2>3, <3>1, <3>2, <3>3, <3>9 DEF VisibleRuns, HiddenBySection
      <4> QED
        BY <1>7, <3>3, <3>4, <4>2, <4>3, HalfWrittenInterrupts
    <3> QED
      BY <3>5, <3>7, <3>8, <3>9
  <2> QED
    BY <2>1, <2>2, <2>3
<1>9. Interrupts(VisibleRuns(i), back)
  BY <1>7, <1>8 DEF Interrupts
<1> QED
  BY <1>3, <1>5, <1>9 DEF Promised


LEMMA RestoreShows ==
    ASSUME ServiceInv, ServiceInv', NEW i \in Instances, RestartInv(i), Restore(i)
    PROVE  VisibleRuns(i)' = VisibleRuns(i) /\ IssuedRuns(i)' = IssuedRuns(i)
<1>1. CASE ReadState(i)
  <2>1. /\ ~Up(i) /\ Free(i) /\ UNCHANGED <<job, stored, owner>>
        /\ section'[i].step = "load"
    BY <1>1 DEF ReadState, ServiceInv, TypeOK
  <2>2. VisibleRuns(i)' = VisibleRuns(i)
    BY <2>1 DEF VisibleRuns, Up
  <2> QED
    BY <2>1, <2>2 DEF IssuedRuns, At, Free
<1>2. CASE ReadResult(i)
  <2>1. ~Free(i) /\ ~Up(i) /\ section[i].step = "load"
    BY <1>2 DEF ReadResult, At, Free, ServiceInv, SectionInv
  <2>2. /\ stored.state # None /\ section[i].before = stored.state
        /\ stored.state \in Job /\ stored.results \in [Players -> Result]
    BY <2>1, TypesOfOne DEF RestartInv
  <2>3. PICK j : j = Restored(stored.state, stored.results)
    OBVIOUS
  <2>4. j \in Job /\ j # None
    BY <2>2, <2>3, RestoredJob, NoJobAssumption
  <2>5. job'[i] = j /\ section'[i] = None /\ UNCHANGED <<stored, owner>>
    BY <1>2, <2>2, <2>3 DEF ReadResult, Leave, ServiceInv, TypeOK
  <2>6. VisibleRuns(i) = j.runs
    BY <2>1, <2>2, <2>3 DEF VisibleRuns
  <2>7. VisibleRuns(i)' = j.runs
    BY <2>4, <2>5 DEF VisibleRuns, HiddenBySection, Up
  <2>8. IssuedRuns(i)' = IssuedRuns(i)
    BY <2>1, <2>5 DEF IssuedRuns, At, Free
  <2> QED
    BY <2>6, <2>7, <2>8
<1> QED
  BY <1>1, <1>2 DEF Restore

\* Every step of the service is one a client was promised.
LEMMA StepIsPromised ==
    ASSUME NEW i, Instances = {i}, Faults = {}, ServiceInv, RestartInv(i), [Next]_vars
    PROVE  Promised(VisibleRuns(i), VisibleRuns(i)', IssuedRuns(i), IssuedRuns(i)')
<1>1. i \in Instances /\ ServiceInv'
  BY NextInv
<1>2. ASSUME VisibleRuns(i)' = VisibleRuns(i), IssuedRuns(i)' = IssuedRuns(i)
      PROVE  Promised(VisibleRuns(i), VisibleRuns(i)', IssuedRuns(i), IssuedRuns(i)')
  BY <1>2 DEF Promised
<1>3. CASE Next
  <2>1. \/ Prepare(i) \/ PreparationSucceeds(i) \/ PreparationFails(i)
        \/ \E p \in Players : SelectPlayer(i, p) \/ CoachEnds(i, p)
        \/ Persist(i)
        \/ CacheFault(i) \/ BlobFault(i) \/ LogFault(i)
        \/ Crash(i)
        \/ Restore(i)
    BY <1>3 DEF Next
  <2>2. CASE Prepare(i)
    BY <1>1, <1>2, <2>2, PrepareShows
  <2>3. CASE \/ PreparationSucceeds(i) \/ PreparationFails(i)
             \/ \E p \in Players : CoachEnds(i, p)
    BY <1>1, <1>2, <2>3, EndingShows
  <2>4. CASE \E p \in Players : SelectPlayer(i, p)
    BY <1>1, <1>2, <2>4, SelectShows
  <2>5. CASE WriteState(i)
    BY <1>1, <2>5, WriteStateShows
  <2>6. CASE WriteResult(i)
    BY <1>1, <2>6, WriteResultShows
  <2>7. CASE EndSection(i)
    BY <1>1, <1>2, <2>7, EndSectionShows
  <2>8. CASE CacheFault(i) \/ BlobFault(i) \/ LogFault(i)
    BY <2>8 DEF CacheFault, BlobFault, LogFault
  <2>9. CASE Crash(i)
    BY <1>1, <2>9, CrashShows
  <2>10. CASE Restore(i)
    BY <1>1, <1>2, <2>10, RestoreShows
  <2> QED
    BY <2>1, <2>2, <2>3, <2>4, <2>5, <2>6, <2>7, <2>8, <2>9, <2>10 DEF Persist
<1>4. CASE UNCHANGED vars
  BY <1>2, <1>4 DEF vars, VisibleRuns, HiddenBySection, IssuedRuns, At, Up
<1> QED
  BY <1>3, <1>4

\* Through any sequence of stops and restarts, the runs a client sees start,
\* end and stay as PlayerRuns says.
THEOREM ServiceImplementsPlayerRuns ==
    ASSUME NEW i, Instances = {i}, Faults = {}
    PROVE  Spec => ImplementsPlayerRuns
<1>1. TheInstance = i
  BY DEF TheInstance
<1>2. Init => PlayerRunsView!Init
  BY <1>1 DEF Init, PlayerRunsView!Init, VisibleRuns, IssuedRuns, At, Up, NoRuns,
              PlayerRunsView!NoRun, NoRun
<1>3. ServiceInv /\ RestartInv(i) /\ [Next]_vars => [PlayerRunsView!Next]_(PlayerRunsView!vars)
  <2> SUFFICES ASSUME ServiceInv, RestartInv(i), [Next]_vars
               PROVE  [PlayerRunsView!Next]_(PlayerRunsView!vars)
    OBVIOUS
  <2>1. Promised(VisibleRuns(i), VisibleRuns(i)', IssuedRuns(i), IssuedRuns(i)')
    BY StepIsPromised
  <2> QED
    BY <1>1, <2>1 DEF Promised, Interrupts, Runs, Run, RunStatus, Result,
         PlayerRunsView!Next, PlayerRunsView!vars, PlayerRunsView!Start,
         PlayerRunsView!Finish, PlayerRunsView!Fail, PlayerRunsView!Interrupt
<1> QED
  BY <1>2, <1>3, RestartInvariant, PTL DEF Spec, ImplementsPlayerRuns, PlayerRunsView!Spec
=============================================================================
