----------------------------- MODULE ReplayStore -----------------------------
(***************************************************************************)
(* The artifacts of replays and analyses in one Blob store, and the        *)
(* requests that write them one artifact at a time: ingestion of an upload *)
(* (backend/replay_api/ingestion.py), preparation of the hosted sample     *)
(* (backend/app/sample_replay.py), preparation and run of an analysis      *)
(* (backend/app/main.py) and the unlocking of the visualization after it   *)
(* (backend/replay_api/store.py).  A put is retried when its answer is     *)
(* lost (backend/storage/blob.py), so it may be applied more than once,    *)
(* and other requests may write in between.                                *)
(***************************************************************************)
EXTENDS Naturals, FiniteSets

CONSTANTS
    Uploads,      \* identifiers uuid4 issues to uploaded replays
    Sample,       \* the fixed identifier of the hosted sample
    Jobs,         \* identifiers of analysis jobs
    Tasks,        \* requests in progress at one time
    None,         \* no artifact, no request, no replay
    MaxAttempts,  \* _ServiceBindingBlobClient._MAX_ATTEMPTS
    MaxRequests   \* bounds Upload, PrepareSample and StartRun

VARIABLES
    store,        \* what each artifact of each group holds
    age,          \* days since each artifact was written
    requests,     \* counts the requests made
    tasks,        \* the requests in progress
    known,        \* replays whose id a client was told
    source,       \* the replay each analysis was prepared for
    coached       \* history: replays with a successful run

storeVars == <<store, age, requests, tasks, known, source, coached>>

Replays == Uploads \cup {Sample}
Groups  == Replays \cup Jobs
Files   == {"coaching", "manifest", "visualization", "state", "result"}

ASSUME StoreAssumption ==
    /\ None \notin Groups
    /\ Sample \notin Uploads
    /\ Replays \cap Jobs = {}
    /\ IsFiniteSet(Uploads) /\ IsFiniteSet(Jobs)
    /\ MaxAttempts \in Nat \ {0}
    /\ MaxRequests \in Nat

\* An artifact's content, as far as a reader depends on it: a manifest's status
\* and lock, whether an analysis failed, and of others that they are there.
Content  == [status : {"processing", "ready", "failed", "stored"}, unlocked : BOOLEAN]
Locked(status) == [status |-> status, unlocked |-> FALSE]

Steps == {"coaching", "processing", "visualization", "ready", "failed",
          "cacheManifest", "cacheCoaching", "download", "prepare",
          "coach", "readManifest", "unlock"}

\* A request: its next step, the replay, the job (for a run), the manifest it
\* read, and how often the put of this step was tried before.
Task == [step : Steps, replay : Replays, job : Jobs \cup {None},
         manifest : Content \cup {None}, attempt : 0..(MaxAttempts - 1)]

ASSUME NoneIsNoTask == None \notin Task /\ None \notin Content

NewTask(step, r, j) ==
    [step |-> step, replay |-> r, job |-> j, manifest |-> None, attempt |-> 0]

Stored(g, f) == store[g][f] # None

-----------------------------------------------------------------------------
(* Writing.                                                                 *)

\* The artifact that holds g's content c under f, written now.
Write(g, f, c) ==
    /\ store' = [store EXCEPT ![g][f] = c]
    /\ age' = [age EXCEPT ![g][f] = 0]

\* What each step puts: its artifact and content.
PutOf(t) ==
    CASE t.step = "coaching"      -> [file |-> "coaching", content |-> Locked("stored")]
      [] t.step = "visualization" -> [file |-> "visualization", content |-> Locked("stored")]
      [] t.step \in {"processing", "ready", "failed"} ->
            [file |-> "manifest", content |-> Locked(t.step)]
      [] t.step = "unlock" ->
            [file |-> "manifest", content |-> [t.manifest EXCEPT !.unlocked = TRUE]]

Puts == {"coaching", "processing", "visualization", "ready", "failed", "unlock"}

\* start_replay and finish_visualization; a sample goes on to its analysis.
NextStep(t) ==
    CASE t.step = "coaching"      -> "processing"
      [] t.step = "processing"    -> "visualization"
      [] t.step = "visualization" -> "ready"
      [] t.step = "unlock"        -> "done"
      [] t.step \in {"ready", "failed"} ->
            IF t.replay = Sample THEN "prepare" ELSE "done"

\* Mutant: an upload is answered as soon as its first manifest is there, and
\* the visualization is finished in the background.
AnswersEarly(t) == t.replay \in Uploads /\ t.step = "processing"

\* The last put answers an upload: its client now knows the replay's id.
Answers(t) == t.replay \in Uploads /\ t.step \in {"ready", "failed"}

-----------------------------------------------------------------------------
StoreInit ==
    /\ store = [g \in Groups |-> [f \in Files |-> None]]
    /\ age = [g \in Groups |-> [f \in Files |-> 0]]
    /\ requests = 0
    /\ tasks = [t \in Tasks |-> None]
    /\ known = {}
    /\ source = [j \in Jobs |-> None]
    /\ coached = {}

Idle(t) == tasks[t] = None

\* A request begins in a free slot.
Begin(t, task) ==
    /\ Idle(t) /\ requests < MaxRequests
    /\ tasks' = [tasks EXCEPT ![t] = task]
    /\ requests' = requests + 1

End(t)  == tasks' = [tasks EXCEPT ![t] = None]

\* No other request names an id before it was issued.
Issued(r) == \/ \E f \in Files : Stored(r, f)
             \/ r \in known
             \/ \E t \in Tasks : tasks[t] # None /\ tasks[t].replay = r

\* POST /api/replay/upload or import-url, once the demo is parsed.
Upload(t, r) ==
    /\ ~Issued(r)
    /\ Begin(t, NewTask("coaching", r, None))
    /\ UNCHANGED <<store, age, known, source, coached>>

\* POST /api/analyze for the sample.
PrepareSample(t) ==
    /\ Begin(t, NewTask("cacheManifest", Sample, None))
    /\ UNCHANGED <<store, age, known, source, coached>>

\* _load_cached: the manifest, and in a later call the coaching artifact.
LoadCachedManifest(t) ==
    /\ ~Idle(t) /\ tasks[t].step = "cacheManifest"
    /\ tasks' = [tasks EXCEPT
          ![t].step = IF Stored(Sample, "manifest") THEN "cacheCoaching" ELSE "download",
          ![t].manifest = store[Sample]["manifest"]]
    /\ UNCHANGED <<store, age, known, source, coached>>

\* Mutant: any manifest counts as that of a cached sample.
CacheHitUnready(t) == Stored(Sample, "coaching")

CacheHit(t) == t.manifest.status = "ready" /\ Stored(Sample, "coaching")

LoadCachedCoaching(t) ==
    /\ ~Idle(t) /\ tasks[t].step = "cacheCoaching"
    /\ tasks' = [tasks EXCEPT
          ![t].step = IF CacheHit(tasks[t]) THEN "prepare" ELSE "download",
          ![t].manifest = IF CacheHit(tasks[t]) THEN @ ELSE None]
    /\ UNCHANGED <<store, age, known, source, coached>>

\* The hosted demo is downloaded, has the expected size and digest, and parses.
Download(t) ==
    /\ ~Idle(t) /\ tasks[t].step = "download"
    /\ tasks' = [tasks EXCEPT ![t].step = "coaching"]
    /\ UNCHANGED <<store, age, known, source, coached>>

\* analysis.prepare: the state of a new job of replay r is stored.
NewJob(j, r) ==
    /\ source[j] = None
    /\ source' = [source EXCEPT ![j] = r]
    /\ Write(j, "state", Locked("stored"))

\* The sample's analysis; Jobs bounds how many analyses are followed.
Prepare(t) ==
    /\ ~Idle(t) /\ tasks[t].step = "prepare"
    /\ \/ \E j \in Jobs : NewJob(j, Sample)
       \/ (\A j \in Jobs : source[j] # None) /\ UNCHANGED <<store, age, source>>
    /\ End(t)
    /\ UNCHANGED <<known, coached>>

\* POST /api/analysis/prepare with the id of an uploaded replay.
PrepareUpload(j, r) ==
    /\ r \in known /\ Stored(r, "coaching")
    /\ NewJob(j, r)
    /\ UNCHANGED <<requests, tasks, known, coached>>

\* A put that is applied and answered.
PutAnswered(t) ==
    /\ ~Idle(t) /\ tasks[t].step \in Puts
    /\ LET put == PutOf(tasks[t])
       IN  Write(tasks[t].replay, put.file, put.content)
    /\ known' = IF Answers(tasks[t]) THEN known \cup {tasks[t].replay} ELSE known
    /\ IF NextStep(tasks[t]) = "done"
       THEN End(t)
       ELSE tasks' = [tasks EXCEPT ![t].step = NextStep(tasks[t]), ![t].attempt = 0]
    /\ UNCHANGED <<source, coached>>

\* What an exception of a put does: a visualization that cannot be stored is
\* recorded as failed, anything else fails the request.
PutRaises(t) ==
    IF tasks[t].step = "visualization"
    THEN tasks' = [tasks EXCEPT ![t].step = "failed", ![t].attempt = 0]
    ELSE End(t)

\* Mutant: the attempts are not counted to their end.
RetriesForever(t) == tasks' = [tasks EXCEPT ![t].attempt = @ + 1]

\* The answer to a put is lost, or an error that may be passing: it is tried
\* again, up to MaxAttempts times.  It may have been applied all the same.
Retries(t) ==
    IF tasks[t].attempt + 1 < MaxAttempts
    THEN tasks' = [tasks EXCEPT ![t].attempt = @ + 1]
    ELSE PutRaises(t)

PutUnanswered(t) ==
    /\ ~Idle(t) /\ tasks[t].step \in Puts
    /\ LET put == PutOf(tasks[t]) IN
          \/ Write(tasks[t].replay, put.file, put.content)
          \/ UNCHANGED <<store, age>>
    /\ Retries(t)
    /\ UNCHANGED <<known, source, coached>>

\* Mutant: an exception of the coach does not keep the manifest locked.
CoachFailsAndUnlocks(t) ==
    /\ Write(tasks[t].job, "state", Locked("failed"))
    /\ tasks' = [tasks EXCEPT ![t].step = "readManifest"]

\* select_player raises: the route never reaches unlock_visualization.
CoachFails(t) == Write(tasks[t].job, "state", Locked("failed")) /\ End(t)

\* visualization_payload raises; a read or the download fails; the coach fails.
StepFails(t) ==
    /\ ~Idle(t)
    /\ \/ /\ tasks[t].step = "visualization" /\ tasks[t].attempt = 0
          /\ PutRaises(t) /\ UNCHANGED <<store, age>>
       \/ /\ tasks[t].step \in {"cacheManifest", "cacheCoaching", "download", "readManifest"}
          /\ End(t) /\ UNCHANGED <<store, age>>
       \/ /\ tasks[t].step = "coach"
          /\ CoachFails(t)
    /\ UNCHANGED <<known, source, coached>>

\* POST /api/analysis/{id}/run: select_player, whose start is written to the
\* job's state before the coach is called.  An instance that has the job in
\* memory needs no stored state.
StartRun(t, j) ==
    /\ source[j] # None
    /\ Begin(t, NewTask("coach", source[j], j))
    /\ Write(j, "state", Locked("stored"))
    /\ UNCHANGED <<known, source, coached>>

CoachSucceeds(t) ==
    /\ ~Idle(t) /\ tasks[t].step = "coach"
    /\ store' = [store EXCEPT ![tasks[t].job]["state"] = Locked("stored"),
                              ![tasks[t].job]["result"] = Locked("stored")]
    /\ age' = [age EXCEPT ![tasks[t].job]["state"] = 0, ![tasks[t].job]["result"] = 0]
    /\ coached' = coached \cup {tasks[t].replay}
    /\ tasks' = [tasks EXCEPT ![t].step = "readManifest"]
    /\ UNCHANGED <<known, source>>

\* unlock_visualization reads the manifest, and rewrites it by a put.
ReadManifest(t) ==
    /\ ~Idle(t) /\ tasks[t].step = "readManifest"
    /\ IF Stored(tasks[t].replay, "manifest")
       THEN tasks' = [tasks EXCEPT ![t].step = "unlock",
                                   ![t].manifest = store[tasks[t].replay]["manifest"]]
       ELSE End(t)
    /\ UNCHANGED <<store, age, known, source, coached>>

Busy == \E t \in Tasks : ~Idle(t)

\* A request goes on.
WriterStep(t) ==
    /\ \/ LoadCachedManifest(t) \/ LoadCachedCoaching(t) \/ Download(t) \/ Prepare(t)
       \/ PutAnswered(t) \/ PutUnanswered(t) \/ StepFails(t)
       \/ CoachSucceeds(t) \/ ReadManifest(t)
    /\ UNCHANGED requests

ClientStep ==
    \/ \E t \in Tasks : \/ \E r \in Uploads : Upload(t, r)
                        \/ PrepareSample(t)
                        \/ \E j \in Jobs : StartRun(t, j)
    \/ \E j \in Jobs, r \in Uploads : PrepareUpload(j, r)
==============================================================================
