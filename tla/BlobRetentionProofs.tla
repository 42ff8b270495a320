-------------------------- MODULE BlobRetentionProofs --------------------------
(***************************************************************************)
(* What the store of replays and analyses guarantees for any uploads, jobs,*)
(* requests and limits: when a replay is released, that what is found      *)
(* ready is complete, that the sweep spares the pinned sample and that it  *)
(* deletes something when it went through all it had listed.               *)
(***************************************************************************)
EXTENDS BlobRetention, FiniteSetTheorems, TLAPS

-----------------------------------------------------------------------------
(* The inductive invariant.                                                *)

ReplayFiles == {"coaching", "manifest", "visualization"}

\* The steps of an ingestion that put an artifact, and those of a run.
Ingesting == {"coaching", "processing", "visualization", "ready", "failed"}
Running   == {"coach", "readManifest", "unlock"}

\* The replay has the artifact, unless the sweep took something of it.
Has(r, f)   == r \in swept \/ Stored(r, f)
Complete(r) == Has(r, "coaching") /\ Has(r, "visualization")

\* A manifest read earlier, if it says "ready", is that of a complete replay.
SoundCopy(r, manifest) ==
    manifest \in Content /\ (manifest.status = "ready" => Complete(r))

\* What a request in progress may rely on.  An upload's ingestion is over
\* before its id is known; a run is of the replay its job was prepared for.
TaskSound(task) ==
    /\ task \in Task
    /\ task.step \in {"cacheManifest", "cacheCoaching", "download", "prepare"} => task.replay = Sample
    /\ task.step \in Ingesting \cup {"download"} => task.manifest = None
    /\ task.step \in Ingesting => task.replay \notin known
    /\ task.step \in Ingesting \ {"coaching"} => Has(task.replay, "coaching")
    /\ task.step = "ready" => Has(task.replay, "visualization")
    /\ task.step \in Running => task.job \in Jobs /\ source[task.job] = task.replay
    /\ task.step \in {"readManifest", "unlock"} => task.replay \in coached
    /\ task.step \in {"cacheCoaching", "unlock"} =>
           SoundCopy(task.replay, task.manifest) /\ Has(task.replay, "coaching")
    /\ task.step = "prepare" /\ task.manifest # None => Complete(Sample)

TasksAreSound == \A t \in Tasks : ~Idle(t) => TaskSound(tasks[t])

\* An upload is ingested by one request.
OneIngestion ==
    \A t, u \in Tasks :
        /\ ~Idle(t) /\ tasks[t].step \in Ingesting
        /\ ~Idle(u) /\ tasks[u].step \in Ingesting
        /\ tasks[t].replay = tasks[u].replay /\ tasks[t].replay \in Uploads
        => t = u

\* A replay's coaching artifact is stored first; analyses hold other files.
CoachingComesFirst ==
    \A r \in Replays : \A f \in FilesOf(r) : f \in ReplayFiles /\ Has(r, "coaching")

\* Nobody prepares or runs an analysis of an upload before its id is known.
UploadsAreKnown ==
    /\ \A j \in Jobs : source[j] \in Uploads => source[j] \in known
    /\ coached \cap Uploads \subseteq known

\* The groups still to inspect are listed with at least one file, the sample
\* with its coaching artifact.
SweepIsSound ==
    sweep # None =>
        /\ sweep.todo \in SUBSET Groups /\ sweep.due \in SUBSET Uploads
        /\ sweep.paths \in SUBSET (Groups \X Files) /\ sweep.errors \in BOOLEAN
        /\ \A g \in sweep.todo : sweep.listed[g] \in (SUBSET Files) \ {{}}
        /\ \A r \in sweep.todo \cap Replays : sweep.listed[r] \subseteq ReplayFiles
        /\ Sample \in sweep.todo => "coaching" \in sweep.listed[Sample] /\ Stored(Sample, "coaching")
        /\ \A f \in Files : <<Sample, f>> \notin sweep.paths

RetentionInv ==
    /\ StorageTypeOK
    /\ TasksAreSound /\ OneIngestion
    /\ CoachingComesFirst /\ UploadsAreKnown
    /\ ReleasedAfterCoaching /\ ReadyIsBacked
    /\ SweepIsSound /\ PinnedSampleIsKept

-----------------------------------------------------------------------------
(* Artifacts and listings.                                                 *)

\* A put leaves every artifact but one as it was.
LEMMA WriteEffect ==
    ASSUME StorageTypeOK, NEW g \in Groups, NEW f \in Files, NEW c \in Content,
           Write(g, f, c)
    PROVE  /\ store' \in [Groups -> [Files -> Content \cup {None}]]
           /\ age' \in [Groups -> [Files -> Nat]]
           /\ store'[g][f] = c
           /\ \A h \in Groups, e \in Files :
                  h # g \/ e # f => store'[h][e] = store[h][e]
BY DEF StorageTypeOK, Write

\* There are finitely many files.
LEMMA FilesAreFinite ==
    /\ IsFiniteSet(Files)
    /\ \A g : IsFiniteSet(FilesOf(g))
    /\ IsFiniteSet(ReplayFiles) /\ Cardinality(ReplayFiles) = 3
<1>1. IsFiniteSet({"coaching"}) /\ Cardinality({"coaching"}) = 1
  BY FS_Singleton
<1>2. IsFiniteSet({"coaching"} \cup {"manifest"}) /\ Cardinality({"coaching"} \cup {"manifest"}) = 2
  BY <1>1, FS_AddElement
<1>3. IsFiniteSet(ReplayFiles) /\ Cardinality(ReplayFiles) = 3
  <2>1. ReplayFiles = ({"coaching"} \cup {"manifest"}) \cup {"visualization"}
    BY DEF ReplayFiles
  <2>2. "visualization" \notin {"coaching"} \cup {"manifest"}
    OBVIOUS
  <2> QED
    BY <1>2, <2>1, <2>2, FS_AddElement
<1>4. IsFiniteSet(ReplayFiles \cup {"state"})
  BY <1>3, FS_AddElement
<1>5. IsFiniteSet((ReplayFiles \cup {"state"}) \cup {"result"})
  BY <1>4, FS_AddElement
<1>6. Files = (ReplayFiles \cup {"state"}) \cup {"result"}
  BY DEF Files, ReplayFiles
<1>7. IsFiniteSet(Files)
  BY <1>5, <1>6
<1>8. \A g : FilesOf(g) \subseteq Files
  BY DEF FilesOf
<1> QED
  BY <1>3, <1>7, <1>8, FS_Subset

\* The blobs of any groups can be counted.
LEMMA BlobsAreFinite ==
    ASSUME NEW G \in SUBSET Groups
    PROVE  IsFiniteSet(Blobs(G)) /\ Cardinality(Blobs(G)) \in Nat
<1>1. IsFiniteSet(Uploads \cup {Sample}) /\ IsFiniteSet(Jobs)
  BY StoreAssumption, FS_AddElement
<1>2. IsFiniteSet(Groups)
  BY <1>1, FS_Union DEF Groups, Replays
<1>3. IsFiniteSet(Groups \X Files)
  BY <1>2, FilesAreFinite, FS_Product
<1>4. Blobs(G) \subseteq Groups \X Files
  BY DEF Blobs, FilesOf
<1> QED
  BY <1>3, <1>4, FS_Subset, FS_CardinalityType

\* Of a replay's files the coaching artifact is the first by path, so a group
\* that is cut short keeps it.
LEMMA CutGroupKeepsCoaching ==
    ASSUME NEW g, NEW n \in Int, FirstFiles(g, n) # {}, "coaching" \in FilesOf(g)
    PROVE  "coaching" \in FirstFiles(g, n)
<1> DEFINE upTo(f) == {h \in FilesOf(g) : PathRank[h] <= PathRank[f]}
<1>1. PICK f \in FilesOf(g) : Cardinality(upTo(f)) <= n
  BY DEF FirstFiles
<1>2. f \in Files
  BY DEF FilesOf
<1>3. PathRank["coaching"] = 1 /\ \A h \in Files : PathRank[h] \in {1, 2, 3}
  BY DEF PathRank, Files
<1>4. \A h \in FilesOf(g) : h \in Files
  BY DEF FilesOf
<1>5. upTo("coaching") \subseteq upTo(f)
  BY <1>2, <1>3, <1>4
<1>6. IsFiniteSet(upTo(f)) /\ IsFiniteSet(upTo("coaching"))
  BY FilesAreFinite, FS_Subset
<1>7. Cardinality(upTo("coaching")) <= Cardinality(upTo(f))
  BY <1>5, <1>6, FS_Subset
<1>8. Cardinality(upTo("coaching")) \in Nat /\ Cardinality(upTo(f)) \in Nat
  BY <1>6, FS_CardinalityType
<1>9. Cardinality(upTo("coaching")) <= n
  BY <1>1, <1>7, <1>8
<1> QED
  BY <1>9 DEF FirstFiles

\* A listing has only files that are there, and no group without its first.
LEMMA ListingIsSound ==
    ASSUME NEW prefix \in SUBSET Groups, NEW l \in Listings(prefix), NEW g \in prefix
    PROVE  /\ l[g] \subseteq FilesOf(g)
           /\ l[g] # {} /\ "coaching" \in FilesOf(g) => "coaching" \in l[g]
<1>1. CASE Cardinality(Blobs(prefix)) <= MaxScanned
  BY <1>1 DEF Listings
<1>2. CASE ~(Cardinality(Blobs(prefix)) <= MaxScanned)
  <2>1. PICK x \in (SUBSET prefix) \X prefix :
          l = [h \in prefix |->
                 CASE h \in x[1] -> FilesOf(h)
                   [] h = x[2]   -> FirstFiles(h, MaxScanned - Cardinality(Blobs(x[1])))
                   [] OTHER      -> {}]
    BY <1>2 DEF Listings
  <2> DEFINE n == MaxScanned - Cardinality(Blobs(x[1]))
  <2>2. n \in Int
    BY BlobsAreFinite, RetentionAssumption
  <2>3. l[g] \in {FilesOf(g), FirstFiles(g, n), {}}
    BY <2>1
  <2>4. FirstFiles(g, n) \subseteq FilesOf(g)
    BY DEF FirstFiles
  <2> HIDE DEF n
  <2> QED
    BY <2>2, <2>3, <2>4, CutGroupKeepsCoaching
<1> QED
  BY <1>1, <1>2

-----------------------------------------------------------------------------
(* Every step preserves the invariant.                                     *)

\* A step that takes nothing away: no artifact that the sweep did not take, no
\* coached replay, no job's source.
NothingIsLost ==
    /\ \A r \in Replays, f \in Files : Has(r, f) => Has(r, f)'
    /\ coached \subseteq coached'
    /\ \A j \in Jobs : source[j] # None => source'[j] = source[j]

\* A step of t's request, as which it goes on as k: no other request is told of
\* what it ingests, nor begins to ingest the same.
IngestsAlone(t, k) ==
    \A u \in Tasks \ {t} : ~Idle(u) /\ tasks[u].step \in Ingesting =>
        /\ tasks[u].replay \notin known'
        /\ k # None /\ k.step \in Ingesting /\ k.replay \in Uploads
           => k.replay # tasks[u].replay

\* What a request relied on stays true as artifacts are added, replays are
\* coached and other requests are answered.
LEMMA TaskStays ==
    ASSUME NEW task, TaskSound(task), NothingIsLost,
           task.step \in Ingesting => task.replay \notin known'
    PROVE  TaskSound(task)'
<1> USE DEF NothingIsLost
<1>1. task \in Task /\ task.replay \in Replays /\ Sample \in Replays /\ task.replay # None
  BY StoreAssumption DEF TaskSound, Task, Replays, Groups
<1>2. Complete(task.replay) => Complete(task.replay)'
  BY <1>1 DEF Complete, Files
<1>3. Complete(Sample) => Complete(Sample)'
  BY <1>1 DEF Complete, Files
<1>4. SoundCopy(task.replay, task.manifest) => SoundCopy(task.replay, task.manifest)'
  BY <1>2 DEF SoundCopy
<1>5. \A f \in {"coaching", "visualization"} : Has(task.replay, f) => Has(task.replay, f)'
  BY <1>1 DEF Files
<1> QED
  BY <1>1, <1>3, <1>4, <1>5 DEF TaskSound

\* A step of a request: nothing is taken from the store, and its task goes on
\* soundly or ends.
LEMMA RequestKeepsTasks ==
    ASSUME TasksAreSound, OneIngestion, tasks \in [Tasks -> Task \cup {None}],
           NEW t \in Tasks, NEW k, tasks' = [tasks EXCEPT ![t] = k],
           k = None \/ TaskSound(k)',
           NothingIsLost, IngestsAlone(t, k)
    PROVE  /\ tasks' \in [Tasks -> Task \cup {None}]
           /\ TasksAreSound' /\ OneIngestion'
<1>1. k \in Task \cup {None}
  BY DEF TaskSound
<1>2. /\ tasks' \in [Tasks -> Task \cup {None}] /\ tasks'[t] = k
      /\ \A u \in Tasks \ {t} : tasks'[u] = tasks[u]
  BY <1>1
<1>3. ASSUME NEW u \in Tasks, tasks'[u] # None PROVE TaskSound(tasks[u])'
  <2>1. CASE u = t
    BY <2>1, <1>2, <1>3 DEF TaskSound
  <2>2. CASE u # t
    <3>1. PICK task : task = tasks[u]
      OBVIOUS
    <3>2. TaskSound(task)
      BY <3>1, <2>2, <1>2, <1>3 DEF TasksAreSound, Idle
    <3>3. TaskSound(task)'
      BY <3>1, <3>2, <2>2, <1>2, <1>3, TaskStays DEF Idle, IngestsAlone
    <3>4. tasks'[u] = task
      BY <3>1, <2>2, <1>2
    <3> QED
      BY <3>3, <3>4 DEF TaskSound
  <2> QED
    BY <2>1, <2>2
<1>4. OneIngestion'
  BY <1>2 DEF OneIngestion, IngestsAlone, Idle
<1> QED
  BY <1>2, <1>3, <1>4 DEF TasksAreSound, Idle

\* What the store and the clients know is right.
StoreIsSound ==
    /\ store \in [Groups -> [Files -> Content \cup {None}]]
    /\ age \in [Groups -> [Files -> Nat]]
    /\ known \in SUBSET Uploads
    /\ source \in [Jobs -> Replays \cup {None}]
    /\ coached \in SUBSET Replays
    /\ CoachingComesFirst /\ UploadsAreKnown
    /\ ReleasedAfterCoaching /\ ReadyIsBacked

LEMMA RequestStep ==
    ASSUME RetentionInv, NEW t \in Tasks, NEW k, tasks' = [tasks EXCEPT ![t] = k],
           k = None \/ TaskSound(k)', NothingIsLost, IngestsAlone(t, k),
           StoreIsSound', UNCHANGED <<sweep, swept>>
    PROVE  RetentionInv'
<1>1. tasks' \in [Tasks -> Task \cup {None}] /\ TasksAreSound' /\ OneIngestion'
  BY RequestKeepsTasks DEF RetentionInv, StorageTypeOK
<1>2. StorageTypeOK'
  BY <1>1 DEF RetentionInv, StorageTypeOK, StoreIsSound
<1>3. Stored(Sample, "coaching") => Stored(Sample, "coaching")'
  BY DEF NothingIsLost, Has, RetentionInv, PinnedSampleIsKept, Replays, Files
<1>4. SweepIsSound' /\ PinnedSampleIsKept'
  BY <1>3 DEF RetentionInv, SweepIsSound, PinnedSampleIsKept
<1> QED
  BY <1>1, <1>2, <1>4 DEF RetentionInv, StoreIsSound

\* A request that leaves the replays' artifacts alone.
LEMMA ReplaysUntouched ==
    ASSUME RetentionInv,
           store' \in [Groups -> [Files -> Content \cup {None}]],
           age' \in [Groups -> [Files -> Nat]],
           \A r \in Replays, f \in Files : store'[r][f] = store[r][f],
           source' \in [Jobs -> Replays \cup {None}],
           \A j \in Jobs : source[j] # None => source'[j] = source[j],
           coached \subseteq coached', coached' \in SUBSET Replays,
           UploadsAreKnown', UNCHANGED <<known, swept>>
    PROVE  StoreIsSound' /\ NothingIsLost
<1>1. \A r \in Replays, f \in Files : Stored(r, f)' = Stored(r, f) /\ Has(r, f)' = Has(r, f)
  BY DEF Stored, Has
<1>2. \A r \in Replays : FilesOf(r)' = FilesOf(r)
  BY <1>1 DEF FilesOf
<1>3. CoachingComesFirst'
  BY <1>1, <1>2 DEF RetentionInv, CoachingComesFirst, Files
<1>4. ReleasedAfterCoaching'
  BY <1>1 DEF RetentionInv, ReleasedAfterCoaching, Files
<1>5. ReadyIsBacked'
  BY <1>1 DEF RetentionInv, ReadyIsBacked, Files
<1>6. NothingIsLost
  BY <1>1 DEF NothingIsLost
<1> QED
  BY <1>3, <1>4, <1>5, <1>6 DEF StoreIsSound, RetentionInv, StorageTypeOK

\* A request that leaves the store alone altogether.
LEMMA QuietStep ==
    ASSUME RetentionInv, NEW t \in Tasks, NEW k, tasks' = [tasks EXCEPT ![t] = k],
           UNCHANGED <<store, age, known, source, coached, sweep, swept>>,
           k = None \/ TaskSound(k),
           k # None /\ k.step \in Ingesting /\ k.replay \in Uploads =>
               \A u \in Tasks \ {t} :
                   ~Idle(u) /\ tasks[u].step \in Ingesting => tasks[u].replay # k.replay
    PROVE  RetentionInv'
<1>1. k = None \/ TaskSound(k)'
  BY DEF TaskSound, SoundCopy, Complete, Has, Stored
<1>2. StoreIsSound' /\ NothingIsLost
  <2>1. UploadsAreKnown'
    BY DEF RetentionInv, UploadsAreKnown
  <2> QED
    BY <2>1, ReplaysUntouched DEF RetentionInv, StorageTypeOK
<1>3. IngestsAlone(t, k)
  BY DEF IngestsAlone, RetentionInv, TasksAreSound, TaskSound
<1> QED
  BY <1>1, <1>2, <1>3, RequestStep

LEMMA FirstAttempt == 0 \in 0..(MaxAttempts - 1)
BY StoreAssumption

\* A put that raises, or is tried again: the request ends, or is about the same
\* replay as before.
LEMMA TriedAgain ==
    ASSUME RetentionInv, NEW t \in Tasks, ~Idle(t), tasks[t].step \in Puts,
           Retries(t) \/ PutRaises(t)
    PROVE  \E n : /\ tasks' = [tasks EXCEPT ![t] = n]
                  /\ n = None \/ TaskSound(n)
                  /\ n # None /\ n.step \in Ingesting =>
                        tasks[t].step \in Ingesting /\ n.replay = tasks[t].replay
<1>1. PICK k : k = tasks[t]
  OBVIOUS
<1>2. TaskSound(k) /\ k \in Task /\ k.attempt \in Nat
  BY <1>1 DEF RetentionInv, TasksAreSound, TaskSound, Task
<1>3. tasks \in [Tasks -> Task \cup {None}]
  BY DEF RetentionInv, StorageTypeOK
<1>4. CASE tasks' = [tasks EXCEPT ![t] = None]
  BY <1>4
<1>5. CASE k.step = "visualization"
           /\ tasks' = [tasks EXCEPT ![t].step = "failed", ![t].attempt = 0]
  <2> DEFINE n == [k EXCEPT !.step = "failed", !.attempt = 0]
  <2>1. tasks' = [tasks EXCEPT ![t] = n]
    BY <1>1, <1>3, <1>5
  <2>2. n \in Task /\ n.step = "failed" /\ n.replay = k.replay /\ n.manifest = k.manifest
    BY <1>2, FirstAttempt DEF Task, Steps
  <2> HIDE DEF n
  <2>3. TaskSound(n)
    BY <1>2, <1>5, <2>2 DEF TaskSound, Ingesting, Running
  <2> QED
    BY <1>1, <1>5, <2>1, <2>2, <2>3 DEF Ingesting
<1>6. CASE k.attempt + 1 < MaxAttempts
           /\ tasks' = [tasks EXCEPT ![t].attempt = @ + 1]
  <2> DEFINE n == [k EXCEPT !.attempt = k.attempt + 1]
  <2>1. tasks' = [tasks EXCEPT ![t] = n]
    BY <1>1, <1>3, <1>6
  <2>2. k.attempt + 1 \in 0..(MaxAttempts - 1)
    BY <1>2, <1>6, StoreAssumption
  <2>3. n \in Task /\ n.step = k.step /\ n.replay = k.replay /\ n.job = k.job
        /\ n.manifest = k.manifest
    BY <1>2, <2>2 DEF Task
  <2> HIDE DEF n
  <2>4. TaskSound(n)
    BY <1>2, <2>3 DEF TaskSound
  <2> QED
    BY <1>1, <2>1, <2>3, <2>4
<1> QED
  BY <1>1, <1>4, <1>5, <1>6 DEF Retries, PutRaises, End

\* The actions of ReplayStore that only read, or begin.
LEMMA UploadInv ==
    ASSUME RetentionInv, NEW t \in Tasks, NEW r \in Uploads, Upload(t, r),
           UNCHANGED <<sweep, swept>>
    PROVE  RetentionInv'
<1>1. PICK k : k = NewTask("coaching", r, None)
  OBVIOUS
<1>2. k \in Task /\ k.step = "coaching" /\ k.replay = r /\ k.manifest = None
  BY <1>1, FirstAttempt DEF NewTask, Task, Steps, Replays
<1>3. r \notin known /\ \A u \in Tasks : ~Idle(u) => tasks[u].replay # r
  BY DEF Upload, Issued, Idle
<1>4. TaskSound(k)
  BY <1>2, <1>3 DEF TaskSound, Ingesting, Running
<1>5. tasks' = [tasks EXCEPT ![t] = k]
  BY <1>1 DEF Upload, Begin
<1> QED
  BY <1>2, <1>3, <1>4, <1>5, QuietStep DEF Upload

LEMMA PrepareSampleInv ==
    ASSUME RetentionInv, NEW t \in Tasks, PrepareSample(t), UNCHANGED <<sweep, swept>>
    PROVE  RetentionInv'
<1>1. PICK k : k = NewTask("cacheManifest", Sample, None)
  OBVIOUS
<1>2. k \in Task /\ k.step = "cacheManifest" /\ k.replay = Sample
  BY <1>1, FirstAttempt DEF NewTask, Task, Steps, Replays
<1>3. TaskSound(k) /\ k.step \notin Ingesting
  BY <1>2 DEF TaskSound, Ingesting, Running
<1>4. tasks' = [tasks EXCEPT ![t] = k]
  BY <1>1 DEF PrepareSample, Begin
<1> QED
  BY <1>3, <1>4, QuietStep DEF PrepareSample

\* A manifest that is there is a sound copy of itself.
LEMMA StoredManifest ==
    ASSUME RetentionInv, NEW r \in Replays, Stored(r, "manifest")
    PROVE  SoundCopy(r, store[r]["manifest"]) /\ Has(r, "coaching")
<1>1. store[r]["manifest"] \in Content
  BY DEF RetentionInv, StorageTypeOK, Stored, Groups, Files
<1>2. "manifest" \in FilesOf(r)
  BY DEF FilesOf, Files
<1>3. Has(r, "coaching")
  BY <1>2 DEF RetentionInv, CoachingComesFirst
<1>4. store[r]["manifest"].status = "ready" => Complete(r)
  BY DEF RetentionInv, ReadyIsBacked, Complete, Has
<1> QED
  BY <1>1, <1>3, <1>4 DEF SoundCopy

LEMMA LoadCachedManifestInv ==
    ASSUME RetentionInv, NEW t \in Tasks, LoadCachedManifest(t), UNCHANGED <<sweep, swept>>
    PROVE  RetentionInv'
<1>1. PICK k : k = tasks[t]
  OBVIOUS
<1>2. PICK step : step = IF Stored(Sample, "manifest") THEN "cacheCoaching" ELSE "download"
  OBVIOUS
<1>3. PICK m : m = store[Sample]["manifest"]
  OBVIOUS
<1>4. PICK n : n = [k EXCEPT !.step = step, !.manifest = m]
  OBVIOUS
<1>5. TaskSound(k) /\ k \in Task /\ k.step = "cacheManifest" /\ k.replay = Sample
  BY <1>1 DEF RetentionInv, TasksAreSound, TaskSound, LoadCachedManifest
<1>6. m \in Content \cup {None} /\ Sample \in Replays
  BY <1>3 DEF RetentionInv, StorageTypeOK, Groups, Replays, Files
<1>7. n \in Task /\ n.step = step /\ n.manifest = m /\ n.replay = Sample
  BY <1>2, <1>4, <1>5, <1>6 DEF Task, Steps
<1>8. step = "cacheCoaching" => SoundCopy(Sample, m) /\ Has(Sample, "coaching")
  BY <1>2, <1>3, <1>6, StoredManifest
<1>9. step = "download" => m = None
  BY <1>2, <1>3 DEF Stored
<1>10. TaskSound(n) /\ n.step \notin Ingesting
  BY <1>2, <1>7, <1>8, <1>9 DEF TaskSound, Ingesting, Running
<1>11. tasks' = [tasks EXCEPT ![t] = n]
  BY <1>1, <1>2, <1>3, <1>4 DEF LoadCachedManifest, RetentionInv, StorageTypeOK
<1> QED
  BY <1>10, <1>11, QuietStep DEF LoadCachedManifest

LEMMA LoadCachedCoachingInv ==
    ASSUME RetentionInv, NEW t \in Tasks, LoadCachedCoaching(t), UNCHANGED <<sweep, swept>>
    PROVE  RetentionInv'
<1>1. PICK k : k = tasks[t]
  OBVIOUS
<1>2. TaskSound(k) /\ k \in Task /\ k.step = "cacheCoaching" /\ k.replay = Sample
      /\ SoundCopy(Sample, k.manifest)
  BY <1>1 DEF RetentionInv, TasksAreSound, TaskSound, LoadCachedCoaching
<1>3. CASE CacheHit(k)
  <2>1. PICK n : n = [k EXCEPT !.step = "prepare"]
    OBVIOUS
  <2>2. n \in Task /\ n.step = "prepare" /\ n.replay = Sample
    BY <1>2, <2>1 DEF Task, Steps
  <2>3. Complete(Sample)
    BY <1>2, <1>3 DEF CacheHit, SoundCopy
  <2>4. TaskSound(n) /\ n.step \notin Ingesting
    BY <2>2, <2>3 DEF TaskSound, Ingesting, Running
  <2>5. tasks' = [tasks EXCEPT ![t] = n]
    BY <1>1, <1>2, <1>3, <2>1 DEF LoadCachedCoaching, RetentionInv, StorageTypeOK, Task
  <2> QED
    BY <2>4, <2>5, QuietStep DEF LoadCachedCoaching
<1>4. CASE ~CacheHit(k)
  <2>1. PICK n : n = [k EXCEPT !.step = "download", !.manifest = None]
    OBVIOUS
  <2>2. n \in Task /\ n.step = "download" /\ n.replay = Sample /\ n.manifest = None
    BY <1>2, <2>1 DEF Task, Steps
  <2>3. TaskSound(n) /\ n.step \notin Ingesting
    BY <2>2 DEF TaskSound, Ingesting, Running
  <2>4. tasks' = [tasks EXCEPT ![t] = n]
    BY <1>1, <1>4, <2>1 DEF LoadCachedCoaching, RetentionInv, StorageTypeOK
  <2> QED
    BY <2>3, <2>4, QuietStep DEF LoadCachedCoaching
<1> QED
  BY <1>3, <1>4

LEMMA DownloadInv ==
    ASSUME RetentionInv, NEW t \in Tasks, Download(t), UNCHANGED <<sweep, swept>>
    PROVE  RetentionInv'
<1>1. PICK k : k = tasks[t]
  OBVIOUS
<1>2. PICK n : n = [k EXCEPT !.step = "coaching"]
  OBVIOUS
<1>3. TaskSound(k) /\ k \in Task /\ k.replay = Sample /\ k.manifest = None
  BY <1>1 DEF RetentionInv, TasksAreSound, TaskSound, Download
<1>4. n \in Task /\ n.step = "coaching" /\ n.replay = Sample /\ n.manifest = None
  BY <1>2, <1>3 DEF Task, Steps
<1>5. Sample \notin known /\ Sample \notin Uploads
  BY StoreAssumption DEF RetentionInv, StorageTypeOK
<1>6. TaskSound(n)
  BY <1>4, <1>5 DEF TaskSound, Ingesting, Running
<1>7. tasks' = [tasks EXCEPT ![t] = n]
  BY <1>1, <1>2 DEF Download, RetentionInv, StorageTypeOK
<1> QED
  BY <1>4, <1>5, <1>6, <1>7, QuietStep DEF Download

LEMMA ReadManifestInv ==
    ASSUME RetentionInv, NEW t \in Tasks, ReadManifest(t), UNCHANGED <<sweep, swept>>
    PROVE  RetentionInv'
<1>1. PICK k : k = tasks[t]
  OBVIOUS
<1>2. TaskSound(k) /\ k \in Task /\ k.step = "readManifest" /\ k.replay \in Replays
  BY <1>1 DEF RetentionInv, TasksAreSound, TaskSound, ReadManifest, Task
<1>3. CASE Stored(k.replay, "manifest")
  <2>1. PICK m : m = store[k.replay]["manifest"]
    OBVIOUS
  <2>2. PICK n : n = [k EXCEPT !.step = "unlock", !.manifest = m]
    OBVIOUS
  <2>3. SoundCopy(k.replay, m) /\ Has(k.replay, "coaching")
    BY <1>2, <1>3, <2>1, StoredManifest
  <2>4. m \in Content
    BY <2>3 DEF SoundCopy
  <2>5. n \in Task /\ n.step = "unlock" /\ n.replay = k.replay /\ n.job = k.job /\ n.manifest = m
    BY <1>2, <2>2, <2>4 DEF Task, Steps
  <2>6. TaskSound(n) /\ n.step \notin Ingesting
    BY <1>2, <2>3, <2>5 DEF TaskSound, Ingesting, Running
  <2>7. tasks' = [tasks EXCEPT ![t] = n]
    BY <1>1, <1>3, <2>1, <2>2 DEF ReadManifest, RetentionInv, StorageTypeOK
  <2> QED
    BY <2>6, <2>7, QuietStep DEF ReadManifest
<1>4. CASE ~Stored(k.replay, "manifest")
  <2>1. tasks' = [tasks EXCEPT ![t] = None]
    BY <1>1, <1>4 DEF ReadManifest, End
  <2> QED
    BY <2>1, QuietStep DEF ReadManifest
<1> QED
  BY <1>3, <1>4

\* The artifacts of an analysis are nobody else's.
LEMMA JobWrite ==
    ASSUME RetentionInv, NEW j \in Jobs, NEW f \in Files, NEW c \in Content, Write(j, f, c)
    PROVE  /\ store' \in [Groups -> [Files -> Content \cup {None}]]
           /\ age' \in [Groups -> [Files -> Nat]]
           /\ \A r \in Replays, e \in Files : store'[r][e] = store[r][e]
<1>1. j \in Groups /\ \A r \in Replays : r \in Groups /\ r # j
  BY StoreAssumption DEF Groups
<1> QED
  BY <1>1, WriteEffect DEF RetentionInv

LEMMA LockedContent ==
    \A status \in {"processing", "ready", "failed", "stored"} :
        /\ Locked(status) \in Content
        /\ Locked(status).status = status /\ Locked(status).unlocked = FALSE
BY DEF Locked, Content

\* A new job, of the sample or of an upload whose id is known.
LEMMA NewJobIsSound ==
    ASSUME RetentionInv, NEW j \in Jobs, NEW r \in known \cup {Sample}, NewJob(j, r),
           UNCHANGED <<known, coached, swept>>
    PROVE  StoreIsSound' /\ NothingIsLost
<1>1. Locked("stored") \in Content /\ "state" \in Files
  BY LockedContent DEF Files
<1>2. /\ store' \in [Groups -> [Files -> Content \cup {None}]]
      /\ age' \in [Groups -> [Files -> Nat]]
      /\ \A q \in Replays, e \in Files : store'[q][e] = store[q][e]
  BY <1>1, JobWrite DEF NewJob
<1>3. r \in Replays /\ source \in [Jobs -> Replays \cup {None}]
      /\ coached \in SUBSET Replays /\ (r \in Uploads => r \in known)
  BY StoreAssumption DEF RetentionInv, StorageTypeOK, Replays
<1>4. /\ source' \in [Jobs -> Replays \cup {None}]
      /\ source'[j] = r /\ source[j] = None /\ \A i \in Jobs \ {j} : source'[i] = source[i]
  BY <1>3 DEF NewJob
<1>5. UploadsAreKnown'
  BY <1>3, <1>4 DEF RetentionInv, UploadsAreKnown
<1> QED
  BY <1>2, <1>3, <1>4, <1>5, ReplaysUntouched

LEMMA PrepareInv ==
    ASSUME RetentionInv, NEW t \in Tasks, Prepare(t), UNCHANGED <<sweep, swept>>
    PROVE  RetentionInv'
<1>1. tasks' = [tasks EXCEPT ![t] = None]
  BY DEF Prepare, End
<1>2. CASE \E j \in Jobs : NewJob(j, Sample)
  <2>1. StoreIsSound' /\ NothingIsLost
    BY <1>2, NewJobIsSound DEF Prepare
  <2>2. IngestsAlone(t, None)
    BY DEF IngestsAlone, RetentionInv, TasksAreSound, TaskSound, Prepare
  <2> QED
    BY <1>1, <2>1, <2>2, RequestStep
<1>3. CASE UNCHANGED <<store, age, source>>
  BY <1>1, <1>3, QuietStep DEF Prepare
<1> QED
  BY <1>2, <1>3 DEF Prepare

\* Requests that are not a step further.
LEMMA TasksUntouched ==
    ASSUME RetentionInv, NothingIsLost, UNCHANGED <<tasks, known>>
    PROVE  TasksAreSound' /\ OneIngestion'
<1>1. ASSUME NEW u \in Tasks, tasks'[u] # None PROVE TaskSound(tasks[u])'
  <2>1. PICK task : task = tasks[u]
    OBVIOUS
  <2>2. TaskSound(task) /\ (task.step \in Ingesting => task.replay \notin known')
    BY <1>1, <2>1 DEF RetentionInv, TasksAreSound, Idle, TaskSound
  <2>3. TaskSound(task)' /\ tasks'[u] = task
    BY <2>1, <2>2, TaskStays
  <2> QED
    BY <2>3 DEF TaskSound
<1>2. OneIngestion'
  BY DEF RetentionInv, OneIngestion, Idle
<1> QED
  BY <1>1, <1>2 DEF TasksAreSound, Idle

LEMMA PrepareUploadInv ==
    ASSUME RetentionInv, NEW j \in Jobs, NEW r \in Uploads, PrepareUpload(j, r),
           UNCHANGED <<sweep, swept>>
    PROVE  RetentionInv'
<1>1. StoreIsSound' /\ NothingIsLost
  BY NewJobIsSound DEF PrepareUpload
<1>2. TasksAreSound' /\ OneIngestion'
  BY <1>1, TasksUntouched DEF PrepareUpload
<1>3. StorageTypeOK'
  BY <1>1 DEF RetentionInv, StorageTypeOK, StoreIsSound, PrepareUpload
<1>4. Stored(Sample, "coaching") => Stored(Sample, "coaching")'
  BY <1>1 DEF NothingIsLost, Has, RetentionInv, PinnedSampleIsKept, Replays, Files
<1>5. SweepIsSound' /\ PinnedSampleIsKept'
  BY <1>4 DEF RetentionInv, SweepIsSound, PinnedSampleIsKept
<1> QED
  BY <1>1, <1>2, <1>3, <1>5 DEF RetentionInv, StoreIsSound

LEMMA StartRunInv ==
    ASSUME RetentionInv, NEW t \in Tasks, NEW j \in Jobs, StartRun(t, j),
           UNCHANGED <<sweep, swept>>
    PROVE  RetentionInv'
<1>1. PICK k : k = NewTask("coach", source[j], j)
  OBVIOUS
<1>2. source[j] \in Replays
  BY DEF StartRun, RetentionInv, StorageTypeOK
<1>3. k \in Task /\ k.step = "coach" /\ k.replay = source[j] /\ k.job = j
  BY <1>1, <1>2, FirstAttempt DEF NewTask, Task, Steps
<1>4. TaskSound(k)' /\ k.step \notin Ingesting
  BY <1>3 DEF TaskSound, Ingesting, Running, StartRun
<1>5. Locked("stored") \in Content /\ "state" \in Files
  BY LockedContent DEF Files
<1>6. /\ store' \in [Groups -> [Files -> Content \cup {None}]]
      /\ age' \in [Groups -> [Files -> Nat]]
      /\ \A q \in Replays, e \in Files : store'[q][e] = store[q][e]
  BY <1>5, JobWrite DEF StartRun
<1>7. StoreIsSound' /\ NothingIsLost
  <2>1. UploadsAreKnown'
    BY DEF RetentionInv, UploadsAreKnown, StartRun
  <2> QED
    BY <1>6, <2>1, ReplaysUntouched DEF StartRun, RetentionInv, StorageTypeOK
<1>8. IngestsAlone(t, k)
  BY <1>4 DEF IngestsAlone, RetentionInv, TasksAreSound, TaskSound, StartRun
<1>9. tasks' = [tasks EXCEPT ![t] = k]
  BY <1>1 DEF StartRun, Begin
<1> QED
  BY <1>4, <1>7, <1>8, <1>9, RequestStep

LEMMA CoachFailsInv ==
    ASSUME RetentionInv, NEW t \in Tasks, ~Idle(t), tasks[t].step = "coach", CoachFails(t),
           UNCHANGED <<known, source, coached, sweep, swept>>
    PROVE  RetentionInv'
<1>1. tasks[t].job \in Jobs
  BY DEF RetentionInv, TasksAreSound, TaskSound, Running
<1>2. Locked("failed") \in Content /\ "state" \in Files
  BY LockedContent DEF Files
<1>3. /\ store' \in [Groups -> [Files -> Content \cup {None}]]
      /\ age' \in [Groups -> [Files -> Nat]]
      /\ \A q \in Replays, e \in Files : store'[q][e] = store[q][e]
  BY <1>1, <1>2, JobWrite DEF CoachFails
<1>4. StoreIsSound' /\ NothingIsLost
  <2>1. UploadsAreKnown'
    BY DEF RetentionInv, UploadsAreKnown
  <2> QED
    BY <1>3, <2>1, ReplaysUntouched DEF RetentionInv, StorageTypeOK
<1>5. IngestsAlone(t, None)
  BY DEF IngestsAlone, RetentionInv, TasksAreSound, TaskSound
<1>6. tasks' = [tasks EXCEPT ![t] = None]
  BY DEF CoachFails, End
<1> QED
  BY <1>4, <1>5, <1>6, RequestStep

\* A successful run is of the replay its job was prepared for, whose id is
\* known by then if it is an upload's.
LEMMA CoachSucceedsInv ==
    ASSUME RetentionInv, NEW t \in Tasks, CoachSucceeds(t), UNCHANGED <<sweep, swept>>
    PROVE  RetentionInv'
<1>1. PICK k : k = tasks[t]
  OBVIOUS
<1>2. PICK n : n = [k EXCEPT !.step = "readManifest"]
  OBVIOUS
<1>3. /\ TaskSound(k) /\ k \in Task /\ k.step = "coach"
      /\ k.job \in Jobs /\ source[k.job] = k.replay /\ k.replay \in Replays
  BY <1>1 DEF RetentionInv, TasksAreSound, TaskSound, CoachSucceeds, Task, Running
<1>4. n \in Task /\ n.step = "readManifest" /\ n.replay = k.replay /\ n.job = k.job
  BY <1>2, <1>3 DEF Task, Steps
<1>5. coached' = coached \cup {k.replay} /\ UNCHANGED <<known, source>>
  BY <1>1 DEF CoachSucceeds
<1>6. TaskSound(n)' /\ n.step \notin Ingesting
  BY <1>3, <1>4, <1>5 DEF TaskSound, Ingesting, Running
<1>7. k.job \in Groups /\ \A r \in Replays : r \in Groups /\ r # k.job
  BY <1>3, StoreAssumption DEF Groups
<1>8. Locked("stored") \in Content /\ {"state", "result"} \subseteq Files
  BY LockedContent DEF Files
<1>9. /\ store' = [store EXCEPT ![k.job]["state"] = Locked("stored"),
                                ![k.job]["result"] = Locked("stored")]
      /\ age' = [age EXCEPT ![k.job]["state"] = 0, ![k.job]["result"] = 0]
  BY <1>1 DEF CoachSucceeds
<1>10. /\ store' \in [Groups -> [Files -> Content \cup {None}]]
       /\ \A q \in Replays, e \in Files : store'[q][e] = store[q][e]
  BY <1>7, <1>8, <1>9 DEF RetentionInv, StorageTypeOK
<1>11. age' \in [Groups -> [Files -> Nat]]
  BY <1>7, <1>8, <1>9 DEF RetentionInv, StorageTypeOK
<1>12. UploadsAreKnown'
  BY <1>3, <1>5 DEF RetentionInv, UploadsAreKnown
<1>13. StoreIsSound' /\ NothingIsLost
  BY <1>3, <1>5, <1>10, <1>11, <1>12, ReplaysUntouched DEF RetentionInv, StorageTypeOK
<1>14. IngestsAlone(t, n)
  BY <1>5, <1>6 DEF IngestsAlone, RetentionInv, TasksAreSound, TaskSound
<1>15. tasks' = [tasks EXCEPT ![t] = n]
  BY <1>1, <1>2 DEF CoachSucceeds, RetentionInv, StorageTypeOK
<1> QED
  BY <1>6, <1>13, <1>14, <1>15, RequestStep

\* What a put stores: an unlocked manifest only after a successful run, and one
\* that says "ready" only of a complete replay.
LEMMA PutIsSound ==
    ASSUME RetentionInv, NEW k, TaskSound(k), k.step \in Puts,
           NEW f, NEW c, f = PutOf(k).file, c = PutOf(k).content
    PROVE  /\ f \in ReplayFiles /\ c \in Content
           /\ f # "coaching" => Has(k.replay, "coaching")
           /\ f = "manifest" /\ c.unlocked => k.replay \in coached
           /\ f = "manifest" /\ c.status = "ready" => Complete(k.replay)
           /\ k.step \in {"coaching", "visualization"} => f = k.step
           /\ f = "manifest" /\ ~c.unlocked => k.step \in Ingesting
<1>1. CASE k.step \in {"coaching", "visualization"}
  <2>1. f = k.step /\ c = Locked("stored")
    BY <1>1 DEF PutOf
  <2> QED
    BY <1>1, <2>1, LockedContent DEF TaskSound, Ingesting, ReplayFiles
<1>2. CASE k.step \in {"processing", "ready", "failed"}
  <2>1. f = "manifest" /\ c = Locked(k.step)
    BY <1>2 DEF PutOf
  <2>2. c \in Content /\ c.status = k.step /\ ~c.unlocked
    BY <1>2, <2>1, LockedContent
  <2> QED
    BY <1>2, <2>1, <2>2 DEF TaskSound, Ingesting, ReplayFiles, Complete
<1>3. CASE k.step = "unlock"
  <2>1. f = "manifest" /\ c = [k.manifest EXCEPT !.unlocked = TRUE]
    BY <1>3 DEF PutOf
  <2>2. k.manifest \in Content /\ (k.manifest.status = "ready" => Complete(k.replay))
        /\ Has(k.replay, "coaching") /\ k.replay \in coached
    BY <1>3 DEF TaskSound, SoundCopy
  <2>3. c \in Content /\ c.status = k.manifest.status /\ c.unlocked = TRUE
    BY <2>1, <2>2 DEF Content
  <2> QED
    BY <1>3, <2>1, <2>2, <2>3 DEF ReplayFiles
<1> QED
  BY <1>1, <1>2, <1>3 DEF Puts

\* Once applied, the store is sound, and has the artifact.
LEMMA PutIsApplied ==
    ASSUME RetentionInv, NEW k, TaskSound(k), k.step \in Puts,
           NEW f, NEW c, f = PutOf(k).file, c = PutOf(k).content,
           Write(k.replay, f, c),
           known' \in SUBSET Uploads, known \subseteq known',
           UNCHANGED <<source, coached, swept>>
    PROVE  StoreIsSound' /\ NothingIsLost /\ Stored(k.replay, f)'
<1>1. k.replay \in Replays /\ k.replay \in Groups
  BY DEF TaskSound, Task, Groups
<1>2. /\ f \in ReplayFiles /\ f \in Files /\ c \in Content /\ c # None
      /\ f # "coaching" => Has(k.replay, "coaching")
      /\ f = "manifest" /\ c.unlocked => k.replay \in coached
      /\ f = "manifest" /\ c.status = "ready" => Complete(k.replay)
  BY PutIsSound, NoneIsNoTask DEF ReplayFiles, Files
<1>3. /\ store' \in [Groups -> [Files -> Content \cup {None}]]
      /\ age' \in [Groups -> [Files -> Nat]]
      /\ store'[k.replay][f] = c
      /\ \A h \in Groups, e \in Files :
             h # k.replay \/ e # f => store'[h][e] = store[h][e]
  BY <1>1, <1>2, WriteEffect DEF RetentionInv
<1>4. Stored(k.replay, f)'
  BY <1>2, <1>3 DEF Stored
<1>5. ASSUME NEW r \in Replays, NEW e \in Files
      PROVE  /\ Has(r, e) => Has(r, e)'
             /\ Stored(r, e)' => Stored(r, e) \/ (r = k.replay /\ e = f)
  BY <1>2, <1>3 DEF Has, Stored, Groups
<1>6. NothingIsLost
  BY <1>5 DEF NothingIsLost
<1>7. CoachingComesFirst'
  <2> SUFFICES ASSUME NEW r \in Replays, NEW e \in Files, Stored(r, e)'
               PROVE  e \in ReplayFiles /\ Has(r, "coaching")'
    BY DEF CoachingComesFirst, FilesOf
  <2>1. CASE Stored(r, e)
    BY <2>1, <1>5 DEF RetentionInv, CoachingComesFirst, FilesOf, Files
  <2>2. CASE r = k.replay /\ e = f
    BY <2>2, <1>2, <1>4, <1>5 DEF Has, Files
  <2> QED
    BY <2>1, <2>2, <1>5
<1>8. ReleasedAfterCoaching'
  <2> SUFFICES ASSUME NEW r \in Replays, Stored(r, "manifest")', store'[r]["manifest"].unlocked
               PROVE  r \in coached'
    BY DEF ReleasedAfterCoaching
  <2>1. CASE r = k.replay /\ f = "manifest"
    BY <2>1, <1>2, <1>3
  <2>2. CASE ~(r = k.replay /\ f = "manifest")
    <3>1. store'[r]["manifest"] = store[r]["manifest"]
      BY <2>2, <1>3 DEF Groups, Files
    <3> QED
      BY <3>1 DEF RetentionInv, ReleasedAfterCoaching, Stored
  <2> QED
    BY <2>1, <2>2
<1>9. ReadyIsBacked'
  <2> SUFFICES ASSUME NEW r \in Replays \ swept', Stored(r, "manifest")',
                      store'[r]["manifest"].status = "ready"
               PROVE  Stored(r, "visualization")' /\ Stored(r, "coaching")'
    BY DEF ReadyIsBacked
  <2>1. Has(r, "visualization") /\ Has(r, "coaching")
    <3>1. CASE r = k.replay /\ f = "manifest"
      BY <3>1, <1>2, <1>3 DEF Complete
    <3>2. CASE ~(r = k.replay /\ f = "manifest")
      <4>1. store'[r]["manifest"] = store[r]["manifest"]
        BY <3>2, <1>3 DEF Groups, Files
      <4> QED
        BY <4>1 DEF RetentionInv, ReadyIsBacked, Stored, Has
    <3> QED
      BY <3>1, <3>2
  <2> QED
    BY <2>1, <1>5 DEF Has, Files
<1>10. UploadsAreKnown'
  BY DEF RetentionInv, UploadsAreKnown
<1> QED
  BY <1>3, <1>4, <1>6, <1>7, <1>8, <1>9, <1>10 DEF StoreIsSound, RetentionInv, StorageTypeOK

\* The request goes on to a step it has just prepared, or answers an upload
\* that no other request ingests.
LEMMA PutAnsweredInv ==
    ASSUME RetentionInv, NEW t \in Tasks, PutAnswered(t), UNCHANGED <<sweep, swept>>
    PROVE  RetentionInv'
<1>1. PICK k : k = tasks[t]
  OBVIOUS
<1>2. PICK f, c : f = PutOf(k).file /\ c = PutOf(k).content
  OBVIOUS
<1>3. TaskSound(k) /\ k \in Task /\ k.step \in Puts /\ k.replay \in Replays
  BY <1>1 DEF RetentionInv, TasksAreSound, TaskSound, PutAnswered, Task
<1>4. Write(k.replay, f, c) /\ UNCHANGED <<source, coached>>
  BY <1>1, <1>2 DEF PutAnswered
<1>5. known' = IF Answers(k) THEN known \cup {k.replay} ELSE known
  BY <1>1 DEF PutAnswered
<1>6. known' \in SUBSET Uploads /\ known \subseteq known'
  BY <1>5 DEF RetentionInv, StorageTypeOK, Answers
<1>7. StoreIsSound' /\ NothingIsLost /\ Stored(k.replay, f)'
  BY <1>2, <1>3, <1>4, <1>6, PutIsApplied
<1>8. ASSUME NEW u \in Tasks \ {t}, ~Idle(u), tasks[u].step \in Ingesting
      PROVE  /\ tasks[u].replay \notin known'
             /\ k.step \in Ingesting /\ k.replay \in Uploads => k.replay # tasks[u].replay
  <2>1. tasks[u].replay \notin known
    BY <1>8 DEF RetentionInv, TasksAreSound, TaskSound
  <2>2. k.step \in Ingesting /\ k.replay \in Uploads => k.replay # tasks[u].replay
    BY <1>1, <1>8 DEF RetentionInv, OneIngestion, PutAnswered
  <2>3. Answers(k) => k.step \in Ingesting /\ k.replay \in Uploads
    BY DEF Answers, Ingesting
  <2> QED
    BY <2>1, <2>2, <2>3, <1>5
<1>9. CASE NextStep(k) = "done"
  <2>1. tasks' = [tasks EXCEPT ![t] = None]
    BY <1>1, <1>9 DEF PutAnswered, End
  <2>2. IngestsAlone(t, None)
    BY <1>8 DEF IngestsAlone
  <2> QED
    BY <1>7, <2>1, <2>2, RequestStep
<1>10. CASE NextStep(k) # "done"
  <2>1. PICK n : n = [k EXCEPT !.step = NextStep(k), !.attempt = 0]
    OBVIOUS
  <2>2. \/ k.step = "coaching" /\ NextStep(k) = "processing"
        \/ k.step = "processing" /\ NextStep(k) = "visualization"
        \/ k.step = "visualization" /\ NextStep(k) = "ready"
        \/ k.step \in {"ready", "failed"} /\ k.replay = Sample /\ NextStep(k) = "prepare"
    BY <1>3, <1>10 DEF NextStep, Puts
  <2>3. /\ n \in Task /\ n.step = NextStep(k) /\ n.replay = k.replay /\ n.job = k.job
        /\ n.manifest = k.manifest
    BY <1>3, <2>1, <2>2, FirstAttempt DEF Task, Steps
  <2>4. k.step \in Ingesting /\ k.manifest = None /\ k.replay \notin known
    BY <1>3, <2>2 DEF TaskSound, Ingesting
  <2>5. ~Answers(k) \/ n.step = "prepare"
    BY <2>2, <2>3 DEF Answers
  <2>6. n.step \in Ingesting => n.replay \notin known'
    BY <2>3, <2>4, <2>5, <1>5 DEF Ingesting
  <2>7. n.step \in Ingesting \ {"coaching"} => Has(n.replay, "coaching")'
    <3>1. CASE k.step = "coaching"
      <4>1. f = "coaching"
        BY <3>1, <1>2, <1>3, PutIsSound
      <4> QED
        BY <4>1, <1>7, <2>3 DEF Has
    <3>2. CASE k.step # "coaching"
      <4>1. Has(k.replay, "coaching")
        BY <3>2, <1>3, <2>4 DEF TaskSound
      <4> QED
        BY <4>1, <1>3, <1>7, <2>3 DEF NothingIsLost, Files
    <3> QED
      BY <3>1, <3>2
  <2>8. n.step = "ready" => Has(n.replay, "visualization")'
    <3>1. n.step = "ready" => f = "visualization"
      BY <2>2, <2>3, <1>2, <1>3, PutIsSound
    <3> QED
      BY <3>1, <1>7, <2>3 DEF Has
  <2>9. TaskSound(n)'
    BY <2>2, <2>3, <2>4, <2>6, <2>7, <2>8 DEF TaskSound, Ingesting, Running
  <2>10. tasks' = [tasks EXCEPT ![t] = n]
    BY <1>1, <1>10, <2>1 DEF PutAnswered, RetentionInv, StorageTypeOK
  <2>11. IngestsAlone(t, n)
    BY <1>8, <2>3, <2>4 DEF IngestsAlone
  <2> QED
    BY <1>7, <2>9, <2>10, <2>11, RequestStep
<1> QED
  BY <1>9, <1>10

\* A repeated put, or one that is given up, may have been applied.
LEMMA PutUnansweredInv ==
    ASSUME RetentionInv, NEW t \in Tasks, PutUnanswered(t), UNCHANGED <<sweep, swept>>
    PROVE  RetentionInv'
<1>1. PICK k : k = tasks[t]
  OBVIOUS
<1>2. PICK f, c : f = PutOf(k).file /\ c = PutOf(k).content
  OBVIOUS
<1>3. TaskSound(k) /\ k.step \in Puts
  BY <1>1 DEF RetentionInv, TasksAreSound, PutUnanswered
<1>4. PICK n : /\ tasks' = [tasks EXCEPT ![t] = n]
               /\ n = None \/ TaskSound(n)
               /\ n # None /\ n.step \in Ingesting =>
                     tasks[t].step \in Ingesting /\ n.replay = tasks[t].replay
  BY TriedAgain DEF PutUnanswered
<1>5. CASE UNCHANGED <<store, age>>
  <2>1. n # None /\ n.step \in Ingesting /\ n.replay \in Uploads =>
            \A u \in Tasks \ {t} :
                ~Idle(u) /\ tasks[u].step \in Ingesting => tasks[u].replay # n.replay
    BY <1>4 DEF RetentionInv, OneIngestion, PutUnanswered
  <2> QED
    BY <1>4, <1>5, <2>1, QuietStep DEF PutUnanswered
<1>6. CASE Write(k.replay, f, c)
  <2>1. StoreIsSound' /\ NothingIsLost
    BY <1>2, <1>3, <1>6, PutIsApplied DEF PutUnanswered, RetentionInv, StorageTypeOK
  <2>2. n = None \/ TaskSound(n)'
    BY <1>4, <2>1, TaskStays DEF PutUnanswered, TaskSound
  <2>3. IngestsAlone(t, n)
    BY <1>4 DEF IngestsAlone, RetentionInv, TasksAreSound, TaskSound, OneIngestion, PutUnanswered
  <2> QED
    BY <1>4, <2>1, <2>2, <2>3, RequestStep DEF PutUnanswered
<1> QED
  BY <1>1, <1>2, <1>5, <1>6 DEF PutUnanswered

LEMMA StepFailsInv ==
    ASSUME RetentionInv, NEW t \in Tasks, StepFails(t), UNCHANGED <<sweep, swept>>
    PROVE  RetentionInv'
<1>1. CASE tasks[t].step = "visualization" /\ PutRaises(t) /\ UNCHANGED <<store, age>>
  <2>1. PICK n : /\ tasks' = [tasks EXCEPT ![t] = n]
                 /\ n = None \/ TaskSound(n)
                 /\ n # None /\ n.step \in Ingesting =>
                       tasks[t].step \in Ingesting /\ n.replay = tasks[t].replay
    BY <1>1, TriedAgain DEF StepFails, Puts
  <2>2. n # None /\ n.step \in Ingesting /\ n.replay \in Uploads =>
            \A u \in Tasks \ {t} :
                ~Idle(u) /\ tasks[u].step \in Ingesting => tasks[u].replay # n.replay
    BY <2>1 DEF RetentionInv, OneIngestion, StepFails
  <2> QED
    BY <1>1, <2>1, <2>2, QuietStep DEF StepFails
<1>2. CASE End(t) /\ UNCHANGED <<store, age>>
  BY <1>2, QuietStep DEF StepFails, End
<1>3. CASE tasks[t].step = "coach" /\ CoachFails(t)
  BY <1>3, CoachFailsInv DEF StepFails
<1> QED
  BY <1>1, <1>2, <1>3 DEF StepFails

-----------------------------------------------------------------------------
(* The sweep.                                                              *)

\* What a sweep does before it deletes disturbs nothing but itself.
LEMMA SweepOnly ==
    ASSUME RetentionInv, UNCHANGED <<storeVars, swept>>, SweepIsSound'
    PROVE  RetentionInv'
<1>1. StorageTypeOK'
  BY DEF RetentionInv, StorageTypeOK, storeVars, SweepIsSound
<1>2. TasksAreSound' /\ OneIngestion'
  BY DEF RetentionInv, TasksAreSound, TaskSound, SoundCopy, Complete, Has, Stored,
         OneIngestion, Idle, storeVars
<1>3. CoachingComesFirst' /\ UploadsAreKnown' /\ ReleasedAfterCoaching' /\ ReadyIsBacked'
  BY DEF RetentionInv, CoachingComesFirst, UploadsAreKnown, ReleasedAfterCoaching,
         ReadyIsBacked, FilesOf, Has, Stored, storeVars
<1>4. PinnedSampleIsKept'
  BY DEF RetentionInv, PinnedSampleIsKept
<1> QED
  BY <1>1, <1>2, <1>3, <1>4 DEF RetentionInv

LEMMA SweepListsInv ==
    ASSUME RetentionInv, SweepLists
    PROVE  RetentionInv'
<1>1. PICK jobs \in Listings(Jobs), replays \in Listings(Replays) :
        LET listed == [g \in Groups |-> IF g \in Jobs THEN jobs[g] ELSE replays[g]]
            days   == [g \in Groups |-> IF listed[g] = {} THEN 0 ELSE ListedAge(g, listed[g])]
            due    == {g \in Groups : listed[g] # {} /\ Expired(g, days[g])}
        IN  sweep' = [todo |-> due, paths |-> {}, errors |-> FALSE, due |-> due \cap Uploads,
                      listed |-> [g \in due |-> listed[g]], days |-> [g \in due |-> days[g]]]
  BY DEF SweepLists
<1> DEFINE listed == [g \in Groups |-> IF g \in Jobs THEN jobs[g] ELSE replays[g]]
           days   == [g \in Groups |-> IF listed[g] = {} THEN 0 ELSE ListedAge(g, listed[g])]
           due    == {g \in Groups : listed[g] # {} /\ Expired(g, days[g])}
<1>2. /\ sweep'.todo = due /\ sweep'.paths = {} /\ sweep'.errors = FALSE
      /\ sweep'.due = due \cap Uploads /\ sweep'.listed = [g \in due |-> listed[g]]
  BY <1>1
<1>3. due \in SUBSET Groups /\ \A g \in due : listed[g] # {}
  OBVIOUS
<1>4. /\ \A g \in Jobs : g \in Groups /\ listed[g] = jobs[g]
      /\ \A r \in Replays : r \in Groups /\ listed[r] = replays[r]
  BY StoreAssumption DEF Groups
<1> HIDE DEF days, due, listed
<1>5. \A g \in Groups : /\ listed[g] \subseteq FilesOf(g)
                        /\ listed[g] # {} /\ "coaching" \in FilesOf(g) => "coaching" \in listed[g]
  <2>1. Jobs \in SUBSET Groups /\ Replays \in SUBSET Groups
    BY DEF Groups
  <2>2. \A g \in Jobs : /\ jobs[g] \subseteq FilesOf(g)
                        /\ jobs[g] # {} /\ "coaching" \in FilesOf(g) => "coaching" \in jobs[g]
    BY <2>1, ListingIsSound
  <2>3. \A g \in Replays :
          /\ replays[g] \subseteq FilesOf(g)
          /\ replays[g] # {} /\ "coaching" \in FilesOf(g) => "coaching" \in replays[g]
    BY <2>1, ListingIsSound
  <2> QED
    BY <1>4, <2>2, <2>3 DEF Groups
<1>6. \A g \in due : listed[g] \in (SUBSET Files) \ {{}}
  BY <1>3, <1>5 DEF FilesOf
<1>7. \A r \in due \cap Replays : listed[r] \subseteq ReplayFiles /\ Has(r, "coaching")
  BY <1>3, <1>5 DEF RetentionInv, CoachingComesFirst
<1>8. Sample \in due => "coaching" \in listed[Sample] /\ Stored(Sample, "coaching")
  <2> SUFFICES ASSUME Sample \in due
               PROVE  "coaching" \in listed[Sample] /\ Stored(Sample, "coaching")
    OBVIOUS
  <2>1. Stored(Sample, "coaching")
    BY <1>7 DEF Has, Replays, RetentionInv, PinnedSampleIsKept
  <2>2. "coaching" \in FilesOf(Sample)
    BY <2>1 DEF FilesOf, Files
  <2> QED
    BY <1>3, <1>5, <2>1, <2>2
<1>9. \A g \in due : sweep'.listed[g] = listed[g]
  BY <1>2
<1>10. UNCHANGED <<storeVars, swept>>
  BY DEF SweepLists
<1>11. Stored(Sample, "coaching")' = Stored(Sample, "coaching")
  BY <1>10 DEF Stored, storeVars
<1>12. SweepIsSound'
  BY <1>2, <1>3, <1>6, <1>7, <1>8, <1>9, <1>11 DEF SweepIsSound
<1> QED
  BY <1>10, <1>12, SweepOnly

\* The sample is kept: its coaching artifact is listed, and still there.
LEMMA SampleIsKept ==
    ASSUME RetentionInv, sweep # None, Sample \in sweep.todo
    PROVE  Kept(Sample)
BY DEF RetentionInv, SweepIsSound, Kept

\* A replay fits, as long as nothing else was taken: it has three files.
LEMMA ReplayFits ==
    ASSUME RetentionInv, sweep # None, MaxDeleted >= 3, sweep.paths = {},
           NEW r \in sweep.todo \cap Replays
    PROVE  ~BeyondLimit(Cardinality(sweep.paths) + Cardinality({r} \X sweep.listed[r]))
<1>1. sweep.listed[r] \subseteq ReplayFiles
  BY DEF RetentionInv, SweepIsSound
<1>2. IsFiniteSet(sweep.listed[r]) /\ Cardinality(sweep.listed[r]) <= 3
      /\ Cardinality(sweep.listed[r]) \in Nat
  BY <1>1, FilesAreFinite, FS_Subset, FS_CardinalityType
<1>3. IsFiniteSet({r}) /\ Cardinality({r}) = 1
  BY FS_Singleton
<1>4. Cardinality({r} \X sweep.listed[r]) = 1 * Cardinality(sweep.listed[r])
  BY <1>2, <1>3, FS_Product
<1>5. Cardinality(sweep.paths) = 0
  BY FS_EmptySet
<1> QED
  BY <1>2, <1>4, <1>5, RetentionAssumption DEF BeyondLimit

\* Inspecting a group adds what was listed of it, or nothing.
LEMMA InspectionInv ==
    ASSUME RetentionInv, sweep # None, NEW todo \in SUBSET sweep.todo, NEW paths, NEW errors \in BOOLEAN,
           NEW g \in sweep.todo, paths \in {sweep.paths, sweep.paths \cup ({g} \X sweep.listed[g])},
           g = Sample => paths = sweep.paths,
           sweep' = [Remaining(todo, paths) EXCEPT !.errors = errors],
           UNCHANGED <<storeVars, swept>>
    PROVE  RetentionInv'
<1>1. /\ sweep'.todo = todo /\ sweep'.paths = paths /\ sweep'.errors = errors
      /\ sweep'.due = sweep.due /\ sweep'.listed = [h \in todo |-> sweep.listed[h]]
  BY DEF Remaining
<1>2. /\ sweep.todo \in SUBSET Groups /\ sweep.due \in SUBSET Uploads
      /\ sweep.paths \in SUBSET (Groups \X Files)
      /\ \A h \in sweep.todo : sweep.listed[h] \in (SUBSET Files) \ {{}}
      /\ \A r \in sweep.todo \cap Replays : sweep.listed[r] \subseteq ReplayFiles
      /\ Sample \in sweep.todo => "coaching" \in sweep.listed[Sample] /\ Stored(Sample, "coaching")
      /\ \A f \in Files : <<Sample, f>> \notin sweep.paths
  BY DEF RetentionInv, SweepIsSound
<1>3. \A h \in todo : sweep'.listed[h] = sweep.listed[h]
  BY <1>1
<1>4. paths \in SUBSET (Groups \X Files) /\ \A f \in Files : <<Sample, f>> \notin paths
  <2>1. CASE paths = sweep.paths
    BY <2>1, <1>2
  <2>2. CASE g # Sample /\ paths = sweep.paths \cup ({g} \X sweep.listed[g])
    <3>1. {g} \X sweep.listed[g] \subseteq Groups \X Files
      BY <1>2
    <3>2. \A f \in Files : <<Sample, f>> \notin {g} \X sweep.listed[g]
      BY <2>2
    <3> QED
      BY <2>2, <3>1, <3>2, <1>2
  <2> QED
    BY <2>1, <2>2
<1>5. Stored(Sample, "coaching")' = Stored(Sample, "coaching")
  BY DEF Stored, storeVars
<1>6. SweepIsSound'
  BY <1>1, <1>2, <1>3, <1>4, <1>5 DEF SweepIsSound
<1> QED
  BY <1>6, SweepOnly

LEMMA SweepInspectsInv ==
    ASSUME RetentionInv, NEW g \in Groups, SweepInspects(g)
    PROVE  RetentionInv'
<1>1. sweep # None /\ g \in sweep.todo /\ UNCHANGED <<storeVars, swept>>
  BY DEF SweepInspects, Idling, Following
<1> DEFINE found == {g} \X sweep.listed[g]
           full  == BeyondLimit(Cardinality(sweep.paths) + Cardinality(found))
           todo  == IF ~Kept(g) /\ full
                    THEN IF g \in Jobs THEN sweep.todo \ Jobs ELSE sweep.todo \ Replays
                    ELSE sweep.todo \ {g}
           paths == IF Kept(g) \/ full THEN sweep.paths ELSE sweep.paths \cup found
<1>2. sweep' = Remaining(todo, paths)
  BY DEF SweepInspects
<1>3. todo \in SUBSET sweep.todo /\ paths \in {sweep.paths, sweep.paths \cup ({g} \X sweep.listed[g])}
  OBVIOUS
<1>4. g = Sample => paths = sweep.paths
  BY <1>1, SampleIsKept
<1> HIDE DEF todo, paths
<1>5. sweep.errors \in BOOLEAN
  BY <1>1 DEF RetentionInv, SweepIsSound
<1>6. sweep' = [Remaining(todo, paths) EXCEPT !.errors = sweep.errors]
  BY <1>2 DEF Remaining
<1> QED
  BY <1>1, <1>3, <1>4, <1>5, <1>6, InspectionInv

LEMMA InspectionFailsInv ==
    ASSUME RetentionInv, NEW g \in Groups, InspectionFails(g)
    PROVE  RetentionInv'
<1>1. sweep # None /\ g \in sweep.todo /\ UNCHANGED <<storeVars, swept>>
      /\ sweep' = [Remaining(sweep.todo \ {g}, sweep.paths) EXCEPT !.errors = TRUE]
  BY DEF InspectionFails, Idling, Following
<1> QED
  BY <1>1, InspectionInv

\* What is deleted is of groups that count as swept from now on.
LEMMA SweepDeletesInv ==
    ASSUME RetentionInv, SweepDeletes
    PROVE  RetentionInv'
<1>1. /\ sweep # None /\ sweep' = None /\ UNCHANGED <<requests, tasks, known, source, coached>>
      /\ swept' = swept \cup {path[1] : path \in sweep.paths}
      /\ store' = [g \in Groups |-> [f \in Files |->
                      IF <<g, f>> \in sweep.paths THEN None ELSE store[g][f]]]
      /\ age' = [g \in Groups |-> [f \in Files |->
                      IF <<g, f>> \in sweep.paths THEN 0 ELSE age[g][f]]]
  BY DEF SweepDeletes, Idling
<1>2. sweep.paths \in SUBSET (Groups \X Files) /\ \A f \in Files : <<Sample, f>> \notin sweep.paths
  BY <1>1 DEF RetentionInv, SweepIsSound
<1>3. \A path \in sweep.paths : path[1] \in Groups /\ path[2] \in Files /\ path = <<path[1], path[2]>>
  BY <1>2
<1>4. swept' \in SUBSET Groups
  BY <1>1, <1>3 DEF RetentionInv, StorageTypeOK
<1>5. Sample \notin swept'
  BY <1>1, <1>2, <1>3 DEF RetentionInv, PinnedSampleIsKept
<1>6. \A g \in Groups, f \in Files : store'[g][f] \in {None, store[g][f]}
  BY <1>1
<1>7. \A g \in Groups, f \in Files : g \notin swept' => g \notin swept /\ store'[g][f] = store[g][f]
  <2>1. \A g \in Groups, f \in Files : <<g, f>> \in sweep.paths => g \in swept'
    BY <1>1
  <2> QED
    BY <1>1, <2>1
<1>8. /\ store' \in [Groups -> [Files -> Content \cup {None}]]
      /\ age' \in [Groups -> [Files -> Nat]]
  BY <1>1 DEF RetentionInv, StorageTypeOK
<1>9. StorageTypeOK'
  BY <1>1, <1>4, <1>8 DEF RetentionInv, StorageTypeOK
<1>10. ASSUME NEW r \in Replays, NEW f \in Files
       PROVE  (Has(r, f) => Has(r, f)') /\ (Stored(r, f)' => Stored(r, f))
  BY <1>6, <1>7 DEF Has, Stored, Groups
<1>11. NothingIsLost
  <2>1. coached \subseteq coached' /\ source' = source
    BY <1>1
  <2> QED
    BY <1>10, <2>1 DEF NothingIsLost
<1>12. TasksAreSound' /\ OneIngestion'
  BY <1>1, <1>11, TasksUntouched
<1>13. CoachingComesFirst'
  <2>1. ASSUME NEW r \in Replays, NEW f \in FilesOf(r)'
        PROVE  f \in ReplayFiles /\ Has(r, "coaching")'
    <3>1. f \in Files /\ f \in FilesOf(r)
      BY <1>10, <2>1 DEF FilesOf
    <3> QED
      BY <3>1, <1>10 DEF RetentionInv, CoachingComesFirst, Files
  <2> QED
    BY <2>1 DEF CoachingComesFirst
<1>14. UploadsAreKnown'
  BY <1>1 DEF RetentionInv, UploadsAreKnown
<1>15. ReleasedAfterCoaching'
  BY <1>1, <1>6 DEF RetentionInv, ReleasedAfterCoaching, Stored, Groups, Files
<1>16. ReadyIsBacked'
  BY <1>7 DEF RetentionInv, ReadyIsBacked, Stored, Groups, Files
<1>17. SweepIsSound' /\ PinnedSampleIsKept'
  BY <1>1, <1>5 DEF SweepIsSound, PinnedSampleIsKept
<1> QED
  BY <1>9, <1>12, <1>13, <1>14, <1>15, <1>16, <1>17 DEF RetentionInv

LEMMA SweepEndsIdleInv ==
    ASSUME RetentionInv, SweepEndsIdle
    PROVE  RetentionInv'
<1>1. SweepIsSound' /\ UNCHANGED <<storeVars, swept>>
  BY DEF SweepEndsIdle, SweepIsSound
<1> QED
  BY <1>1, SweepOnly

LEMMA DayInv ==
    ASSUME RetentionInv, Day
    PROVE  RetentionInv'
<1>1. age' \in [Groups -> [Files -> Nat]]
  BY DEF Day, RetentionInv, StorageTypeOK
<1>2. UNCHANGED <<store, requests, tasks, known, source, coached, sweep, swept>>
  BY DEF Day
<1>3. StorageTypeOK'
  BY <1>1, <1>2 DEF RetentionInv, StorageTypeOK
<1>4. TasksAreSound' /\ OneIngestion'
  BY <1>2 DEF RetentionInv, TasksAreSound, TaskSound, SoundCopy, Complete, Has, Stored,
         OneIngestion, Idle
<1>5. CoachingComesFirst' /\ UploadsAreKnown' /\ ReleasedAfterCoaching' /\ ReadyIsBacked'
  BY <1>2 DEF RetentionInv, CoachingComesFirst, UploadsAreKnown, ReleasedAfterCoaching,
         ReadyIsBacked, FilesOf, Has, Stored
<1>6. SweepIsSound' /\ PinnedSampleIsKept'
  BY <1>2 DEF RetentionInv, SweepIsSound, PinnedSampleIsKept, Stored
<1> QED
  BY <1>3, <1>4, <1>5, <1>6 DEF RetentionInv

LEMMA InitRetentionInv == Init => RetentionInv
<1> SUFFICES ASSUME Init PROVE RetentionInv
  OBVIOUS
<1> USE DEF Init, StoreInit
<1>1. StorageTypeOK
  BY DEF StorageTypeOK
<1>2. TasksAreSound /\ OneIngestion
  BY DEF TasksAreSound, OneIngestion, Idle
<1>3. \A g \in Groups, f \in Files : ~Stored(g, f)
  BY DEF Stored
<1>4. CoachingComesFirst /\ ReleasedAfterCoaching /\ ReadyIsBacked
  BY <1>3 DEF CoachingComesFirst, FilesOf, ReleasedAfterCoaching, ReadyIsBacked, Groups, Files
<1>5. UploadsAreKnown
  BY StoreAssumption DEF UploadsAreKnown, Groups, Replays
<1>6. SweepIsSound /\ PinnedSampleIsKept
  BY DEF SweepIsSound, PinnedSampleIsKept
<1> QED
  BY <1>1, <1>2, <1>4, <1>5, <1>6 DEF RetentionInv

LEMMA RetentionInvStep == RetentionInv /\ [Next]_vars => RetentionInv'
<1> SUFFICES ASSUME RetentionInv, [Next]_vars PROVE RetentionInv'
  OBVIOUS
<1>1. CASE ClientStep /\ UNCHANGED <<sweep, swept>>
  BY <1>1, UploadInv, PrepareSampleInv, StartRunInv, PrepareUploadInv DEF ClientStep
<1>2. CASE (\E t \in Tasks : WriterStep(t)) /\ UNCHANGED <<sweep, swept>>
  BY <1>2, LoadCachedManifestInv, LoadCachedCoachingInv, DownloadInv, PrepareInv, PutAnsweredInv,
     PutUnansweredInv, StepFailsInv, CoachSucceedsInv, ReadManifestInv DEF WriterStep
<1>3. CASE SweepLists
  BY <1>3, SweepListsInv
<1>4. CASE \E g \in Groups : SweepInspects(g) \/ InspectionFails(g)
  BY <1>4, SweepInspectsInv, InspectionFailsInv
<1>5. CASE SweepDeletes \/ SweepEndsIdle
  BY <1>5, SweepDeletesInv, SweepEndsIdleInv
<1>6. CASE Day
  BY <1>6, DayInv
<1>7. CASE UNCHANGED vars
  <2>1. UNCHANGED <<storeVars, swept>> /\ SweepIsSound'
    BY <1>7 DEF vars, RetentionInv, SweepIsSound, storeVars, Stored
  <2> QED
    BY <2>1, SweepOnly
<1> QED
  BY <1>1, <1>2, <1>3, <1>4, <1>5, <1>6, <1>7 DEF Next, Request

-----------------------------------------------------------------------------
(* The limit.                                                              *)

\* A sweep that has found nothing to take has passed over no upload.
SkipsNoUpload ==
    sweep # None => sweep.errors \/ sweep.paths # {} \/ sweep.due \subseteq sweep.todo

LEMMA SkipsNoUploadStep ==
    ASSUME MaxDeleted >= 3, RetentionInv, SkipsNoUpload, [Next]_vars
    PROVE  SkipsNoUpload'
<1>1. CASE UNCHANGED sweep
  BY <1>1 DEF SkipsNoUpload
<1>2. CASE sweep' = None
  BY <1>2 DEF SkipsNoUpload
<1>3. CASE SweepLists
  <2>1. PICK jobs, replays :
          LET listed == [g \in Groups |-> IF g \in Jobs THEN jobs[g] ELSE replays[g]]
              days   == [g \in Groups |-> IF listed[g] = {} THEN 0 ELSE ListedAge(g, listed[g])]
              due    == {g \in Groups : listed[g] # {} /\ Expired(g, days[g])}
          IN  sweep' = [todo |-> due, paths |-> {}, errors |-> FALSE, due |-> due \cap Uploads,
                        listed |-> [g \in due |-> listed[g]], days |-> [g \in due |-> days[g]]]
    BY <1>3 DEF SweepLists
  <2>2. sweep'.due \subseteq sweep'.todo
    BY <2>1
  <2> QED
    BY <2>2 DEF SkipsNoUpload
<1>4. ASSUME NEW g \in Groups, SweepInspects(g) PROVE SkipsNoUpload'
  <2>1. /\ sweep # None /\ g \in sweep.todo
        /\ sweep.due \in SUBSET Uploads /\ sweep.listed[g] # {}
    BY <1>4 DEF SweepInspects, Idling, Following, RetentionInv, SweepIsSound
  <2> DEFINE found == {g} \X sweep.listed[g]
             full  == BeyondLimit(Cardinality(sweep.paths) + Cardinality(found))
  <2>2. /\ sweep'.errors = sweep.errors /\ sweep'.due = sweep.due
        /\ sweep'.paths = IF Kept(g) \/ full THEN sweep.paths ELSE sweep.paths \cup found
        /\ sweep'.todo = IF ~Kept(g) /\ full
                         THEN IF g \in Jobs THEN sweep.todo \ Jobs ELSE sweep.todo \ Replays
                         ELSE sweep.todo \ {g}
    BY <1>4 DEF SweepInspects, Remaining
  <2>3. CASE sweep.errors \/ sweep.paths # {}
    BY <2>2, <2>3 DEF SkipsNoUpload
  <2>4. CASE sweep.paths = {} /\ sweep.due \subseteq sweep.todo
    <3>1. CASE g \in Jobs
      <4>1. sweep.due \cap Jobs = {} /\ g \notin sweep.due
        BY <3>1, <2>1, StoreAssumption DEF Replays
      <4> QED
        BY <3>1, <4>1, <2>2, <2>4 DEF SkipsNoUpload
    <3>2. CASE g = Sample
      <4>1. Kept(g) /\ g \notin sweep.due
        BY <3>2, <2>1, SampleIsKept, StoreAssumption
      <4> QED
        BY <4>1, <2>2, <2>4 DEF SkipsNoUpload
    <3>3. CASE g \in Uploads
      <4>1. ~full
        BY <3>3, <2>1, <2>4, ReplayFits DEF Replays
      <4>2. ~Kept(g)
        BY <3>3, StoreAssumption DEF Kept, Replays
      <4>3. found # {}
        <5>1. PICK e : e \in sweep.listed[g]
          BY <2>1
        <5>2. <<g, e>> \in found
          BY <5>1
        <5> QED
          BY <5>2
      <4> QED
        BY <4>1, <4>2, <4>3, <2>2 DEF SkipsNoUpload
    <3> QED
      BY <3>1, <3>2, <3>3 DEF Groups, Replays
  <2> QED
    BY <2>1, <2>3, <2>4 DEF SkipsNoUpload
<1>5. ASSUME NEW g \in Groups, InspectionFails(g) PROVE SkipsNoUpload'
  <2>1. sweep'.errors = TRUE
    BY <1>5 DEF InspectionFails, Remaining
  <2> QED
    BY <2>1 DEF SkipsNoUpload
<1> QED
  BY <1>1, <1>2, <1>3, <1>4, <1>5
  DEF Next, Request, SweepDeletes, SweepEndsIdle, Day, vars

-----------------------------------------------------------------------------
(* An unlocked upload.                                                     *)

UnlockedUploadsStay ==
    \A r \in Uploads :
        Stored(r, "manifest") /\ store[r]["manifest"].unlocked
        => (store'[r]["manifest"] # None => store'[r]["manifest"].unlocked)

\* Whoever may still put a locked manifest ingests an upload that nobody knows;
\* an unlocked one was coached, and so is known.
LEMMA PutKeepsUnlocked ==
    ASSUME RetentionInv, NEW t \in Tasks, ~Idle(t), tasks[t].step \in Puts,
           Write(tasks[t].replay, PutOf(tasks[t]).file, PutOf(tasks[t]).content)
    PROVE  UnlockedUploadsStay
<1>1. PICK k : k = tasks[t]
  OBVIOUS
<1>2. PICK f, c : f = PutOf(k).file /\ c = PutOf(k).content
  OBVIOUS
<1>3. TaskSound(k) /\ k.replay \in Groups
  BY <1>1 DEF RetentionInv, TasksAreSound, TaskSound, Task, Groups
<1>4. /\ f \in Files /\ c \in Content
      /\ f = "manifest" /\ ~c.unlocked => k.replay \notin known
  BY <1>1, <1>2, <1>3, PutIsSound DEF ReplayFiles, Files, TaskSound
<1>5. Write(k.replay, f, c)
  BY <1>1, <1>2
<1>6. /\ store'[k.replay][f] = c
      /\ \A h \in Groups, e \in Files : h # k.replay \/ e # f => store'[h][e] = store[h][e]
  BY <1>3, <1>4, <1>5, WriteEffect DEF RetentionInv
<1> SUFFICES ASSUME NEW r \in Uploads, Stored(r, "manifest"), store[r]["manifest"].unlocked
             PROVE  store'[r]["manifest"].unlocked
  BY DEF UnlockedUploadsStay
<1>7. r \in known /\ r \in Groups /\ "manifest" \in Files
  BY DEF RetentionInv, ReleasedAfterCoaching, UploadsAreKnown, Replays, Groups, Files
<1>8. CASE r = k.replay /\ f = "manifest"
  BY <1>4, <1>6, <1>7, <1>8
<1>9. CASE ~(r = k.replay /\ f = "manifest")
  BY <1>6, <1>7, <1>9
<1> QED
  BY <1>8, <1>9

\* Every other step leaves the manifests of uploads alone, or deletes them.
LEMMA ManifestsStay ==
    ASSUME \A r \in Uploads : store'[r]["manifest"] \in {None, store[r]["manifest"]}
    PROVE  UnlockedUploadsStay
BY DEF UnlockedUploadsStay

LEMMA JobWriteStays ==
    ASSUME RetentionInv, NEW j \in Jobs, NEW f \in Files, NEW c \in Content, Write(j, f, c)
    PROVE  UnlockedUploadsStay
<1>1. \A r \in Uploads : store'[r]["manifest"] = store[r]["manifest"]
  BY JobWrite DEF Replays, Files
<1> QED
  BY <1>1, ManifestsStay

LEMMA UnlockedUploadsStep == RetentionInv /\ [Next]_vars => UnlockedUploadsStay
<1> SUFFICES ASSUME RetentionInv, [Next]_vars PROVE UnlockedUploadsStay
  OBVIOUS
<1> USE LockedContent
<1>1. CASE UNCHANGED store
  BY <1>1, ManifestsStay
<1>2. ASSUME NEW t \in Tasks, PutAnswered(t) \/ PutUnanswered(t), store' # store
      PROVE  UnlockedUploadsStay
  BY <1>2, PutKeepsUnlocked DEF PutAnswered, PutUnanswered
<1>3. ASSUME NEW j \in Jobs, NEW r, NewJob(j, r) PROVE UnlockedUploadsStay
  BY <1>3, JobWriteStays DEF NewJob, Files
<1>4. ASSUME NEW t \in Tasks, NEW j \in Jobs, StartRun(t, j) PROVE UnlockedUploadsStay
  BY <1>4, JobWriteStays DEF StartRun, Files
<1>5. ASSUME NEW t \in Tasks, ~Idle(t), tasks[t].step = "coach",
             CoachFails(t) \/ CoachSucceeds(t)
      PROVE  UnlockedUploadsStay
  <2>1. tasks[t].job \in Jobs
    BY <1>5 DEF RetentionInv, TasksAreSound, TaskSound, Running
  <2>2. CASE CoachFails(t)
    BY <2>1, <2>2, JobWriteStays DEF CoachFails, Files
  <2>3. CASE CoachSucceeds(t)
    <3>1. \A r \in Uploads : r # tasks[t].job
      BY <2>1, StoreAssumption DEF Replays
    <3>2. \A r \in Uploads : store'[r]["manifest"] = store[r]["manifest"]
      BY <2>3, <3>1 DEF CoachSucceeds, RetentionInv, StorageTypeOK, Groups, Replays, Files
    <3> QED
      BY <3>2, ManifestsStay
  <2> QED
    BY <1>5, <2>2, <2>3
<1>6. ASSUME SweepDeletes PROVE UnlockedUploadsStay
  <2>1. \A r \in Uploads : store'[r]["manifest"] \in {None, store[r]["manifest"]}
    BY <1>6 DEF SweepDeletes, Groups, Replays, Files
  <2> QED
    BY <2>1, ManifestsStay
<1>7. CASE ClientStep
  BY <1>1, <1>3, <1>4, <1>7 DEF ClientStep, Upload, PrepareSample, PrepareUpload
<1>8. ASSUME NEW t \in Tasks, WriterStep(t) PROVE UnlockedUploadsStay
  <2>1. CASE Prepare(t)
    BY <2>1, <1>1, <1>3 DEF Prepare
  <2>2. CASE PutAnswered(t) \/ PutUnanswered(t)
    BY <2>2, <1>1, <1>2
  <2>3. CASE StepFails(t)
    BY <2>3, <1>1, <1>5 DEF StepFails
  <2>4. CASE CoachSucceeds(t)
    BY <2>4, <1>5 DEF CoachSucceeds
  <2>5. CASE LoadCachedManifest(t) \/ LoadCachedCoaching(t) \/ Download(t) \/ ReadManifest(t)
    BY <2>5, <1>1 DEF LoadCachedManifest, LoadCachedCoaching, Download, ReadManifest
  <2> QED
    BY <1>8, <2>1, <2>2, <2>3, <2>4, <2>5 DEF WriterStep
<1> QED
  BY <1>1, <1>6, <1>7, <1>8 DEF Next, Request, SweepLists, SweepInspects, InspectionFails,
     SweepEndsIdle, Day, vars, storeVars

-----------------------------------------------------------------------------
(* The theorems.                                                           *)

\* The inductive invariant holds in every reachable state.
THEOREM RetentionInvariant == Spec => []RetentionInv
BY InitRetentionInv, RetentionInvStep, PTL DEF Spec

\* The artifacts, the requests in progress and the sweep always hold values the
\* code puts there.
THEOREM StorageTypes == Spec => []StorageTypeOK
<1>1. RetentionInv => StorageTypeOK
  BY DEF RetentionInv
<1> QED
  BY <1>1, RetentionInvariant, PTL

\* The full replay is released only after a successful run about it, whichever
\* puts are repeated or lost (unlock_visualization, start_replay).
THEOREM ReplaysAreReleasedAfterCoaching == Spec => []ReleasedAfterCoaching
<1>1. RetentionInv => ReleasedAfterCoaching
  BY DEF RetentionInv
<1> QED
  BY <1>1, RetentionInvariant, PTL

\* Once released, an upload is not locked again by a late or repeated put of its
\* ingestion.
THEOREM UploadsStayUnlocked == Spec => UploadStaysUnlocked
<1>1. RetentionInv /\ [Next]_vars => [UnlockedUploadsStay]_vars
  BY UnlockedUploadsStep
<1>2. UploadStaysUnlocked <=> [][UnlockedUploadsStay]_vars
  BY DEF UploadStaysUnlocked, UnlockedUploadsStay
<1> QED
  BY <1>1, <1>2, RetentionInvariant, PTL DEF Spec

\* A manifest that says "ready", and a sample answered from its cache, have all
\* their artifacts (finish_visualization, _load_cached).
THEOREM ReadyReplaysAreWhole == Spec => []ReadyIsWhole
<1>1. RetentionInv => ReadyIsWhole
  <2> SUFFICES ASSUME RetentionInv PROVE CachedSampleIsWhole
    BY DEF RetentionInv, ReadyIsWhole
  <2> SUFFICES ASSUME NEW t \in Tasks, ~Idle(t), tasks[t].step = "prepare",
                      tasks[t].manifest # None
               PROVE  Stored(Sample, "visualization") /\ Stored(Sample, "coaching")
    BY DEF CachedSampleIsWhole
  <2>1. Complete(Sample)
    BY DEF RetentionInv, TasksAreSound, TaskSound
  <2> QED
    BY <2>1 DEF Complete, Has, RetentionInv, PinnedSampleIsKept
<1> QED
  BY <1>1, RetentionInvariant, PTL

\* The sweep never takes the pinned sample, and with a limit no smaller than a
\* replay's three files it passes over no expired upload for good
\* (blob-retention/route.ts).  A deployment may configure a smaller limit; the
\* sweep then deletes no replay.
THEOREM SweepsAreFair ==
    ASSUME MaxDeleted >= 3
    PROVE  Spec => []SweepIsFair
<1>1. Init => SkipsNoUpload
  BY DEF Init, SkipsNoUpload
<1>2. RetentionInv /\ SkipsNoUpload /\ [Next]_vars => SkipsNoUpload'
  BY SkipsNoUploadStep
<1>3. RetentionInv /\ SkipsNoUpload => SweepIsFair
  BY DEF RetentionInv, SkipsNoUpload, SweepIsFair, SweepMakesRoom, Idling
<1> QED
  BY <1>1, <1>2, <1>3, RetentionInvariant, PTL DEF Spec
==============================================================================
